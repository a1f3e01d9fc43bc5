\* The repository's own callers only; every call of the boot can fail,
\* and the scheduler is fair.
CONSTANTS
    QUEUE_LEN = 2
    MAX_PROV_DATA_LEN = 2
    MAX_URL_LEN = 1
    Psram = 17
    QUEUE_SIZE = 3
    MaxLeases = 5
    BootFailures = {"nvs_flash_erase", "esp_event_loop_create", "register", "net_iface_init", "xQueueCreate", "xTaskCreate"}
    Callers = {}
SPECIFICATION FairSpec
INVARIANTS
    TypeOK
    RequestNotLost
    ProvisionedStaysQuiet
PROPERTIES
    ConfigEventuallyStarts
