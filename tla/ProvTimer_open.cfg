\* One timer; other tasks put commands into the queue as well.
CONSTANTS
    QUEUE_LEN = 2
    MAX_PROV_DATA_LEN = 2
    MAX_URL_LEN = 1
    Psram = 12
    PERIODIC_CONFIG_MINUTES = 2
    PERIODIC_FIRMWARE_MINUTES = 6
    MaxTimers = 1
    Callers = {"update_config", "update_firmware"}
    Prompt = FALSE
SPECIFICATION Spec
INVARIANTS
    TypeOK
    OnTime
    BothFit
