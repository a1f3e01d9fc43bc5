\* Other tasks use the interface as well.
CONSTANTS
    QUEUE_LEN = 2
    MAX_PROV_DATA_LEN = 2
    MAX_URL_LEN = 1
    Psram = 17
    QUEUE_SIZE = 3
    MaxLeases = 5
    BootFailures = {"xQueueCreate", "xTaskCreate"}
    Callers = {"EVT_TEST", "update_config", "update_firmware"}
SPECIFICATION Spec
PROPERTIES
    
    OnlyCrowdedOut
