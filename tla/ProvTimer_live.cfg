\* One or two timers and nobody else; the worker keeps up.
CONSTANTS
    QUEUE_LEN = 2
    MAX_PROV_DATA_LEN = 2
    MAX_URL_LEN = 1
    Psram = 12
    PERIODIC_CONFIG_MINUTES = 2
    PERIODIC_FIRMWARE_MINUTES = 6
    MaxTimers = 2
    Callers = {}
    Prompt = TRUE
SPECIFICATION FairSpec
PROPERTIES
    FirmwareKeepsComing
