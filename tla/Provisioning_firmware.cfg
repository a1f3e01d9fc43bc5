\* What the comment on EVT_PROVISIONING says is started.
CONSTANTS
    QUEUE_LEN = 2
    MAX_PROV_DATA_LEN = 2
    MAX_URL_LEN = 1
    Psram = 17
    QUEUE_SIZE = 3
    MaxLeases = 5
    BootFailures = {}
    Callers = {}
SPECIFICATION FairSpec
PROPERTIES
    ProvisioningStartsBoth
