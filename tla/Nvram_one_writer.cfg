\* One task sets tokens and then declares the device provisioned, another reads
\* what the boot has found in the flash.
CONSTANTS
    Data = {1, 2}
    NumTypes = 1
    Api = {"nvram_set_token_params", "nvram_set_prov_done"}
    Tasks = {t1}
    Losses = {{"token"}}
    Missing = Missing
    Getters = {"nvram_get_net_params", "nvram_get_mqtt_params", "nvram_get_token_params"}
    Buffer = Buffer
SPECIFICATION ReadSpec
INVARIANTS
    TokenPairWhole
    TokensMatch
    EnabledHasHost
    StaticHasAddress
PROPERTIES
    BootAdoptsCompleteConfig
