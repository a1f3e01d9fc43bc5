\* One task enables MQTT with and without credentials, disables it, and
\* switches the beacon.
CONSTANTS
    Data = {1}
    NumTypes = 1
    Api = {"nvram_set_mqtt_params", "nvram_set_beacon_params"}
    Tasks = {t1}
    Losses = {{"mqtt"}}
    Missing = Missing
SPECIFICATION Spec
INVARIANTS
    SettledMeansSaved
PROPERTIES
    UntouchedCellsSurvive
