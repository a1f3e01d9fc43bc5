\* Two tasks set the two fields of the misc record.
CONSTANTS
    Data = {1}
    NumTypes = 1
    Api = {"nvram_set_tgs5141_param", "nvram_set_prov_done"}
    Tasks = {t1, t2}
    Losses = {{"misc"}}
    Missing = Missing
SPECIFICATION Spec
SYMMETRY TaskSymmetry
INVARIANTS
    TypeOK
    SettledMeansSaved
PROPERTIES
    UntouchedCellsSurvive
    ImplementsParamStore
