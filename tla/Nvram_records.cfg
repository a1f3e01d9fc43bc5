\* One task sets the network record and the folds.
CONSTANTS
    Data = {1}
    NumTypes = 1
    Api = {"nvram_set_net_params", "nvram_set_fold_params", "nvram_set_fold_param"}
    Tasks = {t1}
    Losses = {{"net"}}
    Missing = Missing
SPECIFICATION Spec
INVARIANTS
    SettledMeansSaved
