\* Two tasks, memory for three of their contexts, three devices of the fleet.
CONSTANTS
    Devices = {"d1", "d2", "d3"}
    Mac <- MCMac
    EthMac <- MCEthMac
    Hash <- MCHash
    Tasks = {t1, t2}
    Heap = 3
    BlockSize = 2
    DataLengths = {3, 4}
    Statuses = {200, 404, 500}
    Lengths <- MCLengths
    SizeMod = 16
SPECIFICATION Spec
SYMMETRY TaskSymmetry
INVARIANTS
    SerialFormsAgree
    SerialsDiffer
    SerialsSort
    HexStringsReadBack
    OkMeansDecrypted
    OkMeansFetched
    OnlyContextsLost
