SPECIFICATION Spec
CONSTANTS
    MemBytes = 18
    AddressSpace = 32
    ByteSpace = 2
    MaxInsns = 4
    StartPcs = {0, 4}
    Behaviour <- MCBehaviour
    Targets = {0, 2, 4, 12}
    Programs <- MCPrograms
    DataFiles <- MCDataFiles
INVARIANTS
    LoadedAsWritten
    LoadsSeeStores
    HaltIsFinal
\* The process ends.
CHECK_DEADLOCK FALSE
