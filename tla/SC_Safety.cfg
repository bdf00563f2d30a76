CONSTANTS
    f1 = f1
    f2 = f2
    f3 = f3
    f4 = f4
    f5 = f5
    u1 = u1
    u2 = u2
    Nil = Nil
    Files <- MCCorpusFiles
    Chars <- MCChars
    Uuids <- MCUuids
    Mail <- MCCorpusMail
    Corpus <- MCCorpus
    MaxSample = 4
    MaxOpenFile = 2
    Faults <- AllCorpusFaults
SPECIFICATION CSpec
INVARIANT CorpusTypeOK
INVARIANT SlotAccounting
INVARIANT WorkConserving
INVARIANT CorpusPartition
CHECK_DEADLOCK FALSE
PROPERTY ImplementsPool
