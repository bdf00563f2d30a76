CONSTANTS
    f1 = f1
    f2 = f2
    f3 = f3
    f4 = f4
    f5 = f5
    u1 = u1
    u2 = u2
    Nil = Nil
    Files <- MCCorpusFiles
    Chars <- MCChars
    Uuids <- MCUuids
    Mail <- MCMailLive
    Corpus <- MCCorpus
    MaxSample = 4
    MaxOpenFile = 2
    Faults <- NoFaults
SPECIFICATION FairSpec
PROPERTY EveryFileSettles
CHECK_DEADLOCK FALSE
