CONSTANTS
    f1 = f1
    f2 = f2
    f3 = f3
    f4 = f4
    u1 = u1
    u2 = u2
    Nil = Nil
    Files <- MCFiles
    Chars <- MCChars
    Uuids <- MCUuids
    Mail <- MCMail
    Faults <- RecordFaults
SPECIFICATION Spec
INVARIANT OneKeyPerDelivery
CHECK_DEADLOCK FALSE
