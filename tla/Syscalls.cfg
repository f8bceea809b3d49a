SPECIFICATION Spec
CHECK_DEADLOCK FALSE
CONSTANTS
    ByteBits = 3
    LogBytesLimit = 24
    MaxReturnData = 16
    MAX_PERMITTED_DATA_INCREASE = 8
    PoolSize = 2
    StackBytes = 64
    StackGap = 5
    MaxHeapBytes = 1152
    TraceCapacity = 5
    StackCapacity = 3
    Deprecated = {12}
    Environments <- MCEnvironments
INVARIANTS InvocationsAreSeparate InterfacesAgree
PROPERTIES CallsAreAtomic WorkIsPaid
