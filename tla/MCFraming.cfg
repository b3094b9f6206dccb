SPECIFICATION FairSpec
CONSTANTS
    Modulus = 4
    Lengths = {0, 1, 2, 3}
    BufSize = 4
    MaxMessages = 3
INVARIANTS
    TypeOK
    RepliesAreBodies
    ShortReadsEndTheStream
    OnlyTheLargestOverruns
PROPERTIES
    ImplementsChannel
    RecvReturns
