\* listMessages with printing on, over the registered type: every query
\* against spec.md's history semantics, before and after evictions.
CONSTANTS
    INBOX_SIZE = 3
    PageSize = 2
    Ints <- MCInts
    NotInt = NotInt
    MaxDeliveries = 5
    tReg = tReg
    tOther = tOther
    QueryTypes <- MCRegisteredOnly
    Registered = tReg
    PrintFlags <- MCPrinting
    NoRet = NoRet
SPECIFICATION Spec
INVARIANTS
    TypeOK
    ListMessagesMeetsSpec
