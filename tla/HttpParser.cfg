CONSTANTS
    Cap = 64
    KvSz = 2
    Alphabet <- MCAlphabet
    Requests <- MCRequests
    Malformed <- MCMalformed
SPECIFICATION ParserSpec
INVARIANTS
    TypeOK
    StringsEndInBuffer
    VerdictIsOwn
    ReadAsSent
