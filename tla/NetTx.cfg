CONSTANTS
    TxCount = 3
    Payloads = {"a", "b"}
SPECIFICATION TxSpec
INVARIANT SentAsGiven
