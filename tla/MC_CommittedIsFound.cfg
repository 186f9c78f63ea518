CONSTANTS
    MaxTx = 3
    Key = {k1}
    NoKey = NoKey
    MaxWrites = 2
SPECIFICATION DocSpec
PROPERTY CommittedIsFound
CHECK_DEADLOCK FALSE
