CONSTANTS
    MaxTx = 2
    MaxId = 1
    Key <- MC_Key
    NoKey = NoKey
    MaxWrites = 4
SPECIFICATION VGSpec
VIEW View
INVARIANTS AnswersCommitted PageIsNewest ListsMatchReads
\* Every transaction may have finished, every identifier be given away.
CHECK_DEADLOCK FALSE
