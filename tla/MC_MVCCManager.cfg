CONSTANTS
    MaxTx = 3
    Key = {k1}
    NoKey = NoKey
    MaxWrites = 2
SPECIFICATION Spec
INVARIANTS TypeOK TablesMatch TimestampsUnique
           WritersKnown OnlyNewestLive NoDirtyRead ReadsLatestWhenSerial
PROPERTIES OutcomeSpec Isolation CollectsUnread
\* Every transaction may have finished.
CHECK_DEADLOCK FALSE
