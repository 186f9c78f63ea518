CONSTANTS
    MaxPage = 3
    Data = {a, b}
    Zero = Zero
    Torn = Torn
    MaxFaults = 1
    MaxReopened = 1
    Thread = {t1, t2}
    Tx = {x, y}
    NoTx = NoTx
    MaxLsn = 4
    MaxUnits = 3
    MaxOpens = 1
SPECIFICATION Spec
SYMMETRY Symmetry
INVARIANTS
    CountsMatch HeldInFile
    WALTypeOK CommitDurable LsnUnique CheckpointOnDisk RefusalLosesNothing
PROPERTIES PageMapSpec
CHECK_DEADLOCK FALSE
