\* Three transactions: cycles of two and three, and a third shared holder.
CONSTANTS
    t1 = t1  t2 = t2  t3 = t3
    r1 = r1  r2 = r2
    Tx = {t1, t2, t3}
    Resource = {r1, r2}
    NoRequest = NoRequest
SPECIFICATION SafetySpec
SYMMETRY Symmetry
INVARIANTS LMTypeOK Exclusion NoLostWakeup NoSleepingDeadlock
