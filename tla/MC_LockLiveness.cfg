CONSTANTS
    t1 = t1  t2 = t2  t3 = t3
    r1 = r1  r2 = r2
    Tx = {t1, t2, t3}
    Resource = {r1, r2}
    NoRequest = NoRequest
SPECIFICATION LivenessSpec
PROPERTY DeadlockBroken
