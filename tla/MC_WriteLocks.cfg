\* Four writers and three keys: edges that were never rebuilt can chain.
CONSTANTS
    Tx = {t1, t2, t3, t4}
    Resource = {k1, k2, k3}
    NoRequest = NoRequest
    NoTx = NoTx
SPECIFICATION WriteSpec
INVARIANT NeverDenied
PROPERTY MutexSpec
