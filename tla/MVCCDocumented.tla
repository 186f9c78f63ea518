--------------------------- MODULE MVCCDocumented ---------------------------
(***************************************************************************)
(* A sentence of the README about MVCCManager where the code does          *)
(* something else; TLC finds a behaviour that breaks it.                   *)
(***************************************************************************)
EXTENDS MVCCManager

VARIABLE finished   \* history: who had committed when t's begin was called

docVars == <<vars, finished>>

DocInit == Init /\ finished = [t \in TxId |-> {}]

DocNext ==
    /\ Next
    /\ finished' = [t \in TxId |->
           IF step[t] = "unborn" /\ step'[t] # "unborn"
           THEN {u \in TxId : OutcomeOf(u) = "COMMITTED"} ELSE finished[t]]

DocSpec == DocInit /\ [][DocNext]_docVars

(***************************************************************************)
(* u's commit_transaction had returned before t's begin_transaction was    *)
(* called.                                                                 *)
(***************************************************************************)
FinishedBeforeStart(u, t) == u \in finished[t]

(***************************************************************************)
(* "Concurrent access with snapshot isolation" (README.md:107): a key that *)
(* was committed before the reader started and that nobody ever deleted is *)
(* found.  A commit between two steps of one scan hides the old version    *)
(* after the new one was passed over, and read_version answers NOT_FOUND.  *)
(***************************************************************************)
CommittedIsFound ==
    [][\A t \in TxId :
          ReturnNotFound(t) =>
              \A v \in versions[reading[t]] :
                  FinishedBeforeStart(v.created_tx_id, t) =>
                      \E w \in versions[reading[t]] : IsTombstone(w)]_docVars
=============================================================================
