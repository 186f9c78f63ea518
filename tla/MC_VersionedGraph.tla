------------------------- MODULE MC_VersionedGraph -------------------------
(***************************************************************************)
(* VersionedGraph for TLC: one node and one edge, of the same identifier.  *)
(***************************************************************************)
EXTENDS VersionedGraph

MC_Key == 1 .. MaxId

(***************************************************************************)
(* Two states that differ only in timestamps, or in the result of a read   *)
(* that has returned, are one: no guard and no property looks at either.   *)
(***************************************************************************)
View == <<next_transaction_id, [t \in TxId |-> txn[t].state], active_transactions,
          completed_transactions, step, versions, pushes, key_lock, reading, left,
          [t \in TxId |-> IF Scanned(t) THEN result[t] ELSE NotFound], vgVars>>
=============================================================================
