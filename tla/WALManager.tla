----------------------------- MODULE WALManager -----------------------------
(***************************************************************************)
(* storage/wal_manager.{h,cpp}: the write-ahead log.  A log call takes its *)
(* number from current_lsn_, then appends its record under mutex_ to the   *)
(* stream, whose buffer the operating system gets at a flush, at a seek or *)
(* when it is full.  log_commit_transaction and checkpoint flush, and      *)
(* take no notice of a flush that fails.  After a failed write the stream  *)
(* writes nothing more, but what its buffer still holds is tried once      *)
(* again when the file is closed.                                          *)
(*                                                                         *)
(* The log is a sequence of units: the records, the lines log_operation    *)
(* writes as text between them (all that GraphStore ever logs), and what a *)
(* crash or a failed write leaves of a unit it cut.  What matters of a     *)
(* record is whether read_record can read it back: it knows no edge        *)
(* record, and after a DELETE_NODE it leaves the property count            *)
(* write_record put there, so that all that follows is read from the wrong *)
(* place.                                                                  *)
(***************************************************************************)
EXTENDS Naturals, Sequences, FiniteSets

CONSTANTS
    Thread, Tx,
    NoTx,        \* tx_id 0, of checkpoints and lines of text
    MaxLsn,      \* bound: numbers handed out
    MaxUnits,    \* bound: units in the log and on their way there
    MaxOpens     \* bound: times the log is opened again

ASSUME WALAssumption == NoTx \notin Tx /\ MaxLsn \in Nat \ {0}

Lsn == 1 .. MaxLsn

\* The record types; "plain" is one of those that are appended, read back and
\* not flushed (begin, abort, create and update of a node), "edge" any of the
\* three of edges.
Kind == {"plain", "commit", "delete_node", "edge", "checkpoint"}
Unit == [kind : Kind, lsn : Lsn, tx : Tx \cup {NoTx}]
Text == [kind |-> "text", lsn |-> 0, tx |-> NoTx]
Cut == [kind |-> "cut", lsn |-> 0, tx |-> NoTx]
NoUnit == [kind |-> "none", lsn |-> 0, tx |-> NoTx]

NoHeader == MaxLsn + 1  \* a file shorter than the header

VARIABLES
    is_open,        \* a WALManager exists
    failed,         \* its stream's error flag: every later write fails
    current_lsn, last_checkpoint_lsn,
    pending,        \* units in the stream's buffer
    header_pending, \* the header of a new file is in the buffer too
    file,           \* units in the file
    file_header,    \* last_checkpoint_lsn in the file's header
    pc, unit,       \* of each thread: where its call is, and its record
    acked,          \* history: records the log has accepted
    committed,      \* history: transactions whose log_commit has returned
    synced,         \* history: those of them whose flush did not fail
    broken,         \* history: a write has failed since the log was opened
    early,          \* history: recover_from_log ran beside unwritten records
    opens

stateVars == <<is_open, failed, current_lsn, last_checkpoint_lsn>>
bufferVars == <<pending, header_pending>>
diskVars == <<file, file_header>>
historyVars == <<acked, committed, synced, broken, early>>
walVars == <<stateVars, bufferVars, diskVars, pc, unit, historyVars, opens>>

Units(s) == {s[i] : i \in DOMAIN s}

SetMax(S) == IF S = {} THEN 0 ELSE CHOOSE m \in S : \A n \in S : n <= m

(***************************************************************************)
(* What read_record makes of a sequence of units: the longest prefix it    *)
(* reads as written.                                                       *)
(***************************************************************************)
ReadableAt(s, i) ==
    /\ s[i].kind \notin {"edge", "text", "cut"}
    /\ i > 1 => s[i - 1].kind # "delete_node"

ReadablePrefix(s) ==
    SubSeq(s, 1, SetMax({n \in 0 .. Len(s) : \A i \in 1 .. n : ReadableAt(s, i)}))

AllReadable(s) == \A i \in DOMAIN s : ReadableAt(s, i)

MaxLsnIn(s) == SetMax({u.lsn : u \in Units(s)})

(***************************************************************************)
(* The constructor: a new file gets a header, in the buffer; an existing   *)
(* one is scanned up to the first record that cannot be read.  A file too  *)
(* short for a header leaves the stream's error flag set.                  *)
(***************************************************************************)
WALInit ==
    /\ is_open = TRUE /\ failed = FALSE
    /\ current_lsn = 1 /\ last_checkpoint_lsn = 0
    /\ pending = <<>> /\ header_pending = TRUE
    /\ file = <<>> /\ file_header = NoHeader
    /\ pc = [th \in Thread |-> "idle"]
    /\ unit = [th \in Thread |-> NoUnit]
    /\ acked = {} /\ committed = {} /\ synced = {}
    /\ broken = FALSE /\ early = FALSE
    /\ opens = 0

OpenRest == UNCHANGED <<bufferVars, diskVars, pc, unit, historyVars, opens>>

Open_CountsRecords ==
    /\ ~ is_open /\ is_open' = TRUE
    /\ failed' = (file_header = NoHeader)
    /\ current_lsn' = Len(ReadablePrefix(file)) + 1
    /\ last_checkpoint_lsn' = IF failed' THEN 0 ELSE file_header
    /\ OpenRest

Open_NotCleared ==
    /\ ~ is_open /\ is_open' = TRUE
    /\ failed' = (file_header = NoHeader \/ ~ AllReadable(file))
    /\ current_lsn' = IF failed' THEN 1 ELSE MaxLsnIn(ReadablePrefix(file)) + 1
    /\ last_checkpoint_lsn' = IF failed' THEN 0 ELSE file_header
    /\ OpenRest

Open_NoHeaderTest ==
    /\ ~ is_open /\ is_open' = TRUE
    /\ failed' = FALSE
    /\ current_lsn' = MaxLsnIn(ReadablePrefix(file)) + 1
    /\ last_checkpoint_lsn' = file_header
    /\ OpenRest

Open ==
    /\ ~ is_open /\ is_open' = TRUE
    /\ failed' = (file_header = NoHeader)
    /\ current_lsn' = IF failed' THEN 1 ELSE MaxLsnIn(ReadablePrefix(file)) + 1
    /\ last_checkpoint_lsn' = IF failed' THEN 0 ELSE file_header
    /\ OpenRest

\* The buffer reaches the file whole.
Flushed(s) ==
    /\ file' = file \o s
    /\ file_header' = IF header_pending THEN 0 ELSE file_header
    /\ pending' = <<>> /\ header_pending' = FALSE

\* What of the units s a write that is cut short leaves in the file.
Parts(s) == {SubSeq(s, 1, n) : n \in 0 .. Len(s)}
                \cup {Append(SubSeq(s, 1, n), Cut) : n \in 0 .. Len(s) - 1}

\* The units s are what reached the file of the buffer, which is gone; the
\* header of a new file is written before them.
Left(s) ==
    /\ file' = file \o s
    /\ file_header' \in IF ~ header_pending THEN {file_header}
                        ELSE IF s = <<>> THEN {0, NoHeader} ELSE {0}
    /\ pending' = <<>> /\ header_pending' = FALSE

\* A write fails: the stream keeps its buffer, part of which is in the file
\* (which part, Crash and Close say).
Unwritten == header_pending \/ pending # <<>>

Fails == failed' = TRUE /\ broken' = TRUE

\* Bound: there is room for one more unit.
Room == Len(file) + Len(pending) + Cardinality({th \in Thread : pc[th] = "write"})
            < MaxUnits

(***************************************************************************)
(* The log_* calls.  A transaction is logged by one thread at a time.      *)
(***************************************************************************)
Begin(th, kind, t) ==
    /\ is_open /\ pc[th] = "idle"
    /\ Room /\ current_lsn \in Lsn
    /\ (kind = "checkpoint") = (t = NoTx)
    /\ \A u \in Thread : t # NoTx => unit[u].tx # t
    /\ t \notin committed
    /\ current_lsn' = current_lsn + 1
    /\ unit' = [unit EXCEPT ![th] = [kind |-> kind, lsn |-> current_lsn, tx |-> t]]
    /\ pc' = [pc EXCEPT ![th] = "write"]
    /\ UNCHANGED <<is_open, failed, last_checkpoint_lsn, bufferVars, diskVars,
                   historyVars, opens>>

Return(th) ==
    /\ pc' = [pc EXCEPT ![th] = "idle"]
    /\ unit' = [unit EXCEPT ![th] = NoUnit]

NextStep(kind) ==
    CASE kind = "commit" -> "sync" [] kind = "checkpoint" -> "header"
      [] OTHER -> "idle"

WriteRecord(th) ==
    /\ pc[th] = "write"
    /\ \/ /\ ~ failed
          /\ pending' = Append(pending, unit[th])
          /\ acked' = acked \cup {unit[th]}
          /\ IF NextStep(unit[th].kind) = "idle" THEN Return(th)
             ELSE pc' = [pc EXCEPT ![th] = NextStep(unit[th].kind)]
                  /\ UNCHANGED unit
          /\ UNCHANGED <<failed, broken>>
       \/ /\ ~ failed /\ Fails       \* the buffer was full
          /\ pending' = Append(pending, Cut)
          /\ Return(th) /\ UNCHANGED acked
       \/ /\ failed
          /\ Return(th) /\ UNCHANGED <<failed, broken, pending, acked>>
    /\ UNCHANGED <<is_open, current_lsn, last_checkpoint_lsn, header_pending,
                   diskVars, committed, synced, early, opens>>

Commits(u) == IF u.kind = "commit" THEN {u.tx} ELSE {}

ForceSync_Nothing(th) ==
    /\ pc[th] = "sync"
    /\ committed' = committed \cup Commits(unit[th])
    /\ synced' = synced \cup Commits(unit[th])
    /\ Return(th)
    /\ UNCHANGED <<stateVars, bufferVars, diskVars, acked, broken, early, opens>>

\* The call returns success whatever force_sync says.
ForceSync(th) ==
    /\ pc[th] = "sync"
    /\ \/ /\ ~ failed /\ Flushed(pending)
          /\ synced' = synced \cup Commits(unit[th])
          /\ UNCHANGED <<failed, broken>>
       \/ /\ failed \/ Unwritten
          /\ Fails
          /\ UNCHANGED <<bufferVars, diskVars, synced>>
    /\ committed' = committed \cup Commits(unit[th])
    /\ Return(th)
    /\ UNCHANGED <<is_open, current_lsn, last_checkpoint_lsn, acked, early, opens>>

(***************************************************************************)
(* checkpoint, after its record: rewrite the header in place.  Seeking     *)
(* there writes the buffer out first, and seeking back the header.  No     *)
(* failure is noticed.                                                     *)
(***************************************************************************)
WriteHeader_First(th) ==
    /\ pc[th] = "header"
    /\ last_checkpoint_lsn' = unit[th].lsn
    /\ file_header' = unit[th].lsn
    /\ header_pending' = FALSE
    /\ pc' = [pc EXCEPT ![th] = "sync"]
    /\ UNCHANGED <<is_open, failed, current_lsn, pending, file, unit,
                   historyVars, opens>>

WriteHeader(th) ==
    /\ pc[th] = "header"
    /\ last_checkpoint_lsn' = unit[th].lsn
    /\ \/ /\ ~ failed
          /\ file' = file \o pending /\ pending' = <<>>
          /\ header_pending' = FALSE
          /\ \/ file_header' = unit[th].lsn /\ UNCHANGED <<failed, broken>>
             \/ /\ Fails               \* seeking back
                /\ file_header' \in {unit[th].lsn,
                                     IF header_pending THEN 0 ELSE file_header}
       \/ /\ failed \/ Unwritten     \* seeking there, or before
          /\ Fails
          /\ UNCHANGED <<bufferVars, diskVars>>
    /\ pc' = [pc EXCEPT ![th] = "sync"]
    /\ UNCHANGED <<is_open, current_lsn, unit, acked, committed, synced, early, opens>>

(***************************************************************************)
(* log_operation, as GraphStore calls it: a line of text, no number.       *)
(***************************************************************************)
LogOperation ==
    /\ is_open /\ ~ failed
    /\ Room
    /\ \/ pending' = Append(pending, Text) /\ UNCHANGED <<failed, broken>>
       \/ pending' = Append(pending, Cut) /\ Fails
    /\ UNCHANGED <<is_open, current_lsn, last_checkpoint_lsn, header_pending,
                   diskVars, pc, unit, acked, committed, synced, early, opens>>

(***************************************************************************)
(* recover_from_log reads the file through a stream of its own, so it sees *)
(* what has been flushed.  Past the first unreadable unit it reads bytes   *)
(* from the wrong places; what numbers it finds there is open.             *)
(* When apply_fn refuses a record it stops and changes nothing.            *)
(***************************************************************************)
RecoverFromLog ==
    /\ is_open
    /\ LET read == MaxLsnIn(ReadablePrefix(file))
       IN  current_lsn' \in IF AllReadable(file) THEN {read + 1}
                            ELSE read + 1 .. MaxLsn + 1
    /\ early' = (early \/ pending # <<>> \/ \E th \in Thread : pc[th] # "idle")
    /\ UNCHANGED <<is_open, failed, last_checkpoint_lsn, bufferVars, diskVars,
                   pc, unit, acked, committed, synced, broken, opens>>

(***************************************************************************)
(* The end of the process.  A crash leaves what had been written when the  *)
(* buffer was full or a write failed, perhaps a unit in part.  The         *)
(* destructor flushes; if a write has failed, or now fails, the buffer is  *)
(* written once more, what was already written of it included.  The        *)
(* history forgets the records of transactions with no commit flushed.      *)
(***************************************************************************)
Ended ==
    /\ opens < MaxOpens /\ opens' = opens + 1
    /\ is_open' = FALSE
    /\ failed' = FALSE /\ broken' = FALSE
    /\ current_lsn' = 1 /\ last_checkpoint_lsn' = 0
    /\ pc' = [th \in Thread |-> "idle"]
    /\ unit' = [th \in Thread |-> NoUnit]
    /\ acked' = {u \in acked : u.tx \in synced}
    /\ UNCHANGED <<committed, synced, early>>

\* Of n units written by the failed write, and perhaps part of the next (or of
\* a header that is there twice), the last n - m were in the buffer still.
WrittenAgain ==
    \E n, m \in 0 .. Len(pending), cut \in {<<>>, <<Cut>>} :
        /\ m <= n
        /\ \E again \in Parts(SubSeq(pending, m + 1, Len(pending))) :
               /\ n = Len(pending) => cut = <<>> /\ again = <<>>
               /\ Left(SubSeq(pending, 1, n) \o cut \o again)

Close ==
    /\ is_open /\ \A th \in Thread : pc[th] = "idle"
    /\ \/ ~ failed /\ Flushed(pending)
       \/ (failed \/ Unwritten) /\ WrittenAgain
    /\ Ended

Crash ==
    /\ is_open
    /\ \E s \in Parts(pending) : Left(s)
    /\ Ended

WALNext ==
    \/ \E th \in Thread, kind \in Kind, t \in Tx \cup {NoTx} : Begin(th, kind, t)
    \/ \E th \in Thread : WriteRecord(th) \/ WriteHeader(th) \/ ForceSync(th)
    \/ LogOperation \/ RecoverFromLog
    \/ Close \/ Crash \/ Open

WALSpec == WALInit /\ [][WALNext]_walVars

----------------------------------------------------------------------------
(***************************************************************************)
(* Types of the log's members, the file and the calls in progress.         *)
(***************************************************************************)
WALTypeOK ==
    /\ is_open \in BOOLEAN /\ failed \in BOOLEAN
    /\ broken \in BOOLEAN /\ early \in BOOLEAN
    /\ current_lsn \in 1 .. MaxLsn + 1
    /\ last_checkpoint_lsn \in 0 .. MaxLsn
    /\ Units(pending) \subseteq Unit \cup {Text, Cut}
    /\ Units(file) \subseteq Unit \cup {Text, Cut}
    /\ header_pending \in BOOLEAN
    /\ file_header \in 0 .. MaxLsn + 1
    /\ unit \in [Thread -> Unit \cup {NoUnit}]
    /\ acked \subseteq Unit /\ synced \subseteq committed /\ committed \subseteq Tx

(***************************************************************************)
(* Durability of a flushed commit: once log_commit_transaction has         *)
(* returned and its force_sync reported no error, the file holds the       *)
(* commit record and, before it, every record the log had accepted of the  *)
(* transaction, whatever other threads log, whatever writes fail later and *)
(* wherever the process crashes (wal_manager.cpp:118-121, :274-277).  The  *)
(* caller cannot tell such a commit from one whose flush failed: the error *)
(* is dropped.                                                             *)
(***************************************************************************)
CommitDurable ==
    \A t \in synced :
        \E i \in DOMAIN file :
            /\ file[i].kind = "commit" /\ file[i].tx = t
            /\ {u \in acked : u.tx = t} \subseteq Units(SubSeq(file, 1, i))

(***************************************************************************)
(* While everything in the file can be read back and recover_from_log ran  *)
(* only with nothing unwritten, no two records have one number, across     *)
(* crashes, failed writes and openings, and a transaction's records keep   *)
(* the order of their numbers (wal_manager.cpp:75, :97, :318).  A record   *)
(* the file holds twice, because it was written again when the file was    *)
(* closed after a failed write, counts where it is first.                  *)
(***************************************************************************)
LsnUnique ==
    LET log == file \o pending
        Before(i, j) == log[i].lsn < log[j].lsn \/ \E k \in 1 .. i : log[k] = log[j]
    IN  AllReadable(file) /\ ~ early =>
            \A i, j \in DOMAIN log :
                i < j /\ log[i].lsn # 0 /\ log[j].lsn # 0 =>
                    /\ log[i].lsn = log[j].lsn => log[i] = log[j]
                    /\ log[i].tx = log[j].tx /\ log[i].tx # NoTx => Before(i, j)

(***************************************************************************)
(* The header in the file never names a checkpoint whose record is not in  *)
(* the file (wal_manager.cpp:247-261).                                     *)
(***************************************************************************)
CheckpointOnDisk ==
    file_header \in Lsn =>
        \E u \in Units(file) : u.kind = "checkpoint" /\ u.lsn = file_header

(***************************************************************************)
(* A log that refuses every write from its opening on, because the header  *)
(* of its file never reached it, has lost nothing that was flushed: it     *)
(* holds no record, and no commit's flush had succeeded                    *)
(* (wal_manager.cpp:61-63, :382, :473).                                    *)
(***************************************************************************)
RefusalLosesNothing ==
    is_open /\ failed /\ ~ broken => file = <<>> /\ pending = <<>> /\ synced = {}
=============================================================================
