-------------------------- MODULE WALManager_proofs --------------------------
(***************************************************************************)
(* What the write-ahead log guarantees for any number of threads,          *)
(* transactions, records, failed writes, crashes and openings.             *)
(***************************************************************************)
EXTENDS WALManager, SequenceTheorems, WellFoundedInduction, TLAPS

Record == Unit \cup {Text, Cut}

(***************************************************************************)
(* The log as the stream will leave it: what is in the file, then what is  *)
(* still in the buffer.                                                    *)
(***************************************************************************)
Log == file \o pending

USE WALAssumption

----------------------------------------------------------------------------
(***************************************************************************)
(* A non-empty set of numbers up to MaxLsn, or any other bound, has a      *)
(* largest member, and SetMax finds it.                                    *)
(***************************************************************************)
LEMMA SetMaxIsMax ==
  ASSUME NEW N \in Nat, NEW S \in SUBSET (0 .. N)
  PROVE  SetMax(S) \in 0 .. N /\ \A n \in S : n <= SetMax(S)
<1>1. CASE S = {}
  BY <1>1 DEF SetMax
<1>2. CASE S # {}
  <2> DEFINE T == {m \in Nat : N - m \in S}
             R == {r \in Nat \X Nat : r[1] < r[2]}
  <2>1. T \subseteq Nat /\ T # {}
    <3>1. PICK s \in S : s \in 0 .. N
      BY <1>2
    <3>2. N - s \in T
      BY <3>1
    <3> QED
      BY <3>2
  <2>2. IsWellFoundedOn(R, Nat)
    BY NatLessThanWellFounded DEF OpToRel
  <2>3. PICK m \in T : \A n \in T : <<n, m>> \notin R
    <3> HIDE DEF T, R
    <3> QED
      BY <2>1, <2>2, WFMin
  <2>4. \A n \in S : N - n \in T /\ n \in 0 .. N
    OBVIOUS
  <2>5. \A n \in S : m <= N - n
    <3>1. \A k, l \in Nat : k < l => <<k, l>> \in R
      OBVIOUS
    <3>2. m \in Nat /\ \A n \in S : N - n \in Nat /\ <<N - n, m>> \notin R
      BY <2>1, <2>3, <2>4
    <3> SUFFICES ASSUME NEW n \in S PROVE m <= N - n
      OBVIOUS
    <3> DEFINE k == N - n
    <3>3. k \in Nat /\ m \in Nat /\ <<k, m>> \notin R
      BY <3>2
    <3> HIDE DEF R, T, k
    <3>4. ~ (k < m)
      BY <3>1, <3>3
    <3>5. m <= k
      BY <3>3, <3>4
    <3> QED
      BY <3>5 DEF k
  <2>6. N - m \in S /\ \A n \in S : n <= N - m
    BY <2>4, <2>5
  <2> QED
    BY <1>2, <2>6 DEF SetMax
<1> QED
  BY <1>1, <1>2

(***************************************************************************)
(* Facts about the log as a sequence: what appending, joining and cutting  *)
(* do to its units.                                                        *)
(***************************************************************************)
LEMMA UnitsByIndex ==
  ASSUME NEW S, NEW s \in Seq(S)
  PROVE  /\ Units(s) = {s[i] : i \in 1 .. Len(s)}
         /\ Units(s) \subseteq S
         /\ \A n \in 0 .. Len(s) : /\ SubSeq(s, 1, n) \in Seq(S)
                                   /\ Len(SubSeq(s, 1, n)) = n
                                   /\ \A i \in 1 .. n : SubSeq(s, 1, n)[i] = s[i]
                                   /\ Units(SubSeq(s, 1, n)) = {s[i] : i \in 1 .. n}
<1>1. /\ Len(s) \in Nat /\ DOMAIN s = 1 .. Len(s)
      /\ \A i \in 1 .. Len(s) : s[i] \in S
  BY LenProperties, ElementOfSeq
<1>2. Units(s) = {s[i] : i \in 1 .. Len(s)} /\ Units(s) \subseteq S
  BY <1>1 DEF Units
<1>3. ASSUME NEW n \in 0 .. Len(s)
      PROVE  /\ SubSeq(s, 1, n) \in Seq(S) /\ Len(SubSeq(s, 1, n)) = n
             /\ \A i \in 1 .. n : SubSeq(s, 1, n)[i] = s[i]
             /\ Units(SubSeq(s, 1, n)) = {s[i] : i \in 1 .. n}
  <2>1. /\ n \in Nat /\ 1 \in Int /\ n \in Int
        /\ \A i \in 1 .. n : s[i] \in S
    BY <1>1
  <2>2. /\ SubSeq(s, 1, n) \in Seq(S)
        /\ Len(SubSeq(s, 1, n)) = IF 1 <= n THEN n - 1 + 1 ELSE 0
        /\ \A i \in 1 .. n - 1 + 1 : SubSeq(s, 1, n)[i] = s[1 + i - 1]
    BY <2>1, SubSeqProperties
  <2>3. /\ Len(SubSeq(s, 1, n)) = n
        /\ \A i \in 1 .. n : SubSeq(s, 1, n)[i] = s[i]
    BY <2>1, <2>2
  <2>4. DOMAIN SubSeq(s, 1, n) = 1 .. n
    BY <2>2, <2>3, LenProperties
  <2> QED
    BY <2>2, <2>3, <2>4 DEF Units
<1> QED
  BY <1>2, <1>3

LEMMA Joined ==
  ASSUME NEW S, NEW s \in Seq(S), NEW t \in Seq(S)
  PROVE  /\ s \o t \in Seq(S) /\ Len(s \o t) = Len(s) + Len(t)
         /\ \A i \in 1 .. Len(s) : (s \o t)[i] = s[i]
         /\ Units(s \o t) = Units(s) \cup Units(t)
<1>1. Len(s) \in Nat /\ Len(t) \in Nat
  BY LenProperties
<1>2. /\ s \o t \in Seq(S) /\ Len(s \o t) = Len(s) + Len(t)
      /\ \A i \in 1 .. Len(s) + Len(t) :
            (s \o t)[i] = IF i <= Len(s) THEN s[i] ELSE t[i - Len(s)]
  BY ConcatProperties
<1>3. \A i \in 1 .. Len(s) : (s \o t)[i] = s[i]
  BY <1>1, <1>2
<1>4. \A i \in 1 .. Len(t) : (s \o t)[Len(s) + i] = t[i] /\ Len(s) + i \in 1 .. Len(s) + Len(t)
  BY <1>1, <1>2
<1>5. /\ Units(s) = {s[i] : i \in 1 .. Len(s)} /\ Units(t) = {t[i] : i \in 1 .. Len(t)}
      /\ Units(s \o t) = {(s \o t)[i] : i \in 1 .. Len(s \o t)}
  <2> DEFINE st == s \o t
  <2>1. st \in Seq(S)
    BY <1>2
  <2> HIDE DEF st
  <2>2. Units(st) = {st[i] : i \in 1 .. Len(st)}
    BY <2>1, UnitsByIndex
  <2> QED
    BY <2>2, UnitsByIndex DEF st
<1>6. Units(s \o t) \subseteq Units(s) \cup Units(t)
  <2> SUFFICES ASSUME NEW i \in 1 .. Len(s) + Len(t)
               PROVE  (s \o t)[i] \in Units(s) \cup Units(t)
    BY <1>2, <1>5
  <2>1. CASE i <= Len(s)
    BY <2>1, <1>1, <1>2, <1>5
  <2>2. CASE i > Len(s)
    BY <2>2, <1>1, <1>2, <1>5
  <2> QED
    BY <2>1, <2>2, <1>1
<1>7. Units(s) \cup Units(t) \subseteq Units(s \o t)
  <2>1. \A i \in 1 .. Len(s) : s[i] \in Units(s \o t)
    BY <1>1, <1>2, <1>3, <1>5
  <2>2. \A i \in 1 .. Len(t) : t[i] \in Units(s \o t)
    BY <1>1, <1>2, <1>4, <1>5
  <2> QED
    BY <1>5, <2>1, <2>2
<1> QED
  BY <1>2, <1>3, <1>6, <1>7

(***************************************************************************)
(* What the constructor and recover_from_log read of a file: the largest   *)
(* number of its records, when all of it can be read.                      *)
(***************************************************************************)
LEMMA ReadBack ==
  ASSUME NEW s \in Seq(Record)
  PROVE  /\ MaxLsnIn(ReadablePrefix(s)) \in 0 .. MaxLsn
         /\ AllReadable(s) =>
               \A u \in Units(s) : u.lsn <= MaxLsnIn(ReadablePrefix(s))
<1> DEFINE Lengths == {n \in 0 .. Len(s) : \A i \in 1 .. n : ReadableAt(s, i)}
           r == ReadablePrefix(s)
<1>1. Len(s) \in Nat /\ DOMAIN s = 1 .. Len(s)
  BY LenProperties
<1>2. SetMax(Lengths) \in 0 .. Len(s) /\ \A n \in Lengths : n <= SetMax(Lengths)
  BY <1>1, SetMaxIsMax
<1>3. r = SubSeq(s, 1, SetMax(Lengths))
  BY DEF ReadablePrefix
<1>4. r \in Seq(Record)
  <2>1. \A n \in 0 .. Len(s) : SubSeq(s, 1, n) \in Seq(Record)
    BY UnitsByIndex
  <2> QED
    BY <1>2, <1>3, <2>1
<1>5. AllReadable(s) => r = s
  <2> SUFFICES ASSUME AllReadable(s) PROVE r = s
    OBVIOUS
  <2>1. Len(s) \in Lengths
    BY <1>1 DEF AllReadable
  <2>2. SetMax(Lengths) = Len(s)
    BY <1>1, <1>2, <2>1
  <2> QED
    BY <1>3, <2>2, SubSeqFull
<1> HIDE DEF r, Lengths
<1>6. Units(r) \subseteq Record
  BY <1>4, UnitsByIndex
<1>7. \A u \in Record : u.lsn \in 0 .. MaxLsn
  BY DEF Record, Unit, Lsn, Text, Cut
<1> DEFINE S == {u.lsn : u \in Units(r)}
<1>8. S \subseteq 0 .. MaxLsn
  BY <1>6, <1>7
<1>9. \A u \in Units(r) : u.lsn \in S
  OBVIOUS
<1>10. MaxLsnIn(r) = SetMax(S)
  BY DEF MaxLsnIn
<1> HIDE DEF S
<1>11. SetMax(S) \in 0 .. MaxLsn /\ \A n \in S : n <= SetMax(S)
  BY <1>8, SetMaxIsMax
<1> QED
  BY <1>5, <1>9, <1>10, <1>11 DEF r

----------------------------------------------------------------------------
(***************************************************************************)
(* The invariant, in layers.  First the types, what each thread's call     *)
(* has in hand, and the header: while it is not in the file no record is   *)
(* either and no commit has been flushed, and a stream that found none     *)
(* writes nothing.                                                         *)
(***************************************************************************)
CallsMatch ==
    /\ pc \in [Thread -> {"idle", "write", "header", "sync"}]
    /\ \A th \in Thread :
           /\ pc[th] = "idle" => unit[th] = NoUnit
           /\ pc[th] # "idle" => /\ is_open /\ unit[th] \in Unit
                                 /\ unit[th].kind = "checkpoint" <=> unit[th].tx = NoTx
           /\ pc[th] = "header" => unit[th].kind = "checkpoint"
           /\ pc[th] = "sync" => unit[th].kind \in {"commit", "checkpoint"}

\* The constructor found no header.
Refused == is_open /\ file_header = NoHeader /\ ~ header_pending

HeaderMatch ==
    /\ ~ is_open => pending = <<>> /\ ~ header_pending /\ ~ broken
    /\ file_header = NoHeader => file = <<>> /\ synced = {}
    /\ header_pending => file_header = NoHeader
    /\ is_open => (failed <=> broken \/ Refused)
    /\ Refused => /\ ~ broken /\ pending = <<>>
                  /\ \A th \in Thread : pc[th] \in {"idle", "write"}

SeqsOK == pending \in Seq(Record) /\ file \in Seq(Record)

Inv1 == WALTypeOK /\ SeqsOK /\ CallsMatch /\ HeaderMatch

LEMMA Inv1Init == WALInit => Inv1
<1> SUFFICES ASSUME WALInit PROVE Inv1
  OBVIOUS
<1>1. SeqsOK /\ Units(pending) = {} /\ Units(file) = {}
  <2>1. pending = <<>> /\ file = <<>>
    BY DEF WALInit
  <2>2. Units(<<>>) = {}
    BY DEF Units
  <2> QED
    BY <2>1, <2>2, EmptySeq DEF SeqsOK
<1>2. WALTypeOK
  <2>1. unit \in [Thread -> Unit \cup {NoUnit}]
    BY DEF WALInit
  <2>2. /\ current_lsn \in 1 .. MaxLsn + 1 /\ last_checkpoint_lsn \in 0 .. MaxLsn
        /\ file_header \in 0 .. MaxLsn + 1
    BY DEF WALInit, NoHeader
  <2>3. /\ is_open \in BOOLEAN /\ failed \in BOOLEAN /\ header_pending \in BOOLEAN
        /\ broken \in BOOLEAN /\ early \in BOOLEAN
        /\ acked \subseteq Unit /\ synced \subseteq committed /\ committed \subseteq Tx
    BY DEF WALInit
  <2> QED
    BY <1>1, <2>1, <2>2, <2>3 DEF WALTypeOK
<1>3. CallsMatch
  BY DEF WALInit, CallsMatch
<1>4. HeaderMatch
  BY DEF WALInit, HeaderMatch, Refused
<1> QED
  BY <1>1, <1>2, <1>3, <1>4 DEF Inv1

\* What the buffer and the file hold, by type, as sets and joined.
LEMMA SeqUnits ==
  ASSUME SeqsOK
  PROVE  /\ pending \in Seq(Record) /\ file \in Seq(Record) /\ Log \in Seq(Record)
         /\ Units(pending) \subseteq Record /\ Units(file) \subseteq Record
         /\ Units(Log) = Units(file) \cup Units(pending)
<1>1. pending \in Seq(Record) /\ file \in Seq(Record)
  BY DEF SeqsOK
<1>2. Log \in Seq(Record) /\ Units(Log) = Units(file) \cup Units(pending)
  BY <1>1, Joined DEF Log
<1> QED
  BY <1>1, <1>2, UnitsByIndex

(***************************************************************************)
(* Where the sequences go: every step leaves them, appends one unit to the *)
(* buffer, writes the whole buffer out, or, when the process ends, some of *)
(* it, once or twice, unless a unit is cut.                                *)
(***************************************************************************)
Kept == UNCHANGED <<file, pending>>
Appended(u) == file' = file /\ pending' = Append(pending, u)
Drained == file' = Log /\ pending' = <<>>
Wrote(s) == file' = file \o s /\ pending' = <<>>

Rest(s, m) == SubSeq(s, m + 1, Len(s))
Piece(s, n, m, q) == SubSeq(s, 1, n) \o SubSeq(Rest(s, m), 1, q)
Pieced(s) ==
    \/ Cut \in Units(s)
    \/ \E n, m \in 0 .. Len(pending) :
           /\ m <= n
           /\ \E q \in 0 .. Len(pending) - m : s = Piece(pending, n, m, q)

LEMMA RestIs ==
  ASSUME NEW s \in Seq(Record), NEW m \in 0 .. Len(s)
  PROVE  /\ Rest(s, m) \in Seq(Record) /\ Len(Rest(s, m)) = Len(s) - m
         /\ \A i \in 1 .. Len(s) - m : Rest(s, m)[i] = s[m + i]
<1>1. /\ Len(s) \in Nat /\ m \in Nat /\ m + 1 \in Int /\ Len(s) \in Int
      /\ \A i \in 1 .. Len(s) : s[i] \in Record
  BY LenProperties, ElementOfSeq
<1>2. \A i \in m + 1 .. Len(s) : s[i] \in Record
  BY <1>1
<1>3. /\ SubSeq(s, m + 1, Len(s)) \in Seq(Record)
      /\ Len(SubSeq(s, m + 1, Len(s))) = IF m + 1 <= Len(s) THEN Len(s) - (m + 1) + 1 ELSE 0
      /\ \A i \in 1 .. Len(s) - (m + 1) + 1 :
             SubSeq(s, m + 1, Len(s))[i] = s[m + 1 + i - 1]
  BY <1>1, <1>2, SubSeqProperties
<1> QED
  BY <1>1, <1>3 DEF Rest

LEMMA PartIs ==
  ASSUME NEW s \in Seq(Record), NEW p \in Parts(s)
  PROVE  /\ p \in Seq(Record)
         /\ Cut \in Units(p) \/ \E n \in 0 .. Len(s) : p = SubSeq(s, 1, n)
<1>1. \A n \in 0 .. Len(s) : SubSeq(s, 1, n) \in Seq(Record)
  BY UnitsByIndex
<1>2. CASE \E n \in 0 .. Len(s) : p = SubSeq(s, 1, n)
  BY <1>1, <1>2
<1>3. ASSUME NEW n \in 0 .. Len(s) - 1, p = Append(SubSeq(s, 1, n), Cut)
      PROVE  p \in Seq(Record) /\ Cut \in Units(p)
  <2> DEFINE b == SubSeq(s, 1, n)
  <2>1. b \in Seq(Record) /\ Cut \in Record
    <3>1. n \in 0 .. Len(s)
      BY LenProperties
    <3> QED
      BY <1>1, <3>1 DEF Record
  <2>2. p = Append(b, Cut)
    BY <1>3
  <2> HIDE DEF b
  <2>3. /\ p \in Seq(Record) /\ Len(p) = Len(b) + 1 /\ p[Len(b) + 1] = Cut
        /\ Len(b) \in Nat
    BY <2>1, <2>2, AppendProperties, LenProperties
  <2>4. Len(b) + 1 \in DOMAIN p
    BY <2>3, LenProperties
  <2> QED
    BY <2>3, <2>4 DEF Units
<1> QED
  BY <1>2, <1>3 DEF Parts

\* The end of the process: what reaches the file.
LEMMA EndWrites ==
  ASSUME SeqsOK, Close \/ Crash
  PROVE  Drained \/ \E s \in Seq(Record) : Wrote(s) /\ Pieced(s)
<1>1. pending \in Seq(Record) /\ Len(pending) \in Nat
  BY LenProperties DEF SeqsOK
<1>2. CASE Crash
  <2>1. PICK s \in Parts(pending) : Wrote(s)
    BY <1>2 DEF Crash, Left, Wrote
  <2>2. s \in Seq(Record)
    BY <1>1, PartIs
  <2>3. ASSUME NEW n \in 0 .. Len(pending), s = SubSeq(pending, 1, n) PROVE Pieced(s)
    <3> DEFINE b == SubSeq(pending, 1, n)
               r == Rest(pending, n)
    <3>1. b \in Seq(Record) /\ SubSeq(r, 1, 0) = <<>>
      BY <1>1, UnitsByIndex, SubSeqEmpty
    <3>2. b \o SubSeq(r, 1, 0) = b
      <4> HIDE DEF b, r
      <4> QED
        BY <3>1, ConcatEmptySeq
    <3>3. s = Piece(pending, n, n, 0) /\ 0 \in 0 .. Len(pending) - n /\ n <= n
      BY <1>1, <2>3, <3>2 DEF Piece
    <3> QED
      BY <3>3 DEF Pieced
  <2>4. Cut \in Units(s) \/ \E n \in 0 .. Len(pending) : s = SubSeq(pending, 1, n)
    BY <1>1, PartIs
  <2>5. Pieced(s)
    BY <2>3, <2>4 DEF Pieced
  <2> QED
    BY <2>1, <2>2, <2>5
<1>3. CASE Close
  <2>1. CASE Flushed(pending)
    BY <2>1 DEF Flushed, Drained, Log
  <2>2. CASE WrittenAgain
    <3>1. PICK n \in 0 .. Len(pending), m \in 0 .. Len(pending), cut \in {<<>>, <<Cut>>} :
             /\ m <= n
             /\ \E again \in Parts(Rest(pending, m)) :
                    Left(SubSeq(pending, 1, n) \o cut \o again)
      BY <2>2 DEF WrittenAgain, Rest
    <3>2. PICK again \in Parts(Rest(pending, m)) :
             Left(SubSeq(pending, 1, n) \o cut \o again)
      BY <3>1
    <3> DEFINE b == SubSeq(pending, 1, n)
               r == Rest(pending, m)
               s == b \o cut \o again
    <3>3. /\ b \in Seq(Record) /\ r \in Seq(Record) /\ Len(r) = Len(pending) - m
      BY <1>1, UnitsByIndex, RestIs
    <3>4. /\ again \in Seq(Record)
          /\ Cut \in Units(again) \/ \E q \in 0 .. Len(r) : again = SubSeq(r, 1, q)
      <4> HIDE DEF r
      <4> QED
        BY <3>2, <3>3, PartIs DEF r
    <3>5. cut \in Seq(Record) /\ (cut # <<>> => Cut \in Units(cut))
      <4>1. Cut \in Record
        BY DEF Record
      <4>2. <<>> \in Seq(Record) /\ <<Cut>> \in Seq(Record) /\ Units(<<Cut>>) = {Cut}
        BY <4>1 DEF Units
      <4> QED
        BY <4>2
    <3> HIDE DEF b, r
    <3>6. /\ b \o cut \in Seq(Record) /\ Units(b \o cut) = Units(b) \cup Units(cut)
      BY <3>3, <3>5, Joined
    <3>7. s \in Seq(Record) /\ Units(s) = Units(b) \cup Units(cut) \cup Units(again)
      <4> DEFINE bc == b \o cut
      <4>1. bc \in Seq(Record) /\ Units(bc) = Units(b) \cup Units(cut) /\ s = bc \o again
        BY <3>6
      <4> HIDE DEF bc, s
      <4>2. bc \o again \in Seq(Record) /\ Units(bc \o again) = Units(bc) \cup Units(again)
        BY <3>4, <4>1, Joined
      <4> QED
        BY <4>1, <4>2
    <3>8. ASSUME cut = <<>>, NEW q \in 0 .. Len(r), again = SubSeq(r, 1, q)
          PROVE  Pieced(s)
      <4>1. b \o cut = b
        BY <3>3, <3>8, ConcatEmptySeq
      <4>2. s = Piece(pending, n, m, q)
        BY <3>8, <4>1 DEF Piece, b, r
      <4> HIDE DEF s
      <4> QED
        BY <3>1, <3>3, <4>2 DEF Pieced
    <3>9. Pieced(s)
      BY <3>4, <3>5, <3>7, <3>8 DEF Pieced
    <3>10. Wrote(s)
      BY <3>2 DEF Left, Wrote, b
    <3> QED
      BY <3>7, <3>9, <3>10
  <2> QED
    BY <1>3, <2>1, <2>2 DEF Close
<1> QED
  BY <1>2, <1>3

LEMMA SeqsStep ==
  ASSUME SeqsOK,
         \/ Kept \/ Drained
         \/ \E u \in Record : Appended(u)
         \/ \E s \in Seq(Record) : Wrote(s)
  PROVE  SeqsOK'
<1>1. pending \in Seq(Record) /\ file \in Seq(Record) /\ Log \in Seq(Record)
  BY SeqUnits
<1>2. <<>> \in Seq(Record)
  BY EmptySeq
<1>3. CASE Kept
  BY <1>3 DEF Kept, SeqsOK
<1>4. CASE Drained
  BY <1>1, <1>2, <1>4 DEF Drained, SeqsOK
<1>5. ASSUME NEW s \in Seq(Record), Wrote(s) PROVE SeqsOK'
  BY <1>1, <1>2, <1>5, ConcatProperties DEF Wrote, SeqsOK
<1>6. ASSUME NEW u \in Record, Appended(u) PROVE SeqsOK'
  BY <1>6, AppendProperties DEF Appended, SeqsOK
<1> QED
  BY <1>3, <1>4, <1>5, <1>6

(***************************************************************************)
(* One step per call, critical section and end of the process              *)
(* (wal_manager.cpp:24-135, :240-400).  A call that writes a record, the   *)
(* header or the buffer may fail.                                          *)
(***************************************************************************)
LEMMA WriteRecordMoves ==
  ASSUME Inv1, NEW th \in Thread, WriteRecord(th)
  PROVE  \/ ~ failed /\ unit[th] \in Unit /\ Appended(unit[th])
         \/ Appended(Cut) /\ acked' = acked
                          /\ pc' = [pc EXCEPT ![th] = "idle"]
                          /\ unit' = [unit EXCEPT ![th] = NoUnit]
         \/ Kept /\ acked' = acked
                 /\ pc' = [pc EXCEPT ![th] = "idle"]
                 /\ unit' = [unit EXCEPT ![th] = NoUnit]
<1>1. unit[th] \in Unit
  BY DEF WriteRecord, Inv1, CallsMatch
<1> QED
  BY <1>1 DEF WriteRecord, Return, Appended, Kept, diskVars

LEMMA WriteHeaderMoves ==
  ASSUME NEW th \in Thread, WriteHeader(th)
  PROVE  /\ Drained \/ (Kept /\ file_header' = file_header)
         /\ UNCHANGED <<is_open, current_lsn, unit, acked, committed, synced, early>>
         /\ pc' = [pc EXCEPT ![th] = "sync"]
  BY DEF WriteHeader, Drained, Kept, Log, bufferVars, diskVars

LEMMA ForceSyncMoves ==
  ASSUME NEW th \in Thread, ForceSync(th)
  PROVE  /\ \/ Drained /\ synced' = synced \cup Commits(unit[th])
            \/ Kept /\ synced' = synced /\ file_header' = file_header
         /\ file_header' \in {0, file_header}
         /\ committed' = committed \cup Commits(unit[th])
         /\ UNCHANGED <<is_open, current_lsn, acked, early>>
         /\ pc[th] = "sync" /\ pc' = [pc EXCEPT ![th] = "idle"]
         /\ unit' = [unit EXCEPT ![th] = NoUnit]
  BY DEF ForceSync, Flushed, Drained, Kept, Log, Return, bufferVars, diskVars

LEMMA LogOperationMoves ==
  ASSUME LogOperation
  PROVE  /\ \E u \in {Text, Cut} : Appended(u)
         /\ UNCHANGED <<is_open, current_lsn, last_checkpoint_lsn, file_header,
                        header_pending, pc, unit, acked, committed, synced, early>>
  BY DEF LogOperation, Appended, diskVars

LEMMA SeqsAlways == Inv1 /\ [WALNext]_walVars => SeqsOK'
<1> SUFFICES ASSUME Inv1, [WALNext]_walVars PROVE SeqsOK'
  OBVIOUS
<1> USE DEF walVars, stateVars, bufferVars, diskVars, historyVars
<1>0. SeqsOK /\ Text \in Record /\ Cut \in Record /\ Unit \subseteq Record
  BY DEF Inv1, Record
<1>1. ASSUME NEW th \in Thread, NEW kind \in Kind, NEW t \in Tx \cup {NoTx},
             Begin(th, kind, t)
      PROVE  SeqsOK'
  BY <1>0, <1>1, SeqsStep DEF Begin, Kept
<1>2. ASSUME NEW th \in Thread, WriteRecord(th) PROVE SeqsOK'
  BY <1>0, <1>2, WriteRecordMoves, SeqsStep
<1>3. ASSUME NEW th \in Thread, WriteHeader(th) PROVE SeqsOK'
  BY <1>0, <1>3, WriteHeaderMoves, SeqsStep
<1>4. ASSUME NEW th \in Thread, ForceSync(th) PROVE SeqsOK'
  BY <1>0, <1>4, ForceSyncMoves, SeqsStep
<1>5. CASE LogOperation
  BY <1>0, <1>5, LogOperationMoves, SeqsStep
<1>6. CASE RecoverFromLog
  BY <1>0, <1>6, SeqsStep DEF RecoverFromLog, Kept
<1>7. CASE Close \/ Crash
  BY <1>0, <1>7, EndWrites, SeqsStep
<1>8. CASE Open
  BY <1>0, <1>8, SeqsStep DEF Open, OpenRest, Kept
<1>9. CASE UNCHANGED walVars
  BY <1>0, <1>9, SeqsStep DEF Kept
<1> QED
  BY <1>1, <1>2, <1>3, <1>4, <1>5, <1>6, <1>7, <1>8, <1>9 DEF WALNext

FlagTypes ==
    /\ is_open \in BOOLEAN /\ failed \in BOOLEAN /\ header_pending \in BOOLEAN
    /\ broken \in BOOLEAN /\ early \in BOOLEAN
NumberTypes ==
    /\ current_lsn \in 1 .. MaxLsn + 1 /\ last_checkpoint_lsn \in 0 .. MaxLsn
    /\ file_header \in 0 .. MaxLsn + 1
CallTypes ==
    /\ unit \in [Thread -> Unit \cup {NoUnit}]
    /\ acked \subseteq Unit /\ synced \subseteq committed /\ committed \subseteq Tx

LEMMA FlagsStep == FlagTypes /\ [WALNext]_walVars => FlagTypes'
<1> SUFFICES ASSUME FlagTypes, [WALNext]_walVars PROVE FlagTypes'
  OBVIOUS
<1> USE DEF FlagTypes, walVars, stateVars, bufferVars, diskVars, historyVars
<1>1. ASSUME NEW th \in Thread, NEW kind \in Kind, NEW t \in Tx \cup {NoTx},
             Begin(th, kind, t)
      PROVE  FlagTypes'
  BY <1>1 DEF Begin
<1>2. ASSUME NEW th \in Thread, WriteRecord(th) \/ WriteHeader(th) \/ ForceSync(th)
      PROVE  FlagTypes'
  BY <1>2 DEF WriteRecord, WriteHeader, ForceSync, Flushed, Fails
<1>3. CASE LogOperation \/ UNCHANGED walVars
  BY <1>3 DEF LogOperation, Fails
<1>4. CASE RecoverFromLog
  <2>1. early' \in BOOLEAN
    BY <1>4 DEF RecoverFromLog
  <2> QED
    BY <1>4, <2>1 DEF RecoverFromLog
<1>5. CASE Close \/ Crash
  <2>1. Ended /\ header_pending' = FALSE
    BY <1>5 DEF Close, Crash, Flushed, WrittenAgain, Left
  <2> QED
    BY <2>1 DEF Ended
<1>6. CASE Open
  <2>1. failed' \in BOOLEAN
    BY <1>6 DEF Open
  <2> QED
    BY <1>6, <2>1 DEF Open, OpenRest
<1> QED
  BY <1>1, <1>2, <1>3, <1>4, <1>5, <1>6 DEF WALNext

LEMMA NumbersStep == Inv1 /\ [WALNext]_walVars => NumberTypes'
<1> SUFFICES ASSUME Inv1, [WALNext]_walVars PROVE NumberTypes'
  OBVIOUS
<1> USE DEF NumberTypes, walVars, stateVars, bufferVars, diskVars, historyVars
<1>0. NumberTypes /\ MaxLsnIn(ReadablePrefix(file)) \in 0 .. MaxLsn
  BY ReadBack DEF Inv1, SeqsOK, WALTypeOK
<1>1. ASSUME NEW th \in Thread, NEW kind \in Kind, NEW t \in Tx \cup {NoTx},
             Begin(th, kind, t)
      PROVE  NumberTypes'
  BY <1>0, <1>1 DEF Begin, Lsn
<1>2. ASSUME NEW th \in Thread, WriteRecord(th) \/ ForceSync(th)
      PROVE  NumberTypes'
  BY <1>0, <1>2 DEF WriteRecord, ForceSync, Flushed
<1>3. ASSUME NEW th \in Thread, WriteHeader(th) PROVE NumberTypes'
  <2>1. unit[th].lsn \in Lsn
    BY <1>3 DEF WriteHeader, Inv1, CallsMatch, Unit
  <2> QED
    BY <1>0, <1>3, <2>1 DEF WriteHeader, Lsn
<1>4. CASE LogOperation \/ UNCHANGED walVars
  BY <1>0, <1>4 DEF LogOperation
<1>5. CASE RecoverFromLog
  BY <1>0, <1>5 DEF RecoverFromLog
<1>6. CASE Close \/ Crash
  <2>1. Ended /\ file_header' \in {0, NoHeader, file_header}
    BY <1>6 DEF Close, Crash, Flushed, WrittenAgain, Left
  <2> QED
    BY <1>0, <2>1 DEF Ended, NoHeader
<1>7. CASE Open
  <2> DEFINE read == MaxLsnIn(ReadablePrefix(file))
  <2>1. /\ current_lsn' \in {1, read + 1} /\ file_header' = file_header
        /\ \/ last_checkpoint_lsn' = 0
           \/ last_checkpoint_lsn' = file_header /\ file_header # NoHeader
    BY <1>7 DEF Open, OpenRest
  <2> HIDE DEF read
  <2> QED
    BY <1>0, <2>1 DEF NoHeader, read
<1> QED
  BY <1>1, <1>2, <1>3, <1>4, <1>5, <1>6, <1>7 DEF WALNext

LEMMA CallTypesStep == Inv1 /\ [WALNext]_walVars => CallTypes'
<1> SUFFICES ASSUME Inv1, [WALNext]_walVars PROVE CallTypes'
  OBVIOUS
<1> USE DEF CallTypes, walVars, stateVars, bufferVars, diskVars, historyVars
<1>0. CallTypes
  BY DEF Inv1, WALTypeOK
<1>1. ASSUME NEW th \in Thread, NEW kind \in Kind, NEW t \in Tx \cup {NoTx},
             Begin(th, kind, t)
      PROVE  CallTypes'
  <2>1. [kind |-> kind, lsn |-> current_lsn, tx |-> t] \in Unit
    BY <1>1 DEF Begin, Unit
  <2> QED
    BY <1>0, <1>1, <2>1 DEF Begin
<1>2. ASSUME NEW th \in Thread, WriteRecord(th) PROVE CallTypes'
  <2>1. unit[th] \in Unit
    BY <1>2 DEF WriteRecord, Inv1, CallsMatch
  <2>2. unit' = unit \/ unit' = [unit EXCEPT ![th] = NoUnit]
    BY <1>2 DEF WriteRecord, Return
  <2>3. unit' \in [Thread -> Unit \cup {NoUnit}]
    BY <1>0, <2>2
  <2>4. /\ acked' \in {acked, acked \cup {unit[th]}}
        /\ committed' = committed /\ synced' = synced
    BY <1>2 DEF WriteRecord
  <2> QED
    BY <1>0, <2>1, <2>3, <2>4
<1>3. ASSUME NEW th \in Thread, ForceSync(th) PROVE CallTypes'
  <2>1. unit[th] \in Unit /\ (unit[th].kind = "commit" => unit[th].tx # NoTx)
    BY <1>3 DEF ForceSync, Inv1, CallsMatch
  <2>2. Commits(unit[th]) \subseteq Tx
    BY <2>1 DEF Unit, Commits
  <2>3. /\ synced' \in {synced, synced \cup Commits(unit[th])}
        /\ committed' = committed \cup Commits(unit[th])
        /\ acked' = acked /\ unit' = [unit EXCEPT ![th] = NoUnit]
    BY <1>3, ForceSyncMoves
  <2> QED
    BY <1>0, <2>2, <2>3
<1>4. ASSUME NEW th \in Thread, WriteHeader(th) PROVE CallTypes'
  BY <1>0, <1>4 DEF WriteHeader
<1>5. CASE LogOperation \/ RecoverFromLog \/ Open \/ UNCHANGED walVars
  BY <1>0, <1>5 DEF LogOperation, RecoverFromLog, Open, OpenRest
<1>6. CASE Close \/ Crash
  <2>1. Ended
    BY <1>6 DEF Close, Crash
  <2> QED
    BY <1>0, <2>1 DEF Ended
<1> QED
  BY <1>1, <1>2, <1>3, <1>4, <1>5, <1>6 DEF WALNext

LEMMA TypesStep == Inv1 /\ [WALNext]_walVars => WALTypeOK'
<1> SUFFICES ASSUME Inv1, [WALNext]_walVars PROVE WALTypeOK'
  OBVIOUS
<1>1. FlagTypes' /\ NumberTypes' /\ CallTypes'
  BY FlagsStep, NumbersStep, CallTypesStep DEF Inv1, WALTypeOK, FlagTypes
<1>2. Units(pending)' \subseteq Unit \cup {Text, Cut} /\ Units(file)' \subseteq Unit \cup {Text, Cut}
  <2>1. SeqsOK'
    BY SeqsAlways
  <2>2. pending' \in Seq(Record) /\ file' \in Seq(Record)
    BY <2>1 DEF SeqsOK
  <2>3. Units(pending') \subseteq Record /\ Units(file') \subseteq Record
    BY <2>2, UnitsByIndex
  <2> QED
    BY <2>3 DEF Units, Record
<1> QED
  BY <1>1, <1>2 DEF WALTypeOK, FlagTypes, NumberTypes, CallTypes

(***************************************************************************)
(* Each call's state follows its thread; the end of the process ends all.  *)
(***************************************************************************)
LEMMA CallsStep == Inv1 /\ [WALNext]_walVars => CallsMatch'
<1> SUFFICES ASSUME Inv1, [WALNext]_walVars PROVE CallsMatch'
  OBVIOUS
<1> USE DEF walVars, stateVars, bufferVars, diskVars, historyVars
<1>0. CallsMatch /\ unit \in [Thread -> Unit \cup {NoUnit}]
  BY DEF Inv1, WALTypeOK
<1>1. ASSUME NEW th \in Thread, NEW kind \in Kind, NEW t \in Tx \cup {NoTx},
             Begin(th, kind, t)
      PROVE  CallsMatch'
  <2> DEFINE u == [kind |-> kind, lsn |-> current_lsn, tx |-> t]
  <2>1. u \in Unit /\ u.kind = kind /\ u.tx = t
    BY <1>1 DEF Begin, Unit
  <2>2. /\ pc' = [pc EXCEPT ![th] = "write"] /\ unit' = [unit EXCEPT ![th] = u]
        /\ is_open /\ is_open' = is_open /\ (kind = "checkpoint") = (t = NoTx)
    BY <1>1 DEF Begin
  <2> HIDE DEF u
  <2> QED
    BY <1>0, <2>1, <2>2 DEF CallsMatch
<1>2. ASSUME NEW th \in Thread, NEW next \in {"idle", "header", "sync"},
             pc[th] # "idle",
             pc' = [pc EXCEPT ![th] = next], is_open' = is_open,
             next = "idle" => unit' = [unit EXCEPT ![th] = NoUnit],
             next # "idle" => unit' = unit,
             next = "header" => unit[th].kind = "checkpoint",
             next = "sync" => unit[th].kind \in {"commit", "checkpoint"}
      PROVE  CallsMatch'
  BY <1>0, <1>2 DEF CallsMatch
<1>3. ASSUME NEW th \in Thread, WriteRecord(th) PROVE CallsMatch'
  <2>1. CASE /\ pc' = [pc EXCEPT ![th] = "idle"]
             /\ unit' = [unit EXCEPT ![th] = NoUnit]
    BY <1>2, <1>3, <2>1 DEF WriteRecord
  <2>2. CASE /\ pc' = [pc EXCEPT ![th] = NextStep(unit[th].kind)] /\ unit' = unit
             /\ NextStep(unit[th].kind) # "idle"
    <3>1. unit[th].kind \in Kind
      BY <1>0, <1>3 DEF WriteRecord, CallsMatch, Unit
    <3>2. /\ NextStep(unit[th].kind) \in {"header", "sync"}
          /\ NextStep(unit[th].kind) = "header" => unit[th].kind = "checkpoint"
          /\ NextStep(unit[th].kind) = "sync" => unit[th].kind = "commit"
      BY <2>2, <3>1 DEF NextStep, Kind
    <3> QED
      BY <1>2, <1>3, <2>2, <3>2 DEF WriteRecord
  <2> QED
    BY <1>3, <2>1, <2>2 DEF WriteRecord, Return
<1>4. ASSUME NEW th \in Thread, WriteHeader(th) PROVE CallsMatch'
  BY <1>0, <1>2, <1>4 DEF WriteHeader, CallsMatch
<1>5. ASSUME NEW th \in Thread, ForceSync(th) PROVE CallsMatch'
  BY <1>2, <1>5, ForceSyncMoves
<1>6. CASE LogOperation \/ RecoverFromLog \/ UNCHANGED walVars
  BY <1>0, <1>6 DEF LogOperation, RecoverFromLog, CallsMatch
<1>7. CASE Close \/ Crash
  BY <1>7 DEF Close, Crash, Ended, CallsMatch
<1>8. CASE Open
  BY <1>0, <1>8 DEF Open, OpenRest, CallsMatch
<1> QED
  BY <1>1, <1>3, <1>4, <1>5, <1>6, <1>7, <1>8 DEF WALNext

(***************************************************************************)
(* The header goes to the file with or before the first record.            *)
(***************************************************************************)
LEMMA HeaderStep == Inv1 /\ [WALNext]_walVars => HeaderMatch'
<1> SUFFICES ASSUME Inv1, [WALNext]_walVars PROVE HeaderMatch'
  OBVIOUS
<1> USE DEF walVars, stateVars, bufferVars, diskVars, historyVars, HeaderMatch, Refused
<1>0. /\ HeaderMatch /\ SeqsOK /\ CallsMatch
      /\ file_header \in 0 .. NoHeader /\ NoHeader \in Nat \ {0}
      /\ is_open \in BOOLEAN /\ failed \in BOOLEAN /\ header_pending \in BOOLEAN
      /\ broken \in BOOLEAN
  BY DEF Inv1, WALTypeOK, NoHeader
<1>1. ASSUME NEW th \in Thread, NEW kind \in Kind, NEW t \in Tx \cup {NoTx},
             Begin(th, kind, t)
      PROVE  HeaderMatch'
  BY <1>0, <1>1 DEF Begin, CallsMatch
<1>2. ASSUME NEW th \in Thread, WriteRecord(th) PROVE HeaderMatch'
  BY <1>0, <1>2 DEF WriteRecord, Return, CallsMatch, Fails
<1>3. ASSUME NEW th \in Thread, WriteHeader(th) PROVE HeaderMatch'
  <2>1. unit[th].lsn \in Lsn /\ is_open /\ ~ Refused
    BY <1>0, <1>3 DEF WriteHeader, CallsMatch, Unit
  <2>2. unit[th].lsn # NoHeader
    BY <2>1 DEF Lsn, NoHeader
  <2> QED
    BY <1>0, <1>3, <2>1, <2>2 DEF WriteHeader, Fails
<1>4. ASSUME NEW th \in Thread, ForceSync(th) PROVE HeaderMatch'
  <2>1. is_open /\ ~ Refused
    BY <1>0, <1>4 DEF ForceSync, CallsMatch
  <2>2. CASE ~ failed /\ Flushed(pending) /\ UNCHANGED <<failed, broken>>
    <3>1. file_header' # NoHeader /\ ~ header_pending' /\ pending' = <<>>
      BY <1>0, <2>1, <2>2 DEF Flushed
    <3> QED
      BY <1>0, <1>4, <2>1, <2>2, <3>1 DEF ForceSync
  <2>3. CASE Fails /\ UNCHANGED <<bufferVars, diskVars, synced>>
    BY <1>0, <1>4, <2>1, <2>3 DEF ForceSync, Fails
  <2> QED
    BY <1>4, <2>2, <2>3 DEF ForceSync
<1>5. CASE LogOperation
  BY <1>0, <1>5 DEF LogOperation, Fails
<1>6. CASE RecoverFromLog \/ UNCHANGED walVars
  BY <1>0, <1>6 DEF RecoverFromLog
<1>7. CASE Close \/ Crash
  <2>1. /\ ~ is_open' /\ synced' = synced /\ ~ broken'
        /\ is_open
    BY <1>7 DEF Close, Crash, Ended
  <2>2. ASSUME NEW s, Left(s), ~ header_pending /\ file_header = NoHeader => s = <<>>
        PROVE  HeaderMatch'
    <3>1. CASE file_header' = NoHeader
      <4>1. file = <<>> /\ synced = {} /\ s = <<>>
        BY <1>0, <2>2, <3>1 DEF Left
      <4>2. file' = <<>>
        BY <2>2, <4>1 DEF Left
      <4> QED
        BY <2>1, <2>2, <4>1, <4>2 DEF Left
    <3>2. CASE file_header' # NoHeader
      BY <2>1, <2>2, <3>2 DEF Left
    <3> QED
      BY <3>1, <3>2
  <2>3. ~ header_pending /\ file_header = NoHeader => pending = <<>>
    BY <1>0, <2>1
  <2>4. ASSUME pending = <<>>
        PROVE  \A s : (\E n \in 0 .. Len(pending) : s = SubSeq(pending, 1, n)) => s = <<>>
    <3>1. Len(pending) = 0
      BY <2>4
    <3> QED
      BY <2>4, <3>1, SubSeqEmpty
  <2>5. CASE Crash
    <3>1. PICK s \in Parts(pending) : Left(s)
      BY <2>5 DEF Crash
    <3>2. pending = <<>> => s = <<>>
      <4> SUFFICES ASSUME pending = <<>> PROVE s = <<>>
        OBVIOUS
      <4>1. 0 .. Len(pending) - 1 = {}
        BY DEF Parts
      <4> QED
        BY <2>4, <3>1, <4>1 DEF Parts
    <3> QED
      BY <2>2, <2>3, <3>1, <3>2
  <2>6. CASE Close
    <3>1. CASE ~ failed /\ Flushed(pending)
      <4>1. file_header' # NoHeader /\ ~ header_pending' /\ pending' = <<>>
        BY <1>0, <2>1, <3>1 DEF Flushed
      <4> QED
        BY <2>1, <4>1
    <3>2. CASE WrittenAgain
      <4>0. PICK n \in 0 .. Len(pending), m \in 0 .. Len(pending),
                 cut \in {<<>>, <<Cut>>} :
               \E again \in Parts(SubSeq(pending, m + 1, Len(pending))) :
                   /\ n = Len(pending) => cut = <<>> /\ again = <<>>
                   /\ Left(SubSeq(pending, 1, n) \o cut \o again)
        BY <3>2 DEF WrittenAgain
      <4>1. PICK again \in Parts(SubSeq(pending, m + 1, Len(pending))) :
               /\ n = Len(pending) => cut = <<>> /\ again = <<>>
               /\ Left(SubSeq(pending, 1, n) \o cut \o again)
        BY <4>0
      <4>2. ASSUME pending = <<>> PROVE SubSeq(pending, 1, n) \o cut \o again = <<>>
        <5>1. n = 0 /\ Len(pending) = 0
          BY <4>2
        <5>2. SubSeq(pending, 1, n) = <<>>
          BY <5>1, SubSeqEmpty
        <5> QED
          BY <4>1, <5>1, <5>2
      <4> QED
        BY <2>2, <2>3, <4>1, <4>2
    <3> QED
      BY <2>6, <3>1, <3>2 DEF Close
  <2> QED
    BY <1>7, <2>5, <2>6
<1>8. CASE Open
  <2>1. /\ is_open' /\ failed' = (file_header = NoHeader)
        /\ ~ broken /\ ~ is_open
        /\ UNCHANGED <<file, file_header, pending, header_pending, synced, broken, pc>>
    BY <1>0, <1>8 DEF Open, OpenRest
  <2> QED
    BY <1>0, <2>1 DEF CallsMatch
<1> QED
  BY <1>1, <1>2, <1>3, <1>4, <1>5, <1>6, <1>7, <1>8 DEF WALNext

LEMMA Inv1Step == Inv1 /\ [WALNext]_walVars => Inv1'
  BY SeqsAlways, TypesStep, CallsStep, HeaderStep DEF Inv1

LEMMA Inv1Always == WALSpec => []Inv1
  BY Inv1Init, Inv1Step, PTL DEF WALSpec

(***************************************************************************)
(* Type correctness of the log's members, file and calls: current_lsn_     *)
(* never falls below 1 and every number read back is one handed out.       *)
(***************************************************************************)
THEOREM WALTypes == WALSpec => []WALTypeOK
  BY Inv1Always, PTL DEF Inv1

(***************************************************************************)
(* A log that refuses every write from its opening on, because the header  *)
(* of its file never reached it, has lost nothing that was flushed: it     *)
(* holds no record, and no commit's flush had succeeded.  A log whose      *)
(* stream fails later refuses its calls with records in the file, and a    *)
(* commit whose failing flush log_commit_transaction dropped may be lost   *)
(* (wal_manager.cpp:61-63, :120, :274-277, :382, :473).                    *)
(***************************************************************************)
THEOREM RefusalHarmless == WALSpec => []RefusalLosesNothing
<1>1. Inv1 => RefusalLosesNothing
  BY DEF Inv1, HeaderMatch, Refused, RefusalLosesNothing
<1> QED
  BY <1>1, Inv1Always, PTL

----------------------------------------------------------------------------
(***************************************************************************)
(* The file only grows; the log does too, but for what a crash takes from  *)
(* the buffer.                                                             *)
(***************************************************************************)
Extends(s, t) == Len(s) <= Len(t) /\ \A i \in 1 .. Len(s) : t[i] = s[i]

LEMMA ExtendsKeeps ==
  ASSUME NEW s \in Seq(Record), NEW t \in Seq(Record), Extends(s, t)
  PROVE  /\ DOMAIN s \subseteq DOMAIN t /\ Units(s) \subseteq Units(t)
         /\ \A i \in DOMAIN s : /\ t[i] = s[i]
                                /\ Units(SubSeq(t, 1, i)) = Units(SubSeq(s, 1, i))
<1>1. /\ Len(s) \in Nat /\ Len(t) \in Nat
      /\ DOMAIN s = 1 .. Len(s) /\ DOMAIN t = 1 .. Len(t)
  BY LenProperties
<1>2. ASSUME NEW i \in 1 .. Len(s)
      PROVE  Units(SubSeq(t, 1, i)) = Units(SubSeq(s, 1, i))
  <2>1. i \in 0 .. Len(s) /\ i \in 0 .. Len(t)
    BY <1>1 DEF Extends
  <2>2. /\ Units(SubSeq(s, 1, i)) = {s[j] : j \in 1 .. i}
        /\ Units(SubSeq(t, 1, i)) = {t[j] : j \in 1 .. i}
    BY <2>1, UnitsByIndex
  <2>3. \A j \in 1 .. i : t[j] = s[j]
    BY <1>1, <2>1 DEF Extends
  <2> QED
    BY <2>2, <2>3
<1> QED
  BY <1>1, <1>2 DEF Extends, Units

LEMMA Joining ==
  ASSUME NEW s \in Seq(Record), NEW t \in Seq(Record)
  PROVE  Extends(s, s \o t)
<1>1. Len(s) \in Nat /\ Len(t) \in Nat
  BY LenProperties
<1> QED
  BY <1>1, Joined DEF Extends

LEMMA Appending ==
  ASSUME SeqsOK, NEW u \in Record, Appended(u)
  PROVE  /\ Log' = Append(Log, u) /\ Extends(Log, Log')
         /\ Log' \in Seq(Record) /\ Len(Log') \in DOMAIN Log'
         /\ Log'[Len(Log')] = u /\ Units(Log') = Units(Log) \cup {u}
<1>1. file \in Seq(Record) /\ pending \in Seq(Record) /\ Log \in Seq(Record)
  BY SeqUnits
<1>2. u \in Record
  OBVIOUS
<1>3. pending' = pending \o <<u>> /\ file' = file
  BY <1>1, <1>2, AppendIsConcat DEF Appended
<1>4. <<u>> \in Seq(Record)
  BY <1>2
<1>5. Log' = Log \o <<u>>
  BY <1>1, <1>3, <1>4, ConcatAssociative DEF Log
<1>6. Log' = Append(Log, u)
  BY <1>1, <1>2, <1>5, AppendIsConcat
<1>7. Len(Log) \in Nat
  BY <1>1, LenProperties
<1>8. /\ Log' \in Seq(Record) /\ Len(Log') = Len(Log) + 1 /\ Log'[Len(Log) + 1] = u
      /\ \A i \in 1 .. Len(Log) : Log'[i] = Log[i]
  BY <1>1, <1>2, <1>6, AppendProperties
<1>9. DOMAIN Log' = 1 .. Len(Log')
  BY <1>8, LenProperties
<1>10. Units(Log') = Units(Log) \cup Units(<<u>>)
  <2> DEFINE one == <<u>>
  <2>1. one \in Seq(Record) /\ Log' = Log \o one
    BY <1>4, <1>5
  <2> HIDE DEF one
  <2>2. Units(Log \o one) = Units(Log) \cup Units(one)
    BY <1>1, <2>1, Joined
  <2> QED
    BY <2>1, <2>2 DEF one
<1>11. Units(<<u>>) = {u}
  BY DEF Units
<1> QED
  BY <1>6, <1>7, <1>8, <1>9, <1>10, <1>11 DEF Extends

LEMMA Moves ==
  ASSUME SeqsOK, SeqsOK',
         \/ Kept \/ Drained
         \/ \E u \in Record : Appended(u)
         \/ \E s \in Seq(Record) : Wrote(s)
  PROVE  /\ Extends(file, file')
         /\ Kept \/ Drained => Log' = Log
         /\ Kept \/ Drained \/ (\E u \in Record : Appended(u)) => Extends(Log, Log')
         /\ pending' = <<>> => Log' = file'
<1>1. /\ file \in Seq(Record) /\ pending \in Seq(Record) /\ Log \in Seq(Record)
      /\ file' \in Seq(Record)
  BY SeqUnits DEF SeqsOK
<1>2. Extends(file, file) /\ Extends(file, Log) /\ Extends(Log, Log)
  <2>1. Len(file) \in Nat /\ Len(Log) \in Nat
    BY <1>1, LenProperties
  <2>2. Extends(file, file) /\ Extends(Log, Log)
    BY <2>1 DEF Extends
  <2> QED
    BY <1>1, <2>2, Joining DEF Log
<1>3. pending' = <<>> => Log' = file'
  BY <1>1, ConcatEmptySeq DEF Log
<1>4. Kept \/ Drained => Log' = Log
  BY <1>3 DEF Kept, Drained, Log
<1>5. \A u \in Record : Appended(u) => Extends(Log, Log')
  BY Appending
<1>6. Extends(file, file')
  <2>1. \A s \in Seq(Record) : Wrote(s) => Extends(file, file')
    BY <1>1, Joining DEF Wrote
  <2> QED
    BY <1>2, <2>1 DEF Kept, Drained, Appended
<1> QED
  BY <1>2, <1>3, <1>4, <1>5, <1>6

(***************************************************************************)
(* Second layer: durability.  Every record accepted is in the log, every   *)
(* transaction is in the hands of one thread, which a committed one never  *)
(* is, and a commit record about to be flushed has the transaction's       *)
(* records before it.  A failed write leaves all this as it is: the buffer *)
(* keeps what the file may lack.                                           *)
(***************************************************************************)
CommittedIn(s, t, accepted) ==
    \E i \in DOMAIN s :
        /\ s[i].kind = "commit" /\ s[i].tx = t
        /\ {u \in accepted : u.tx = t} \subseteq Units(SubSeq(s, 1, i))

AckedInLog == acked \subseteq Units(Log)

OneThreadPerTx ==
    \A th \in Thread :
        /\ unit[th].tx \notin committed
        /\ \A o \in Thread : o # th /\ unit[o].tx = unit[th].tx => unit[th].tx = NoTx

CommitReady ==
    \A th \in Thread :
        pc[th] = "sync" /\ unit[th].kind = "commit" => CommittedIn(Log, unit[th].tx, acked)

Durable == \A t \in synced : CommittedIn(file, t, acked)

Inv2 == AckedInLog /\ OneThreadPerTx /\ CommitReady /\ Durable

LEMMA Inv2Init == WALInit => Inv2
<1> SUFFICES ASSUME WALInit PROVE Inv2
  OBVIOUS
<1>1. acked = {} /\ committed = {} /\ synced = {} /\ \A th \in Thread : unit[th] = NoUnit /\ pc[th] = "idle"
  BY DEF WALInit
<1> QED
  BY <1>1 DEF Inv2, AckedInLog, OneThreadPerTx, CommitReady, Durable, NoUnit

\* A commit stays where it is in a log that grows, if no record is added to it.
LEMMA CommitStays ==
  ASSUME NEW s \in Seq(Record), NEW r \in Seq(Record), Extends(s, r),
         NEW t, NEW A, NEW B, {u \in B : u.tx = t} \subseteq A, CommittedIn(s, t, A)
  PROVE  CommittedIn(r, t, B)
<1>1. PICK i \in DOMAIN s : /\ s[i].kind = "commit" /\ s[i].tx = t
                            /\ {u \in A : u.tx = t} \subseteq Units(SubSeq(s, 1, i))
  BY DEF CommittedIn
<1>2. i \in DOMAIN r /\ r[i] = s[i] /\ Units(SubSeq(r, 1, i)) = Units(SubSeq(s, 1, i))
  BY ExtendsKeeps
<1> QED
  BY <1>1, <1>2 DEF CommittedIn

(***************************************************************************)
(* Steps that neither accept a record nor commit, nor end the process.     *)
(***************************************************************************)
LEMMA LogIsSeq ==
  ASSUME NEW f \in Seq(Record), NEW q \in Seq(Record)
  PROVE  f \o q \in Seq(Record)
  BY Joined

LEMMA QuietStep ==
  ASSUME Inv1, Inv1', Inv2, UNCHANGED <<acked, committed, synced>>,
         Extends(file, file'), Extends(Log, Log'),
         \A th \in Thread :
            /\ unit[th].tx' \notin committed
            /\ \A o \in Thread : o # th /\ unit[o].tx' = unit[th].tx' => unit[th].tx' = NoTx
            /\ pc'[th] = "sync" /\ unit'[th].kind = "commit" =>
                   pc[th] = "sync" /\ unit[th] = unit'[th]
  PROVE  Inv2'
<1>1. /\ file \in Seq(Record) /\ file' \in Seq(Record)
      /\ Log \in Seq(Record) /\ Log' \in Seq(Record)
  BY LogIsSeq DEF Inv1, SeqsOK, Log
<1>2. AckedInLog'
  BY <1>1, ExtendsKeeps DEF Inv2, AckedInLog
<1>3. OneThreadPerTx'
  BY DEF OneThreadPerTx
<1>4. CommitReady'
  <2> SUFFICES ASSUME NEW th \in Thread, pc'[th] = "sync", unit'[th].kind = "commit"
               PROVE  CommittedIn(Log, unit[th].tx, acked)'
    BY DEF CommitReady
  <2>1. CommittedIn(Log, unit[th].tx, acked) /\ unit'[th] = unit[th]
    BY DEF Inv2, CommitReady
  <2> QED
    BY <1>1, <2>1, CommitStays
<1>5. Durable'
  <2> SUFFICES ASSUME NEW t \in synced PROVE CommittedIn(file, t, acked)'
    BY DEF Durable
  <2>1. CommittedIn(file, t, acked)
    BY DEF Inv2, Durable
  <2> QED
    BY <1>1, <2>1, CommitStays
<1> QED
  BY <1>2, <1>3, <1>4, <1>5 DEF Inv2

(***************************************************************************)
(* A record is appended: its transaction's only thread does it, and the    *)
(* commit record comes after the others.                                   *)
(***************************************************************************)
LEMMA AcceptStep ==
  ASSUME Inv1, Inv1', Inv2, NEW th \in Thread, WriteRecord(th), Appended(unit[th]),
         unit[th] \in Unit
  PROVE  Inv2'
<1> DEFINE x == unit[th]
<1>0. \/ acked' = acked \cup {x}
      \/ x.kind = "cut"
  <2>1. pending \in Seq(Record) /\ Cut \in Record /\ x \in Record
    BY DEF Inv1, SeqsOK, Record
  <2>2. Append(pending, x) = Append(pending, Cut) => x = Cut
    BY <2>1, AppendProperties
  <2>3. Append(pending, x) # pending
    BY <2>1, AppendProperties, LenProperties
  <2>4. Cut.kind = "cut"
    BY DEF Cut
  <2> QED
    BY <2>2, <2>3, <2>4 DEF WriteRecord, Appended
<1>1. /\ x \in Unit /\ x.tx \notin committed
      /\ Appended(x) /\ acked' = acked \cup {x}
      /\ committed' = committed /\ synced' = synced
      /\ x.kind = "checkpoint" <=> x.tx = NoTx
  <2>1. x.kind # "cut"
    BY DEF Unit, Kind
  <2> QED
    BY <1>0, <2>1 DEF WriteRecord, Inv1, CallsMatch, Inv2, OneThreadPerTx
<1>2. \/ unit' = unit /\ pc' = [pc EXCEPT ![th] = NextStep(x.kind)]
      \/ unit' = [unit EXCEPT ![th] = NoUnit] /\ pc' = [pc EXCEPT ![th] = "idle"]
  BY DEF WriteRecord, Return
<1>3. /\ file \in Seq(Record) /\ Log \in Seq(Record) /\ file' = file
      /\ Log' \in Seq(Record) /\ Extends(Log, Log')
      /\ Len(Log') \in DOMAIN Log' /\ Log'[Len(Log')] = x
      /\ Units(Log') = Units(Log) \cup {x}
  BY <1>1, Appending, LogIsSeq DEF Inv1, SeqsOK, Log, Appended
<1>4. Extends(file, file)
  BY <1>3, LenProperties DEF Extends
<1>5. NoTx \notin committed /\ pc \in [Thread -> {"idle", "write", "header", "sync"}]
      /\ unit \in [Thread -> Unit \cup {NoUnit}]
  BY DEF Inv1, WALTypeOK, CallsMatch
<1> HIDE DEF x
<1>6. AckedInLog'
  BY <1>1, <1>3 DEF Inv2, AckedInLog
<1>7. OneThreadPerTx'
  BY <1>1, <1>2, <1>5 DEF Inv2, OneThreadPerTx, NoUnit
<1>8. CommitReady'
  <2> SUFFICES ASSUME NEW o \in Thread, pc'[o] = "sync", unit'[o].kind = "commit"
               PROVE  CommittedIn(Log', unit'[o].tx, acked')
    BY DEF CommitReady
  <2>1. CASE o = th
    <3>1. unit'[o] = x
      BY <1>2, <1>5, <2>1 DEF NoUnit, x
    <3>2. Units(SubSeq(Log', 1, Len(Log'))) = Units(Log')
      BY <1>3, SubSeqFull
    <3>3. acked' \subseteq Units(Log')
      BY <1>6 DEF AckedInLog
    <3> QED
      BY <1>3, <3>1, <3>2, <3>3 DEF CommittedIn
  <2>2. CASE o # th
    <3>1. unit'[o] = unit[o] /\ pc[o] = "sync"
      BY <1>2, <1>5, <2>2
    <3>2. CommittedIn(Log, unit[o].tx, acked)
      BY <3>1 DEF Inv2, CommitReady
    <3>3. unit[o].tx # x.tx
      <4>1. unit[o].tx # NoTx
        BY <3>1 DEF Inv1, CallsMatch
      <4> QED
        BY <4>1, <2>2 DEF Inv2, OneThreadPerTx, x
    <3> QED
      BY <1>1, <1>3, <3>1, <3>2, <3>3, CommitStays
  <2> QED
    BY <2>1, <2>2
<1>9. Durable'
  <2> SUFFICES ASSUME NEW t \in synced PROVE CommittedIn(file, t, acked')
    BY <1>1, <1>3 DEF Durable
  <2>1. CommittedIn(file, t, acked) /\ t # x.tx
    BY <1>1 DEF Inv2, Durable, Inv1, WALTypeOK
  <2> QED
    BY <1>1, <1>3, <1>4, <2>1, CommitStays
<1> QED
  BY <1>6, <1>7, <1>8, <1>9 DEF Inv2

(***************************************************************************)
(* The flush.  When it succeeds the log is the file, and the commit it     *)
(* makes durable is one that was ready; when it fails the commit counts as *)
(* returned and no more.                                                   *)
(***************************************************************************)
LEMMA SyncStep ==
  ASSUME Inv1, Inv1', Inv2, NEW th \in Thread, ForceSync(th)
  PROVE  Inv2'
<1>1. /\ \/ Drained /\ synced' = synced \cup Commits(unit[th])
         \/ Kept /\ synced' = synced
      /\ acked' = acked /\ committed' = committed \cup Commits(unit[th])
      /\ unit' = [unit EXCEPT ![th] = NoUnit] /\ pc' = [pc EXCEPT ![th] = "idle"]
      /\ pc[th] = "sync"
  BY ForceSyncMoves
<1>2. /\ file \in Seq(Record) /\ Log \in Seq(Record) /\ file' \in Seq(Record)
      /\ Extends(file, file') /\ Log' = Log
  <2>1. SeqsOK /\ SeqsOK' /\ (Kept \/ Drained)
    BY <1>1 DEF Inv1
  <2> QED
    BY <2>1, Moves, SeqUnits DEF SeqsOK
<1>3. /\ pc \in [Thread -> {"idle", "write", "header", "sync"}]
      /\ unit \in [Thread -> Unit \cup {NoUnit}] /\ committed' \subseteq Tx
  BY DEF Inv1, WALTypeOK, CallsMatch
<1>4. AckedInLog'
  BY <1>1, <1>2 DEF Inv2, AckedInLog
<1>5. OneThreadPerTx'
  <2> SUFFICES ASSUME NEW o \in Thread
               PROVE  /\ unit'[o].tx \notin committed'
                      /\ \A v \in Thread : v # o /\ unit'[v].tx = unit'[o].tx
                                               => unit'[o].tx = NoTx
    BY DEF OneThreadPerTx
  <2>1. CASE o = th
    BY <1>1, <1>3, <2>1 DEF NoUnit
  <2>2. CASE o # th
    <3>1. unit'[o] = unit[o] /\ unit[o].tx \notin committed
          /\ (unit[o].tx = unit[th].tx => unit[o].tx = NoTx)
      BY <1>1, <1>3, <2>2 DEF Inv2, OneThreadPerTx
    <3>2. unit[o].tx \notin committed'
      BY <1>1, <1>3, <3>1 DEF Commits
    <3>3. \A v \in Thread : v # o /\ unit'[v].tx = unit'[o].tx => unit'[o].tx = NoTx
      BY <1>1, <1>3, <2>2, <3>1 DEF Inv2, OneThreadPerTx, NoUnit
    <3> QED
      BY <3>1, <3>2, <3>3
  <2> QED
    BY <2>1, <2>2
<1>6. CommitReady'
  BY <1>1, <1>2, <1>3 DEF Inv2, CommitReady
<1>7. Durable'
  <2> SUFFICES ASSUME NEW t \in synced' PROVE CommittedIn(file', t, acked)
    BY <1>1 DEF Durable
  <2>1. CASE t \in synced
    <3>1. CommittedIn(file, t, acked)
      BY <2>1 DEF Inv2, Durable
    <3> QED
      BY <1>2, <3>1, CommitStays
  <2>2. CASE t \notin synced
    <3>1. Drained /\ t \in Commits(unit[th])
      BY <1>1, <2>2
    <3>2. file' = Log /\ t = unit[th].tx /\ unit[th].kind = "commit"
      BY <3>1 DEF Drained, Commits
    <3> QED
      BY <1>1, <3>2 DEF Inv2, CommitReady
  <2> QED
    BY <2>1, <2>2
<1> QED
  BY <1>4, <1>5, <1>6, <1>7 DEF Inv2

(***************************************************************************)
(* The end of the process: what the file had, it keeps.                    *)
(***************************************************************************)
LEMMA EndStep ==
  ASSUME Inv1, Inv1', Inv2, Close \/ Crash
  PROVE  Inv2'
<1>1. /\ \A th \in Thread : pc'[th] = "idle" /\ unit'[th] = NoUnit
      /\ acked' = {u \in acked : u.tx \in synced}
      /\ committed' = committed /\ synced' = synced
  BY DEF Close, Crash, Ended
<1>2. /\ SeqsOK /\ SeqsOK' /\ pending' = <<>>
      /\ Drained \/ \E s \in Seq(Record) : Wrote(s)
  BY EndWrites DEF Inv1, Drained, Wrote
<1>3. /\ file \in Seq(Record) /\ file' \in Seq(Record)
      /\ Extends(file, file') /\ Log' = file'
  BY <1>2, Moves DEF SeqsOK
<1>4. Durable'
  <2> SUFFICES ASSUME NEW t \in synced PROVE CommittedIn(file', t, acked')
    BY <1>1 DEF Durable
  <2>1. CommittedIn(file, t, acked)
    BY DEF Inv2, Durable
  <2> QED
    BY <1>1, <1>3, <2>1, CommitStays
<1>5. AckedInLog'
  <2> SUFFICES ASSUME NEW u \in acked' PROVE u \in Units(file')
    BY <1>3 DEF AckedInLog
  <2>1. u.tx \in synced' /\ u \in acked'
    BY <1>1
  <2>2. PICK i \in DOMAIN file' : u \in Units(SubSeq(file', 1, i))
    BY <1>4, <2>1 DEF Durable, CommittedIn
  <2>3. DOMAIN file' = 1 .. Len(file') /\ Len(file') \in Nat
    BY <1>3, LenProperties
  <2>4. /\ Units(SubSeq(file', 1, i)) = {file'[j] : j \in 1 .. i}
        /\ Units(file') = {file'[j] : j \in 1 .. Len(file')}
    <3>1. i \in 0 .. Len(file')
      BY <2>3
    <3> QED
      BY <1>3, <3>1, UnitsByIndex
  <2> QED
    BY <2>2, <2>3, <2>4
<1>6. OneThreadPerTx' /\ CommitReady'
  <2>1. NoTx \notin committed
    BY DEF Inv1, WALTypeOK
  <2> QED
    BY <1>1, <2>1 DEF OneThreadPerTx, CommitReady, NoUnit
<1> QED
  BY <1>4, <1>5, <1>6 DEF Inv2

LEMMA Inv2Step == Inv1 /\ Inv1' /\ Inv2 /\ [WALNext]_walVars => Inv2'
<1> SUFFICES ASSUME Inv1, Inv1', Inv2, [WALNext]_walVars PROVE Inv2'
  OBVIOUS
<1> USE DEF walVars, stateVars, bufferVars, diskVars, historyVars
<1>0. /\ SeqsOK /\ SeqsOK' /\ OneThreadPerTx /\ NoTx \notin committed
      /\ pc \in [Thread -> {"idle", "write", "header", "sync"}]
      /\ unit \in [Thread -> Unit \cup {NoUnit}]
  BY DEF Inv1, Inv2, WALTypeOK, CallsMatch
<1>1. /\ Kept \/ Drained => Extends(file, file') /\ Extends(Log, Log')
      /\ \A u \in Record : Appended(u) => Extends(file, file') /\ Extends(Log, Log')
  BY <1>0, Moves
<1>2. ASSUME NEW th \in Thread, NEW kind \in Kind, NEW t \in Tx \cup {NoTx},
             Begin(th, kind, t)
      PROVE  Inv2'
  <2>1. Kept /\ UNCHANGED <<acked, committed, synced>>
    BY <1>2 DEF Begin, Kept
  <2>2. /\ t \notin committed /\ \A o \in Thread : t # NoTx => unit[o].tx # t
        /\ pc' = [pc EXCEPT ![th] = "write"]
        /\ \A o \in Thread \ {th} : unit'[o] = unit[o]
        /\ unit'[th].tx = t
    BY <1>0, <1>2 DEF Begin
  <2>3. \A o \in Thread :
          /\ unit[o].tx' \notin committed
          /\ \A v \in Thread : v # o /\ unit[v].tx' = unit[o].tx' => unit[o].tx' = NoTx
    BY <1>0, <2>2 DEF OneThreadPerTx
  <2>4. \A o \in Thread : pc'[o] = "sync" => pc[o] = "sync" /\ unit[o] = unit'[o]
    BY <1>0, <2>2
  <2> QED
    BY <1>1, <2>1, <2>3, <2>4, QuietStep
<1>3. ASSUME NEW th \in Thread, WriteRecord(th) PROVE Inv2'
  <2>1. CASE unit[th] \in Unit /\ Appended(unit[th])
    BY <1>3, <2>1, AcceptStep
  <2>2. CASE /\ Kept \/ Appended(Cut)
             /\ acked' = acked /\ pc' = [pc EXCEPT ![th] = "idle"]
             /\ unit' = [unit EXCEPT ![th] = NoUnit]
    <3>1. UNCHANGED <<acked, committed, synced>> /\ Extends(file, file') /\ Extends(Log, Log')
      <4>1. Cut \in Record
        BY DEF Record
      <4> QED
        BY <1>1, <1>3, <2>2, <4>1 DEF WriteRecord
    <3>2. \A o \in Thread :
            /\ unit[o].tx' \notin committed
            /\ \A v \in Thread : v # o /\ unit[v].tx' = unit[o].tx' => unit[o].tx' = NoTx
            /\ pc'[o] = "sync" => pc[o] = "sync" /\ unit[o] = unit'[o]
      BY <1>0, <2>2 DEF OneThreadPerTx, NoUnit
    <3> QED
      BY <3>1, <3>2, QuietStep
  <2> QED
    BY <1>3, <2>1, <2>2, WriteRecordMoves
<1>4. ASSUME NEW th \in Thread, WriteHeader(th) PROVE Inv2'
  <2>1. /\ Kept \/ Drained
        /\ UNCHANGED <<acked, committed, synced, unit>>
        /\ pc' = [pc EXCEPT ![th] = "sync"]
    BY <1>4, WriteHeaderMoves
  <2>2. unit[th].kind = "checkpoint"
    BY <1>4 DEF WriteHeader, Inv1, CallsMatch
  <2>3. \A o \in Thread :
          /\ unit[o].tx' \notin committed
          /\ \A v \in Thread : v # o /\ unit[v].tx' = unit[o].tx' => unit[o].tx' = NoTx
          /\ pc'[o] = "sync" /\ unit'[o].kind = "commit" =>
                 pc[o] = "sync" /\ unit[o] = unit'[o]
    BY <1>0, <2>1, <2>2 DEF OneThreadPerTx
  <2> QED
    BY <1>1, <2>1, <2>3, QuietStep
<1>5. ASSUME NEW th \in Thread, ForceSync(th) PROVE Inv2'
  BY <1>5, SyncStep
<1>6. ASSUME UNCHANGED <<acked, committed, synced, unit, pc>>, Extends(file, file'),
             Extends(Log, Log')
      PROVE  Inv2'
  <2>1. \A o \in Thread :
          /\ unit[o].tx' \notin committed
          /\ \A v \in Thread : v # o /\ unit[v].tx' = unit[o].tx' => unit[o].tx' = NoTx
          /\ pc'[o] = "sync" => pc[o] = "sync" /\ unit[o] = unit'[o]
    BY <1>0, <1>6 DEF OneThreadPerTx
  <2> QED
    BY <1>6, <2>1, QuietStep
<1>7. CASE LogOperation
  <2>1. /\ \E u \in {Text, Cut} : Appended(u)
        /\ UNCHANGED <<acked, committed, synced, unit, pc>>
    BY <1>7, LogOperationMoves
  <2>2. {Text, Cut} \subseteq Record
    BY DEF Record
  <2> QED
    BY <1>1, <1>6, <2>1, <2>2
<1>8. CASE RecoverFromLog \/ Open \/ UNCHANGED walVars
  <2>1. Kept /\ UNCHANGED <<acked, committed, synced, unit, pc>>
    BY <1>8 DEF RecoverFromLog, Open, OpenRest, Kept
  <2> QED
    BY <1>1, <1>6, <2>1
<1>9. CASE Close \/ Crash
  BY <1>9, EndStep
<1> QED
  BY <1>2, <1>3, <1>4, <1>5, <1>7, <1>8, <1>9 DEF WALNext

(***************************************************************************)
(* Durability of a flushed commit: once log_commit_transaction has         *)
(* returned and its force_sync reported no error, the file holds the       *)
(* commit record and, before it, every record the log had accepted of the  *)
(* transaction, whatever other threads log, whatever writes fail later and *)
(* wherever the process crashes (wal_manager.cpp:118-121, :274-277).       *)
(* Nothing of the kind holds of a commit whose flush failed, which returns *)
(* success all the same.                                                   *)
(***************************************************************************)
THEOREM Durability == WALSpec => []CommitDurable
<1>1. Inv2 => CommitDurable
  BY DEF Inv2, Durable, CommittedIn, CommitDurable
<1>2. WALSpec => []Inv2
  BY Inv2Init, Inv2Step, Inv1Always, PTL DEF WALSpec
<1> QED
  BY <1>1, <1>2, PTL

----------------------------------------------------------------------------
(***************************************************************************)
(* The checkpoint in the header: its record is in the log before the call  *)
(* reaches the header, and seeking there writes the buffer out.            *)
(***************************************************************************)
CheckpointInLog == \A th \in Thread : pc[th] = "header" => unit[th] \in Units(Log)

LEMMA CheckpointStep ==
  Inv1 /\ Inv1' /\ CheckpointInLog /\ CheckpointOnDisk /\ [WALNext]_walVars
      => CheckpointInLog' /\ CheckpointOnDisk'
<1> SUFFICES ASSUME Inv1, Inv1', CheckpointInLog, CheckpointOnDisk, [WALNext]_walVars
             PROVE  CheckpointInLog' /\ CheckpointOnDisk'
  OBVIOUS
<1> USE DEF walVars, stateVars, bufferVars, diskVars, historyVars
<1>0. /\ SeqsOK /\ SeqsOK' /\ file \in Seq(Record) /\ file' \in Seq(Record)
      /\ Log \in Seq(Record) /\ Log' \in Seq(Record)
      /\ pc \in [Thread -> {"idle", "write", "header", "sync"}]
      /\ unit \in [Thread -> Unit \cup {NoUnit}]
      /\ Text \in Record /\ Cut \in Record /\ Unit \subseteq Record
  BY LogIsSeq DEF Inv1, SeqsOK, Log, WALTypeOK, CallsMatch, Record
<1>1. ASSUME Extends(file, file'), file_header' \notin Lsn \/ file_header' = file_header
      PROVE  CheckpointOnDisk'
  BY <1>0, <1>1, ExtendsKeeps DEF CheckpointOnDisk
<1>2. ASSUME Extends(Log, Log'),
             \A th \in Thread : pc'[th] = "header" => pc[th] = "header" /\ unit'[th] = unit[th]
      PROVE  CheckpointInLog'
  BY <1>0, <1>2, ExtendsKeeps DEF CheckpointInLog
<1>3. /\ Kept \/ Drained => Extends(file, file') /\ Extends(Log, Log')
      /\ \A u \in Record : Appended(u) => Extends(file, file') /\ Extends(Log, Log')
  BY <1>0, Moves
<1>4. 0 \notin Lsn /\ NoHeader \notin Lsn
  BY DEF Lsn, NoHeader
<1>5. ASSUME NEW th \in Thread, NEW kind \in Kind, NEW t \in Tx \cup {NoTx},
             Begin(th, kind, t)
      PROVE  CheckpointInLog' /\ CheckpointOnDisk'
  BY <1>0, <1>1, <1>2, <1>3, <1>5 DEF Begin, Kept
<1>6. ASSUME NEW th \in Thread, WriteRecord(th)
      PROVE  CheckpointInLog' /\ CheckpointOnDisk'
  <2>0. file_header' = file_header
    BY <1>6 DEF WriteRecord
  <2>1. CASE /\ Kept \/ Appended(Cut)
             /\ pc' = [pc EXCEPT ![th] = "idle"] /\ unit' = [unit EXCEPT ![th] = NoUnit]
    <3>1. Extends(file, file') /\ Extends(Log, Log')
      BY <1>0, <1>3, <2>1
    <3>2. \A o \in Thread : pc'[o] = "header" => pc[o] = "header" /\ unit'[o] = unit[o]
      BY <1>0, <2>1
    <3> QED
      BY <1>1, <1>2, <2>0, <3>1, <3>2
  <2>2. CASE unit[th] \in Unit /\ Appended(unit[th])
    <3>1. /\ Units(Log') = Units(Log) \cup {unit[th]}
          /\ Extends(file, file')
      BY <1>0, <1>3, <2>2, Appending
    <3>2. \A o \in Thread : pc'[o] = "header" =>
              unit'[o] = unit[o] /\ (o = th \/ pc[o] = "header")
      BY <1>0, <1>6 DEF WriteRecord, Return
    <3> QED
      BY <1>1, <2>0, <3>1, <3>2 DEF CheckpointInLog
  <2> QED
    BY <1>6, <2>1, <2>2, WriteRecordMoves
<1>7. ASSUME NEW th \in Thread, WriteHeader(th)
      PROVE  CheckpointInLog' /\ CheckpointOnDisk'
  <2>1. /\ Kept \/ Drained
        /\ unit' = unit /\ pc' = [pc EXCEPT ![th] = "sync"]
    BY <1>7, WriteHeaderMoves
  <2>2. \A o \in Thread : pc'[o] = "header" => pc[o] = "header" /\ unit'[o] = unit[o]
    BY <1>0, <2>1
  <2>3. \/ file' = Log /\ file_header' = unit[th].lsn
        \/ file_header' \in {0, file_header}
    BY <1>7 DEF WriteHeader, Log
  <2>4. unit[th] \in Units(Log) /\ unit[th].kind = "checkpoint"
    BY <1>7 DEF WriteHeader, CheckpointInLog, Inv1, CallsMatch
  <2>5. CheckpointOnDisk'
    <3>1. CASE file' = Log /\ file_header' = unit[th].lsn
      BY <2>4, <3>1 DEF CheckpointOnDisk
    <3>2. CASE file_header' \in {0, file_header}
      BY <1>1, <1>3, <1>4, <2>1, <3>2
    <3> QED
      BY <2>3, <3>1, <3>2
  <2> QED
    BY <1>2, <1>3, <2>1, <2>2, <2>5
<1>8. ASSUME NEW th \in Thread, ForceSync(th)
      PROVE  CheckpointInLog' /\ CheckpointOnDisk'
  <2>1. /\ Kept \/ Drained
        /\ unit' = [unit EXCEPT ![th] = NoUnit] /\ pc' = [pc EXCEPT ![th] = "idle"]
        /\ file_header' \in {0, file_header}
    BY <1>8, ForceSyncMoves
  <2>2. \A o \in Thread : pc'[o] = "header" => pc[o] = "header" /\ unit'[o] = unit[o]
    BY <1>0, <2>1
  <2> QED
    BY <1>1, <1>2, <1>3, <1>4, <2>1, <2>2
<1>9. CASE LogOperation
  <2>1. /\ \E u \in {Text, Cut} : Appended(u)
        /\ UNCHANGED <<file_header, pc, unit>>
    BY <1>9, LogOperationMoves
  <2>2. Extends(Log, Log') /\ Extends(file, file')
    BY <1>0, <1>3, <2>1
  <2> QED
    BY <1>1, <1>2, <2>1, <2>2
<1>10. CASE RecoverFromLog \/ Open \/ UNCHANGED walVars
  BY <1>1, <1>2, <1>3, <1>10 DEF RecoverFromLog, Open, OpenRest, Kept
<1>11. CASE Close \/ Crash
  <2>1. CheckpointInLog'
    BY <1>11 DEF Close, Crash, Ended, CheckpointInLog
  <2>2. Drained \/ \E s \in Seq(Record) : Wrote(s)
    BY <1>0, <1>11, EndWrites
  <2>3. Extends(file, file')
    BY <1>0, <2>2, Moves
  <2>4. file_header' \in {0, NoHeader, file_header}
    BY <1>11 DEF Close, Crash, Flushed, WrittenAgain, Left
  <2> QED
    BY <1>1, <1>4, <2>1, <2>3, <2>4
<1> QED
  BY <1>5, <1>6, <1>7, <1>8, <1>9, <1>10, <1>11 DEF WALNext

(***************************************************************************)
(* The header in the file never names a checkpoint whose record is not in  *)
(* the file, whichever write fails and wherever the process crashes        *)
(* (wal_manager.cpp:247-261).                                              *)
(***************************************************************************)
THEOREM CheckpointRecorded == WALSpec => []CheckpointOnDisk
<1>1. WALInit => CheckpointInLog /\ CheckpointOnDisk
  BY DEF WALInit, CheckpointInLog, CheckpointOnDisk, NoHeader, Lsn
<1> QED
  BY <1>1, CheckpointStep, Inv1Always, PTL DEF WALSpec

----------------------------------------------------------------------------
(***************************************************************************)
(* Third layer: the numbers.  As long as everything in the file can be     *)
(* read back and no recovery has missed a record, current_lsn_ is above    *)
(* every number in the log and in hand, and a record about to be written   *)
(* is numbered above what its transaction has logged.                      *)
(***************************************************************************)
Sound == AllReadable(file) /\ ~ early

Ordered(s) ==
    \A i, j \in DOMAIN s :
        i < j /\ s[i].lsn # 0 /\ s[j].lsn # 0 =>
            /\ s[i].lsn = s[j].lsn => s[i] = s[j]
            /\ s[i].tx = s[j].tx /\ s[i].tx # NoTx =>
                   s[i].lsn < s[j].lsn \/ \E k \in 1 .. i : s[k] = s[j]

After(u, v) ==
    u.lsn # 0 => /\ u.lsn # v.lsn
                 /\ u.tx = v.tx /\ u.tx # NoTx => u.lsn < v.lsn

LogBelow == is_open => \A u \in Units(Log) : u.lsn < current_lsn

WritersAhead ==
    \A th \in Thread : pc[th] = "write" =>
        /\ unit[th].lsn < current_lsn
        /\ \A u \in Units(Log) : After(u, unit[th])
        /\ \A o \in Thread : o # th /\ pc[o] = "write" => unit[o].lsn # unit[th].lsn

Inv3 == Sound => Ordered(Log) /\ LogBelow /\ WritersAhead

LEMMA ReadablePart ==
  ASSUME NEW s \in Seq(Record), NEW r \in Seq(Record), Extends(s, r)
  PROVE  /\ AllReadable(r) => AllReadable(s)
         /\ Ordered(r) => Ordered(s)
<1>1. /\ Len(s) \in Nat /\ Len(r) \in Nat /\ Len(s) <= Len(r)
      /\ DOMAIN s = 1 .. Len(s) /\ DOMAIN r = 1 .. Len(r)
      /\ \A i \in 1 .. Len(s) : r[i] = s[i]
  BY LenProperties DEF Extends
<1>2. ASSUME AllReadable(r), NEW i \in 1 .. Len(s) PROVE ReadableAt(s, i)
  <2>1. ReadableAt(r, i) /\ r[i] = s[i]
    BY <1>1, <1>2 DEF AllReadable
  <2>2. i > 1 => r[i - 1] = s[i - 1]
    BY <1>1
  <2> QED
    BY <2>1, <2>2 DEF ReadableAt
<1>3. Ordered(r) => Ordered(s)
  <2> SUFFICES ASSUME Ordered(r) PROVE Ordered(s)
    OBVIOUS
  <2> SUFFICES ASSUME NEW i \in DOMAIN s, NEW j \in DOMAIN s, i < j,
                      s[i].lsn # 0, s[j].lsn # 0
               PROVE  /\ s[i].lsn = s[j].lsn => s[i] = s[j]
                      /\ s[i].tx = s[j].tx /\ s[i].tx # NoTx =>
                             s[i].lsn < s[j].lsn \/ \E k \in 1 .. i : s[k] = s[j]
    BY DEF Ordered
  <2>1. \A k \in DOMAIN s : k \in DOMAIN r /\ r[k] = s[k]
    BY <1>1
  <2>2. \A k \in 1 .. i : k \in DOMAIN s
    BY <1>1
  <2>3. /\ r[i].lsn = r[j].lsn => r[i] = r[j]
        /\ r[i].tx = r[j].tx /\ r[i].tx # NoTx =>
               r[i].lsn < r[j].lsn \/ \E k \in 1 .. i : r[k] = r[j]
    BY <2>1 DEF Ordered
  <2> QED
    BY <2>1, <2>2, <2>3
<1> QED
  BY <1>1, <1>2, <1>3 DEF AllReadable

LEMMA OrderedAppend ==
  ASSUME NEW s \in Seq(Record), NEW u \in Record, Ordered(s),
         \A v \in Units(s) : After(v, u)
  PROVE  Ordered(Append(s, u))
<1> DEFINE r == Append(s, u)
<1>1. /\ Len(s) \in Nat /\ DOMAIN s = 1 .. Len(s)
      /\ r \in Seq(Record) /\ Len(r) = Len(s) + 1
      /\ \A i \in 1 .. Len(s) : r[i] = s[i]
      /\ r[Len(s) + 1] = u
  BY LenProperties, AppendProperties
<1>2. DOMAIN r = 1 .. Len(s) + 1
  BY <1>1, LenProperties
<1> HIDE DEF r
<1> SUFFICES ASSUME NEW i \in 1 .. Len(s) + 1, NEW j \in 1 .. Len(s) + 1, i < j,
                    r[i].lsn # 0, r[j].lsn # 0
             PROVE  /\ r[i].lsn = r[j].lsn => r[i] = r[j]
                    /\ r[i].tx = r[j].tx /\ r[i].tx # NoTx =>
                           r[i].lsn < r[j].lsn \/ \E k \in 1 .. i : r[k] = r[j]
  BY <1>2 DEF Ordered, r
<1>3. i \in 1 .. Len(s) /\ r[i] = s[i]
  BY <1>1
<1>4. CASE j = Len(s) + 1
  <2>1. s[i] \in Units(s)
    BY <1>1, <1>3 DEF Units
  <2>2. After(s[i], u) /\ r[j] = u
    BY <1>1, <1>4, <2>1
  <2> QED
    BY <1>3, <2>2 DEF After
<1>5. CASE j # Len(s) + 1
  <2>1. j \in 1 .. Len(s) /\ r[j] = s[j]
    BY <1>1, <1>5
  <2>2. \A k \in 1 .. i : r[k] = s[k]
    BY <1>1, <1>3
  <2>3. /\ s[i].lsn = s[j].lsn => s[i] = s[j]
        /\ s[i].tx = s[j].tx /\ s[i].tx # NoTx =>
               s[i].lsn < s[j].lsn \/ \E k \in 1 .. i : s[k] = s[j]
    BY <1>1, <1>3, <2>1 DEF Ordered
  <2> QED
    BY <1>3, <2>1, <2>2, <2>3
<1> QED
  BY <1>4, <1>5

LEMMA Inv3Init == WALInit => Inv3
<1> SUFFICES ASSUME WALInit PROVE Inv3
  OBVIOUS
<1>1. file = <<>> /\ pending = <<>> /\ \A th \in Thread : pc[th] = "idle"
  BY DEF WALInit
<1>2. Log = <<>>
  BY <1>1, ConcatEmptySeq, EmptySeq DEF Log
<1> QED
  BY <1>1, <1>2 DEF Inv3, Ordered, LogBelow, WritersAhead, Units

(***************************************************************************)
(* A file that ends in a part of the log that was already there is in      *)
(* order: what it holds twice is the same record.                          *)
(***************************************************************************)
LEMMA RepeatOrdered ==
  ASSUME NEW s \in Seq(Record), Ordered(s), NEW r \in Seq(Record),
         NEW a \in 0 .. Len(s), NEW b \in 0 .. a, NEW c \in b .. Len(s),
         Len(r) = a + (c - b),
         \A i \in 1 .. a : r[i] = s[i],
         \A i \in 1 .. c - b : r[a + i] = s[b + i]
  PROVE  Ordered(r)
<1>1. /\ Len(s) \in Nat /\ a \in Nat /\ b \in Nat /\ c \in Nat
      /\ DOMAIN s = 1 .. Len(s) /\ DOMAIN r = 1 .. a + (c - b)
  BY LenProperties
<1> DEFINE p(i) == IF i <= a THEN i ELSE b + (i - a)
<1>2. ASSUME NEW i \in DOMAIN r
      PROVE  p(i) \in DOMAIN s /\ p(i) <= i /\ r[i] = s[p(i)]
  <2>1. CASE i <= a
    BY <1>1, <1>2, <2>1
  <2>2. CASE ~ (i <= a)
    <3> DEFINE k == i - a
    <3>1. k \in 1 .. c - b /\ i = a + k /\ p(i) = b + k
      BY <1>1, <1>2, <2>2
    <3>2. b + k \in 1 .. Len(s) /\ b + k <= i
      BY <1>1, <3>1
    <3>3. r[a + k] = s[b + k]
      BY <3>1
    <3> QED
      BY <1>1, <3>1, <3>2, <3>3
  <2> QED
    BY <2>1, <2>2
<1>3. ASSUME NEW i \in DOMAIN r, NEW k \in 1 .. p(i)
      PROVE  \E l \in 1 .. i : r[l] = s[k]
  <2>1. CASE k <= a
    <3>1. k \in 1 .. i /\ k \in 1 .. a
      BY <1>1, <1>2, <1>3, <2>1
    <3> QED
      BY <3>1
  <2>2. CASE ~ (k <= a)
    <3>1. ~ (i <= a) /\ p(i) = b + (i - a)
      BY <1>1, <1>3, <2>2
    <3> DEFINE m == k - b
    <3>2. m \in 1 .. c - b /\ a + m \in 1 .. i /\ k = b + m
      BY <1>1, <1>3, <2>2, <3>1
    <3>3. r[a + m] = s[k]
      BY <3>2
    <3> QED
      BY <3>2, <3>3
  <2> QED
    BY <1>1, <2>1, <2>2
<1>4. ASSUME NEW i \in DOMAIN r, NEW j \in DOMAIN r, i < j, p(j) < p(i)
      PROVE  p(j) \in 1 .. i /\ r[p(j)] = s[p(j)]
  <2>1. i <= a /\ p(i) = i
    BY <1>1, <1>4
  <2>2. p(j) \in 1 .. a /\ p(j) \in 1 .. i
    BY <1>1, <1>2, <1>4, <2>1
  <2> QED
    BY <2>2
<1> SUFFICES ASSUME NEW i \in DOMAIN r, NEW j \in DOMAIN r, i < j,
                    r[i].lsn # 0, r[j].lsn # 0
             PROVE  /\ r[i].lsn = r[j].lsn => r[i] = r[j]
                    /\ r[i].tx = r[j].tx /\ r[i].tx # NoTx =>
                           r[i].lsn < r[j].lsn \/ \E k \in 1 .. i : r[k] = r[j]
  BY DEF Ordered
<1> HIDE DEF p
<1>5. PICK x : x = p(i)
  OBVIOUS
<1>6. PICK y : y = p(j)
  OBVIOUS
<1>7. /\ x \in 1 .. Len(s) /\ y \in 1 .. Len(s) /\ r[i] = s[x] /\ r[j] = s[y]
      /\ x \in Nat /\ y \in Nat
      /\ \A k \in 1 .. x : \E l \in 1 .. i : r[l] = s[k]
      /\ y < x => y \in 1 .. i /\ r[y] = s[y]
      /\ i \in 1 .. i
  <2>1. x \in 1 .. Len(s) /\ r[i] = s[x]
    BY <1>1, <1>2, <1>5
  <2>2. y \in 1 .. Len(s) /\ r[j] = s[y]
    BY <1>1, <1>2, <1>6
  <2>3. \A k \in 1 .. x : \E l \in 1 .. i : r[l] = s[k]
    BY <1>3, <1>5
  <2>4. y < x => y \in 1 .. i /\ r[y] = s[y]
    BY <1>4, <1>5, <1>6
  <2>5. i \in 1 .. i
    BY <1>1
  <2> QED
    BY <1>1, <2>1, <2>2, <2>3, <2>4, <2>5
<1>8. CASE x < y
  <2>1. /\ x \in DOMAIN s /\ y \in DOMAIN s
        /\ s[x].lsn # 0 /\ s[y].lsn # 0
    BY <1>1, <1>7
  <2>2. /\ s[x].lsn = s[y].lsn => s[x] = s[y]
        /\ s[x].tx = s[y].tx /\ s[x].tx # NoTx =>
               s[x].lsn < s[y].lsn \/ \E k \in 1 .. x : s[k] = s[y]
    BY <1>8, <2>1 DEF Ordered
  <2> QED
    BY <1>7, <2>2
<1>9. CASE x = y
  BY <1>7, <1>9
<1>10. CASE y < x
  <2>1. s[y].lsn = s[x].lsn => s[y] = s[x]
    BY <1>1, <1>7, <1>10 DEF Ordered
  <2> QED
    BY <1>7, <1>10, <2>1
<1> QED
  BY <1>7, <1>8, <1>9, <1>10

(***************************************************************************)
(* What the end of the process leaves of a log in order is in order, if it *)
(* leaves no unit that is cut.                                             *)
(***************************************************************************)
LEMMA NothingCut ==
  ASSUME NEW s \in Seq(Record), AllReadable(s)
  PROVE  Cut \notin Units(s)
<1>1. \A i \in DOMAIN s : s[i].kind # "cut"
  BY DEF AllReadable, ReadableAt
<1> QED
  BY <1>1 DEF Units, Cut

LEMMA PieceIs ==
  ASSUME NEW n \in 0 .. Len(pending), NEW m \in 0 .. n,
         NEW q \in 0 .. Len(pending) - m, SeqsOK
  PROVE  LET t == Piece(pending, n, m, q)
         IN  /\ t \in Seq(Record) /\ Len(t) = n + q
             /\ \A i \in 1 .. n : t[i] = pending[i]
             /\ \A i \in 1 .. q : t[n + i] = pending[m + i]
<1>1. /\ pending \in Seq(Record) /\ Len(pending) \in Nat /\ n \in Nat /\ m \in Nat /\ q \in Nat
      /\ m \in 0 .. Len(pending)
  BY LenProperties DEF SeqsOK
<1> DEFINE b == SubSeq(pending, 1, n)
           r == Rest(pending, m)
           e == SubSeq(r, 1, q)
<1>2. b \in Seq(Record) /\ Len(b) = n /\ \A i \in 1 .. n : b[i] = pending[i]
  BY <1>1, UnitsByIndex
<1>3. /\ r \in Seq(Record) /\ Len(r) = Len(pending) - m
      /\ \A i \in 1 .. Len(pending) - m : r[i] = pending[m + i]
  BY <1>1, RestIs
<1> HIDE DEF b, r
<1>4. e \in Seq(Record) /\ Len(e) = q /\ \A i \in 1 .. q : e[i] = r[i]
  <2>1. q \in 0 .. Len(r)
    BY <1>3
  <2> QED
    BY <1>3, <2>1, UnitsByIndex
<1> HIDE DEF e
<1>5. /\ b \o e \in Seq(Record) /\ Len(b \o e) = n + q
      /\ \A i \in 1 .. n + q : (b \o e)[i] = IF i <= n THEN b[i] ELSE e[i - n]
  BY <1>2, <1>4, ConcatProperties
<1>6. \A i \in 1 .. q : (b \o e)[n + i] = e[i]
  <2> SUFFICES ASSUME NEW i \in 1 .. q PROVE (b \o e)[n + i] = e[i]
    OBVIOUS
  <2> DEFINE k == n + i
  <2>1. k \in 1 .. n + q /\ ~ (k <= n) /\ k - n = i
    BY <1>1
  <2> HIDE DEF k
  <2>2. (b \o e)[k] = e[k - n]
    BY <1>5, <2>1
  <2> QED
    BY <2>1, <2>2 DEF k
<1>7. \A i \in 1 .. n : (b \o e)[i] = b[i]
  BY <1>1, <1>5
<1>8. \A i \in 1 .. q : i \in 1 .. Len(pending) - m
  BY <1>1
<1>9. Piece(pending, n, m, q) = b \o e
  BY DEF Piece, b, e, r
<1>10. PICK t : t = Piece(pending, n, m, q)
  OBVIOUS
<1>11. t \in Seq(Record) /\ Len(t) = n + q
  BY <1>5, <1>9, <1>10
<1>12. \A i \in 1 .. n : t[i] = pending[i]
  BY <1>2, <1>7, <1>9, <1>10
<1>13. \A i \in 1 .. q : t[n + i] = pending[m + i]
  BY <1>3, <1>4, <1>6, <1>8, <1>9, <1>10
<1> QED
  BY <1>10, <1>11, <1>12, <1>13

LEMMA EndOrdered ==
  ASSUME SeqsOK, SeqsOK', Close \/ Crash, Ordered(Log), AllReadable(file')
  PROVE  Log' = file' /\ Ordered(file')
<1>1. /\ file \in Seq(Record) /\ pending \in Seq(Record) /\ Log \in Seq(Record)
      /\ file' \in Seq(Record) /\ Len(file) \in Nat /\ Len(pending) \in Nat
  BY SeqUnits, LenProperties DEF SeqsOK
<1>2. pending' = <<>>
  BY EndWrites DEF Drained, Wrote
<1>3. Log' = file'
  BY <1>1, <1>2, ConcatEmptySeq DEF Log
<1>4. CASE Drained
  BY <1>3, <1>4 DEF Drained
<1>5. ASSUME NEW s \in Seq(Record), Wrote(s), Pieced(s) PROVE Ordered(file')
  <2>1. file' = file \o s /\ Units(file') = Units(file) \cup Units(s)
    BY <1>1, <1>5, Joined DEF Wrote
  <2>2. Cut \notin Units(s)
    BY <1>1, <2>1, NothingCut
  <2>3. PICK n \in 0 .. Len(pending), m \in 0 .. Len(pending) :
           /\ m <= n
           /\ \E q \in 0 .. Len(pending) - m : s = Piece(pending, n, m, q)
    BY <1>5, <2>2 DEF Pieced
  <2>4. PICK q \in 0 .. Len(pending) - m : s = Piece(pending, n, m, q)
    BY <2>3
  <2>5. m \in 0 .. n /\ n \in Nat /\ m \in Nat /\ q \in Nat
    BY <1>1, <2>3
  <2>6. /\ Len(s) = n + q /\ \A i \in 1 .. n : s[i] = pending[i]
        /\ \A i \in 1 .. q : s[n + i] = pending[m + i]
    BY <2>4, <2>5, PieceIs
  <2>7. PICK a : a = Len(file) + n
    OBVIOUS
  <2>8. PICK b : b = Len(file) + m
    OBVIOUS
  <2>9. PICK c : c = b + q
    OBVIOUS
  <2>10. /\ Len(Log) = Len(file) + Len(pending)
         /\ \A i \in 1 .. Len(file) + Len(pending) : Log[i] =
                IF i <= Len(file) THEN file[i] ELSE pending[i - Len(file)]
    BY <1>1, ConcatProperties DEF Log
  <2>11. /\ Len(file') = Len(file) + (n + q)
         /\ \A i \in 1 .. Len(file) + (n + q) : file'[i] =
                IF i <= Len(file) THEN file[i] ELSE s[i - Len(file)]
    <3>1. /\ Len(file \o s) = Len(file) + Len(s)
          /\ \A i \in 1 .. Len(file) + Len(s) : (file \o s)[i] =
                 IF i <= Len(file) THEN file[i] ELSE s[i - Len(file)]
      BY <1>1, <1>5, ConcatProperties
    <3>2. Len(s) = n + q
      BY <2>6
    <3> QED
      BY <2>1, <3>1, <3>2
  <2>12. /\ a \in 0 .. Len(Log) /\ b \in 0 .. a /\ c \in b .. Len(Log) /\ c - b = q
         /\ Len(file') = a + (c - b)
    <3>1. Len(Log) = Len(file) + Len(pending) /\ Len(file') = Len(file) + (n + q)
      BY <2>10, <2>11
    <3>2. /\ Len(file) \in Nat /\ Len(pending) \in Nat /\ n \in 0 .. Len(pending)
          /\ m \in 0 .. n /\ q \in 0 .. Len(pending) - m
      BY <1>1, <2>5
    <3> QED
      BY <2>7, <2>8, <2>9, <3>1, <3>2
  <2>13. ASSUME NEW i \in 1 .. a PROVE file'[i] = Log[i]
    <3>1. CASE i <= Len(file)
      <4>1. i \in 1 .. Len(file) + Len(pending) /\ i \in 1 .. Len(file) + (n + q)
        BY <1>1, <2>5, <2>7, <3>1
      <4> QED
        BY <2>10, <2>11, <3>1, <4>1
    <3>2. CASE ~ (i <= Len(file))
      <4>1. PICK k : k = i - Len(file)
        OBVIOUS
      <4>2. /\ k \in 1 .. n /\ i \in 1 .. Len(file) + Len(pending)
            /\ i \in 1 .. Len(file) + (n + q)
        BY <1>1, <2>3, <2>5, <2>7, <3>2, <4>1
      <4>3. file'[i] = s[k] /\ Log[i] = pending[k]
        BY <2>10, <2>11, <3>2, <4>1, <4>2
      <4> QED
        BY <2>6, <4>2, <4>3
    <3> QED
      BY <3>1, <3>2
  <2>14. ASSUME NEW i \in 1 .. c - b PROVE file'[a + i] = Log[b + i]
    <3>1. PICK k : k = n + i
      OBVIOUS
    <3>2. PICK l : l = m + i
      OBVIOUS
    <3>3. /\ i \in 1 .. q
          /\ a + i \in 1 .. Len(file) + (n + q) /\ ~ (a + i <= Len(file))
          /\ (a + i) - Len(file) = k
          /\ b + i \in 1 .. Len(file) + Len(pending) /\ ~ (b + i <= Len(file))
          /\ (b + i) - Len(file) = l
      BY <1>1, <2>3, <2>5, <2>7, <2>8, <2>12, <3>1, <3>2
    <3>4. PICK x : x = a + i
      OBVIOUS
    <3>5. PICK y : y = b + i
      OBVIOUS
    <3>6. file'[x] = s[k]
      BY <2>11, <3>3, <3>4
    <3>7. Log[y] = pending[l]
      BY <2>10, <3>3, <3>5
    <3>8. s[k] = pending[l]
      BY <2>6, <3>1, <3>2, <3>3
    <3> QED
      BY <3>4, <3>5, <3>6, <3>7, <3>8
  <2>15. PICK f : f = file'
    OBVIOUS
  <2>16. /\ f \in Seq(Record) /\ Len(f) = a + (c - b)
         /\ \A i \in 1 .. a : f[i] = Log[i]
         /\ \A i \in 1 .. c - b : f[a + i] = Log[b + i]
    BY <1>1, <2>12, <2>13, <2>14, <2>15
  <2>17. Ordered(f)
    BY <1>1, <2>12, <2>16, RepeatOrdered
  <2> QED
    BY <2>15, <2>17
<1> QED
  BY <1>3, <1>4, <1>5, EndWrites

LEMMA Inv3Step == Inv1 /\ Inv1' /\ Inv2 /\ Inv3 /\ [WALNext]_walVars => Inv3'
<1> SUFFICES ASSUME Inv1, Inv1', Inv2, Inv3, [WALNext]_walVars, Sound'
             PROVE  Ordered(Log)' /\ LogBelow' /\ WritersAhead'
  BY DEF Inv3
<1> USE DEF walVars, stateVars, bufferVars, diskVars, historyVars
<1>0. /\ SeqsOK /\ SeqsOK' /\ file \in Seq(Record) /\ file' \in Seq(Record)
      /\ Log \in Seq(Record) /\ Log' \in Seq(Record)
      /\ pc \in [Thread -> {"idle", "write", "header", "sync"}]
      /\ unit \in [Thread -> Unit \cup {NoUnit}]
      /\ current_lsn \in 1 .. MaxLsn + 1
      /\ Text \in Record /\ Cut \in Record /\ Unit \subseteq Record
  BY LogIsSeq DEF Inv1, SeqsOK, Log, WALTypeOK, CallsMatch, Record
<1>a. ASSUME Extends(file, file'), early' = early
      PROVE  Ordered(Log) /\ LogBelow /\ WritersAhead
  BY <1>0, <1>a, ReadablePart DEF Inv3, Sound
<1>b. Kept \/ Drained => Log' = Log /\ Extends(file, file')
  BY <1>0, Moves
<1>c. \A u \in Record : u.lsn \in 0 .. MaxLsn
  BY DEF Record, Unit, Lsn, Text, Cut
<1>d. Units(Log) \subseteq Record
  BY <1>0, UnitsByIndex
<1>e. \A th \in Thread : pc[th] = "write" => unit[th] \in Unit /\ unit[th].lsn \in Lsn
  BY DEF Inv1, CallsMatch, Unit
\* Steps that leave the log and the numbers, and bring no thread to a write.
<1>f. ASSUME Kept \/ Drained, early' = early,
             UNCHANGED <<current_lsn, is_open>>,
             \A th \in Thread : pc'[th] = "write" => pc[th] = "write" /\ unit'[th] = unit[th]
      PROVE  Ordered(Log)' /\ LogBelow' /\ WritersAhead'
  <2>1. Log' = Log /\ Ordered(Log) /\ LogBelow /\ WritersAhead
    BY <1>a, <1>b, <1>f
  <2> QED
    BY <1>f, <2>1 DEF LogBelow, WritersAhead
<1>1. ASSUME NEW th \in Thread, NEW kind \in Kind, NEW t \in Tx \cup {NoTx},
             Begin(th, kind, t)
      PROVE  Ordered(Log)' /\ LogBelow' /\ WritersAhead'
  <2>1. /\ Log' = Log /\ Ordered(Log) /\ LogBelow /\ WritersAhead /\ is_open
    BY <1>a, <1>b, <1>1 DEF Begin, Kept
  <2>2. /\ current_lsn' = current_lsn + 1 /\ current_lsn \in Nat \ {0}
        /\ pc' = [pc EXCEPT ![th] = "write"]
        /\ unit'[th].lsn = current_lsn
        /\ \A o \in Thread \ {th} : unit'[o] = unit[o] /\ pc'[o] = pc[o]
    BY <1>0, <1>1 DEF Begin
  <2>3. \A u \in Units(Log) : u.lsn \in Nat /\ u.lsn < current_lsn
    BY <1>c, <1>d, <2>1 DEF LogBelow
  <2>4. LogBelow'
    BY <2>1, <2>2, <2>3 DEF LogBelow
  <2>5. \A u \in Units(Log) : After(u, unit'[th])
    BY <2>2, <2>3 DEF After
  <2>6. \A o \in Thread \ {th} : pc[o] = "write" =>
            unit[o].lsn \in Nat /\ unit[o].lsn < current_lsn
    BY <1>e, <2>1 DEF WritersAhead, Lsn
  <2>7. WritersAhead'
    <3> SUFFICES ASSUME NEW o \in Thread, pc'[o] = "write"
                 PROVE  /\ unit'[o].lsn < current_lsn'
                        /\ \A u \in Units(Log) : After(u, unit'[o])
                        /\ \A v \in Thread : v # o /\ pc'[v] = "write" =>
                               unit'[v].lsn # unit'[o].lsn
      BY <2>1 DEF WritersAhead
    <3>1. CASE o = th
      BY <2>2, <2>5, <2>6, <3>1
    <3>2. CASE o # th
      <4>1. pc[o] = "write" /\ unit'[o] = unit[o]
        BY <2>2, <3>2
      <4>2. unit[o].lsn < current_lsn' /\ unit[o].lsn # current_lsn
        BY <2>2, <2>6, <3>2, <4>1
      <4>3. \A u \in Units(Log) : After(u, unit[o])
        BY <2>1, <4>1 DEF WritersAhead
      <4>4. ASSUME NEW v \in Thread, v # o, pc'[v] = "write"
            PROVE  unit'[v].lsn # unit'[o].lsn
        BY <2>1, <2>2, <4>1, <4>2, <4>4 DEF WritersAhead
      <4> QED
        BY <4>1, <4>2, <4>3, <4>4
    <3> QED
      BY <3>1, <3>2
  <2> QED
    BY <2>1, <2>4, <2>7
\* Steps that add to the log a unit without a number.
<1>g. ASSUME NEW u \in {Text, Cut}, Appended(u), UNCHANGED <<current_lsn, is_open, early>>,
             \A th \in Thread : pc'[th] = "write" => pc[th] = "write" /\ unit'[th] = unit[th]
      PROVE  Ordered(Log)' /\ LogBelow' /\ WritersAhead'
  <2>1. u \in Record /\ u.lsn = 0 /\ u.tx = NoTx
    BY <1>0, <1>g DEF Text, Cut
  <2>2. /\ Log' = Append(Log, u) /\ Units(Log') = Units(Log) \cup {u}
        /\ Extends(file, file')
    BY <1>0, <1>g, <2>1, Appending, Moves
  <2>3. Ordered(Log) /\ LogBelow /\ WritersAhead
    BY <1>a, <1>g, <2>2
  <2>4. \A v \in Units(Log) : ~ (v.tx = u.tx /\ v.tx # NoTx) /\ (v.lsn # 0 => v.lsn # u.lsn)
    BY <2>1
  <2>5. Ordered(Log')
    <3>1. \A v \in Units(Log) : After(v, u)
      BY <2>4 DEF After
    <3> QED
      BY <1>0, <2>1, <2>2, <2>3, <3>1, OrderedAppend
  <2>6. LogBelow' /\ WritersAhead'
    BY <1>0, <1>g, <2>1, <2>2, <2>3 DEF LogBelow, WritersAhead, After
  <2> QED
    BY <2>5, <2>6
<1>2. ASSUME NEW th \in Thread, WriteRecord(th), Kept \/ Appended(Cut),
             pc' = [pc EXCEPT ![th] = "idle"], unit' = [unit EXCEPT ![th] = NoUnit]
      PROVE  Ordered(Log)' /\ LogBelow' /\ WritersAhead'
  <2>1. UNCHANGED <<current_lsn, is_open, early>>
    BY <1>2 DEF WriteRecord
  <2>2. \A o \in Thread : pc'[o] = "write" => pc[o] = "write" /\ unit'[o] = unit[o]
    BY <1>0, <1>2
  <2> QED
    BY <1>2, <1>f, <1>g, <2>1, <2>2
<1>3. ASSUME NEW th \in Thread, WriteRecord(th), unit[th] \in Unit, Appended(unit[th])
      PROVE  Ordered(Log)' /\ LogBelow' /\ WritersAhead'
  <2> DEFINE x == unit[th]
  <2>1. /\ x \in Unit /\ Appended(x) /\ pc[th] = "write"
        /\ UNCHANGED <<current_lsn, is_open, early>>
    BY <1>3 DEF WriteRecord
  <2>2. /\ Log' = Append(Log, x) /\ Units(Log') = Units(Log) \cup {x} /\ Extends(file, file')
    BY <1>0, <2>1, Appending, Moves
  <2>3. Ordered(Log) /\ LogBelow /\ WritersAhead
    BY <1>a, <2>1, <2>2
  <2>4. x \in Record
    BY <2>1 DEF Record
  <2>5. \A u \in Units(Log) : After(u, x)
    BY <2>1, <2>3 DEF WritersAhead
  <2>6. Ordered(Log')
    BY <1>0, <2>2, <2>3, <2>4, <2>5, OrderedAppend
  <2>7. LogBelow'
    BY <2>1, <2>2, <2>3 DEF LogBelow, WritersAhead
  <2>8. \A o \in Thread : pc'[o] = "write" => o # th /\ pc[o] = "write" /\ unit'[o] = unit[o]
    BY <1>0, <1>3 DEF WriteRecord, Return, NextStep
  <2>9. \A o \in Thread : o # th /\ pc[o] = "write" => After(x, unit[o])
    <3> SUFFICES ASSUME NEW o \in Thread, o # th, pc[o] = "write" PROVE After(x, unit[o])
      OBVIOUS
    <3>1. x.lsn # unit[o].lsn
      BY <2>1, <2>3 DEF WritersAhead
    <3>2. x.tx = unit[o].tx => x.tx = NoTx
      BY DEF Inv2, OneThreadPerTx
    <3> QED
      BY <3>1, <3>2 DEF After
  <2>10. WritersAhead'
    <3> HIDE DEF x
    <3> QED
      BY <2>1, <2>2, <2>3, <2>8, <2>9 DEF WritersAhead
  <2> QED
    BY <2>6, <2>7, <2>10
<1>4. ASSUME NEW th \in Thread, WriteHeader(th) \/ ForceSync(th)
      PROVE  Ordered(Log)' /\ LogBelow' /\ WritersAhead'
  <2>1. (Kept \/ Drained) /\ UNCHANGED <<current_lsn, is_open, early>>
    BY <1>4, WriteHeaderMoves, ForceSyncMoves
  <2>2. \A o \in Thread : pc'[o] = "write" => pc[o] = "write" /\ unit'[o] = unit[o]
    BY <1>0, <1>4, WriteHeaderMoves, ForceSyncMoves
  <2> QED
    BY <1>f, <2>1, <2>2
<1>5. CASE LogOperation
  BY <1>5, <1>g, LogOperationMoves
<1>6. CASE RecoverFromLog
  <2>1. /\ pending = <<>> /\ \A th \in Thread : pc'[th] = "idle"
        /\ file' = file /\ pending' = pending /\ ~ early /\ AllReadable(file)
        /\ current_lsn' = MaxLsnIn(ReadablePrefix(file)) + 1
    BY <1>6 DEF RecoverFromLog, Sound
  <2>2. Log' = file /\ Log = file
    BY <1>0, <2>1, ConcatEmptySeq DEF Log
  <2>3. Ordered(Log)
    BY <2>1 DEF Inv3, Sound
  <2>4. \A u \in Units(file) : u.lsn < current_lsn'
    BY <1>0, <1>c, <1>d, <2>1, <2>2, ReadBack
  <2> QED
    BY <2>1, <2>2, <2>3, <2>4 DEF LogBelow, WritersAhead
<1>7. CASE Close \/ Crash
  <2>1. /\ ~ is_open' /\ \A th \in Thread : pc'[th] = "idle"
        /\ early' = early
    BY <1>7 DEF Close, Crash, Ended
  <2>2. Extends(file, file')
    BY <1>0, <1>7, EndWrites, Moves
  <2>3. Ordered(Log)
    BY <1>a, <2>1, <2>2
  <2>4. Ordered(Log')
    BY <1>0, <1>7, <2>3, EndOrdered DEF Sound
  <2> QED
    BY <2>1, <2>4 DEF LogBelow, WritersAhead
<1>8. CASE Open
  <2>1. /\ file' = file /\ pending = <<>> /\ pending' = <<>> /\ early' = early
        /\ \A th \in Thread : pc'[th] = "idle"
    BY <1>8 DEF Open, OpenRest, Inv1, HeaderMatch, CallsMatch
  <2>2. Log' = file /\ Log = file /\ AllReadable(file)
    BY <1>0, <2>1, ConcatEmptySeq DEF Log, Sound
  <2>3. Ordered(Log)
    BY <2>1, <2>2 DEF Inv3, Sound
  <2>4. \A u \in Units(file) : u.lsn < current_lsn'
    <3>1. CASE file_header = NoHeader
      <4>1. file = <<>>
        BY <3>1 DEF Inv1, HeaderMatch
      <4> QED
        BY <4>1 DEF Units
    <3>2. CASE file_header # NoHeader
      <4>1. current_lsn' = MaxLsnIn(ReadablePrefix(file)) + 1
        BY <1>8, <3>2 DEF Open
      <4> QED
        BY <1>0, <1>c, <1>d, <2>2, <4>1, ReadBack
    <3> QED
      BY <3>1, <3>2
  <2> QED
    BY <2>1, <2>2, <2>3, <2>4 DEF LogBelow, WritersAhead
<1>9. CASE UNCHANGED walVars
  BY <1>9, <1>f DEF Kept
<1>10. ASSUME NEW th \in Thread, WriteRecord(th)
       PROVE  Ordered(Log)' /\ LogBelow' /\ WritersAhead'
  BY <1>2, <1>3, <1>10, WriteRecordMoves
<1> QED
  BY <1>1, <1>4, <1>5, <1>6, <1>7, <1>8, <1>9, <1>10 DEF WALNext

(***************************************************************************)
(* While everything in the file can be read back and recover_from_log ran  *)
(* only with nothing unwritten, no two records have one number, across     *)
(* crashes, failed writes and openings, and a transaction's records keep   *)
(* the order of their numbers, each where it is first (wal_manager.cpp:75, *)
(* :97, :318).                                                             *)
(***************************************************************************)
THEOREM NumbersUnique == WALSpec => []LsnUnique
<1>1. Inv3 => LsnUnique
  BY DEF Inv3, Sound, Ordered, Log, LsnUnique
<1>2. WALSpec => []Inv2
  BY Inv2Init, Inv2Step, Inv1Always, PTL DEF WALSpec
<1>3. WALSpec => []Inv3
  BY <1>2, Inv3Init, Inv3Step, Inv1Always, PTL DEF WALSpec
<1> QED
  BY <1>1, <1>3, PTL
=============================================================================
