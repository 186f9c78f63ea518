------------------------ MODULE FilePageStore_proofs ------------------------
(***************************************************************************)
(* What FilePageStore guarantees for every number of pages, of writes the  *)
(* system fails and of times the file is opened.                           *)
(***************************************************************************)
EXTENDS FilePageStore, FiniteSetTheorems, TLAPS

(***************************************************************************)
(* The inductive invariant.  HeldInFile alone is not inductive: a page     *)
(* freed and then reused is held again, so what has to lie in the file is  *)
(* every page issued since the store was opened.                           *)
(***************************************************************************)
Issued == {p \in Page : ValidPage(p)}

IssuedInFile == ~ is_closed /\ faults = 0 => \A p \in Issued : p < file_size

\* A freed page is one that was issued, so reusing it issues nothing new.
FreeWasIssued == ~ is_closed => free_pages \subseteq Issued

ClosedHoldsNothing == is_closed => held = {}

FPInv == FPTypeOK /\ CountsMatch /\ IssuedInFile /\ FreeWasIssued /\ ClosedHoldsNothing

USE PageAssumption

(***************************************************************************)
(* The pages held are finitely many; taking or freeing one changes their   *)
(* number by one and keeps it between 0 and MaxPage.                       *)
(***************************************************************************)
LEMMA HeldCount ==
  ASSUME NEW S \in SUBSET Page
  PROVE  /\ IsFiniteSet(S) /\ Cardinality(S) \in 0 .. MaxPage
         /\ \A p \in Page \ S : Cardinality(S \cup {p}) = Cardinality(S) + 1
         /\ \A p \in S : Cardinality(S \ {p}) = Cardinality(S) - 1
<1>1. IsFiniteSet(Page) /\ Cardinality(Page) = MaxPage
  BY FS_Interval DEF Page
<1>2. IsFiniteSet(S) /\ Cardinality(S) <= MaxPage /\ Cardinality(S) \in Nat
  BY <1>1, FS_Subset, FS_CardinalityType
<1> QED
  BY <1>2, FS_AddElement, FS_RemoveElement

LEMMA NothingIssued ==
  ASSUME ~ is_closed, next_page_id = 1, allocated_pages = 0, free_pages = {}, held = {}
  PROVE  Issued = {} /\ CountsMatch
<1>1. Issued = {}
  BY DEF Issued, ValidPage, Page
<1> QED
  BY <1>1, FS_EmptySet DEF CountsMatch, Issued

LEMMA FPInvInit == FPInit => FPInv
<1> SUFFICES ASSUME FPInit PROVE FPInv
  OBVIOUS
<1>1. Issued = {} /\ CountsMatch
  BY NothingIssued DEF FPInit, FPInitOn
<1>2. FPTypeOK
  <2>1. bytes \in [Page -> Data \cup {Zero, Torn}]
    BY DEF FPInit, FPInitOn
  <2>2. is_closed \in BOOLEAN /\ page_buffer \in Data \cup {Zero, Torn}
    BY DEF FPInit, FPInitOn
  <2>3. held \in SUBSET Page /\ free_pages \in SUBSET Page
    BY DEF FPInit, FPInitOn
  <2>4. /\ next_page_id \in 1 .. MaxPage + 1
        /\ allocated_pages \in 0 .. MaxPage /\ file_size \in 0 .. MaxPage + 1
        /\ faults \in 0 .. MaxFaults /\ reopened \in 0 .. MaxReopened
    BY DEF FPInit, FPInitOn
  <2> QED
    BY <2>1, <2>2, <2>3, <2>4 DEF FPTypeOK
<1>3. FreeWasIssued
  BY DEF FPInit, FPInitOn, FreeWasIssued
<1> QED
  BY <1>1, <1>2, <1>3 DEF FPInit, FPInitOn, FPInv, IssuedInFile, ClosedHoldsNothing

(***************************************************************************)
(* One step per operation of the store (file_page_store.cpp:38-173).       *)
(***************************************************************************)
LEMMA FPInvStep == FPInv /\ [FPNext]_fpVars => FPInv'
<1> SUFFICES ASSUME FPInv, [FPNext]_fpVars PROVE FPInv'
  OBVIOUS
<1> USE DEF FPInv, FPTypeOK, Page, ValidPage, Issued, FreeWasIssued, fpVars, storeVars,
            fileVars
<1>1. ASSUME NEW p \in Page, ReusePage(p) PROVE FPInv'
  <2>1. held' \in SUBSET Page /\ p \notin held /\ p \in Issued
    BY <1>1 DEF ReusePage, CountsMatch
  <2>2. allocated_pages' = Cardinality(held') /\ allocated_pages' \in 0 .. MaxPage
    BY <1>1, <2>1, HeldCount DEF ReusePage, CountsMatch
  <2>3. CountsMatch'
    BY <1>1, <2>1, <2>2 DEF ReusePage, CountsMatch
  <2> QED
    BY <1>1, <2>1, <2>2, <2>3 DEF ReusePage, IssuedInFile, ClosedHoldsNothing
<1>2. ASSUME NEW p \in Page, NewPage(p) PROVE FPInv'
  <2>1. held' \in SUBSET Page /\ p \notin held
    BY <1>2 DEF NewPage, CountsMatch
  <2>2. allocated_pages' = Cardinality(held') /\ allocated_pages' \in 0 .. MaxPage
    <3>1. /\ ~ is_closed
          /\ held' = held \cup {p} /\ allocated_pages' = allocated_pages + 1
      BY <1>2 DEF NewPage
    <3>2. held \in SUBSET Page /\ allocated_pages = Cardinality(held)
      BY <3>1 DEF CountsMatch
    <3> QED
      BY <2>1, <3>1, <3>2, HeldCount
  <2>3. CountsMatch'
    BY <1>2, <2>1, <2>2 DEF NewPage, CountsMatch
  <2>4. IssuedInFile' /\ file_size' \in 0 .. MaxPage + 1 /\ faults' \in 0 .. MaxFaults
    BY <1>2 DEF NewPage, ExtendFile, IssuedInFile
  <2> QED
    BY <1>2, <2>1, <2>2, <2>3, <2>4 DEF NewPage, ClosedHoldsNothing
<1>3. ASSUME NEW p \in Page, DeallocatePage(p) PROVE FPInv'
  <2>1. held' \in SUBSET Page /\ p \in held
    BY <1>3 DEF DeallocatePage, CountsMatch
  <2>2. allocated_pages' = Cardinality(held') /\ allocated_pages' \in 0 .. MaxPage
    BY <1>3, <2>1, HeldCount DEF DeallocatePage, CountsMatch
  <2>3. CountsMatch'
    BY <1>3, <2>1, <2>2 DEF DeallocatePage, CountsMatch
  <2> QED
    BY <1>3, <2>1, <2>2, <2>3 DEF DeallocatePage, IssuedInFile, ClosedHoldsNothing
<1>4. ASSUME NEW p \in Page, ReadPage(p) PROVE FPInv'
  BY <1>4 DEF ReadPage, CountsMatch, IssuedInFile, ClosedHoldsNothing
<1>5. ASSUME NEW p \in Page, NEW d \in Data, WritePage(p, d) PROVE FPInv'
  <2>1. bytes' \in [Page -> Data \cup {Zero, Torn}]
    BY <1>5 DEF WritePage
  <2>2. IssuedInFile' /\ file_size' \in 0 .. MaxPage + 1 /\ faults' \in 0 .. MaxFaults
    <3>1. /\ \/ faults' = faults
             \/ faults < MaxFaults /\ faults' = faults + 1
          /\ \/ file_size' = file_size
             \/ file_size < p + 1 /\ file_size' = p + 1
      BY <1>5 DEF WritePage
    <3>2. UNCHANGED storeVars /\ UNCHANGED held
      BY <1>5 DEF WritePage
    <3>3. faults' \in 0 .. MaxFaults /\ file_size' \in 0 .. MaxPage + 1
      BY <3>1
    <3> QED
      BY <3>1, <3>2, <3>3 DEF IssuedInFile, storeVars
  <2> QED
    BY <1>5, <2>1, <2>2 DEF WritePage, CountsMatch, ClosedHoldsNothing
<1>6. CASE CloseStore
  BY <1>6 DEF CloseStore, CountsMatch, IssuedInFile, ClosedHoldsNothing
<1>7. CASE OpenStore
  <2>1. /\ ~ is_closed' /\ next_page_id' = 1 /\ allocated_pages' = 0
        /\ free_pages' = {} /\ held' = {}
    BY <1>7 DEF OpenStore, Opened
  <2>2. Issued' = {} /\ CountsMatch'
    <3>1. Issued' = {}
      BY <2>1
    <3> QED
      BY <2>1, <3>1, FS_EmptySet DEF CountsMatch
  <2>3. held' \in SUBSET Page /\ free_pages' \in SUBSET Page
    BY <2>1
  <2>4. FPTypeOK'
    <3>1. is_closed' \in BOOLEAN /\ page_buffer' \in Data \cup {Zero, Torn}
      BY <1>7 DEF OpenStore, Opened
    <3>2. /\ next_page_id' \in 1 .. MaxPage + 1 /\ allocated_pages' \in 0 .. MaxPage
          /\ reopened' \in 0 .. MaxReopened /\ UNCHANGED fileVars
      BY <1>7 DEF OpenStore, Opened
    <3> QED
      BY <2>3, <3>1, <3>2
  <2> QED
    BY <2>1, <2>2, <2>4 DEF IssuedInFile, ClosedHoldsNothing
<1>8. CASE UNCHANGED fpVars
  BY <1>8 DEF CountsMatch, IssuedInFile, ClosedHoldsNothing
<1> QED
  BY <1>1, <1>2, <1>3, <1>4, <1>5, <1>6, <1>7, <1>8 DEF FPNext, AllocatePage

LEMMA FPInvariant == FPSpec => []FPInv
  BY FPInvInit, FPInvStep, PTL DEF FPSpec

(***************************************************************************)
(* Type correctness: no operation takes a member out of its range; the     *)
(* unsigned allocated_pages_ never falls below zero                        *)
(* (file_page_store.cpp:58, :84).                                          *)
(***************************************************************************)
THEOREM FPTypes == FPSpec => []FPTypeOK
  BY FPInvariant, PTL DEF FPInv

(***************************************************************************)
(* While the store is open, callers hold exactly the pages issued and not  *)
(* freed, and allocated_pages_ counts them (file_page_store.cpp:58, :76,   *)
(* :84).                                                                   *)
(***************************************************************************)
THEOREM PageBooks == FPSpec => []CountsMatch
  BY FPInvariant, PTL DEF FPInv

(***************************************************************************)
(* As long as no file operation failed, a page a caller holds lies inside  *)
(* the file (ensure_file_size, file_page_store.cpp:55).                    *)
(***************************************************************************)
THEOREM HeldPagesReadable == FPSpec => []HeldInFile
<1>1. FPInv => HeldInFile
  BY DEF FPInv, CountsMatch, IssuedInFile, ClosedHoldsNothing, HeldInFile, Issued
<1> QED
  BY <1>1, FPInvariant, PTL

(***************************************************************************)
(* The store implements PageMap: allocating takes a page nobody holds,     *)
(* freeing gives one back, a write puts data into its own page, or damages *)
(* it, or nothing, and closing and opening are restarts.                   *)
(***************************************************************************)
LEMMA MapInit == FPInit => Map!Init
  BY DEF FPInit, FPInitOn, Map!Init, ValidPage, Page

LEMMA MapStep == FPInv /\ [FPNext]_fpVars => [Map!Next]_Map!pmVars
<1> SUFFICES ASSUME FPInv, [FPNext]_fpVars PROVE [Map!Next]_Map!pmVars
  OBVIOUS
<1> USE DEF FPInv, FPTypeOK, CountsMatch, Map!Next, Map!pmVars, fpVars, storeVars, fileVars
<1>1. ASSUME NEW p \in Page, ReusePage(p) PROVE Map!Take(p)
  BY <1>1 DEF ReusePage, Map!Take, FreeWasIssued, Issued, ValidPage, Page
<1>2. ASSUME NEW p \in Page, NewPage(p) PROVE Map!Take(p)
  BY <1>2 DEF NewPage, Map!Take, ValidPage, Page
<1>3. ASSUME NEW p \in Page, DeallocatePage(p) PROVE Map!Give(p)
  BY <1>3 DEF DeallocatePage, Map!Give, ValidPage, Page
<1>4. ASSUME NEW p \in Page, ReadPage(p) PROVE UNCHANGED Map!pmVars
  BY <1>4 DEF ReadPage, ValidPage
<1>5. ASSUME NEW p \in Page, NEW d \in Data, WritePage(p, d)
      PROVE  Map!Put(p, d) \/ Map!Put(p, Torn) \/ UNCHANGED Map!pmVars
  BY <1>5 DEF WritePage, Map!Put, ValidPage
<1>6. CASE CloseStore
  BY <1>6 DEF CloseStore, Map!Restart
<1>7. CASE OpenStore
  BY <1>7 DEF OpenStore, Opened, Map!Restart, ValidPage, Page
<1>8. CASE UNCHANGED fpVars
  BY <1>8 DEF ValidPage
<1> QED
  BY <1>1, <1>2, <1>3, <1>4, <1>5, <1>6, <1>7, <1>8 DEF FPNext, AllocatePage

(***************************************************************************)
(* Refinement: no page is handed out twice, a write reaches no page but    *)
(* its own, and neither freeing nor closing nor reopening changes one      *)
(* (storage/page_store.h, file_page_store.cpp:38-173).                     *)
(***************************************************************************)
THEOREM PageMapRefined == FPSpec => PageMapSpec
<1>1. FPInv /\ FPInv' /\ [FPNext]_fpVars => [Map!Next]_Map!pmVars
  BY MapStep
<1> QED
  BY <1>1, MapInit, FPInvariant, PTL DEF FPSpec, PageMapSpec, Map!Spec
=============================================================================
