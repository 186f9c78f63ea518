--------------------------- MODULE FilePageStore ---------------------------
(***************************************************************************)
(* storage/file_page_store.{h,cpp}: fixed-size pages in one file.  Every   *)
(* operation runs under file_mutex_, so each is one action.  A page's      *)
(* bytes are one member of Data (GraphStore gives records for it), Zero    *)
(* for bytes never written or past the end of the file, Torn for a write   *)
(* the system cut short: the checksum write_page stamps is never compared, *)
(* so read_page returns torn bytes like any others.                        *)
(*                                                                         *)
(* Nothing about pages is stored: a store opened on an existing file       *)
(* starts again with no page allocated.                                    *)
(***************************************************************************)
EXTENDS Naturals, FiniteSets

CONSTANTS
    MaxPage,    \* bound: pages 1 .. MaxPage may be allocated
    Data,       \* what callers write into pages
    Zero, Torn,
    MaxFaults,  \* bound: writes the system fails or cuts short
    MaxReopened \* bound: times the store is opened again

ASSUME PageAssumption == MaxPage \in Nat /\ MaxFaults \in Nat /\ MaxReopened \in Nat
ASSUME DataAssumption == Zero \notin Data /\ Torn \notin Data

Page == 1 .. MaxPage

VARIABLES
    is_closed,
    next_page_id,
    allocated_pages,  \* the counter behind get_allocated_pages
    free_pages,       \* an unordered set: which member begin() is, is open
    page_buffer,      \* the one buffer every read_page fills and returns
    bytes,            \* the bytes of each page
    file_size,        \* pages the file holds, page 0 included
    held,             \* history: pages callers hold
    faults, reopened

storeVars == <<is_closed, next_page_id, allocated_pages, free_pages>>
fileVars == <<bytes, file_size, faults>>
fpVars == <<storeVars, page_buffer, fileVars, held, reopened>>

\* The constructor sets every member; the file keeps what it had.
Opened ==
    /\ is_closed' = FALSE /\ next_page_id' = 1 /\ allocated_pages' = 0
    /\ free_pages' = {} /\ page_buffer' = Zero /\ held' = {}

\* A store newly opened on a file whose pages all hold one of these images.
FPInitOn(Images) ==
    /\ is_closed = FALSE /\ next_page_id = 1 /\ allocated_pages = 0
    /\ free_pages = {} /\ page_buffer = Zero /\ held = {}
    /\ \E i \in Images : bytes = [p \in Page |-> i]
    /\ file_size = 0 /\ faults = 0 /\ reopened = 0

FPInit == FPInitOn({Zero})

\* The argument check read_page, write_page and deallocate_page share.
ValidPage(p) == p # 0 /\ p < next_page_id

(***************************************************************************)
(* allocate_page: a freed page, with the bytes it was freed with, or the   *)
(* next one.                                                               *)
(***************************************************************************)
ReusePage(p) ==
    /\ ~ is_closed /\ p \in free_pages
    /\ free_pages' = free_pages \ {p}
    /\ allocated_pages' = allocated_pages + 1
    /\ held' = held \cup {p}
    /\ UNCHANGED <<is_closed, next_page_id, page_buffer, fileVars, reopened>>

\* ensure_file_size((page_id + 1) * PAGE_SIZE); a failed extension is not seen.
ExtendFile_Short(p) ==
    \/ /\ file_size' = IF file_size < p THEN p ELSE file_size
       /\ UNCHANGED faults
    \/ /\ file_size <= p /\ faults < MaxFaults
       /\ faults' = faults + 1 /\ UNCHANGED file_size

ExtendFile(p) ==
    \/ /\ file_size' = IF file_size < p + 1 THEN p + 1 ELSE file_size
       /\ UNCHANGED faults
    \/ /\ file_size <= p /\ faults < MaxFaults
       /\ faults' = faults + 1 /\ UNCHANGED file_size

NewPage(p) ==
    /\ ~ is_closed /\ free_pages = {} /\ p = next_page_id /\ p \in Page
    /\ next_page_id' = next_page_id + 1
    /\ ExtendFile(p)
    /\ allocated_pages' = allocated_pages + 1
    /\ held' = held \cup {p}
    /\ UNCHANGED <<is_closed, free_pages, page_buffer, bytes, reopened>>

AllocatePage(p) == ReusePage(p) \/ NewPage(p)

DeallocatePage_Twice(p) ==
    /\ ~ is_closed /\ ValidPage(p)
    /\ free_pages' = free_pages \cup {p}
    /\ allocated_pages' = allocated_pages - 1
    /\ held' = held \ {p}
    /\ UNCHANGED <<is_closed, next_page_id, page_buffer, fileVars, reopened>>

DeallocatePage(p) ==
    /\ ~ is_closed /\ ValidPage(p) /\ p \notin free_pages
    /\ free_pages' = free_pages \cup {p}
    /\ allocated_pages' = allocated_pages - 1
    /\ held' = held \ {p}
    /\ UNCHANGED <<is_closed, next_page_id, page_buffer, fileVars, reopened>>

(***************************************************************************)
(* read_page fills the shared buffer and returns a span of it.             *)
(***************************************************************************)
ReadPage(p) ==
    /\ ~ is_closed /\ ValidPage(p)
    /\ page_buffer' = bytes[p]
    /\ UNCHANGED <<storeVars, fileVars, held, reopened>>

(***************************************************************************)
(* write_page.  The stream's error flags are cleared between the write and *)
(* their test, so the caller is told the write succeeded whatever became   *)
(* of it: done, not done, or done in part.                                 *)
(***************************************************************************)
WritePage_NextPage(p, d) ==
    /\ ~ is_closed /\ ValidPage(p)
    /\ bytes' = [bytes EXCEPT ![IF p < MaxPage THEN p + 1 ELSE p] = d]
    /\ UNCHANGED <<storeVars, page_buffer, file_size, faults, held, reopened>>

WritePage(p, d) ==
    /\ ~ is_closed /\ ValidPage(p)
    /\ \/ bytes' = [bytes EXCEPT ![p] = d] /\ UNCHANGED faults
       \/ /\ faults < MaxFaults /\ faults' = faults + 1
          /\ bytes' \in {bytes, [bytes EXCEPT ![p] = Torn]}
    /\ file_size' = IF bytes' # bytes /\ file_size < p + 1 THEN p + 1 ELSE file_size
    /\ UNCHANGED <<storeVars, page_buffer, held, reopened>>

CloseStore ==
    /\ is_closed' = TRUE
    /\ held' = {}
    /\ UNCHANGED <<next_page_id, allocated_pages, free_pages, page_buffer,
                   fileVars, reopened>>

(***************************************************************************)
(* The process ends, closing the store or not, and a new one opens the     *)
(* file.                                                                   *)
(***************************************************************************)
OpenStore ==
    /\ reopened < MaxReopened /\ reopened' = reopened + 1
    /\ Opened
    /\ UNCHANGED fileVars

FPNext ==
    \/ \E p \in Page : AllocatePage(p) \/ DeallocatePage(p) \/ ReadPage(p)
    \/ \E p \in Page, d \in Data : WritePage(p, d)
    \/ CloseStore \/ OpenStore

FPSpec == FPInit /\ [][FPNext]_fpVars

----------------------------------------------------------------------------
(***************************************************************************)
(* Types of the store's members and of the file.                           *)
(***************************************************************************)
FPTypeOK ==
    /\ is_closed \in BOOLEAN
    /\ next_page_id \in 1 .. MaxPage + 1
    /\ allocated_pages \in 0 .. MaxPage
    /\ free_pages \in SUBSET Page
    /\ page_buffer \in Data \cup {Zero, Torn}
    /\ bytes \in [Page -> Data \cup {Zero, Torn}]
    /\ file_size \in 0 .. MaxPage + 1
    /\ held \in SUBSET Page
    /\ faults \in 0 .. MaxFaults /\ reopened \in 0 .. MaxReopened

(***************************************************************************)
(* While the store is open its books agree with what callers hold: they    *)
(* hold the pages issued and not freed, and allocated_pages_ counts them   *)
(* (file_page_store.cpp:58, :76, :84), through reuse, double frees refused *)
(* and reopening.                                                          *)
(***************************************************************************)
CountsMatch ==
    ~ is_closed => /\ held = {p \in Page : ValidPage(p)} \ free_pages
                   /\ allocated_pages = Cardinality(held)

(***************************************************************************)
(* As long as no file operation failed, every page a caller holds lies     *)
(* inside the file (ensure_file_size, file_page_store.cpp:55), so reading  *)
(* it never meets the end of the file, also after a reopening.             *)
(***************************************************************************)
HeldInFile == faults = 0 => \A p \in held : p < file_size

(***************************************************************************)
(* The store implements PageMap: no page is handed out twice, a write or a *)
(* failed write reaches no page but its own, and neither freeing nor       *)
(* closing nor reopening changes a page (file_page_store.cpp:38-173).      *)
(***************************************************************************)
Map == INSTANCE PageMap WITH
           owned <- held,
           issued <- IF is_closed THEN {} ELSE {p \in Page : ValidPage(p)},
           stored <- bytes

PageMapSpec == Map!Spec

(***************************************************************************)
(* README.md:105: "Persistent Storage: File-backed storage with crash      *)
(* recovery".  A page that has been written stays readable, through        *)
(* closing and opening the file again.                                     *)
(***************************************************************************)
WrittenStaysReadable ==
    [][\A p \in Page :
          ~ is_closed /\ ~ is_closed' /\ ValidPage(p) /\ bytes[p] # Zero
              => p < next_page_id']_fpVars
=============================================================================
