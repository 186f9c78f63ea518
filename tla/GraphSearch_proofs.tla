------------------------- MODULE GraphSearch_proofs -------------------------
(***************************************************************************)
(* The four searches of a graph return what they are asked for, in every   *)
(* finite or infinite graph and whatever the order of the neighbours: the  *)
(* deadlock search, the shortest path, the paths of bounded length, MATCH. *)
(***************************************************************************)
EXTENDS CycleSearch, ShortestPath, BoundedPaths, Matching, SequenceTheorems,
        WellFoundedInduction, TLAPS

LEMMA FrontProperties ==
    ASSUME NEW S, NEW s \in Seq(S), s # <<>>
    PROVE  /\ SubSeq(s, 1, Len(s) - 1) \in Seq(S)
           /\ Len(SubSeq(s, 1, Len(s) - 1)) = Len(s) - 1
           /\ \A i \in 1 .. Len(s) - 1 : SubSeq(s, 1, Len(s) - 1)[i] = s[i]
<1> DEFINE n == Len(s)
           t == SubSeq(s, 1, Len(s) - 1)
<1>1. n \in Nat \ {0} /\ \A i \in 1 .. n : s[i] \in S
  BY EmptySeq, ElementOfSeq, Zenon
<1>2. n - 1 \in Int /\ \A i \in 1 .. n - 1 : s[i] \in S
  BY <1>1
<1>3. /\ t \in Seq(S)
      /\ Len(t) = IF 1 <= n - 1 THEN n - 1 - 1 + 1 ELSE 0
      /\ \A i \in 1 .. n - 1 - 1 + 1 : t[i] = s[1 + i - 1]
  BY <1>2, 1 \in Int, SubSeqProperties
<1> HIDE DEF n, t
<1>4. Len(t) = n - 1
  BY <1>1, <1>3
<1>5. ASSUME NEW i \in 1 .. n - 1 PROVE t[i] = s[i]
  <2>1. i \in 1 .. n - 1 - 1 + 1 /\ 1 + i - 1 = i
    BY <1>1
  <2> QED
    BY <2>1, <1>3
<1> QED
  BY <1>3, <1>4, <1>5, Zenon DEF n, t

----------------------------------------------------------------------------
Calls == [u : Tx, todo : SUBSET Tx]

Left == visited \ recursion_stack

CSTypeOK ==
    /\ waits_for \in [Tx -> SUBSET Tx]
    /\ start \in Tx
    /\ calls \in Seq(Calls)
    /\ visited \subseteq Tx
    /\ answer \in {"pending", "cycle", "acyclic"}

Branch ==
    /\ recursion_stack = {calls[i].u : i \in 1 .. Len(calls)}
    /\ recursion_stack \subseteq visited
    /\ \A i, j \in 1 .. Len(calls) : calls[i].u = calls[j].u => i = j
    /\ \A i \in 1 .. Len(calls) : i + 1 \in 1 .. Len(calls) =>
           calls[i + 1].u \in waits_for[calls[i].u]

LookedThrough ==
    \A i \in 1 .. Len(calls) :
        \A v \in waits_for[calls[i].u] \ calls[i].todo :
            v \in Left \/ (i + 1 \in 1 .. Len(calls) /\ v = calls[i + 1].u)

LeftForGood ==
    /\ \A v \in Left : waits_for[v] \subseteq Left
    /\ \A C \in SUBSET Left : ~ EndlessIn(C, waits_for)

InReach ==
    /\ start \in visited
    /\ visited \subseteq ReachableFrom(start, waits_for)
    /\ \A i \in 1 .. Len(calls) : calls[i].todo \subseteq waits_for[calls[i].u]

Answered ==
    /\ answer = "pending" => calls # <<>>
    /\ answer = "cycle" => DetectDeadlock(start, waits_for)
    /\ answer = "acyclic" => calls = <<>>

CSInv == /\ CSTypeOK /\ Branch /\ LookedThrough /\ LeftForGood
         /\ InReach /\ Answered

----------------------------------------------------------------------------
LEMMA CSInitInv == CSInit => CSInv
<1> SUFFICES ASSUME CSInit PROVE CSInv
  OBVIOUS
<1> USE DEF CSInit, Called, Left
<1>1. calls = <<[u |-> start, todo |-> waits_for[start]]>> /\ Len(calls) = 1
      /\ calls[1] = [u |-> start, todo |-> waits_for[start]]
  OBVIOUS
<1>2. waits_for[start] \in SUBSET Tx
  OBVIOUS
<1>3. CSTypeOK
  BY <1>1, <1>2 DEF CSTypeOK, Calls
<1>4. Branch /\ LookedThrough
  BY <1>1 DEF Branch, LookedThrough
<1>5. LeftForGood
  BY DEF LeftForGood, EndlessIn
<1>6. InReach
  BY <1>1 DEF InReach, ReachableFrom
<1> QED
  BY <1>1, <1>3, <1>4, <1>5, <1>6 DEF CSInv, Answered

(***************************************************************************)
(* What the actions do to the calls, one by one.                           *)
(***************************************************************************)
LEMMA TopCall ==
    ASSUME CSInv, answer = "pending"
    PROVE  /\ Len(calls) \in Nat \ {0}
           /\ Len(calls) \in 1 .. Len(calls)
           /\ \A i \in 1 .. Len(calls) :
                  /\ calls[i] \in Calls /\ calls[i].u \in Tx
                  /\ calls[i].todo \in SUBSET Tx
           /\ Top = calls[Len(calls)] /\ Top.u \in recursion_stack
<1>1. calls \in Seq(Calls) /\ calls # <<>>
  BY DEF CSInv, CSTypeOK, Answered
<1>2. Len(calls) \in Nat \ {0} /\ \A i \in 1 .. Len(calls) : calls[i] \in Calls
  BY <1>1, EmptySeq, ElementOfSeq, Zenon
<1> QED
  BY <1>2 DEF Top, CSInv, Branch, Calls

LEMMA LookedAtCalls ==
    ASSUME CSInv, answer = "pending", NEW v
    PROVE  /\ LookedAt(v) \in Seq(Calls)
           /\ Len(LookedAt(v)) = Len(calls)
           /\ \A i \in 1 .. Len(calls) :
                  /\ LookedAt(v)[i].u = calls[i].u
                  /\ LookedAt(v)[i].todo = IF i = Len(calls) THEN Top.todo \ {v}
                                                             ELSE calls[i].todo
<1> DEFINE top == [Top EXCEPT !.todo = @ \ {v}]
<1>1. Top \in Calls /\ Top = calls[Len(calls)] /\ Len(calls) \in 1 .. Len(calls)
  BY TopCall
<1>2. top \in Calls /\ top.u = Top.u /\ top.todo = Top.todo \ {v}
  BY <1>1 DEF Calls
<1>3. LookedAt(v) = [calls EXCEPT ![Len(calls)] = top]
  BY <1>1 DEF LookedAt
<1>4. calls \in Seq(Calls)
  BY DEF CSInv, CSTypeOK
<1> HIDE DEF top
<1>5. /\ LookedAt(v) \in Seq(Calls) /\ Len(LookedAt(v)) = Len(calls)
      /\ \A i \in 1 .. Len(calls) :
             LookedAt(v)[i] = IF i = Len(calls) THEN top ELSE calls[i]
  BY <1>1, <1>2, <1>3, <1>4, ExceptSeq
<1> QED
  BY <1>1, <1>2, <1>5

LEMMA EnterCalls ==
    ASSUME CSInv, answer = "pending", NEW v \in Top.todo, Enter(v)
    PROVE  /\ v \in Tx
           /\ calls' \in Seq(Calls)
           /\ Len(calls') = Len(calls) + 1
           /\ \A i \in 1 .. Len(calls) :
                  /\ calls'[i].u = calls[i].u
                  /\ calls'[i].todo = IF i = Len(calls) THEN Top.todo \ {v}
                                                        ELSE calls[i].todo
           /\ calls'[Len(calls) + 1].u = v
           /\ calls'[Len(calls) + 1].todo = waits_for[v]
<1>1. v \in Tx
  BY TopCall
<1>2. Called(v) \in Calls
  BY <1>1 DEF Called, Calls, CSInv, CSTypeOK
<1>3. /\ LookedAt(v) \in Seq(Calls)
      /\ Len(LookedAt(v)) = Len(calls)
      /\ \A i \in 1 .. Len(calls) :
             /\ LookedAt(v)[i].u = calls[i].u
             /\ LookedAt(v)[i].todo = IF i = Len(calls) THEN Top.todo \ {v}
                                                        ELSE calls[i].todo
  BY LookedAtCalls
<1>4. calls' = Append(LookedAt(v), Called(v))
  BY DEF Enter
<1>5. /\ calls' \in Seq(Calls)
      /\ Len(calls') = Len(calls) + 1
      /\ \A i \in 1 .. Len(calls) : calls'[i] = LookedAt(v)[i]
      /\ calls'[Len(calls) + 1] = Called(v)
  BY <1>2, <1>3, <1>4, AppendProperties
<1>6. ASSUME NEW i \in 1 .. Len(calls)
      PROVE  /\ calls'[i].u = calls[i].u
             /\ calls'[i].todo = IF i = Len(calls) THEN Top.todo \ {v}
                                                   ELSE calls[i].todo
  BY <1>3, <1>5, Zenon
<1>7. Called(v).u = v /\ Called(v).todo = waits_for[v]
  BY DEF Called
<1> QED
  BY <1>1, <1>5, <1>6, <1>7, Zenon

LEMMA LeaveCalls ==
    ASSUME CSInv, answer = "pending", Leave
    PROVE  /\ calls' \in Seq(Calls)
           /\ Len(calls') = Len(calls) - 1
           /\ \A i \in 1 .. Len(calls) - 1 : calls'[i] = calls[i]
<1>1. calls \in Seq(Calls) /\ calls # <<>>
  BY DEF CSInv, CSTypeOK, Answered
<1>2. calls' = SubSeq(calls, 1, Len(calls) - 1)
  BY DEF Leave
<1> QED
  BY <1>1, <1>2, FrontProperties, Zenon

(***************************************************************************)
(* The types.                                                              *)
(***************************************************************************)
LEMMA CSTypeStep == CSInv /\ [CSNext]_csVars => CSTypeOK'
<1> SUFFICES ASSUME CSInv, [CSNext]_csVars PROVE CSTypeOK'
  OBVIOUS
<1> CASE UNCHANGED csVars
  BY DEF csVars, CSInv, CSTypeOK
<1> SUFFICES ASSUME CSNext PROVE CSTypeOK'
  OBVIOUS
<1> USE DEF CSNext
<1>1. CSTypeOK
  BY DEF CSInv
<1>2. ASSUME NEW v \in Top.todo, Enter(v) PROVE CSTypeOK'
  <2>1. v \in Tx /\ calls' \in Seq(Calls)
    BY <1>2, EnterCalls
  <2> QED
    BY <1>1, <1>2, <2>1 DEF CSTypeOK, Enter
<1>3. ASSUME NEW v \in Top.todo, PassOver(v) PROVE CSTypeOK'
  <2>1. calls' \in Seq(Calls)
    BY <1>3, LookedAtCalls DEF PassOver
  <2> QED
    BY <1>1, <1>3, <2>1 DEF CSTypeOK, PassOver
<1>4. ASSUME NEW v \in Top.todo, CloseCycle(v) PROVE CSTypeOK'
  BY <1>1, <1>4 DEF CSTypeOK, CloseCycle
<1>5. ASSUME Leave PROVE CSTypeOK'
  <2>1. calls' \in Seq(Calls)
    BY <1>5, LeaveCalls
  <2> QED
    BY <1>1, <1>5, <2>1 DEF CSTypeOK, Leave
<1> QED
  BY <1>2, <1>3, <1>4, <1>5

(***************************************************************************)
(* Entering v: it joins the branch, and Left stays as it is.               *)
(***************************************************************************)
LEMMA EnterStep ==
    ASSUME CSInv, answer = "pending", NEW v \in Top.todo, Enter(v),
           UNCHANGED <<waits_for, start>>
    PROVE  Branch' /\ LookedThrough' /\ LeftForGood' /\ InReach'
<1> DEFINE n == Len(calls)
           u(i) == calls[i].u
           w(i) == calls'[i].u
<1>1. /\ n \in Nat \ {0} /\ Top = calls[n] /\ Top.u = u(n) /\ u(n) \in Tx
      /\ Top.todo = calls[n].todo
  BY TopCall
<1>2. /\ v \in Tx /\ Len(calls') = n + 1
      /\ \A i \in 1 .. n : w(i) = u(i)
      /\ w(n + 1) = v /\ calls'[n + 1].todo = waits_for[v]
      /\ \A i \in 1 .. n : calls'[i].todo = IF i = n THEN Top.todo \ {v}
                                                     ELSE calls[i].todo
  BY EnterCalls
<1>3. /\ v \notin visited /\ visited' = visited \cup {v} /\ start' = start
      /\ recursion_stack' = recursion_stack \cup {v} /\ waits_for' = waits_for
  BY DEF Enter
<1>4. /\ recursion_stack = {u(i) : i \in 1 .. n} /\ recursion_stack \subseteq visited
      /\ \A i, j \in 1 .. n : u(i) = u(j) => i = j
      /\ \A i \in 1 .. n : i + 1 \in 1 .. n => u(i + 1) \in waits_for[u(i)]
  BY DEF CSInv, Branch
<1>5. v \in waits_for[u(n)]
  BY <1>1 DEF CSInv, InReach
<1>6. Left' = Left
  BY <1>3, <1>4 DEF Left
<1>7. \A i \in 1 .. n : u(i) # v
  BY <1>3, <1>4
<1>8. Branch'
  <2> HIDE DEF n, u, w
  <2>1. recursion_stack' = {w(i) : i \in 1 .. n + 1}
    BY <1>1, <1>2, <1>3, <1>4
  <2>2. \A i, j \in 1 .. n + 1 : w(i) = w(j) => i = j
    BY <1>1, <1>2, <1>4, <1>7
  <2>3. \A i \in 1 .. n + 1 : i + 1 \in 1 .. n + 1 => w(i + 1) \in waits_for[w(i)]
    BY <1>1, <1>2, <1>4, <1>5
  <2>4. recursion_stack' \subseteq visited'
    BY <1>3, <1>4
  <2> QED
    BY <1>2, <1>3, <2>1, <2>2, <2>3, <2>4, Zenon DEF Branch, w
<1>9. LookedThrough'
  <2>1. ASSUME NEW i \in 1 .. n + 1, NEW x \in waits_for[w(i)] \ calls'[i].todo
        PROVE  x \in Left \/ (i + 1 \in 1 .. n + 1 /\ x = w(i + 1))
    <3>1. i \in 1 .. n
      BY <1>1, <1>2, <2>1
    <3>2. CASE i = n
      <4>1. x \in waits_for[u(n)] \ calls[n].todo \/ x = v
        BY <1>1, <1>2, <2>1, <3>1, <3>2
      <4>2. x \in Left \/ x = v
        BY <1>1, <4>1 DEF CSInv, LookedThrough
      <4> QED
        BY <1>1, <1>2, <3>2, <4>2
    <3>3. CASE i # n
      <4>1. x \in waits_for[u(i)] \ calls[i].todo /\ i + 1 \in 1 .. n
        BY <1>1, <1>2, <2>1, <3>1, <3>3
      <4>2. x \in Left \/ x = u(i + 1)
        BY <3>1, <4>1 DEF CSInv, LookedThrough
      <4> QED
        BY <1>1, <1>2, <4>1, <4>2
    <3> QED
      BY <3>2, <3>3
  <2> QED
    BY <1>2, <1>3, <1>6, <2>1, Zenon DEF LookedThrough
<1>10. LeftForGood'
  BY <1>3, <1>6 DEF CSInv, LeftForGood, EndlessIn
<1>11. InReach'
  <2>1. /\ start \in visited /\ visited \subseteq ReachableFrom(start, waits_for)
        /\ \A i \in 1 .. n : calls[i].todo \subseteq waits_for[u(i)]
    BY DEF CSInv, InReach
  <2>2. u(n) \in ReachableFrom(start, waits_for)
    BY <1>1, <1>4, <2>1
  <2>3. v \in ReachableFrom(start, waits_for)
    BY <1>2, <1>5, <2>2 DEF ReachableFrom, CSInv, CSTypeOK
  <2>4. \A i \in 1 .. n + 1 : calls'[i].todo \subseteq waits_for[w(i)]
    BY <1>1, <1>2, <2>1
  <2> QED
    BY <1>2, <1>3, <2>1, <2>3, <2>4, Zenon DEF InReach
<1> QED
  BY <1>8, <1>9, <1>10, <1>11

(***************************************************************************)
(* Passing over a transaction the search has left for good.                *)
(***************************************************************************)
LEMMA PassOverStep ==
    ASSUME CSInv, answer = "pending", NEW v \in Top.todo, PassOver(v),
           UNCHANGED <<waits_for, start>>
    PROVE  Branch' /\ LookedThrough' /\ LeftForGood' /\ InReach'
<1> DEFINE n == Len(calls)
<1>1. /\ Len(calls') = n /\ n \in Nat \ {0} /\ Top = calls[n]
      /\ \A i \in 1 .. n :
             /\ calls'[i].u = calls[i].u
             /\ calls'[i].todo = IF i = n THEN Top.todo \ {v} ELSE calls[i].todo
  BY LookedAtCalls, TopCall DEF PassOver
<1>2. /\ v \in Left /\ visited' = visited /\ recursion_stack' = recursion_stack
      /\ waits_for' = waits_for /\ start' = start /\ Left' = Left
  BY DEF PassOver, Left
<1>3. Branch'
  BY <1>1, <1>2 DEF CSInv, Branch
<1>4. LookedThrough'
  <2>1. ASSUME NEW i \in 1 .. n, NEW x \in waits_for[calls[i].u] \ calls'[i].todo
        PROVE  x \in Left \/ (i + 1 \in 1 .. n /\ x = calls[i + 1].u)
    <3>1. x \in waits_for[calls[i].u] \ calls[i].todo \/ x = v
      BY <1>1, <2>1
    <3> QED
      BY <1>2, <3>1 DEF CSInv, LookedThrough
  <2> QED
    BY <1>1, <1>2, <2>1 DEF LookedThrough
<1>5. LeftForGood'
  BY <1>2 DEF CSInv, LeftForGood, EndlessIn
<1>6. InReach'
  BY <1>1, <1>2 DEF CSInv, InReach
<1> QED
  BY <1>3, <1>4, <1>5, <1>6

(***************************************************************************)
(* The branch from v down to the call that looks at v, whose successor v   *)
(* is, has no dead end.                                                    *)
(***************************************************************************)
LEMMA CycleFound ==
    ASSUME CSInv, answer = "pending", NEW v \in Top.todo, CloseCycle(v)
    PROVE  DetectDeadlock(start, waits_for)
<1> DEFINE n == Len(calls)
<1>1. /\ n \in Nat \ {0} /\ Top = calls[n]
      /\ \A i \in 1 .. n : calls[i].u \in Tx
  BY TopCall
<1>2. v \in recursion_stack /\ v \in waits_for[calls[n].u]
  BY <1>1 DEF CloseCycle, CSInv, InReach
<1>3. PICK k \in 1 .. n : calls[k].u = v
  BY <1>2 DEF CSInv, Branch
<1> DEFINE C == {calls[i].u : i \in k .. n}
<1>4. C \subseteq recursion_stack
  BY <1>1, <1>3 DEF CSInv, Branch
<1>5. C \in SUBSET ReachableFrom(start, waits_for)
  BY <1>4 DEF CSInv, Branch, InReach
<1>6. ASSUME NEW c \in C PROVE waits_for[c] \cap C # {}
  <2>1. PICK i \in k .. n : c = calls[i].u
    BY <1>6
  <2>2. CASE i = n
    <3>1. v \in C
      BY <1>1, <1>3
    <3> QED
      BY <1>2, <2>1, <2>2, <3>1
  <2>3. CASE i # n
    <3>1. i + 1 \in k .. n /\ i \in 1 .. n /\ i + 1 \in 1 .. n
      BY <1>1, <1>3, <2>3
    <3>2. calls[i + 1].u \in C
      BY <3>1
    <3>3. calls[i + 1].u \in waits_for[c]
      BY <2>1, <3>1 DEF CSInv, Branch
    <3> QED
      BY <3>2, <3>3
  <2> QED
    BY <2>2, <2>3
<1>7. v \in C
  BY <1>1, <1>3
<1> QED
  BY <1>5, <1>6, <1>7, Zenon DEF DetectDeadlock, EndlessIn

(***************************************************************************)
(* Returning from u: all its successors have been left for good, so u can  *)
(* join them, and no cycle runs through it.                                *)
(***************************************************************************)
LEMMA LeaveStep ==
    ASSUME CSInv, answer = "pending", Leave, UNCHANGED <<waits_for, start>>
    PROVE  Branch' /\ LookedThrough' /\ LeftForGood' /\ InReach'
<1> DEFINE n == Len(calls)
           u(i) == calls[i].u
           w(i) == calls'[i].u
<1>1. /\ n \in Nat \ {0} /\ Top = calls[n] /\ Top.u = u(n) /\ u(n) \in Tx
      /\ Top.todo = calls[n].todo /\ calls[n].todo = {}
  BY TopCall DEF Leave
<1>2. /\ Len(calls') = n - 1
      /\ \A i \in 1 .. n - 1 : w(i) = u(i) /\ calls'[i].todo = calls[i].todo
  BY LeaveCalls, Zenon
<1>3. /\ visited' = visited /\ recursion_stack' = recursion_stack \ {u(n)}
      /\ waits_for' = waits_for /\ start' = start
  BY <1>1 DEF Leave
<1>4. /\ recursion_stack = {u(i) : i \in 1 .. n} /\ recursion_stack \subseteq visited
      /\ \A i, j \in 1 .. n : u(i) = u(j) => i = j
      /\ \A i \in 1 .. n : i + 1 \in 1 .. n => u(i + 1) \in waits_for[u(i)]
  BY DEF CSInv, Branch
<1>5. u(n) \in visited /\ u(n) \in recursion_stack
  BY <1>1, <1>4
<1>6. Left' = Left \cup {u(n)} /\ u(n) \notin Left
  BY <1>3, <1>4, <1>5 DEF Left
<1>7. waits_for[u(n)] \subseteq Left
  BY <1>1 DEF CSInv, LookedThrough
<1>8. Branch'
  <2> HIDE DEF n, u, w
  <2>1. recursion_stack' = {w(i) : i \in 1 .. n - 1}
    <3>1. {w(i) : i \in 1 .. n - 1} = {u(i) : i \in 1 .. n - 1}
      BY <1>1, <1>2
    <3>2. \A i \in 1 .. n : i \in 1 .. n - 1 \/ i = n
      BY <1>1
    <3>3. \A i \in 1 .. n - 1 : i \in 1 .. n /\ i # n
      BY <1>1
    <3>4. n \in 1 .. n
      BY <1>1
    <3>5. \A x : x \in recursion_stack' <=> \E i \in 1 .. n : x = u(i) /\ i # n
      BY <1>3, <1>4, <3>4
    <3>6. \A x : x \in recursion_stack' <=> \E i \in 1 .. n - 1 : x = u(i)
      BY <3>2, <3>3, <3>5
    <3>7. recursion_stack' = {u(i) : i \in 1 .. n - 1}
      BY <3>6
    <3> QED
      BY <3>1, <3>7, Zenon
  <2>2. \A i, j \in 1 .. n - 1 : w(i) = w(j) => i = j
    BY <1>1, <1>2, <1>4
  <2>3. \A i \in 1 .. n - 1 : i + 1 \in 1 .. n - 1 => w(i + 1) \in waits_for[w(i)]
    BY <1>1, <1>2, <1>4
  <2>4. recursion_stack' \subseteq visited'
    BY <1>3, <1>4
  <2> QED
    BY <1>2, <1>3, <2>1, <2>2, <2>3, <2>4, Zenon DEF Branch, w
<1>9. LookedThrough'
  <2>1. ASSUME NEW i \in 1 .. n - 1, NEW x \in waits_for[w(i)] \ calls'[i].todo
        PROVE  x \in Left' \/ (i + 1 \in 1 .. n - 1 /\ x = w(i + 1))
    <3>1. x \in waits_for[u(i)] \ calls[i].todo /\ i \in 1 .. n
      BY <1>1, <1>2, <2>1
    <3>2. x \in Left \/ (i + 1 \in 1 .. n /\ x = u(i + 1))
      BY <3>1 DEF CSInv, LookedThrough
    <3>3. CASE i + 1 = n
      BY <1>6, <3>2, <3>3
    <3>4. CASE i + 1 # n
      <4>1. i + 1 \in 1 .. n - 1
        BY <1>1, <2>1, <3>4
      <4> QED
        BY <1>2, <1>6, <3>2, <4>1
    <3> QED
      BY <3>3, <3>4
  <2> QED
    BY <1>2, <1>3, <2>1, Zenon DEF LookedThrough
<1>10. LeftForGood'
  <2>1. \A x \in Left' : waits_for[x] \subseteq Left
    BY <1>6, <1>7 DEF CSInv, LeftForGood
  <2>2. ASSUME NEW C \in SUBSET Left', EndlessIn(C, waits_for) PROVE FALSE
    <3>1. C \cap Left \in SUBSET Left
      OBVIOUS
    <3>2. ASSUME NEW c \in C PROVE waits_for[c] \cap (C \cap Left) # {}
      BY <2>1, <2>2 DEF EndlessIn
    <3>3. EndlessIn(C \cap Left, waits_for)
      BY <2>2, <3>2 DEF EndlessIn
    <3> QED
      BY <3>1, <3>3 DEF CSInv, LeftForGood
  <2> QED
    BY <1>3, <1>6, <2>1, <2>2 DEF LeftForGood
<1>11. InReach'
  <2>1. \A i \in 1 .. n - 1 : calls[i].todo \subseteq waits_for[u(i)]
    BY <1>1 DEF CSInv, InReach
  <2> QED
    BY <1>2, <1>3, <2>1 DEF CSInv, InReach
<1> QED
  BY <1>8, <1>9, <1>10, <1>11

(***************************************************************************)
(* The invariant.                                                          *)
(***************************************************************************)
LEMMA CSInvStep == CSInv /\ [CSNext]_csVars => CSInv'
<1> SUFFICES ASSUME CSInv, [CSNext]_csVars PROVE CSInv'
  OBVIOUS
<1>1. CSTypeOK'
  BY CSTypeStep
<1>2. CASE UNCHANGED csVars
  <2>1. Branch' /\ LookedThrough' /\ InReach' /\ Answered'
    BY <1>2 DEF csVars, CSInv, Branch, LookedThrough, InReach, Answered, Left
  <2>2. LeftForGood'
    BY <1>2 DEF csVars, CSInv, LeftForGood, Left, EndlessIn
  <2> QED
    BY <1>1, <2>1, <2>2 DEF CSInv
<1>3. CASE CSNext
  <2>1. answer = "pending" /\ waits_for' = waits_for /\ start' = start
    BY <1>3 DEF CSNext
  <2>2. ASSUME NEW v \in Top.todo, Enter(v) PROVE CSInv'
    <3>1. calls' # <<>>
      <4>1. Len(calls') = Len(calls) + 1
        BY <2>1, <2>2, EnterCalls, Zenon
      <4>2. Len(calls) \in Nat \ {0}
        BY <2>1, TopCall
      <4> QED
        BY <4>1, <4>2
    <3> QED
      BY <1>1, <2>1, <2>2, <3>1, EnterStep DEF CSInv, Answered, Enter
  <2>3. ASSUME NEW v \in Top.todo, PassOver(v) PROVE CSInv'
    <3>1. calls' # <<>>
      BY <2>1, <2>3, LookedAtCalls, EmptySeq, TopCall DEF PassOver
    <3> QED
      BY <1>1, <2>1, <2>3, <3>1, PassOverStep DEF CSInv, Answered, PassOver
  <2>4. ASSUME NEW v \in Top.todo, CloseCycle(v) PROVE CSInv'
    <3>1. /\ answer' = "cycle" /\ calls' = calls /\ visited' = visited
          /\ recursion_stack' = recursion_stack
      BY <2>4 DEF CloseCycle
    <3>2. Branch' /\ LookedThrough' /\ LeftForGood' /\ InReach'
      BY <2>1, <3>1 DEF CSInv, Branch, LookedThrough, InReach, LeftForGood, Left
    <3>3. Answered'
      BY <2>1, <2>4, <3>1, CycleFound DEF Answered
    <3> QED
      BY <1>1, <3>2, <3>3 DEF CSInv
  <2>5. ASSUME Leave PROVE CSInv'
    <3>1. CASE Len(calls) = 1
      <4>1. Len(calls') = 0 /\ calls' \in Seq(Calls)
        BY <2>1, <2>5, <3>1, LeaveCalls
      <4>2. calls' = <<>> /\ answer' = "acyclic"
        BY <2>5, <3>1, <4>1, EmptySeq DEF Leave
      <4> QED
        BY <1>1, <2>1, <2>5, <4>2, LeaveStep DEF CSInv, Answered
    <3>2. CASE Len(calls) # 1
      <4>1. Len(calls') # 0
        BY <2>1, <2>5, <3>2, LeaveCalls, TopCall
      <4>2. calls' # <<>> /\ answer' = "pending"
        BY <2>1, <2>5, <3>2, <4>1, EmptySeq DEF Leave
      <4> QED
        BY <1>1, <2>1, <2>5, <4>2, LeaveStep DEF CSInv, Answered
    <3> QED
      BY <3>1, <3>2
  <2> QED
    BY <1>3, <2>2, <2>3, <2>4, <2>5 DEF CSNext
<1> QED
  BY <1>2, <1>3

(***************************************************************************)
(* With every call returned, all that was visited has been left for good,  *)
(* start is among it, and nothing else can be reached.                     *)
(***************************************************************************)
LEMMA NoCycleLeft ==
    ASSUME CSInv, answer = "acyclic"
    PROVE  ~ DetectDeadlock(start, waits_for)
<1>1. calls = <<>> /\ Len(calls) = 0
  BY DEF CSInv, Answered
<1>2. Left = visited
  <2>1. \A i \in 1 .. Len(calls) : FALSE
    BY <1>1
  <2>2. recursion_stack = {calls[i].u : i \in 1 .. Len(calls)}
    BY DEF CSInv, Branch
  <2>3. recursion_stack = {}
    BY <2>1, <2>2
  <2> QED
    BY <2>3 DEF Left
<1>3. ReachableFrom(start, waits_for) \subseteq Left
  <2>1. visited \in SUBSET DOMAIN waits_for /\ start \in visited
    BY DEF CSInv, CSTypeOK, InReach
  <2>2. \A v \in visited : waits_for[v] \subseteq visited
    BY <1>2 DEF CSInv, LeftForGood
  <2> QED
    BY <1>2, <2>1, <2>2 DEF ReachableFrom
<1> QED
  BY <1>3 DEF CSInv, LeftForGood, DetectDeadlock

(***************************************************************************)
(* For any number of transactions, any graph and any order of the edges,   *)
(* the search that lock() makes before it waits answers true exactly if a  *)
(* cycle can be reached from the caller (lock_manager.cpp:73-103).         *)
(***************************************************************************)
THEOREM SearchCorrect == CSSpec => []SearchIsExact
<1>1. CSInv => SearchIsExact
  BY NoCycleLeft DEF CSInv, CSTypeOK, Answered, SearchIsExact
<1> QED
  BY <1>1, CSInitInv, CSInvStep, PTL DEF CSSpec

----------------------------------------------------------------------------
(***************************************************************************)
(* The queue holds nodes by depth, none nearer than current and none more  *)
(* than a layer beyond it.  What left the queue has all its neighbours     *)
(* queued, at most one layer further.  Each node is one layer behind its   *)
(* parent, and no walk reaches it over fewer nodes than its depth says.    *)
(***************************************************************************)
SPTypeOK ==
    /\ adjacent \in [Node -> SUBSET Node]
    /\ from_node \in Node /\ to_node \in Node
    /\ phase \in {"searching", "reading", "returned"}
    /\ queue \in Seq(Node) /\ queued \in SUBSET Node
    /\ parent \in [Node -> Node]
    /\ current \in Node /\ neighbors \in SUBSET Node
    /\ found \in Seq(Node) /\ depth \in [Node -> Nat]

InQueue ==
    /\ from_node \in queued /\ current \in queued
    /\ neighbors \subseteq adjacent[current]
    /\ \A i \in 1 .. Len(queue) :
           /\ queue[i] \in queued
           /\ depth[current] <= depth[queue[i]]
    /\ \A v \in queued : depth[v] <= depth[current] + 1
    /\ \A i, j \in 1 .. Len(queue) :
           i <= j => depth[queue[i]] <= depth[queue[j]]

Near(v, n) == n \in queued /\ depth[n] <= depth[v] + 1

Expanded ==
    \A v \in queued :
        \/ \E i \in 1 .. Len(queue) : queue[i] = v
        \/ \A n \in adjacent[v] : Near(v, n) \/ (v = current /\ n \in neighbors)

Parents ==
    \A v \in queued :
        IF v = from_node THEN depth[v] = 0
        ELSE /\ parent[v] \in queued /\ v \in adjacent[parent[v]]
             /\ depth[v] = depth[parent[v]] + 1

WalksTo(v, k) ==
    {p \in [1 .. k -> Node] : p[1] = from_node /\ p[k] = v /\ Linked(p)}

Nearest == \A v \in queued : \A k \in 1 .. depth[v] : WalksTo(v, k) = {}

FoundSoFar ==
    IF found = <<>>
    THEN /\ phase # "reading" /\ to_node \notin queued
         /\ phase = "returned" => queue = <<>> /\ neighbors = {}
    ELSE /\ phase # "searching" /\ to_node \in queued
         /\ found[1] \in queued /\ found[Len(found)] = to_node
         /\ depth[found[1]] + Len(found) = depth[to_node] + 1
         /\ Linked(found)
         /\ phase = "returned" => found[1] = from_node

SPInv == /\ SPTypeOK /\ InQueue /\ Expanded /\ Parents /\ Nearest /\ FoundSoFar

----------------------------------------------------------------------------
LEMMA SPInitInv == SPInit => SPInv
<1> SUFFICES ASSUME SPInit PROVE SPInv
  OBVIOUS
<1> USE DEF SPInit, AnyQuery
<1>1. /\ queue = <<from_node>> /\ Len(queue) = 1 /\ queue[1] = from_node
      /\ queue \in Seq(Node)
  OBVIOUS
<1>2. SPTypeOK
  <2>1. found \in Seq(Node)
    <3>1. <<>> \in Seq(Node) /\ <<from_node>> \in Seq(Node)
      OBVIOUS
    <3> QED
      BY <3>1
  <2> QED
    BY <1>1, <2>1 DEF SPTypeOK
<1>3. InQueue
  BY <1>1 DEF InQueue
<1>4. Expanded /\ Parents
  BY <1>1 DEF Expanded, Parents
<1>5. Nearest
  BY DEF Nearest
<1>6. FoundSoFar
  <2>1. CASE from_node = to_node
    <3>1. found = <<from_node>> /\ Len(found) = 1 /\ found[1] = from_node
      BY <2>1
    <3>2. Linked(found)
      BY <3>1 DEF Linked
    <3> QED
      BY <2>1, <3>1, <3>2 DEF FoundSoFar
  <2>2. CASE from_node # to_node
    BY <2>2 DEF FoundSoFar
  <2> QED
    BY <2>1, <2>2
<1> QED
  BY <1>2, <1>3, <1>4, <1>5, <1>6 DEF SPInv

(***************************************************************************)
(* Taking a node from the queue.                                           *)
(***************************************************************************)
LEMMA PopStep ==
    ASSUME SPInv, phase = "searching", Pop, UNCHANGED query
    PROVE  SPInv'
<1> DEFINE n == Len(queue)
<1>1. /\ queue \in Seq(Node) /\ queue # <<>> /\ n \in Nat \ {0}
      /\ \A i \in 1 .. n : queue[i] \in Node
  <2>1. queue \in Seq(Node) /\ queue # <<>>
    BY DEF SPInv, SPTypeOK, Pop
  <2> QED
    BY <2>1, EmptySeq, ElementOfSeq
<1>2. /\ queue' \in Seq(Node) /\ Len(queue') = n - 1 /\ Head(queue) = queue[1]
      /\ \A i \in 1 .. n - 1 : queue'[i] = queue[i + 1]
  BY <1>1, HeadTailProperties DEF Pop
<1>3. /\ current' = queue[1] /\ neighbors' = adjacent[queue[1]]
      /\ neighbors = {} /\ phase' = phase /\ queued' = queued
      /\ parent' = parent /\ found' = found /\ depth' = depth
      /\ adjacent' = adjacent /\ from_node' = from_node /\ to_node' = to_node
  BY <1>2 DEF Pop, query
<1>4. SPTypeOK'
  BY <1>1, <1>2, <1>3 DEF SPInv, SPTypeOK
<1>5. /\ from_node \in queued /\ current \in queued
      /\ \A i \in 1 .. n : /\ queue[i] \in queued
                           /\ depth[current] <= depth[queue[i]]
      /\ \A v \in queued : depth[v] <= depth[current] + 1
      /\ \A i, j \in 1 .. n : i <= j => depth[queue[i]] <= depth[queue[j]]
  BY DEF SPInv, InQueue
<1>6. depth[current] \in Nat /\ \A i \in 1 .. n : depth[queue[i]] \in Nat
  BY <1>1 DEF SPInv, SPTypeOK
<1>7. 1 \in 1 .. n
  BY <1>1
<1>8. InQueue'
  <2>1. ASSUME NEW i \in 1 .. n - 1
        PROVE  queue'[i] \in queued /\ depth[queue[1]] <= depth[queue'[i]]
    <3>1. i + 1 \in 1 .. n /\ 1 <= i + 1 /\ queue'[i] = queue[i + 1]
      BY <1>1, <1>2
    <3> QED
      BY <1>5, <1>6, <1>7, <3>1
  <2>2. ASSUME NEW i \in 1 .. n - 1, NEW j \in 1 .. n - 1, i <= j
        PROVE  depth[queue'[i]] <= depth[queue'[j]]
    <3>1. /\ i + 1 \in 1 .. n /\ j + 1 \in 1 .. n /\ i + 1 <= j + 1
          /\ queue'[i] = queue[i + 1] /\ queue'[j] = queue[j + 1]
      BY <1>1, <1>2, <2>2
    <3> QED
      BY <1>5, <3>1
  <2>3. ASSUME NEW v \in queued PROVE depth[v] <= depth[queue[1]] + 1
    <3>1. depth[v] \in Nat
      BY DEF SPInv, SPTypeOK
    <3> QED
      BY <1>5, <1>6, <1>7, <3>1
  <2> QED
    BY <1>2, <1>3, <1>5, <1>7, <2>1, <2>2, <2>3 DEF InQueue
<1>9. Expanded'
  <2> SUFFICES ASSUME NEW v \in queued
               PROVE  \/ \E i \in 1 .. n - 1 : queue'[i] = v
                      \/ \A x \in adjacent[v] :
                             Near(v, x) \/ (v = queue[1] /\ x \in adjacent[queue[1]])
    BY <1>2, <1>3 DEF Expanded, Near
  <2>1. CASE v = queue[1]
    BY <2>1
  <2>2. CASE v # queue[1] /\ \E i \in 1 .. n : queue[i] = v
    <3>1. PICK i \in 1 .. n : queue[i] = v /\ i # 1
      BY <2>2
    <3>2. i - 1 \in 1 .. n - 1 /\ queue'[i - 1] = queue[i - 1 + 1] /\ i - 1 + 1 = i
      BY <1>1, <1>2, <3>1
    <3> QED
      BY <3>1, <3>2
  <2>3. CASE ~ \E i \in 1 .. n : queue[i] = v
    BY <1>3, <2>3 DEF SPInv, Expanded
  <2> QED
    BY <2>1, <2>2, <2>3
<1>10. Parents'
  BY <1>3 DEF SPInv, Parents
<1>11. Nearest'
  BY <1>3 DEF SPInv, Nearest, WalksTo, Linked
<1>12. FoundSoFar'
  BY <1>3 DEF SPInv, FoundSoFar, Linked
<1> QED
  BY <1>4, <1>8, <1>9, <1>10, <1>11, <1>12 DEF SPInv

LEMMA PassByStep ==
    ASSUME SPInv, phase = "searching", NEW n \in neighbors, PassBy(n),
           UNCHANGED query
    PROVE  SPInv'
<1>1. /\ n \in queued /\ neighbors' = neighbors \ {n} /\ current' = current
      /\ queue' = queue /\ phase' = phase /\ queued' = queued
      /\ parent' = parent /\ found' = found /\ depth' = depth
      /\ adjacent' = adjacent /\ from_node' = from_node /\ to_node' = to_node
  BY DEF PassBy, query
<1>2. SPTypeOK' /\ InQueue'
  BY <1>1 DEF SPInv, SPTypeOK, InQueue
<1>3. Near(current, n)
  BY <1>1 DEF SPInv, InQueue, Near
<1>4. Expanded'
  BY <1>1, <1>3 DEF SPInv, Expanded, Near
<1>5. Parents' /\ Nearest'
  BY <1>1 DEF SPInv, Parents, Nearest, WalksTo, Linked
<1>6. FoundSoFar'
  BY <1>1 DEF SPInv, FoundSoFar, Linked
<1> QED
  BY <1>2, <1>4, <1>5, <1>6 DEF SPInv

(***************************************************************************)
(* While current's neighbours are looked at, whatever a walk of at most as *)
(* many nodes as the next layer's depth passes has been queued: the first  *)
(* node of it that was not would follow one that has left the queue.       *)
(***************************************************************************)
LEMMA WalkQueued ==
    ASSUME SPInv, NEW k \in Nat \ {0}, k <= depth[current] + 1,
           NEW v, NEW p \in WalksTo(v, k)
    PROVE  v \in queued
<1>1. /\ p \in [1 .. k -> Node] /\ p[1] = from_node /\ p[k] = v
      /\ \A i \in 1 .. Len(p) - 1 : p[i + 1] \in adjacent[p[i]]
  BY DEF WalksTo, Linked
<1>2. Len(p) = k
  BY <1>1
<1>3. depth \in [Node -> Nat] /\ current \in Node /\ from_node \in Node
  BY DEF SPInv, SPTypeOK
<1> DEFINE Late == {i \in 1 .. k : ~ (p[i] \in queued /\ depth[p[i]] <= i - 1)}
           Less == OpToRel(<, Nat)
<1>4. Late = {}
  <2>1. SUFFICES ASSUME Late # {} PROVE FALSE
    OBVIOUS
  <2>2. PICK i \in Late : \A j \in Late : ~ (j < i)
    <3>1. Late \subseteq Nat
      OBVIOUS
    <3>2. IsWellFoundedOn(Less, Nat)
      BY NatLessThanWellFounded, Zenon
    <3> HIDE DEF Late
    <3>3. PICK i \in Late : \A j \in Late : ~ (<<j, i>> \in Less)
      BY <2>1, <3>1, <3>2, WFMin
    <3>4. ASSUME NEW j \in Late, j < i PROVE FALSE
      <4>1. <<j, i>> \in Less
        BY <3>1, <3>4 DEF OpToRel
      <4> QED
        BY <3>3, <4>1
    <3> QED
      BY <3>4
  <2>3. CASE i = 1
    <3>1. from_node \in queued /\ depth[from_node] = 0
      BY DEF SPInv, InQueue, Parents
    <3> QED
      BY <1>1, <2>2, <2>3, <3>1
  <2>4. CASE i # 1
    <3>1. /\ i - 1 \in 1 .. k /\ i - 1 \in 1 .. k - 1 /\ i \in 1 .. k
          /\ i - 1 < i /\ i - 1 + 1 = i
      BY <2>2, <2>4
    <3>2. i - 1 \notin Late
      BY <2>2, <3>1
    <3>3. p[i - 1] \in queued /\ depth[p[i - 1]] <= i - 1 - 1 /\ p[i - 1] \in Node
      BY <1>1, <3>1, <3>2
    <3>4. depth[p[i - 1]] < depth[current]
      BY <1>3, <3>1, <3>3
    <3>5. p[i - 1] # current
      BY <1>3, <3>4
    <3>6. \A j \in 1 .. Len(queue) : queue[j] # p[i - 1]
      <4>1. \A j \in 1 .. Len(queue) : depth[current] <= depth[queue[j]]
        BY DEF SPInv, InQueue
      <4> QED
        BY <1>3, <3>3, <3>4, <4>1
    <3>7. p[i] \in adjacent[p[i - 1]]
      BY <1>1, <1>2, <3>1
    <3>8. Near(p[i - 1], p[i])
      BY <3>3, <3>5, <3>6, <3>7 DEF SPInv, Expanded
    <3>9. p[i] \in queued /\ depth[p[i]] <= i - 1
      BY <1>1, <1>3, <3>1, <3>3, <3>8 DEF Near
    <3> QED
      BY <2>2, <3>9
  <2> QED
    BY <2>3, <2>4
<1>5. k \in 1 .. k
  OBVIOUS
<1> QED
  BY <1>1, <1>4, <1>5

(***************************************************************************)
(* Finding n through current.                                              *)
(***************************************************************************)
LEMMA DiscoverStep ==
    ASSUME SPInv, phase = "searching", NEW n \in neighbors, Discover(n),
           UNCHANGED query
    PROVE  SPInv'
<1> DEFINE m == Len(queue)
           d == depth[current]
<1>1. /\ n \notin queued /\ queued' = queued \cup {n} /\ current' = current
      /\ parent' = [parent EXCEPT ![n] = current]
      /\ depth' = [depth EXCEPT ![n] = d + 1]
      /\ queue' = Append(queue, n) /\ neighbors' = neighbors \ {n}
      /\ adjacent' = adjacent /\ from_node' = from_node /\ to_node' = to_node
  BY DEF Discover, query
<1>2. /\ n \in Node /\ n \in adjacent[current] /\ queue \in Seq(Node) /\ m \in Nat
      /\ current \in queued /\ from_node \in queued /\ d \in Nat
      /\ queued \in SUBSET Node /\ depth \in [Node -> Nat]
      /\ parent \in [Node -> Node] /\ n # current /\ n # from_node
  BY <1>1 DEF SPInv, SPTypeOK, InQueue
<1>3. /\ queue' \in Seq(Node) /\ Len(queue') = m + 1 /\ queue'[m + 1] = n
      /\ \A i \in 1 .. m : queue'[i] = queue[i]
  BY <1>1, <1>2, AppendProperties
<1>4. /\ depth' \in [Node -> Nat] /\ depth'[n] = d + 1
      /\ \A v \in queued : depth'[v] = depth[v] /\ parent'[v] = parent[v]
      /\ parent'[n] = current /\ parent' \in [Node -> Node]
  BY <1>1, <1>2
<1>5. /\ phase' \in {"searching", "reading"}
      /\ found' \in Seq(Node)
  <2>1. <<n>> \in Seq(Node) /\ found \in Seq(Node)
    BY <1>2 DEF SPInv, SPTypeOK
  <2>2. CASE n = to_node
    BY <2>1, <2>2 DEF Discover
  <2>3. CASE n # to_node
    BY <2>1, <2>3 DEF Discover
  <2> QED
    BY <2>2, <2>3
<1>6. SPTypeOK'
  BY <1>1, <1>2, <1>3, <1>4, <1>5 DEF SPInv, SPTypeOK
<1>7. InQueue'
  <2>1. /\ \A i \in 1 .. m : queue[i] \in queued /\ d <= depth[queue[i]]
        /\ \A v \in queued : depth[v] <= d + 1
        /\ \A i, j \in 1 .. m : i <= j => depth[queue[i]] <= depth[queue[j]]
    BY DEF SPInv, InQueue
  <2>2. \A i \in 1 .. m + 1 : queue'[i] \in queued' /\ d <= depth'[queue'[i]]
    BY <1>1, <1>2, <1>3, <1>4, <2>1
  <2>3. \A v \in queued' : depth'[v] <= d + 1
    BY <1>1, <1>2, <1>4, <2>1
  <2>4. ASSUME NEW i \in 1 .. m + 1, NEW j \in 1 .. m + 1, i <= j
        PROVE  depth'[queue'[i]] <= depth'[queue'[j]]
    <3>1. CASE j = m + 1
      BY <1>2, <1>3, <1>4, <2>2, <2>3, <3>1
    <3>2. CASE j # m + 1
      <4>1. i \in 1 .. m /\ j \in 1 .. m
        BY <1>2, <2>4, <3>2
      <4> QED
        BY <1>3, <1>4, <2>1, <2>4, <4>1
    <3> QED
      BY <3>1, <3>2
  <2>5. neighbors' \subseteq adjacent[current]
    BY <1>1 DEF SPInv, InQueue
  <2>6. current' \in queued' /\ from_node' \in queued' /\ depth'[current] = d
    BY <1>1, <1>2, <1>4
  <2> QED
    BY <1>1, <1>3, <2>2, <2>3, <2>4, <2>5, <2>6 DEF InQueue
<1>8. Expanded'
  <2> SUFFICES ASSUME NEW v \in queued'
               PROVE  \/ \E i \in 1 .. m + 1 : queue'[i] = v
                      \/ \A x \in adjacent[v] :
                             \/ x \in queued' /\ depth'[x] <= depth'[v] + 1
                             \/ v = current /\ x \in neighbors'
    BY <1>1, <1>3 DEF Expanded, Near
  <2>1. CASE v = n
    BY <1>2, <1>3, <2>1
  <2>2. CASE \E i \in 1 .. m : queue[i] = v
    <3>1. PICK i \in 1 .. m : queue[i] = v
      BY <2>2
    <3>2. i \in 1 .. m + 1 /\ queue'[i] = v
      BY <1>2, <1>3, <3>1
    <3> QED
      BY <3>2
  <2>3. CASE v # n /\ ~ \E i \in 1 .. m : queue[i] = v
    <3>1. v \in queued
      BY <1>1, <2>3
    <3>2. \A x \in adjacent[v] : Near(v, x) \/ (v = current /\ x \in neighbors)
      BY <2>3, <3>1 DEF SPInv, Expanded
    <3>3. ASSUME NEW x \in adjacent[v]
          PROVE  \/ x \in queued' /\ depth'[x] <= depth'[v] + 1
                 \/ v = current /\ x \in neighbors'
      <4>1. CASE Near(v, x)
        BY <1>1, <1>4, <3>1, <4>1 DEF Near
      <4>2. CASE v = current /\ x \in neighbors /\ x = n
        BY <1>1, <1>2, <1>4, <4>2
      <4>3. CASE v = current /\ x \in neighbors /\ x # n
        BY <1>1, <4>3
      <4> QED
        BY <3>2, <4>1, <4>2, <4>3
    <3> QED
      BY <3>3
  <2> QED
    BY <2>1, <2>2, <2>3
<1>9. Parents'
  <2>1. ASSUME NEW v \in queued
        PROVE  IF v = from_node THEN depth'[v] = 0
               ELSE /\ parent'[v] \in queued' /\ v \in adjacent[parent'[v]]
                    /\ depth'[v] = depth'[parent'[v]] + 1
    BY <1>1, <1>4 DEF SPInv, Parents
  <2>2. /\ parent'[n] \in queued' /\ n \in adjacent[parent'[n]]
        /\ depth'[n] = depth'[parent'[n]] + 1
    BY <1>1, <1>2, <1>4
  <2> QED
    BY <1>1, <1>2, <2>1, <2>2 DEF Parents
<1>10. Nearest'
  <2>1. \A v, k : WalksTo(v, k)' = WalksTo(v, k)
    BY <1>1 DEF WalksTo, Linked
  <2>2. \A v \in queued : \A k \in 1 .. depth'[v] : WalksTo(v, k) = {}
    BY <1>4 DEF SPInv, Nearest
  <2>3. ASSUME NEW k \in 1 .. depth'[n], WalksTo(n, k) # {} PROVE FALSE
    <3>1. k \in Nat \ {0} /\ k <= d + 1
      BY <1>2, <1>4, <2>3
    <3> QED
      BY <1>1, <2>3, <3>1, WalkQueued
  <2> QED
    BY <1>1, <2>1, <2>2, <2>3 DEF Nearest
<1>11. FoundSoFar'
  <2>1. CASE n = to_node
    <3>1. phase' = "reading" /\ found' = <<n>>
      BY <2>1 DEF Discover
    <3>2. found' # <<>> /\ Len(found') = 1 /\ found'[1] = n
      BY <3>1
    <3>3. Linked(found)'
      BY <3>2 DEF Linked
    <3>4. depth'[found'[1]] + Len(found') = depth'[to_node'] + 1
      BY <1>1, <1>2, <1>4, <2>1, <3>2
    <3> QED
      BY <1>1, <2>1, <3>1, <3>2, <3>3, <3>4 DEF FoundSoFar
  <2>2. CASE n # to_node
    <3>1. phase' = phase /\ found' = found
      BY <2>2 DEF Discover
    <3> QED
      BY <1>1, <2>2, <3>1 DEF SPInv, FoundSoFar
  <2> QED
    BY <2>1, <2>2
<1> QED
  BY <1>6, <1>7, <1>8, <1>9, <1>10, <1>11 DEF SPInv

(***************************************************************************)
(* Reading the path back: each node put before it is one layer nearer.     *)
(***************************************************************************)
LEMMA ReadBackStep ==
    ASSUME SPInv, phase = "reading", ReadBack, UNCHANGED query
    PROVE  SPInv'
<1> DEFINE m == Len(found)
           h == found[1]
<1>1. /\ queued' = queued /\ current' = current /\ parent' = parent
      /\ depth' = depth /\ queue' = queue /\ neighbors' = neighbors
      /\ adjacent' = adjacent /\ from_node' = from_node /\ to_node' = to_node
  BY DEF ReadBack, query, search
<1>2. /\ found # <<>> /\ to_node \in queued /\ h \in queued
      /\ found[m] = to_node /\ depth[h] + m = depth[to_node] + 1 /\ Linked(found)
  BY DEF SPInv, FoundSoFar
<1>3. /\ found \in Seq(Node) /\ m \in Nat \ {0} /\ Head(found) = h /\ h \in Node
      /\ parent \in [Node -> Node] /\ depth \in [Node -> Nat]
      /\ \A i \in 1 .. m : found[i] \in Node
  <2>1. found \in Seq(Node)
    BY DEF SPInv, SPTypeOK
  <2>2. m \in Nat \ {0} /\ \A i \in 1 .. m : found[i] \in Node
    BY <1>2, <2>1, EmptySeq, ElementOfSeq, Zenon
  <2> QED
    BY <1>2, <2>1, <2>2 DEF SPInv, SPTypeOK
<1>4. InQueue' /\ Expanded' /\ Parents' /\ Nearest'
  BY <1>1 DEF SPInv, InQueue, Expanded, Near, Parents, Nearest, WalksTo, Linked
<1>5. CASE h = from_node
  <2>1. phase' = "returned" /\ found' = found
    BY <1>3, <1>5 DEF ReadBack
  <2>2. SPTypeOK'
    BY <1>1, <2>1 DEF SPInv, SPTypeOK
  <2>3. FoundSoFar'
    BY <1>1, <1>2, <1>5, <2>1 DEF FoundSoFar, Linked
  <2> QED
    BY <1>4, <2>2, <2>3 DEF SPInv
<1>6. CASE h # from_node
  <2> DEFINE q == parent[h]
  <2>1. phase' = phase /\ found' = <<q>> \o found
    BY <1>3, <1>6 DEF ReadBack
  <2>2. q \in queued /\ h \in adjacent[q] /\ depth[h] = depth[q] + 1 /\ q \in Node
    BY <1>2, <1>3, <1>6 DEF SPInv, Parents
  <2>3. <<q>> \in Seq(Node) /\ Len(<<q>>) = 1 /\ <<q>>[1] = q
    BY <2>2
  <2>4. /\ found' \in Seq(Node) /\ Len(found') = 1 + m
        /\ \A i \in 1 .. 1 + m : found'[i] = IF i <= 1 THEN <<q>>[i] ELSE found[i - 1]
    BY <1>3, <2>1, <2>3, ConcatProperties
  <2>5. found'[1] = q /\ \A i \in 2 .. m + 1 : found'[i] = found[i - 1]
    BY <1>3, <2>3, <2>4
  <2>6. SPTypeOK'
    BY <1>1, <2>1, <2>4 DEF SPInv, SPTypeOK
  <2>7. found' # <<>> /\ found'[m + 1] = to_node /\ Len(found') = m + 1
    <3>1. Len(found') = m + 1 /\ m + 1 # 0 /\ m + 1 \in 2 .. m + 1 /\ m + 1 - 1 = m
      BY <1>3, <2>4
    <3>2. found'[m + 1] = found[m]
      BY <2>5, <3>1
    <3> QED
      BY <1>2, <3>1, <3>2
  <2>8. depth[q] + (m + 1) = depth[to_node] + 1
    BY <1>2, <1>3, <2>2
  <2>9. Linked(found)'
    <3>a. Len(found') - 1 = m
      BY <1>3, <2>7
    <3> SUFFICES ASSUME NEW i \in 1 .. m PROVE found'[i + 1] \in adjacent[found'[i]]
      BY <1>1, <3>a DEF Linked
    <3>1. CASE i = 1
      BY <1>3, <2>2, <2>5, <3>1
    <3>2. CASE i # 1
      <4>1. /\ i - 1 \in 1 .. m - 1 /\ i - 1 + 1 = i /\ i + 1 - 1 = i
            /\ i \in 2 .. m + 1 /\ i + 1 \in 2 .. m + 1
        BY <1>3, <3>2
      <4> QED
        BY <1>2, <2>5, <4>1 DEF Linked
    <3> QED
      BY <3>1, <3>2
  <2>10. FoundSoFar'
    BY <1>1, <1>2, <2>1, <2>2, <2>5, <2>7, <2>8, <2>9 DEF FoundSoFar
  <2> QED
    BY <1>4, <2>6, <2>10 DEF SPInv
<1> QED
  BY <1>5, <1>6

LEMMA NoPathStep ==
    ASSUME SPInv, phase = "searching", NoPath, UNCHANGED query
    PROVE  SPInv'
<1>1. /\ queued' = queued /\ current' = current /\ parent' = parent
      /\ depth' = depth /\ queue' = queue /\ neighbors' = neighbors
      /\ adjacent' = adjacent /\ from_node' = from_node /\ to_node' = to_node
      /\ found' = found /\ phase' = "returned" /\ queue = <<>> /\ neighbors = {}
  BY DEF NoPath, query, search
<1>2. SPTypeOK' /\ InQueue' /\ Expanded' /\ Parents' /\ Nearest'
  BY <1>1 DEF SPInv, SPTypeOK, InQueue, Expanded, Near, Parents, Nearest,
              WalksTo, Linked
<1>3. found = <<>> /\ to_node \notin queued
  BY DEF SPInv, FoundSoFar
<1>4. FoundSoFar'
  BY <1>1, <1>3 DEF FoundSoFar
<1> QED
  BY <1>2, <1>4 DEF SPInv

LEMMA SPInvStep == SPInv /\ [SPNext]_spVars => SPInv'
<1> SUFFICES ASSUME SPInv, [SPNext]_spVars PROVE SPInv'
  OBVIOUS
<1>1. CASE UNCHANGED spVars
  <2>1. /\ queued' = queued /\ current' = current /\ parent' = parent
        /\ depth' = depth /\ queue' = queue /\ neighbors' = neighbors
        /\ adjacent' = adjacent /\ from_node' = from_node /\ to_node' = to_node
        /\ found' = found /\ phase' = phase
    BY <1>1 DEF spVars, query, search
  <2>2. SPTypeOK' /\ InQueue' /\ Expanded' /\ Parents' /\ Nearest'
    <3>1. SPTypeOK' /\ InQueue'
      BY <2>1 DEF SPInv, SPTypeOK, InQueue
    <3>2. Expanded'
      BY <2>1 DEF SPInv, Expanded, Near
    <3>3. Parents'
      BY <2>1 DEF SPInv, Parents
    <3>4. Nearest'
      BY <2>1 DEF SPInv, Nearest, WalksTo, Linked
    <3> QED
      BY <3>1, <3>2, <3>3, <3>4
  <2>3. FoundSoFar'
    <3>1. Linked(found)' <=> Linked(found)
      BY <2>1 DEF Linked
    <3>2. CASE found = <<>>
      BY <2>1, <3>2 DEF SPInv, FoundSoFar
    <3>3. CASE found # <<>>
      BY <2>1, <3>1, <3>3 DEF SPInv, FoundSoFar
    <3> QED
      BY <3>2, <3>3
  <2> QED
    BY <2>2, <2>3 DEF SPInv
<1>2. CASE SPNext
  BY <1>2, PopStep, PassByStep, DiscoverStep, ReadBackStep, NoPathStep DEF SPNext
<1> QED
  BY <1>1, <1>2

(***************************************************************************)
(* With an empty queue everything that is linked to a queued node is       *)
(* queued.                                                                 *)
(***************************************************************************)
LEMMA NothingFound ==
    ASSUME SPInv, phase = "returned", found = <<>>
    PROVE  to_node \notin ReachableFrom(from_node, adjacent)
<1>1. queue = <<>> /\ neighbors = {} /\ to_node \notin queued
  BY DEF SPInv, FoundSoFar
<1>2. ~ \E i \in 1 .. Len(queue) : TRUE
  BY <1>1
<1>3. \A v \in queued : adjacent[v] \subseteq queued
  BY <1>1, <1>2 DEF SPInv, Expanded, Near
<1>4. queued \in SUBSET DOMAIN adjacent /\ from_node \in queued
  BY DEF SPInv, SPTypeOK, InQueue
<1> QED
  BY <1>1, <1>3, <1>4 DEF ReachableFrom

LEMMA PathFound ==
    ASSUME SPInv, phase = "returned", found # <<>>
    PROVE  /\ found \in Walks(Len(found))
           /\ \A k \in 1 .. Len(found) - 1 : Walks(k) = {}
<1> DEFINE m == Len(found)
<1>1. /\ found[1] = from_node /\ found[m] = to_node /\ Linked(found)
      /\ depth[from_node] + m = depth[to_node] + 1 /\ to_node \in queued
  BY DEF SPInv, FoundSoFar
<1>2. found \in [1 .. m -> Node] /\ m \in Nat
  BY LenProperties DEF SPInv, SPTypeOK
<1>3. depth[from_node] = 0 /\ depth[to_node] \in Nat
  BY DEF SPInv, SPTypeOK, InQueue, Parents
<1>4. ASSUME NEW k \in 1 .. m - 1 PROVE Walks(k) = {}
  <2>1. k \in 1 .. depth[to_node]
    BY <1>1, <1>2, <1>3
  <2>2. WalksTo(to_node, k) = {}
    BY <1>1, <2>1 DEF SPInv, Nearest
  <2> QED
    BY <2>2 DEF Walks, WalksTo
<1> QED
  BY <1>1, <1>2, <1>4 DEF Walks

(***************************************************************************)
(* In any graph, between any two nodes and whatever the order of the       *)
(* neighbours, bfs_shortest_path returns a way over the fewest nodes, and  *)
(* nothing only if to_node is out of reach (executor.cpp:402-446).         *)
(***************************************************************************)
THEOREM ShortestPathCorrect == SPSpec => []ShortestPathExact
<1>1. SPInv => ShortestPathExact
  BY NothingFound, PathFound DEF ShortestPathExact
<1> QED
  BY <1>1, SPInitInv, SPInvStep, PTL DEF SPSpec

----------------------------------------------------------------------------
(***************************************************************************)
(* path is a way from from_node that repeats no node and on_path its       *)
(* nodes; of each node's neighbours some are untried, but never the one    *)
(* that path goes on to.  A path asked for has been returned, or it is     *)
(* still to come: it leaves path at some node for one yet untried there.   *)
(***************************************************************************)
BPTypeOK ==
    /\ adjacent \in [Node -> SUBSET Node]
    /\ from_node \in Node /\ to_node \in Node
    /\ max_length \in Nat
    /\ path \in Seq(Node) /\ on_path \in SUBSET Node
    /\ untried \in Seq(SUBSET Node)
    /\ paths \in Seq(Seq(Node)) /\ ended \in BOOLEAN

OnPath ==
    /\ path # <<>> /\ path[1] = from_node
    /\ Linked(path) /\ IsInjective(path)
    /\ on_path = ToSet(path)
    /\ Len(untried) = Len(path)
    /\ \A i \in 1 .. Len(path) : untried[i] \subseteq adjacent[path[i]]
    /\ \A i \in 1 .. Len(path) - 1 : path[i + 1] \notin untried[i]

LeavesAt(q, i) ==
    /\ i < Len(q) /\ q[i + 1] \in untried[i]
    /\ \A j \in 1 .. i : q[j] = path[j]

ToCome(q) == \E i \in 1 .. Len(path) : LeavesAt(q, i)

Returned(q) == \E i \in 1 .. Len(paths) : paths[i] = q

OnlyPaths == \A i \in 1 .. Len(paths) : paths[i] \in SimplePaths(max_length)

OnceEach ==
    \A i, j \in 1 .. Len(paths) : paths[i] = paths[j] => i = j

AllPaths == \A q \in SimplePaths(max_length) : Returned(q) <=> ~ ToCome(q)

AtEnd == ended => Len(path) = 1 /\ untried[1] = {}

BPInv ==
    BPTypeOK /\ OnPath /\ OnlyPaths /\ OnceEach /\ AllPaths /\ AtEnd

----------------------------------------------------------------------------
LEMMA IsSimplePath ==
    ASSUME max_length \in Nat, NEW q
    PROVE  q \in SimplePaths(max_length) <=>
               /\ q \in Seq(Node) /\ Len(q) \in 2 .. max_length + 1
               /\ q[1] = from_node /\ q[Len(q)] = to_node
               /\ Linked(q) /\ IsInjective(q)
<1>1. ASSUME q \in SimplePaths(max_length)
      PROVE  /\ q \in Seq(Node) /\ Len(q) \in 2 .. max_length + 1
             /\ q[1] = from_node /\ q[Len(q)] = to_node
             /\ Linked(q) /\ IsInjective(q)
  <2>1. PICK k \in 2 .. max_length + 1 : q \in Walks(k) /\ IsInjective(q)
    BY <1>1 DEF SimplePaths
  <2>2. /\ q \in [1 .. k -> Node] /\ q[1] = from_node /\ q[k] = to_node
        /\ Linked(q) /\ k \in Nat
    BY <2>1 DEF Walks
  <2>3. q \in Seq(Node) /\ Len(q) = k
    BY <2>2, SeqDef
  <2> QED
    BY <2>1, <2>2, <2>3
<1>2. ASSUME /\ q \in Seq(Node) /\ Len(q) \in 2 .. max_length + 1
             /\ q[1] = from_node /\ q[Len(q)] = to_node
             /\ Linked(q) /\ IsInjective(q)
      PROVE  q \in SimplePaths(max_length)
  <2>1. q \in [1 .. Len(q) -> Node]
    BY <1>2, LenProperties
  <2>2. q \in Walks(Len(q))
    BY <1>2, <2>1 DEF Walks
  <2> QED
    BY <1>2, <2>2 DEF SimplePaths
<1> QED
  BY <1>1, <1>2

\* What path and untried are, with what only their types say spelled out.
LEMMA PathFacts ==
    ASSUME BPInv
    PROVE  /\ path \in Seq(Node) /\ Len(path) \in Nat \ {0}
           /\ DOMAIN path = 1 .. Len(path)
           /\ \A i \in 1 .. Len(path) : path[i] \in Node
           /\ untried \in Seq(SUBSET Node) /\ Len(untried) = Len(path)
           /\ Last(path) = path[Len(path)] /\ Last(untried) = untried[Len(path)]
           /\ Len(path) \in 1 .. Len(path)
<1>1. path \in Seq(Node) /\ path # <<>> /\ untried \in Seq(SUBSET Node)
      /\ Len(untried) = Len(path)
  BY DEF BPInv, BPTypeOK, OnPath
<1>2. /\ Len(path) \in Nat \ {0} /\ DOMAIN path = 1 .. Len(path)
      /\ \A i \in 1 .. Len(path) : path[i] \in Node
  BY <1>1, EmptySeq, LenProperties, ElementOfSeq, Zenon
<1>3. Len(path) \in 1 .. Len(path)
  BY <1>2
<1> QED
  BY <1>1, <1>2, <1>3 DEF Last

\* Looking at a neighbour of the last node.
LEMMA TriedFacts ==
    ASSUME BPInv, NEW v \in Last(untried)
    PROVE  /\ v \in Node /\ v \in adjacent[path[Len(path)]]
           /\ Tried(v) \in Seq(SUBSET Node) /\ Len(Tried(v)) = Len(path)
           /\ \A i \in 1 .. Len(path) :
                  Tried(v)[i] = IF i = Len(path) THEN untried[i] \ {v}
                                ELSE untried[i]
<1> DEFINE n == Len(path)
<1>1. /\ untried \in Seq(SUBSET Node) /\ Len(untried) = n /\ n \in 1 .. n
      /\ v \in untried[n]
  BY PathFacts
<1>2. untried[n] \in SUBSET Node
  BY <1>1, ElementOfSeq
<1>3. untried[n] \subseteq adjacent[path[n]]
  BY <1>1 DEF BPInv, OnPath
<1>4. Tried(v) = [untried EXCEPT ![n] = untried[n] \ {v}]
  BY <1>1 DEF Tried
<1>5. untried[n] \ {v} \in SUBSET Node
  BY <1>2
<1> HIDE DEF n
<1>6. /\ Tried(v) \in Seq(SUBSET Node) /\ Len(Tried(v)) = n
      /\ \A i \in 1 .. n :
             Tried(v)[i] = IF i = n THEN untried[n] \ {v} ELSE untried[i]
  BY <1>1, <1>4, <1>5, ExceptSeq
<1> QED
  BY <1>1, <1>2, <1>3, <1>6 DEF n

(***************************************************************************)
(* A call of dfs for v.  Of the paths still to come, the one that ends     *)
(* with v is returned and no longer to come; those that go on from v now   *)
(* leave path there, since v's neighbours are untried unless v is to_node  *)
(* or path has max_length edges, and then there are none that go on.       *)
(***************************************************************************)
LEMMA DfsStep ==
    ASSUME BPInv, ~ ended, NEW v \in Last(untried), Dfs(v),
           UNCHANGED <<query, max_length>>
    PROVE  BPInv'
<1> DEFINE n == Len(path)
           U == Untried(Append(path, v))
<1>1. /\ v \notin on_path /\ path' = Append(path, v) /\ on_path' = on_path \cup {v}
      /\ untried' = Append(Tried(v), U) /\ ended' = ended
      /\ paths' = IF ~ TooLong(path') /\ Arrived(path')
                  THEN Append(paths, path') ELSE paths
      /\ adjacent' = adjacent /\ from_node' = from_node /\ to_node' = to_node
      /\ max_length' = max_length
  BY DEF Dfs, query
<1>2. /\ path \in Seq(Node) /\ n \in Nat \ {0} /\ n \in 1 .. n
      /\ DOMAIN path = 1 .. n /\ Len(untried) = n
      /\ \A i \in 1 .. n : path[i] \in Node
      /\ v \in untried[n] /\ v \in Node /\ v \in adjacent[path[n]]
  BY PathFacts, TriedFacts
<1>3. /\ adjacent \in [Node -> SUBSET Node] /\ max_length \in Nat
      /\ paths \in Seq(Seq(Node)) /\ to_node \in Node
      /\ path[1] = from_node /\ IsInjective(path) /\ Linked(path)
      /\ on_path = ToSet(path)
      /\ \A i \in 1 .. n : untried[i] \subseteq adjacent[path[i]]
      /\ \A i \in 1 .. n - 1 : path[i + 1] \notin untried[i]
  BY DEF BPInv, BPTypeOK, OnPath
<1>4. /\ path' \in Seq(Node) /\ path' # <<>> /\ Len(path') = n + 1
      /\ path'[n + 1] = v /\ \A i \in 1 .. n : path'[i] = path[i]
  BY <1>1, <1>2, AppendProperties
<1>5. Last(path') = v /\ DOMAIN path' = 1 .. n + 1
  BY <1>4, LenProperties DEF Last
<1>6. /\ TooLong(path') <=> n > max_length
      /\ Arrived(path') <=> v = to_node
      /\ U = IF n > max_length \/ v = to_node THEN {} ELSE adjacent[v]
  <2>1. (TooLong(path') <=> n > max_length) /\ (Arrived(path') <=> v = to_node)
    BY <1>2, <1>3, <1>4, <1>5 DEF TooLong, Arrived
  <2> QED
    BY <1>1, <1>5, <2>1 DEF Untried
<1>7. /\ untried' \in Seq(SUBSET Node) /\ Len(untried') = n + 1
      /\ untried'[n + 1] = U
      /\ \A i \in 1 .. n : untried'[i] = IF i = n THEN untried[i] \ {v} ELSE untried[i]
  <2>1. U \in SUBSET Node
    BY <1>2, <1>3, <1>6
  <2>2. /\ Tried(v) \in Seq(SUBSET Node) /\ Len(Tried(v)) = n
        /\ \A i \in 1 .. n :
               Tried(v)[i] = IF i = n THEN untried[i] \ {v} ELSE untried[i]
    BY TriedFacts
  <2> HIDE DEF U
  <2>3. /\ untried' \in Seq(SUBSET Node) /\ Len(untried') = n + 1
        /\ untried'[n + 1] = U /\ \A i \in 1 .. n : untried'[i] = Tried(v)[i]
    BY <1>1, <2>1, <2>2, AppendProperties
  <2> QED
    BY <2>2, <2>3
<1>8. \A i \in 1 .. n : path[i] # v
  BY <1>1, <1>2, <1>3 DEF ToSet
<1>9. Linked(path')
  BY <1>1, <1>2, <1>3, <1>4 DEF Linked
<1>10. IsInjective(path')
  <2>1. \A i, j \in 1 .. n : path[i] = path[j] => i = j
    BY <1>2, <1>3 DEF IsInjective
  <2> QED
    BY <1>2, <1>4, <1>5, <1>8, <2>1 DEF IsInjective
<1> DEFINE S == SimplePaths(max_length)
<1>11. S' = S
  BY <1>1 DEF SimplePaths, Walks, Linked
<1>12. path' \in S <=> n <= max_length /\ v = to_node
  <2>1. path'[1] = from_node
    BY <1>2, <1>3, <1>4
  <2>2. path' \in S <=>
            /\ path' \in Seq(Node) /\ Len(path') \in 2 .. max_length + 1
            /\ path'[1] = from_node /\ path'[Len(path')] = to_node
            /\ Linked(path') /\ IsInjective(path')
    BY <1>3, IsSimplePath, Zenon
  <2>3. n + 1 \in 2 .. max_length + 1 <=> n <= max_length
    BY <1>2, <1>3
  <2> QED
    BY <1>4, <1>9, <1>10, <2>1, <2>2, <2>3
<1>13. paths' = IF path' \in S THEN Append(paths, path') ELSE paths
  BY <1>1, <1>2, <1>3, <1>6, <1>12
<1>14. /\ \A q : Returned(q)' <=> Returned(q) \/ (q = path' /\ path' \in S)
       /\ paths' \in Seq(Seq(Node))
  <2>1. CASE path' \in S
    <3>1. paths' = Append(paths, path')
      BY <1>13, <2>1
    <3>2. /\ paths' \in Seq(Seq(Node)) /\ Len(paths') = Len(paths) + 1
          /\ \A i \in 1 .. Len(paths) : paths'[i] = paths[i]
          /\ paths'[Len(paths) + 1] = path'
      BY <1>3, <1>4, <3>1, AppendProperties
    <3>3. Len(paths) \in Nat
      BY <1>3
    <3>4. \A i \in 1 .. Len(paths) + 1 : i \in 1 .. Len(paths) \/ i = Len(paths) + 1
      BY <3>3
    <3>5. /\ Len(paths) + 1 \in 1 .. Len(paths) + 1
          /\ \A i \in 1 .. Len(paths) : i \in 1 .. Len(paths) + 1
      BY <3>3
    <3> QED
      BY <2>1, <3>2, <3>4, <3>5 DEF Returned
  <2>2. CASE path' \notin S
    BY <1>3, <1>13, <2>2 DEF Returned
  <2> QED
    BY <2>1, <2>2
<1>15. BPTypeOK'
  <2>1. on_path \in SUBSET Node /\ ended \in BOOLEAN /\ from_node \in Node
    BY DEF BPInv, BPTypeOK
  <2> QED
    BY <1>1, <1>2, <1>3, <1>4, <1>7, <1>14, <2>1 DEF BPTypeOK
<1>16. OnPath'
  <2>1. on_path' = ToSet(path')
    <3>1. \A x : x \in ToSet(path') <=> \E i \in 1 .. n + 1 : path'[i] = x
      BY <1>5 DEF ToSet
    <3>2. \A x : x \in on_path' <=> (\E i \in 1 .. n : path[i] = x) \/ x = v
      BY <1>1, <1>2, <1>3 DEF ToSet
    <3>3. \A x : x \in on_path' <=> x \in ToSet(path')
      BY <1>2, <1>4, <3>1, <3>2
    <3> QED
      BY <3>3
  <2>2. ASSUME NEW i \in 1 .. n + 1 PROVE untried'[i] \subseteq adjacent[path'[i]]
    <3>1. CASE i = n + 1
      BY <1>4, <1>6, <1>7, <3>1
    <3>2. CASE i # n + 1
      <4>1. i \in 1 .. n
        BY <1>2, <3>2
      <4> QED
        BY <1>3, <1>4, <1>7, <4>1
    <3> QED
      BY <3>1, <3>2
  <2>3. ASSUME NEW i \in 1 .. n PROVE path'[i + 1] \notin untried'[i]
    <3>1. CASE i = n
      BY <1>4, <1>7, <3>1
    <3>2. CASE i # n
      <4>0. n \in Nat
        BY <1>2
      <4>1. i \in 1 .. n - 1 /\ i + 1 \in 1 .. n
        BY <3>2, <4>0
      <4> QED
        BY <1>3, <1>4, <1>7, <3>2, <4>1
    <3> QED
      BY <3>1, <3>2
  <2>4. Linked(path)' /\ path'[1] = from_node' /\ Len(path') - 1 = n
    BY <1>1, <1>2, <1>3, <1>4, <1>9 DEF Linked
  <2> QED
    BY <1>1, <1>4, <1>7, <1>10, <2>1, <2>2, <2>3, <2>4 DEF OnPath
<1>17. OnlyPaths'
  <2>1. \A i \in 1 .. Len(paths) : paths[i] \in S
    BY DEF BPInv, OnlyPaths
  <2>2. \A q : Returned(q) => q \in S
    BY <2>1 DEF Returned
  <2>3. \A q : Returned(q)' => q \in S
    BY <1>14, <2>2
  <2>4. \A i \in 1 .. Len(paths') : Returned(paths[i])'
    BY DEF Returned
  <2> QED
    BY <1>11, <2>3, <2>4 DEF OnlyPaths, Returned
<1> HIDE DEF S, U
<1>p. PICK p : p = path'
  OBVIOUS
<1>k. PICK k : k = n /\ k \in Nat \ {0}
  BY <1>2
\* A path still to come goes on from v, or as before.
<1>18. ASSUME NEW q \in S, NEW i \in 1 .. k
       PROVE  LeavesAt(q, i)' <=> LeavesAt(q, i) /\ ~ (i = k /\ q[k + 1] = v)
  <2>1. /\ untried'[i] = IF i = k THEN untried[i] \ {v} ELSE untried[i]
        /\ \A j \in 1 .. i : path'[j] = path[j]
    <3>1. i \in 1 .. n /\ \A j \in 1 .. i : j \in 1 .. n
      BY <1>k
    <3> QED
      BY <1>4, <1>7, <1>k, <3>1
  <2>2. i < k => i + 1 # k + 1
    BY <1>k
  <2> QED
    BY <1>k, <2>1, <2>2 DEF LeavesAt
<1>19. ASSUME NEW q \in S, LeavesAt(q, k + 1)'
       PROVE  LeavesAt(q, k)
  <2>1. /\ k + 1 < Len(q) /\ \A j \in 1 .. k + 1 : q[j] = path'[j]
    BY <1>k, <1>19 DEF LeavesAt
  <2>2. k < Len(q)
    <3>1. Len(q) \in Nat
      BY <1>k, <1>3, IsSimplePath DEF S
    <3> QED
      BY <1>k, <1>2, <2>1, <3>1
  <2>3. q[k + 1] = v /\ \A j \in 1 .. k : q[j] = path[j]
    BY <1>k, <1>2, <1>4, <2>1
  <2> QED
    BY <1>k, <1>2, <2>2, <2>3 DEF LeavesAt
<1>20. ASSUME NEW q \in S, LeavesAt(q, k), q[k + 1] = v, q # p
       PROVE  LeavesAt(q, k + 1)'
  <2>1. /\ q \in Seq(Node) /\ Len(q) \in Nat /\ Len(q) <= max_length + 1
        /\ q[Len(q)] = to_node
        /\ Linked(q) /\ IsInjective(q)
    BY <1>k, <1>3, IsSimplePath DEF S
  <2>2. k < Len(q) /\ \A j \in 1 .. k : q[j] = path[j]
    BY <1>k, <1>20 DEF LeavesAt
  <2>3. \A j \in 1 .. k + 1 : q[j] = path'[j]
    BY <1>k, <1>2, <1>4, <1>20, <2>2
  <2>4. Len(q) # k + 1
    BY <1>k, <1>4, <1>20, <1>p, <2>1, <2>3, SeqEqual
  <2>5. k + 1 < Len(q) /\ k <= max_length - 1 /\ k + 1 \in 1 .. Len(q) - 1
    BY <1>k, <1>2, <1>3, <2>1, <2>2, <2>4
  <2>6. q[k + 1 + 1] \in adjacent[v]
    BY <1>k, <1>20, <2>1, <2>5 DEF Linked
  <2>7. v # to_node
    <3>1. DOMAIN q = 1 .. Len(q) /\ k + 1 \in 1 .. Len(q) /\ Len(q) \in 1 .. Len(q)
      BY <1>k, <1>2, <2>1, <2>5
    <3> QED
      BY <1>k, <1>20, <2>1, <2>5, <3>1 DEF IsInjective
  <2>8. untried'[k + 1] = adjacent[v]
    BY <1>k, <1>2, <1>3, <1>6, <1>7, <2>5, <2>7 DEF U
  <2> QED
    BY <1>k, <2>3, <2>5, <2>6, <2>8 DEF LeavesAt
<1>21. LeavesAt(path', n)
  BY <1>2, <1>4 DEF LeavesAt
<1>22. ~ ToCome(p)'
  <2>1. \A i \in 1 .. n + 1 : ~ LeavesAt(p, i)'
    <3> SUFFICES ASSUME NEW i \in 1 .. n + 1, i < n + 1, path'[i + 1] \in untried'[i]
                 PROVE  FALSE
      BY <1>4, <1>p DEF LeavesAt
    <3>1. i \in 1 .. n
      BY <1>2
    <3> QED
      BY <1>4, <1>16, <3>1 DEF OnPath
  <2> QED
    BY <1>4, <2>1 DEF ToCome
<1>23. ASSUME NEW q \in S, q # p PROVE ToCome(q)' <=> ToCome(q)
  <2>1. ASSUME NEW i \in 1 .. n + 1, LeavesAt(q, i)' PROVE ToCome(q)
    <3>1. CASE i \in 1 .. n
      BY <1>18, <1>k, <2>1, <3>1 DEF ToCome
    <3>2. CASE i = n + 1
      BY <1>2, <1>19, <1>k, <2>1, <3>2 DEF ToCome
    <3> QED
      BY <1>2, <3>1, <3>2
  <2>2. ASSUME NEW i \in 1 .. n, LeavesAt(q, i)
        PROVE  \E j \in 1 .. n + 1 : LeavesAt(q, j)'
    <3>1. i \in 1 .. n + 1 /\ n + 1 \in 1 .. n + 1
      BY <1>2
    <3>2. CASE i = n /\ q[n + 1] = v
      BY <1>20, <1>23, <1>k, <2>2, <3>1, <3>2
    <3>3. CASE ~ (i = n /\ q[n + 1] = v)
      BY <1>18, <1>k, <2>2, <3>1, <3>3
    <3> QED
      BY <3>2, <3>3
  <2>3. ToCome(q)' <=> \E i \in 1 .. n + 1 : LeavesAt(q, i)'
    BY <1>4 DEF ToCome
  <2> QED
    BY <2>1, <2>2, <2>3 DEF ToCome
<1>24. \A q \in S : Returned(q) <=> ~ ToCome(q)
  BY DEF BPInv, AllPaths, S
<1>25. AllPaths'
  <2>1. ASSUME NEW q \in S PROVE Returned(q)' <=> ~ ToCome(q)'
    <3>1. CASE q = p
      BY <1>14, <1>22, <1>p, <2>1, <3>1 DEF S
    <3>2. CASE q # p
      BY <1>14, <1>23, <1>24, <1>p, <2>1, <3>2 DEF S
    <3> QED
      BY <3>1, <3>2
  <2>2. \A q \in S' : Returned(q)' <=> ~ ToCome(q)'
    BY <1>11, <2>1 DEF S
  <2> QED
    BY <2>2 DEF AllPaths, S
<1>26. OnceEach'
  <2>1. \A i, j \in 1 .. Len(paths) : paths[i] = paths[j] => i = j
    BY DEF BPInv, OnceEach
  <2>2. CASE path' \in S
    <3>1. ~ Returned(path')
      BY <1>2, <1>21, <1>24, <2>2 DEF ToCome
    <3>2. paths' = Append(paths, path')
      BY <1>13, <2>2 DEF S
    <3>3. /\ Len(paths') = Len(paths) + 1
          /\ \A i \in 1 .. Len(paths) : paths'[i] = paths[i]
          /\ paths'[Len(paths) + 1] = path'
      BY <1>3, <1>4, <3>2, AppendProperties
    <3>4. Len(paths) \in Nat
      BY <1>3
    <3>5. \A i \in 1 .. Len(paths) : paths[i] # path'
      BY <3>1 DEF Returned
    <3> QED
      BY <2>1, <3>3, <3>4, <3>5 DEF OnceEach
  <2>3. CASE path' \notin S
    BY <1>13, <2>1, <2>3 DEF OnceEach, S
  <2> QED
    BY <2>2, <2>3
<1> QED
  BY <1>1, <1>15, <1>16, <1>17, <1>25, <1>26 DEF BPInv, AtEnd

\* A neighbour on path: no path still to come goes on to it.
LEMMA SkipStep ==
    ASSUME BPInv, ~ ended, NEW v \in Last(untried), Skip(v),
           UNCHANGED <<query, max_length>>
    PROVE  BPInv'
<1> DEFINE n == Len(path)
           S == SimplePaths(max_length)
<1>1. /\ v \in on_path /\ path' = path /\ on_path' = on_path
      /\ untried' = Tried(v) /\ ended' = ended /\ paths' = paths
      /\ adjacent' = adjacent /\ from_node' = from_node /\ to_node' = to_node
      /\ max_length' = max_length
  BY DEF Skip, query
<1>2. /\ n \in Nat \ {0} /\ n \in 1 .. n /\ DOMAIN path = 1 .. n
  BY PathFacts
<1>3. /\ untried' \in Seq(SUBSET Node) /\ Len(untried') = n
      /\ \A i \in 1 .. n : untried'[i] = IF i = n THEN untried[i] \ {v} ELSE untried[i]
  BY <1>1, TriedFacts
<1>4. S' = S
  BY <1>1 DEF SimplePaths, Walks, Linked
<1>5. BPTypeOK'
  BY <1>1, <1>3 DEF BPInv, BPTypeOK
<1>6. OnPath'
  <2>1. \A i \in 1 .. n : untried'[i] \subseteq untried[i]
    BY <1>3
  <2>a. n \in Nat
    BY <1>2
  <2>b. \A i \in 1 .. n - 1 : i \in 1 .. n
    BY <2>a
  <2>2. Linked(path)' <=> Linked(path)
    BY <1>1 DEF Linked
  <2> QED
    BY <1>1, <1>3, <2>1, <2>2, <2>b DEF BPInv, OnPath
<1>7. OnlyPaths' /\ OnceEach'
  BY <1>1, <1>4 DEF BPInv, OnlyPaths, OnceEach
<1>8. ASSUME NEW q \in S, NEW i \in 1 .. n PROVE LeavesAt(q, i)' <=> LeavesAt(q, i)
  <2>1. CASE i # n
    BY <1>1, <1>3, <2>1 DEF LeavesAt
  <2>2. CASE i = n /\ q[i + 1] # v
    BY <1>1, <1>3, <2>2 DEF LeavesAt
  <2>3. CASE i = n /\ q[i + 1] = v
    <3>1. PICK j \in 1 .. n : path[j] = v
      BY <1>1, <1>2 DEF BPInv, OnPath, ToSet
    <3>2. max_length \in Nat
      BY DEF BPInv, BPTypeOK
    <3>3. Len(q) \in Nat /\ DOMAIN q = 1 .. Len(q) /\ IsInjective(q)
      BY <3>2, IsSimplePath, LenProperties
    <3>4. ~ (i < Len(q) /\ \A l \in 1 .. i : q[l] = path[l])
      <4>1. SUFFICES ASSUME i < Len(q), \A l \in 1 .. i : q[l] = path[l] PROVE FALSE
        OBVIOUS
      <4>2. j \in 1 .. i /\ j \in 1 .. Len(q) /\ i + 1 \in 1 .. Len(q) /\ j # i + 1
        BY <1>2, <2>3, <3>3, <4>1
      <4>3. q[j] = q[i + 1]
        BY <2>3, <3>1, <4>1, <4>2
      <4> QED
        BY <3>3, <4>2, <4>3 DEF IsInjective
    <3> QED
      BY <1>1, <3>4 DEF LeavesAt
  <2> QED
    BY <2>1, <2>2, <2>3
<1>9. AllPaths'
  <2>1. \A q \in S : ToCome(q)' <=> ToCome(q)
    BY <1>1, <1>8 DEF ToCome
  <2>2. \A q : Returned(q)' <=> Returned(q)
    BY <1>1 DEF Returned
  <2>3. \A q \in S : Returned(q) <=> ~ ToCome(q)
    BY DEF BPInv, AllPaths
  <2>4. \A q \in S : Returned(q)' <=> ~ ToCome(q)'
    BY <2>1, <2>2, <2>3
  <2>5. \A q \in S' : Returned(q)' <=> ~ ToCome(q)'
    BY <1>4, <2>4
  <2> QED
    BY <2>5 DEF AllPaths
<1> QED
  BY <1>1, <1>5, <1>6, <1>7, <1>9 DEF BPInv, AtEnd

\* The last node leaves path once nothing leaves path there.
LEMMA BacktrackStep ==
    ASSUME BPInv, ~ ended, Backtrack, UNCHANGED <<query, max_length>>
    PROVE  BPInv'
<1> DEFINE n == Len(path)
           S == SimplePaths(max_length)
<1>1. /\ untried[n] = {} /\ n > 1 /\ path' = SubSeq(path, 1, n - 1)
      /\ on_path' = on_path \ {path[n]}
      /\ untried' = SubSeq(untried, 1, Len(untried) - 1)
      /\ ended' = ended /\ paths' = paths
      /\ adjacent' = adjacent /\ from_node' = from_node /\ to_node' = to_node
      /\ max_length' = max_length
  BY PathFacts DEF Backtrack, query, Front, Last
<1>2. /\ n \in Nat \ {0} /\ n \in 1 .. n /\ DOMAIN path = 1 .. n
      /\ path \in Seq(Node) /\ untried \in Seq(SUBSET Node) /\ Len(untried) = n
      /\ path # <<>> /\ untried # <<>>
  <2>1. Len(<<>>) = 0
    OBVIOUS
  <2> QED
    BY <2>1, PathFacts
<1>3. /\ path' \in Seq(Node) /\ Len(path') = n - 1
      /\ \A i \in 1 .. n - 1 : path'[i] = path[i]
  BY <1>1, <1>2, FrontProperties
<1>4. /\ untried' \in Seq(SUBSET Node) /\ Len(untried') = n - 1
      /\ \A i \in 1 .. n - 1 : untried'[i] = untried[i]
  BY <1>1, <1>2, FrontProperties
<1> HIDE DEF n
<1>5. S' = S
  BY <1>1 DEF SimplePaths, Walks, Linked
<1>6. BPTypeOK'
  BY <1>1, <1>3, <1>4 DEF BPInv, BPTypeOK
<1>7. OnPath'
  <2>1. /\ path[1] = from_node /\ Linked(path) /\ IsInjective(path)
        /\ on_path = ToSet(path)
        /\ \A i \in 1 .. n : untried[i] \subseteq adjacent[path[i]]
        /\ \A i \in 1 .. n - 1 : path[i + 1] \notin untried[i]
    BY DEF BPInv, OnPath, n
  <2>2. /\ 1 \in 1 .. n - 1 /\ n - 1 \in Nat
        /\ \A i \in 1 .. n - 1 : i \in 1 .. n /\ i # n
        /\ \A i \in 1 .. n : i \in 1 .. n - 1 \/ i = n
        /\ \A i \in 1 .. n - 1 - 1 : i \in 1 .. n - 1 /\ i + 1 \in 1 .. n - 1
    BY <1>1, <1>2
  <2>3. DOMAIN path' = 1 .. n - 1 /\ path' # <<>>
    BY <1>3, <2>2, LenProperties, EmptySeq
  <2>4. Linked(path)'
    <3>1. \A i \in 1 .. n - 1 : path[i + 1] \in adjacent[path[i]]
      BY <2>1 DEF Linked, n
    <3>2. \A i \in 1 .. n - 1 - 1 : path'[i + 1] \in adjacent[path'[i]]
      BY <1>3, <2>2, <3>1
    <3> QED
      BY <1>1, <1>3, <3>2 DEF Linked
  <2>5. IsInjective(path')
    BY <1>2, <1>3, <2>1, <2>2, <2>3 DEF IsInjective
  <2>6. on_path' = ToSet(path')
    <3>1. \A x : x \in ToSet(path') <=> \E i \in 1 .. n - 1 : path[i] = x
      BY <1>3, <2>3 DEF ToSet
    <3>2. \A x : x \in on_path' <=> (\E i \in 1 .. n : path[i] = x) /\ x # path[n]
      BY <1>1, <1>2, <2>1 DEF ToSet
    <3>3. \A i \in 1 .. n - 1 : path[i] # path[n]
      BY <1>2, <2>1, <2>2 DEF IsInjective
    <3>4. \A x : x \in on_path' <=> x \in ToSet(path')
      BY <2>2, <3>1, <3>2, <3>3
    <3> QED
      BY <3>4
  <2>7. \A i \in 1 .. n - 1 : untried'[i] \subseteq adjacent[path'[i]]
    BY <1>3, <1>4, <2>1, <2>2
  <2>8. \A i \in 1 .. n - 1 - 1 : path'[i + 1] \notin untried'[i]
    BY <1>3, <1>4, <2>1, <2>2
  <2>9. path'[1] = from_node
    BY <1>3, <2>1, <2>2
  <2> QED
    BY <1>1, <1>3, <1>4, <2>3, <2>4, <2>5, <2>6, <2>7, <2>8, <2>9 DEF OnPath
<1>8. OnlyPaths' /\ OnceEach'
  BY <1>1, <1>5 DEF BPInv, OnlyPaths, OnceEach
<1>9. ASSUME NEW q \in S, NEW i \in 1 .. n
      PROVE  LeavesAt(q, i) <=> i \in 1 .. n - 1 /\ LeavesAt(q, i)'
  <2>1. CASE i = n
    BY <1>1, <1>2, <2>1 DEF LeavesAt, n
  <2>2. CASE i # n
    <3>1. i \in 1 .. n - 1 /\ \A j \in 1 .. i : j \in 1 .. n - 1
      BY <1>2, <2>2
    <3> QED
      BY <1>3, <1>4, <3>1 DEF LeavesAt
  <2> QED
    BY <2>1, <2>2
<1>10. AllPaths'
  <2>0. \A i \in 1 .. n - 1 : i \in 1 .. n
    BY <1>2
  <2>1. \A q \in S : ToCome(q)' <=> ToCome(q)
    <3>1. \A q : ToCome(q)' <=> \E i \in 1 .. n - 1 : LeavesAt(q, i)'
      BY <1>3 DEF ToCome
    <3> QED
      BY <1>9, <2>0, <3>1 DEF ToCome, n
  <2>2. \A q : Returned(q)' <=> Returned(q)
    BY <1>1 DEF Returned
  <2>3. \A q \in S : Returned(q) <=> ~ ToCome(q)
    BY DEF BPInv, AllPaths
  <2>4. \A q \in S : Returned(q)' <=> ~ ToCome(q)'
    BY <2>1, <2>2, <2>3
  <2>5. \A q \in S' : Returned(q)' <=> ~ ToCome(q)'
    BY <1>5, <2>4
  <2> QED
    BY <2>5 DEF AllPaths
<1> QED
  BY <1>1, <1>6, <1>7, <1>8, <1>10 DEF BPInv, AtEnd

LEMMA EndStep ==
    ASSUME BPInv, End, UNCHANGED <<query, max_length>>
    PROVE  BPInv'
<1>1. /\ untried[1] = {} /\ Len(path) = 1 /\ ended' = TRUE
      /\ path' = path /\ on_path' = on_path /\ untried' = untried /\ paths' = paths
      /\ adjacent' = adjacent /\ from_node' = from_node /\ to_node' = to_node
      /\ max_length' = max_length
  BY PathFacts DEF End, query
<1>2. BPTypeOK' /\ AtEnd'
  BY <1>1 DEF BPInv, BPTypeOK, AtEnd
<1>3. Linked(path)' <=> Linked(path)
  BY <1>1 DEF Linked
<1>4. OnPath'
  BY <1>1, <1>3 DEF BPInv, OnPath
<1>5. SimplePaths(max_length)' = SimplePaths(max_length)
  BY <1>1 DEF SimplePaths, Walks, Linked
<1>6. \A q : (Returned(q)' <=> Returned(q)) /\ (ToCome(q)' <=> ToCome(q))
  BY <1>1 DEF Returned, ToCome, LeavesAt
<1>7. OnlyPaths' /\ OnceEach' /\ AllPaths'
  BY <1>1, <1>5, <1>6 DEF BPInv, OnlyPaths, OnceEach, AllPaths
<1> QED
  BY <1>2, <1>4, <1>7 DEF BPInv

LEMMA BPStutter == BPInv /\ UNCHANGED bpVars => BPInv'
<1> SUFFICES ASSUME BPInv, UNCHANGED bpVars PROVE BPInv'
  OBVIOUS
<1>1. /\ ended' = ended
      /\ path' = path /\ on_path' = on_path /\ untried' = untried /\ paths' = paths
      /\ adjacent' = adjacent /\ from_node' = from_node /\ to_node' = to_node
      /\ max_length' = max_length
  BY DEF bpVars, query
<1>2. BPTypeOK' /\ AtEnd'
  BY <1>1 DEF BPInv, BPTypeOK, AtEnd
<1>3. Linked(path)' <=> Linked(path)
  BY <1>1 DEF Linked
<1>4. OnPath'
  BY <1>1, <1>3 DEF BPInv, OnPath
<1>5. SimplePaths(max_length)' = SimplePaths(max_length)
  BY <1>1 DEF SimplePaths, Walks, Linked
<1>6. \A q : (Returned(q)' <=> Returned(q)) /\ (ToCome(q)' <=> ToCome(q))
  BY <1>1 DEF Returned, ToCome, LeavesAt
<1>7. OnlyPaths' /\ OnceEach' /\ AllPaths'
  BY <1>1, <1>5, <1>6 DEF BPInv, OnlyPaths, OnceEach, AllPaths
<1> QED
  BY <1>2, <1>4, <1>7 DEF BPInv

\* At first every path is still to come: it leaves path at from_node.
LEMMA BPInitInv == BPInit => BPInv
<1> SUFFICES ASSUME BPInit PROVE BPInv
  OBVIOUS
<1>1. /\ adjacent \in [Node -> SUBSET Node] /\ from_node \in Node /\ to_node \in Node
      /\ max_length \in Nat /\ on_path = {from_node} /\ ended = FALSE
  BY MaxLengthAssumption DEF BPInit, AnyQuery
<1>2. /\ path = <<from_node>> /\ untried = <<adjacent[from_node]>> /\ paths = <<>>
  BY DEF BPInit
<1>3. /\ Len(path) = 1 /\ path[1] = from_node /\ DOMAIN path = 1 .. 1
      /\ path # <<>> /\ Len(untried) = 1 /\ untried[1] = adjacent[from_node]
      /\ Len(paths) = 0
  BY <1>2
<1>4. BPTypeOK
  <2>1. path \in Seq(Node)
    BY <1>1, <1>2
  <2>2. adjacent[from_node] \in SUBSET Node
    BY <1>1
  <2>3. untried \in Seq(SUBSET Node)
    BY <1>2, <2>2
  <2>4. paths \in Seq(Seq(Node))
    BY <1>2
  <2> QED
    BY <1>1, <2>1, <2>3, <2>4 DEF BPTypeOK
<1>5. OnPath
  <2>1. Linked(path)
    BY <1>3 DEF Linked
  <2>2. IsInjective(path)
    BY <1>3 DEF IsInjective
  <2>3. ToSet(path) = {from_node}
    BY <1>3 DEF ToSet
  <2> QED
    BY <1>1, <1>3, <2>1, <2>2, <2>3 DEF OnPath
<1>6. OnlyPaths /\ OnceEach /\ AtEnd
  BY <1>1, <1>3 DEF OnlyPaths, OnceEach, AtEnd
<1>7. AllPaths
  <2> SUFFICES ASSUME NEW q \in SimplePaths(max_length)
               PROVE  ~ Returned(q) /\ ToCome(q)
    BY DEF AllPaths
  <2>1. ~ Returned(q)
    BY <1>3 DEF Returned
  <2>2. Len(q) \in 2 .. max_length + 1 /\ q[1] = from_node /\ Linked(q)
    BY <1>1, IsSimplePath
  <2>3. 1 \in 1 .. Len(q) - 1 /\ 1 < Len(q)
    BY <1>1, <2>2
  <2>4. q[1 + 1] \in adjacent[from_node]
    BY <2>2, <2>3 DEF Linked
  <2>5. LeavesAt(q, 1)
    BY <1>3, <2>2, <2>3, <2>4 DEF LeavesAt
  <2> QED
    BY <1>3, <2>1, <2>5 DEF ToCome
<1> QED
  BY <1>4, <1>5, <1>6, <1>7 DEF BPInv

(***************************************************************************)
(* In any graph, between any two nodes, for any bound and whatever the     *)
(* order of the neighbours, bfs_paths_with_length returns the paths of at  *)
(* most max_length edges that repeat no node, each once, and nothing else  *)
(* (executor.cpp:448-484).                                                 *)
(***************************************************************************)
THEOREM PathsWithLengthCorrect == BPSpec => []PathsWithLengthExact
<1>1. BPInv => PathsWithLengthExact
  <2> SUFFICES ASSUME BPInv, ended
               PROVE  IsInjective(paths) /\ ToSet(paths) = SimplePaths(max_length)
    BY DEF PathsWithLengthExact
  <2>1. paths \in Seq(Seq(Node)) /\ DOMAIN paths = 1 .. Len(paths)
    BY LenProperties DEF BPInv, BPTypeOK
  <2>2. IsInjective(paths)
    BY <2>1 DEF BPInv, OnceEach, IsInjective
  <2>3. \A q : ~ ToCome(q)
    <3>1. Len(path) = 1 /\ untried[1] = {}
      BY DEF BPInv, AtEnd
    <3> QED
      BY <3>1 DEF ToCome, LeavesAt
  <2>4. \A q : q \in ToSet(paths) <=> Returned(q)
    BY <2>1 DEF ToSet, Returned
  <2>5. \A q : q \in ToSet(paths) <=> q \in SimplePaths(max_length)
    BY <2>1, <2>3, <2>4 DEF BPInv, OnlyPaths, AllPaths, ToSet
  <2> QED
    BY <2>2, <2>5
<1>2. BPInv /\ [BPNext]_bpVars => BPInv'
  BY DfsStep, SkipStep, BacktrackStep, EndStep, BPStutter DEF BPNext
<1> QED
  BY <1>1, <1>2, BPInitInv, PTL DEF BPSpec

----------------------------------------------------------------------------
(***************************************************************************)
(* MATCH.  Every row is wanted; and a row that is wanted is listed, or its *)
(* a has not been started from, or its edge is still to be looked at.  For *)
(* a variable length, a path that is wanted has its row, or it has not     *)
(* been started, or a beginning of it waits in the queue, or it goes on    *)
(* from the current path over an edge that is still to be looked at.       *)
(***************************************************************************)
Found == scanned \cap matching_a

AllWays == Ways(ends, StoredNode, Found, matching_b, hops[1], hops[2])

\* With no arrow, an edge found at its end is followed to that same end.
Followed ==
    {row \in [a : Found, r : DOMAIN ends, b : matching_b, way : {"out", "in"}] :
        /\ row.b = ends[row.r].to
        /\ IF row.way = "out" THEN row.a = ends[row.r].from
                              ELSE ~ directed /\ row.a = row.b}

Wanted == IF OneEdge THEN Followed
                     ELSE {PathRow(p) : p \in AllWays}

PatternOK ==
    /\ ends \in [DOMAIN ends -> [from : StoredNode, to : StoredNode]]
    /\ scanned \in SUBSET StoredNode
    /\ matching_a \in SUBSET StoredNode /\ matching_b \in SUBSET StoredNode
    /\ directed \in BOOLEAN /\ hops \in Nat \X Nat

MatchTypeOK ==
    /\ PatternOK
    /\ untried_ids \subseteq scanned /\ starts \subseteq Found
    /\ pending \in Seq(Seq(StoredNode)) /\ current_path \in Seq(StoredNode)
    /\ edge_ids \subseteq (DOMAIN ends) \X {"out", "in"}
    /\ rows \in Seq(Wanted)
    /\ returned \in BOOLEAN

InTurn ==
    /\ untried_ids # {} => edge_ids = {} /\ pending = <<>>
    /\ edge_ids # {} =>
           /\ current_path # <<>>
           /\ current_path[1] \in Found
           /\ OneEdge => current_path[1] \notin starts
           /\ edge_ids \subseteq FindEdgesByPattern(current_path[Len(current_path)])
    /\ OneEdge => pending = <<>> /\ (edge_ids # {} => Len(current_path) = 1)
    /\ returned => /\ untried_ids = {} /\ starts = {}
                   /\ edge_ids = {} /\ pending = <<>>

Listed(row) == \E i \in 1 .. Len(rows) : rows[i] = row

RowToCome(row) ==
    \/ row.a \in untried_ids \/ row.a \in starts
    \/ <<row.r, row.way>> \in edge_ids /\ current_path[1] = row.a

RowsInv ==
    OneEdge =>
        /\ \A row \in Wanted : Listed(row) <=> ~ RowToCome(row)
        /\ \A i, j \in 1 .. Len(rows) : rows[i] = rows[j] => i = j

Joins(p) ==
    \A i \in 1 .. Len(p) - 1 :
        \E e \in DOMAIN ends : ends[e].from = p[i] /\ ends[e].to = p[i + 1]

Partial(p) ==
    /\ Len(p) \in 1 .. hops[2] + 1 /\ p[1] \in Found
    /\ IsInjective(p) /\ Joins(p)

Begins(s, p) == Len(s) <= Len(p) /\ \A j \in 1 .. Len(s) : s[j] = p[j]

GoesOn(p) ==
    /\ Len(current_path) < Len(p) /\ Begins(current_path, p)
    /\ \E x \in edge_ids : ends[x[1]].to = p[Len(current_path) + 1]

WayToCome(p) ==
    \/ p[1] \in untried_ids \/ p[1] \in starts
    \/ \E i \in 1 .. Len(pending) : Begins(pending[i], p)
    \/ GoesOn(p)

WaysInv ==
    ~ OneEdge =>
        /\ \A i \in 1 .. Len(pending) : Partial(pending[i])
        /\ edge_ids # {} => Partial(current_path) /\ Len(current_path) <= hops[2]
        /\ \A p \in AllWays : Listed(PathRow(p)) \/ WayToCome(p)

MatchInv == MatchTypeOK /\ InTurn /\ RowsInv /\ WaysInv

----------------------------------------------------------------------------
LEMMA IsWay ==
    ASSUME PatternOK, NEW p
    PROVE  p \in AllWays <=>
               /\ p \in Seq(StoredNode) /\ Len(p) \in hops[1] + 1 .. hops[2] + 1
               /\ p[1] \in Found /\ p[Len(p)] \in matching_b
               /\ IsInjective(p) /\ Joins(p)
<1>0. hops[1] \in Nat /\ hops[2] \in Nat
  BY DEF PatternOK
<1>1. ASSUME p \in AllWays
      PROVE  /\ p \in Seq(StoredNode) /\ Len(p) \in hops[1] + 1 .. hops[2] + 1
             /\ p[1] \in Found /\ p[Len(p)] \in matching_b
             /\ IsInjective(p) /\ Joins(p)
  <2>1. PICK k \in hops[1] + 1 .. hops[2] + 1 : p \in [1 .. k -> StoredNode]
    BY <1>1 DEF AllWays, Ways
  <2>2. p \in Seq(StoredNode) /\ Len(p) = k
    BY <1>0, <2>1, SeqDef
  <2> QED
    BY <1>1, <2>2 DEF AllWays, Ways, Joins
<1>2. ASSUME /\ p \in Seq(StoredNode) /\ Len(p) \in hops[1] + 1 .. hops[2] + 1
             /\ p[1] \in Found /\ p[Len(p)] \in matching_b
             /\ IsInjective(p) /\ Joins(p)
      PROVE  p \in AllWays
  <2>1. p \in [1 .. Len(p) -> StoredNode]
    BY <1>2, LenProperties
  <2> QED
    BY <1>2, <2>1 DEF AllWays, Ways, Joins
<1> QED
  BY <1>1, <1>2

LEMMA SamePattern ==
    ASSUME UNCHANGED pattern
    PROVE  /\ ends' = ends /\ scanned' = scanned /\ matching_a' = matching_a
           /\ matching_b' = matching_b /\ directed' = directed /\ hops' = hops
           /\ Found' = Found /\ AllWays' = AllWays /\ Wanted' = Wanted
           /\ (OneEdge' <=> OneEdge) /\ (PatternOK' <=> PatternOK)
           /\ \A n : FindEdgesByPattern(n)' = FindEdgesByPattern(n)
           /\ \A p : Partial(p)' <=> Partial(p)
<1>1. /\ ends' = ends /\ scanned' = scanned /\ matching_a' = matching_a
      /\ matching_b' = matching_b /\ directed' = directed /\ hops' = hops
  BY DEF pattern
<1>2. Found' = Found /\ (OneEdge' <=> OneEdge)
  BY <1>1 DEF Found, OneEdge
<1>3. AllWays' = AllWays
  BY <1>1, <1>2 DEF AllWays
<1>4. Wanted' = Wanted
  BY <1>1, <1>2, <1>3 DEF Wanted, Followed
<1>5. PatternOK' <=> PatternOK
  BY <1>1 DEF PatternOK
<1>6. \A n : FindEdgesByPattern(n)' = FindEdgesByPattern(n)
  BY <1>1 DEF FindEdgesByPattern
<1>7. \A p : Partial(p)' <=> Partial(p)
  BY <1>1, <1>2 DEF Partial, Joins
<1> QED
  BY <1>1, <1>2, <1>3, <1>4, <1>5, <1>6, <1>7

\* What of the edges beside a node leads to a row.
LEMMA WantedRow ==
    ASSUME PatternOK, OneEdge, NEW row
    PROVE  row \in Wanted <=>
               /\ row \in [a : Found, r : DOMAIN ends, b : matching_b,
                           way : {"out", "in"}]
               /\ row = EdgeRow(row.a, row.r, ends[row.r].to, row.way)
               /\ <<row.r, row.way>> \in FindEdgesByPattern(row.a)
<1>1. row \in Wanted <=> row \in Followed
  BY DEF Wanted
<1>2. ASSUME row \in [a : Found, r : DOMAIN ends, b : matching_b,
                      way : {"out", "in"}]
      PROVE  /\ row = EdgeRow(row.a, row.r, row.b, row.way)
             /\ row.way \in {"out", "in"} /\ row.r \in DOMAIN ends
  BY <1>2 DEF EdgeRow
<1>3. \A n, e, way : <<e, way>> \in FindEdgesByPattern(n) <=>
          /\ e \in DOMAIN ends
          /\ \/ way = "out" /\ ends[e].from = n
             \/ way = "in" /\ ends[e].to = n /\ ~ directed
  BY DEF FindEdgesByPattern
<1>4. ASSUME row \in [a : Found, r : DOMAIN ends, b : matching_b,
                      way : {"out", "in"}]
      PROVE  row = EdgeRow(row.a, row.r, ends[row.r].to, row.way) <=>
                 row.b = ends[row.r].to
  BY <1>2, <1>4 DEF EdgeRow
<1> QED
  BY <1>1, <1>2, <1>3, <1>4 DEF Followed

LEMMA MatchInitInv == MatchInit => MatchInv
<1> SUFFICES ASSUME MatchInit PROVE MatchInv
  OBVIOUS
<1>1. /\ untried_ids = scanned /\ starts = {}
      /\ pending = <<>> /\ current_path = <<>> /\ edge_ids = {}
      /\ rows = <<>> /\ returned = FALSE
  BY DEF MatchInit
<1>2. PatternOK
  BY HopsAssumption DEF MatchInit, AnyPattern, PatternOK
<1>3. MatchTypeOK
  <2>1. /\ pending \in Seq(Seq(StoredNode)) /\ current_path \in Seq(StoredNode)
        /\ rows \in Seq(Wanted)
    BY <1>1
  <2> QED
    BY <1>1, <1>2, <2>1 DEF MatchTypeOK
<1>4. InTurn
  BY <1>1 DEF InTurn
<1>5. Len(rows) = 0 /\ Len(pending) = 0
  BY <1>1
<1>6. RowsInv
  <2>1. ASSUME OneEdge, NEW row \in Wanted PROVE ~ Listed(row) /\ RowToCome(row)
    <3>1. row.a \in Found
      BY <1>2, <2>1, WantedRow
    <3> QED
      BY <1>1, <1>5, <3>1 DEF Listed, RowToCome, Found
  <2> QED
    BY <1>5, <2>1 DEF RowsInv
<1>7. WaysInv
  <2>1. ASSUME NEW p \in AllWays PROVE WayToCome(p)
    <3>1. p[1] \in Found
      BY <1>2, IsWay
    <3> QED
      BY <1>1, <3>1 DEF WayToCome, Found
  <2> QED
    BY <1>1, <1>5, <2>1 DEF WaysInv
<1> QED
  BY <1>3, <1>4, <1>6, <1>7 DEF MatchInv

LEMMA OneMoreRow ==
    ASSUME rows \in Seq(Wanted), NEW row \in Wanted, rows' = Append(rows, row)
    PROVE  /\ rows' \in Seq(Wanted)
           /\ \A x : Listed(x)' <=> Listed(x) \/ x = row
           /\ ~ Listed(row) /\ (\A i, j \in 1 .. Len(rows) : rows[i] = rows[j] => i = j)
                  => \A i, j \in 1 .. Len(rows') : rows'[i] = rows'[j] => i = j
<1>1. /\ rows' \in Seq(Wanted) /\ Len(rows') = Len(rows) + 1
      /\ \A i \in 1 .. Len(rows) : rows'[i] = rows[i]
      /\ rows'[Len(rows) + 1] = row
  BY AppendProperties
<1>2. Len(rows) \in Nat
  OBVIOUS
<1>3. /\ \A i \in 1 .. Len(rows) + 1 : i \in 1 .. Len(rows) \/ i = Len(rows) + 1
      /\ Len(rows) + 1 \in 1 .. Len(rows) + 1
      /\ \A i \in 1 .. Len(rows) : i \in 1 .. Len(rows) + 1
  BY <1>2
<1>4. \A x : Listed(x)' <=> Listed(x) \/ x = row
  BY <1>1, <1>3 DEF Listed
<1>5. ASSUME ~ Listed(row), \A i, j \in 1 .. Len(rows) : rows[i] = rows[j] => i = j
      PROVE  \A i, j \in 1 .. Len(rows') : rows'[i] = rows'[j] => i = j
  BY <1>1, <1>3, <1>5 DEF Listed
<1> QED
  BY <1>1, <1>4, <1>5

LEMMA SameRows == ASSUME rows' = rows PROVE \A x : Listed(x)' <=> Listed(x)
  BY DEF Listed

LEMMA TryNodeStep ==
    ASSUME MatchInv, ~ returned, NEW n, TryNode(n), UNCHANGED pattern
    PROVE  MatchInv'
<1>1. /\ n \in untried_ids /\ untried_ids' = untried_ids \ {n}
      /\ starts' = IF n \in matching_a THEN starts \cup {n} ELSE starts
      /\ pending' = pending /\ current_path' = current_path
      /\ edge_ids' = edge_ids /\ rows' = rows /\ returned' = returned
  BY DEF TryNode
<1>2. MatchTypeOK /\ InTurn
  BY DEF MatchInv
<1>3. edge_ids = {} /\ pending = <<>>
  BY <1>1, <1>2 DEF InTurn
<1>4. MatchTypeOK'
  BY <1>1, <1>2, SamePattern DEF MatchTypeOK, Found
<1>5. InTurn'
  BY <1>1, <1>2, <1>3, SamePattern DEF InTurn
<1>6. \A m \in Found : m \in untried_ids' \/ m \in starts' <=>
                           m \in untried_ids \/ m \in starts
  BY <1>1 DEF Found
<1>7. RowsInv'
  <2> SUFFICES ASSUME OneEdge
               PROVE  /\ \A row \in Wanted : Listed(row)' <=> ~ RowToCome(row)'
                      /\ \A i, j \in 1 .. Len(rows') : rows'[i] = rows'[j] => i = j
    BY SamePattern DEF RowsInv
  <2>1. ASSUME NEW row \in Wanted PROVE RowToCome(row)' <=> RowToCome(row)
    <3>1. PatternOK
      BY <1>2 DEF MatchTypeOK
    <3>2. row \in [a : Found, r : DOMAIN ends, b : matching_b, way : {"out", "in"}]
      BY <3>1, WantedRow
    <3>3. row.a \in Found
      BY <3>2
    <3> QED
      BY <1>1, <1>6, <3>3 DEF RowToCome
  <2> QED
    BY <1>1, <2>1, SameRows DEF MatchInv, RowsInv
<1>8. WaysInv'
  <2> SUFFICES ASSUME ~ OneEdge
               PROVE  \A p \in AllWays : Listed(PathRow(p))' \/ WayToCome(p)'
    BY <1>1, <1>3, SamePattern DEF WaysInv
  <2>1. ASSUME NEW p \in AllWays, WayToCome(p) PROVE WayToCome(p)'
    <3>1. p[1] \in Found
      BY <1>2, IsWay DEF MatchTypeOK
    <3> QED
      BY <1>1, <1>3, <1>6, <2>1, <3>1 DEF WayToCome, GoesOn
  <2> QED
    BY <1>1, <2>1, SameRows DEF MatchInv, WaysInv
<1> QED
  BY <1>4, <1>5, <1>7, <1>8 DEF MatchInv

LEMMA StartAtStep ==
    ASSUME MatchInv, ~ returned, NEW n, StartAt(n), UNCHANGED pattern
    PROVE  MatchInv'
<1>1. /\ untried_ids = {} /\ edge_ids = {} /\ pending = <<>>
      /\ n \in starts /\ starts' = starts \ {n} /\ current_path' = <<n>>
      /\ untried_ids' = untried_ids /\ rows' = rows /\ returned' = returned
      /\ IF OneEdge THEN edge_ids' = FindEdgesByPattern(n) /\ pending' = pending
                    ELSE pending' = <<<<n>>>> /\ edge_ids' = edge_ids
  BY DEF StartAt
<1>2. MatchTypeOK /\ InTurn
  BY DEF MatchInv
<1>3. n \in Found /\ n \in StoredNode
  BY <1>1, <1>2 DEF MatchTypeOK, PatternOK, Found
<1>4. /\ <<n>> \in Seq(StoredNode) /\ <<n>> # <<>> /\ Len(<<n>>) = 1
      /\ <<n>>[1] = n
  BY <1>3
<1>5. MatchTypeOK'
  <2>1. FindEdgesByPattern(n) \subseteq (DOMAIN ends) \X {"out", "in"}
    BY DEF FindEdgesByPattern
  <2>2. pending' \in Seq(Seq(StoredNode))
    <3>1. <<<<n>>>> \in Seq(Seq(StoredNode))
      BY <1>4
    <3> QED
      BY <1>1, <1>2, <3>1 DEF MatchTypeOK
  <2>3. edge_ids' \subseteq (DOMAIN ends) \X {"out", "in"}
    BY <1>1, <2>1
  <2> QED
    BY <1>1, <1>2, <1>4, <2>2, <2>3, SamePattern DEF MatchTypeOK
<1>6. InTurn'
  <2>1. edge_ids' # {} => OneEdge
    BY <1>1
  <2> QED
    BY <1>1, <1>3, <1>4, <2>1, SamePattern DEF InTurn
<1>7. RowsInv'
  <2> SUFFICES ASSUME OneEdge
               PROVE  /\ \A row \in Wanted : Listed(row)' <=> ~ RowToCome(row)'
                      /\ \A i, j \in 1 .. Len(rows') : rows'[i] = rows'[j] => i = j
    BY SamePattern DEF RowsInv
  <2>1. ASSUME NEW row \in Wanted PROVE RowToCome(row)' <=> RowToCome(row)
    <3>1. <<row.r, row.way>> \in FindEdgesByPattern(row.a)
      BY <1>2, WantedRow DEF MatchTypeOK
    <3> QED
      BY <1>1, <1>4, <3>1 DEF RowToCome
  <2> QED
    BY <1>1, <2>1, SameRows DEF MatchInv, RowsInv
<1>8. WaysInv'
  <2> SUFFICES ASSUME ~ OneEdge
               PROVE  /\ \A i \in 1 .. Len(pending') : Partial(pending[i])'
                      /\ \A p \in AllWays : Listed(PathRow(p))' \/ WayToCome(p)'
    BY <1>1, SamePattern DEF WaysInv
  <2>1. pending' = <<<<n>>>> /\ Len(pending') = 1 /\ pending'[1] = <<n>>
    BY <1>1
  <2>2. Partial(<<n>>)
    <3>1. IsInjective(<<n>>) /\ Joins(<<n>>)
      BY <1>4 DEF IsInjective, Joins
    <3>2. 1 \in 1 .. hops[2] + 1
      BY <1>2 DEF MatchTypeOK, PatternOK
    <3> QED
      BY <1>3, <1>4, <3>1, <3>2 DEF Partial
  <2>3. \A i \in 1 .. Len(pending') : Partial(pending[i])'
    <3>1. \A s : s = <<n>> => Partial(s)'
      BY <2>2, SamePattern
    <3> QED
      BY <2>1, <2>2, SamePattern
  <2>4. ASSUME NEW p \in AllWays, WayToCome(p) PROVE WayToCome(p)'
    <3>1. CASE p[1] = n
      <4>1. Len(p) >= 1
        <5>1. hops[1] \in Nat /\ hops[2] \in Nat /\ PatternOK
          BY <1>2 DEF MatchTypeOK, PatternOK
        <5> QED
          BY <5>1, IsWay
      <4>2. Begins(<<n>>, p)
        BY <1>4, <3>1, <4>1 DEF Begins
      <4>3. \E i \in 1 .. Len(pending') : Begins(pending'[i], p)
        BY <2>1, <4>2
      <4> QED
        BY <4>3 DEF WayToCome, Begins
    <3>2. CASE p[1] # n
      BY <1>1, <2>4, <3>2 DEF WayToCome, GoesOn
    <3> QED
      BY <3>1, <3>2
  <2> QED
    BY <1>1, <2>3, <2>4, SameRows DEF MatchInv, WaysInv
<1> QED
  BY <1>5, <1>6, <1>7, <1>8 DEF MatchInv

LEMMA ExpandStep ==
    ASSUME MatchInv, ~ returned, NEW x \in edge_ids, Expand(x[1], x[2]),
           UNCHANGED pattern
    PROVE  MatchInv'
<1> DEFINE a == current_path[1]
           b == ends[x[1]].to
           row0 == EdgeRow(a, x[1], b, x[2])
<1>1. /\ OneEdge /\ edge_ids' = edge_ids \ {<<x[1], x[2]>>}
      /\ rows' = IF b \in matching_b THEN Append(rows, row0) ELSE rows
      /\ untried_ids' = untried_ids /\ starts' = starts /\ pending' = pending
      /\ current_path' = current_path /\ returned' = returned
  BY DEF Expand
<1>2. MatchTypeOK /\ InTurn /\ PatternOK
  BY DEF MatchInv, MatchTypeOK
<1>3. x \in (DOMAIN ends) \X {"out", "in"} /\ x = <<x[1], x[2]>>
  BY <1>2 DEF MatchTypeOK
<1>4. /\ untried_ids = {} /\ a \in Found /\ a \notin starts
      /\ x \in FindEdgesByPattern(a) /\ Len(current_path) = 1
  BY <1>1, <1>2 DEF InTurn
<1>5. row0.a = a /\ row0.r = x[1] /\ row0.b = b /\ row0.way = x[2]
  BY DEF EdgeRow
<1>6. ASSUME b \in matching_b PROVE row0 \in Wanted
  <2>1. row0 \in [a : Found, r : DOMAIN ends, b : matching_b, way : {"out", "in"}]
    BY <1>3, <1>4, <1>6 DEF EdgeRow
  <2> HIDE DEF row0, a, b
  <2>2. row0 = EdgeRow(row0.a, row0.r, ends[row0.r].to, row0.way)
    BY <1>5 DEF row0, b
  <2>3. <<row0.r, row0.way>> \in FindEdgesByPattern(row0.a)
    BY <1>3, <1>4, <1>5
  <2> QED
    BY <1>1, <1>2, <2>1, <2>2, <2>3, WantedRow
<1>7. ASSUME NEW row \in Wanted, <<row.r, row.way>> = x, row.a = a
      PROVE  row = row0 /\ b \in matching_b
  <2>1. /\ row \in [a : Found, r : DOMAIN ends, b : matching_b, way : {"out", "in"}]
        /\ row = EdgeRow(row.a, row.r, ends[row.r].to, row.way)
    BY <1>1, <1>2, WantedRow
  <2>2. row.r = x[1] /\ row.way = x[2]
    BY <1>3, <1>7
  <2>3. row = row0
    BY <1>7, <2>1, <2>2
  <2>4. row.b \in matching_b
    BY <2>1
  <2> QED
    BY <1>5, <2>3, <2>4
<1> HIDE DEF row0, a, b
<1>8. rows \in Seq(Wanted) /\ rows' \in Seq(Wanted)
  BY <1>1, <1>2, <1>6, OneMoreRow DEF MatchTypeOK
<1>9. MatchTypeOK'
  BY <1>1, <1>2, <1>8, SamePattern DEF MatchTypeOK
<1>10. InTurn'
  BY <1>1, <1>2, <1>4, SamePattern DEF InTurn
<1>11. RowsInv'
  <2>0. /\ \A row \in Wanted : Listed(row) <=> ~ RowToCome(row)
        /\ \A i, j \in 1 .. Len(rows) : rows[i] = rows[j] => i = j
    BY <1>1 DEF MatchInv, RowsInv
  <2>1. ASSUME NEW row \in Wanted
        PROVE  /\ row # row0 => (RowToCome(row)' <=> RowToCome(row))
               /\ row = row0 => RowToCome(row) /\ ~ RowToCome(row)'
    <3>1. current_path[1] = a
      BY DEF a
    <3>2. row # row0 => ~ (<<row.r, row.way>> = x /\ row.a = a)
      BY <1>7
    <3>3. row # row0 => (RowToCome(row)' <=> RowToCome(row))
      BY <1>1, <1>3, <3>1, <3>2 DEF RowToCome
    <3>4. row = row0 => <<row.r, row.way>> = x /\ row.a = a
      BY <1>3, <1>5
    <3>5. row = row0 => RowToCome(row) /\ ~ RowToCome(row)'
      BY <1>1, <1>3, <1>4, <3>1, <3>4 DEF RowToCome
    <3> QED
      BY <3>3, <3>5
  <2>2. CASE b \in matching_b
    <3>1. row0 \in Wanted /\ rows' = Append(rows, row0)
      BY <1>1, <1>6, <2>2
    <3>2. ~ Listed(row0)
      BY <2>0, <2>1, <3>1
    <3>3. /\ \A y : Listed(y)' <=> Listed(y) \/ y = row0
          /\ \A i, j \in 1 .. Len(rows') : rows'[i] = rows'[j] => i = j
      BY <1>8, <2>0, <3>1, <3>2, OneMoreRow
    <3>4. \A row \in Wanted : Listed(row)' <=> ~ RowToCome(row)'
      BY <2>0, <2>1, <3>3
    <3> QED
      BY <3>3, <3>4, SamePattern DEF RowsInv
  <2>3. CASE b \notin matching_b
    <3>1. rows' = rows
      BY <1>1, <2>3
    <3>2. row0 \notin Wanted
      <4>1. row0 \in Wanted => b \in matching_b
        BY <1>3, <1>5, <1>7
      <4> QED
        BY <2>3, <4>1
    <3>3. \A row \in Wanted : Listed(row)' <=> ~ RowToCome(row)'
      BY <2>0, <2>1, <3>1, <3>2, SameRows
    <3>4. \A i, j \in 1 .. Len(rows') : rows'[i] = rows'[j] => i = j
      BY <2>0, <3>1
    <3> QED
      BY <3>3, <3>4, SamePattern DEF RowsInv
  <2> QED
    BY <2>2, <2>3
<1>12. WaysInv'
  BY <1>1, SamePattern DEF WaysInv
<1> QED
  BY <1>9, <1>10, <1>11, <1>12 DEF MatchInv

LEMMA TakePathStep ==
    ASSUME MatchInv, ~ returned, TakePath, UNCHANGED pattern
    PROVE  MatchInv'
<1>0. PICK q : q = Head(pending)
  OBVIOUS
<1> DEFINE C == Len(q) > hops[1] /\ q[Len(q)] \in matching_b
<1>1. /\ edge_ids = {} /\ pending # <<>>
      /\ pending' = Tail(pending) /\ current_path' = q
      /\ rows' = IF C THEN Append(rows, PathRow(q)) ELSE rows
      /\ edge_ids' = IF Len(q) <= hops[2] THEN FindEdgesByPattern(q[Len(q)]) ELSE {}
      /\ untried_ids' = untried_ids /\ starts' = starts /\ returned' = returned
  BY <1>0 DEF TakePath
<1>2. MatchTypeOK /\ InTurn /\ PatternOK
  BY DEF MatchInv, MatchTypeOK
<1>3. ~ OneEdge /\ untried_ids = {}
  BY <1>1, <1>2 DEF InTurn
<1>4. pending \in Seq(Seq(StoredNode)) /\ hops[1] \in Nat /\ hops[2] \in Nat
  BY <1>2 DEF MatchTypeOK, PatternOK
<1>5. /\ Len(pending) \in Nat /\ Len(pending) >= 1 /\ q = pending[1]
      /\ pending' \in Seq(Seq(StoredNode)) /\ Len(pending') = Len(pending) - 1
      /\ \A i \in 1 .. Len(pending') : pending'[i] = pending[i + 1]
  BY <1>0, <1>1, <1>4, EmptySeq, HeadTailProperties
<1>6. q \in Seq(StoredNode) /\ Partial(q)
  BY <1>3, <1>4, <1>5 DEF MatchInv, WaysInv
<1>7. Len(q) \in 1 .. hops[2] + 1 /\ Len(q) \in Nat /\ q # <<>>
  BY <1>6 DEF Partial
<1>8. C => q \in AllWays
  <2>1. C => Len(q) \in hops[1] + 1 .. hops[2] + 1
    BY <1>4, <1>7
  <2> QED
    BY <1>2, <1>6, <2>1, IsWay DEF Partial
<1>9. C => PathRow(q) \in Wanted
  BY <1>3, <1>8 DEF Wanted
<1>10. rows \in Seq(Wanted) /\ rows' \in Seq(Wanted)
  BY <1>1, <1>2, <1>9, OneMoreRow DEF MatchTypeOK
<1>11. edge_ids' \subseteq (DOMAIN ends) \X {"out", "in"}
  BY <1>1 DEF FindEdgesByPattern
<1>12. MatchTypeOK'
  BY <1>1, <1>2, <1>5, <1>6, <1>10, <1>11, SamePattern DEF MatchTypeOK
<1>13. InTurn'
  <2>1. q[1] \in Found
    BY <1>6 DEF Partial
  <2>2. edge_ids' # {} => edge_ids' \subseteq FindEdgesByPattern(q[Len(q)])
    BY <1>1
  <2>3. returned' = FALSE
    BY <1>1, <1>2 DEF MatchTypeOK
  <2> QED
    BY <1>1, <1>3, <1>7, <2>1, <2>2, <2>3, SamePattern DEF InTurn
<1>14. /\ \A y : Listed(y) => Listed(y)'
       /\ C => Listed(PathRow(q))'
  <2>1. CASE C
    <3>1. rows' = Append(rows, PathRow(q)) /\ PathRow(q) \in Wanted
      BY <1>1, <1>9, <2>1
    <3>2. \A y : Listed(y)' <=> Listed(y) \/ y = PathRow(q)
      BY <1>10, <3>1, OneMoreRow
    <3> QED
      BY <3>2 DEF PathRow
  <2>2. CASE ~ C
    <3>1. rows' = rows
      BY <1>1, <2>2
    <3> QED
      BY <2>2, <3>1, SameRows
  <2> QED
    BY <2>1, <2>2
<1>15. C => Listed(PathRow(q))'
  BY <1>14
<1>16. ASSUME NEW p \in AllWays, ~ Listed(PathRow(p))', WayToCome(p)
       PROVE  WayToCome(p)'
  <2>1. ~ GoesOn(p)
    BY <1>1 DEF GoesOn
  <2>2. CASE p[1] \in untried_ids \/ p[1] \in starts
    BY <1>1, <2>2 DEF WayToCome
  <2>3. CASE \E i \in 1 .. Len(pending) : Begins(pending[i], p)
    <3>1. PICK i \in 1 .. Len(pending) : Begins(pending[i], p)
      BY <2>3
    <3>2. CASE i # 1
      <4>1. i - 1 \in 1 .. Len(pending') /\ (i - 1) + 1 = i
        BY <1>5, <3>2
      <4>2. pending'[i - 1] = pending[i]
        BY <1>5, <4>1
      <4>3. Begins(pending[i], p) => Begins(pending'[i - 1], p)
        BY <4>2
      <4>4. \E k \in 1 .. Len(pending') : Begins(pending'[k], p)
        BY <3>1, <4>1, <4>3
      <4> QED
        BY <4>4 DEF WayToCome, Begins
    <3>3. CASE i = 1
      <4>1. Begins(q, p)
        BY <1>5, <3>1, <3>3
      <4>2. /\ p \in Seq(StoredNode) /\ Len(p) \in hops[1] + 1 .. hops[2] + 1
            /\ p[Len(p)] \in matching_b /\ Joins(p)
        BY <1>2, IsWay
      <4>3. Len(p) # Len(q)
        <5> SUFFICES ASSUME Len(p) = Len(q) PROVE FALSE
          OBVIOUS
        <5>1. p = q
          BY <1>6, <4>1, <4>2, SeqEqual DEF Begins
        <5>2. C
          BY <1>4, <4>2, <5>1
        <5> QED
          BY <1>15, <1>16, <5>1, <5>2
      <4>4. /\ Len(q) < Len(p) /\ Len(q) <= hops[2]
            /\ Len(q) \in 1 .. Len(q) /\ Len(q) \in 1 .. Len(p) - 1
        BY <1>4, <1>7, <4>1, <4>2, <4>3 DEF Begins
      <4>5. PICK e \in DOMAIN ends : ends[e].from = p[Len(q)]
                                     /\ ends[e].to = p[Len(q) + 1]
        BY <4>2, <4>4 DEF Joins
      <4>6. p[Len(q)] = q[Len(q)]
        BY <4>1, <4>4 DEF Begins
      <4>7. <<e, "out">> \in edge_ids'
        BY <1>1, <4>4, <4>5, <4>6 DEF FindEdgesByPattern
      <4>8. <<e, "out">>[1] = e
        OBVIOUS
      <4>9. \E x \in edge_ids' : ends[x[1]].to = p[Len(q) + 1]
        BY <4>5, <4>7, <4>8
      <4>10. ends' = ends /\ current_path' = q
        BY <1>1, SamePattern
      <4>11. GoesOn(p)'
        BY <4>1, <4>4, <4>9, <4>10 DEF GoesOn, Begins
      <4> QED
        BY <4>11 DEF WayToCome
    <3> QED
      BY <3>2, <3>3
  <2> QED
    BY <1>16, <2>1, <2>2, <2>3 DEF WayToCome
<1>17. WaysInv'
  <2>1. \A i \in 1 .. Len(pending') : Partial(pending'[i])
    <3>1. \A i \in 1 .. Len(pending') : i + 1 \in 1 .. Len(pending)
      BY <1>5
    <3>2. \A i \in 1 .. Len(pending) : Partial(pending[i])
      BY <1>3 DEF MatchInv, WaysInv
    <3> QED
      BY <1>5, <3>1, <3>2
  <2>2. \A i \in 1 .. Len(pending') : Partial(pending[i])'
    <3>1. \A y : Partial(y)' <=> Partial(y)
      BY SamePattern
    <3>2. \A i \in 1 .. Len(pending') : Partial(pending'[i]) => Partial(pending[i])'
      BY SamePattern DEF Partial, Joins
    <3> QED
      BY <2>1, <3>2
  <2>3. edge_ids' # {} => Partial(q) /\ Len(q) <= hops[2]
    BY <1>1, <1>6
  <2>4. edge_ids' # {} => Partial(current_path)' /\ Len(current_path') <= hops'[2]
    BY <1>1, <2>3, SamePattern DEF Partial, Joins
  <2>5. \A p \in AllWays : Listed(PathRow(p))' \/ WayToCome(p)'
    BY <1>3, <1>14, <1>16 DEF MatchInv, WaysInv
  <2> QED
    BY <2>2, <2>4, <2>5, SamePattern DEF WaysInv
<1> QED
  BY <1>1, <1>3, <1>12, <1>13, <1>17, SamePattern DEF MatchInv, RowsInv


LEMMA ExtendStep ==
    ASSUME MatchInv, ~ returned, NEW x \in edge_ids, Extend(x[1], x[2]),
           UNCHANGED pattern
    PROVE  MatchInv'
<1>0. PICK t : t = ends[x[1]].to
  OBVIOUS
<1>1. PICK q : q = Append(current_path, t)
  OBVIOUS
<1>2. /\ ~ OneEdge /\ edge_ids' = edge_ids \ {<<x[1], x[2]>>}
      /\ pending' = IF t \in ToSet(current_path) THEN pending
                    ELSE Append(pending, q)
      /\ untried_ids' = untried_ids /\ starts' = starts
      /\ current_path' = current_path /\ rows' = rows /\ returned' = returned
  BY <1>0, <1>1 DEF Extend
<1>3. MatchTypeOK /\ InTurn /\ PatternOK
  BY DEF MatchInv, MatchTypeOK
<1>4. x \in (DOMAIN ends) \X {"out", "in"} /\ x = <<x[1], x[2]>>
  BY <1>3 DEF MatchTypeOK
<1>5. /\ untried_ids = {} /\ current_path # <<>>
      /\ x \in FindEdgesByPattern(current_path[Len(current_path)])
  BY <1>3 DEF InTurn
<1>6. /\ current_path \in Seq(StoredNode) /\ hops[2] \in Nat
      /\ pending \in Seq(Seq(StoredNode)) /\ Len(current_path) \in Nat
      /\ Len(pending) \in Nat /\ t \in StoredNode
  BY <1>0, <1>3, <1>4 DEF MatchTypeOK, PatternOK
<1>7. Partial(current_path) /\ Len(current_path) <= hops[2]
  BY <1>2 DEF MatchInv, WaysInv
<1>8. PICK n \in Nat : n = Len(current_path) /\ n >= 1
  BY <1>6, <1>7 DEF Partial
<1>9. /\ q \in Seq(StoredNode) /\ Len(q) = n + 1 /\ q[n + 1] = t
      /\ \A i \in 1 .. n : q[i] = current_path[i]
  <2>1. /\ q \in Seq(StoredNode) /\ Len(q) = Len(current_path) + 1
        /\ q[Len(current_path) + 1] = t
        /\ \A i \in 1 .. Len(current_path) : q[i] = current_path[i]
    BY <1>1, <1>6, AppendProperties
  <2> QED
    BY <1>8, <2>1
<1>10. \A y : y \in ToSet(current_path) <=> \E i \in 1 .. n : current_path[i] = y
  <2>1. DOMAIN current_path = 1 .. n
    BY <1>6, <1>8
  <2> QED
    BY <2>1 DEF ToSet
<1>11. t \notin ToSet(current_path) => ends[x[1]].from = current_path[n]
  <2>1. n \in 1 .. n
    BY <1>8
  <2>2. x[2] = "in" => ends[x[1]].to = current_path[n]
    BY <1>4, <1>5, <1>8 DEF FindEdgesByPattern
  <2>3. x[2] = "out" => ends[x[1]].from = current_path[n]
    BY <1>4, <1>5, <1>8 DEF FindEdgesByPattern
  <2> QED
    BY <1>0, <1>4, <1>10, <2>1, <2>2, <2>3
<1>12. ASSUME t \notin ToSet(current_path) PROVE Partial(q)
  <2>1. Len(q) \in 1 .. hops[2] + 1 /\ q[1] = current_path[1]
    BY <1>6, <1>7, <1>8, <1>9
  <2>2. IsInjective(q)
    <3>1. DOMAIN q = 1 .. n + 1 /\ DOMAIN current_path = 1 .. n
      BY <1>6, <1>8, <1>9
    <3>2. \A i \in 1 .. n + 1 : i \in 1 .. n \/ i = n + 1
      BY <1>8
    <3>3. \A i \in 1 .. n : current_path[i] # t
      BY <1>10, <1>12
    <3> QED
      BY <1>7, <1>9, <3>1, <3>2, <3>3 DEF IsInjective, Partial
  <2>3. Joins(q)
    <3>1. \A i \in 1 .. n : i \in 1 .. n - 1 \/ i = n
      BY <1>8
    <3>2. /\ \A i \in 1 .. n - 1 : i \in 1 .. n /\ i + 1 \in 1 .. n
          /\ n \in 1 .. n /\ Len(q) - 1 = n
      BY <1>8, <1>9
    <3>3. ends[x[1]].from = q[n] /\ ends[x[1]].to = q[n + 1]
      BY <1>0, <1>9, <1>11, <1>12, <3>2
    <3>4. \A i \in 1 .. n - 1 : \E e \in DOMAIN ends :
              ends[e].from = current_path[i] /\ ends[e].to = current_path[i + 1]
      BY <1>7, <1>8 DEF Joins, Partial
    <3>5. \A i \in 1 .. n - 1 : \E e \in DOMAIN ends :
              ends[e].from = q[i] /\ ends[e].to = q[i + 1]
      BY <1>9, <3>2, <3>4
    <3> QED
      BY <1>4, <3>1, <3>2, <3>3, <3>5 DEF Joins
  <2> QED
    BY <1>7, <2>1, <2>2, <2>3 DEF Partial
<1>13. /\ pending' \in Seq(Seq(StoredNode)) /\ Len(pending') >= Len(pending)
       /\ Len(pending') \in Nat
       /\ \A i \in 1 .. Len(pending) : pending'[i] = pending[i]
       /\ \A i \in 1 .. Len(pending') :
              \/ i \in 1 .. Len(pending)
              \/ t \notin ToSet(current_path) /\ pending'[i] = q
       /\ t \notin ToSet(current_path) =>
              Len(pending') \in 1 .. Len(pending') /\ pending'[Len(pending')] = q
  <2>1. CASE t \in ToSet(current_path)
    <3>1. pending' = pending
      BY <1>2, <2>1
    <3> QED
      BY <1>6, <2>1, <3>1
  <2>2. CASE t \notin ToSet(current_path)
    <3>1. pending' = Append(pending, q)
      BY <1>2, <2>2
    <3>2. /\ pending' \in Seq(Seq(StoredNode)) /\ Len(pending') = Len(pending) + 1
          /\ \A i \in 1 .. Len(pending) : pending'[i] = pending[i]
          /\ pending'[Len(pending) + 1] = q
      BY <1>6, <1>9, <3>1, AppendProperties
    <3>3. \A i \in 1 .. Len(pending) + 1 : i \in 1 .. Len(pending) \/ i = Len(pending) + 1
      BY <1>6
    <3>4. Len(pending) + 1 \in 1 .. Len(pending) + 1 /\ Len(pending) + 1 >= Len(pending)
      BY <1>6
    <3>5. \A i \in 1 .. Len(pending') :
              i \in 1 .. Len(pending) \/ pending'[i] = q
      BY <3>2, <3>3
    <3>6. Len(pending') \in 1 .. Len(pending') /\ pending'[Len(pending')] = q
      BY <3>2, <3>4
    <3>7. Len(pending') \in Nat /\ Len(pending') >= Len(pending)
      BY <1>6, <3>2
    <3> QED
      BY <2>2, <3>2, <3>5, <3>6, <3>7
  <2> QED
    BY <2>1, <2>2
<1>14. MatchTypeOK'
  BY <1>2, <1>3, <1>13, SamePattern DEF MatchTypeOK
<1>15. InTurn'
  BY <1>2, <1>3, <1>5, SamePattern DEF InTurn, MatchTypeOK
<1>16. ASSUME NEW p \in AllWays, WayToCome(p)
       PROVE  WayToCome(p)'
  <2>1. CASE p[1] \in untried_ids \/ p[1] \in starts
    BY <1>2, <2>1 DEF WayToCome
  <2>2. CASE \E i \in 1 .. Len(pending) : Begins(pending[i], p)
    <3>1. PICK i \in 1 .. Len(pending) : Begins(pending[i], p)
      BY <2>2
    <3>2. i \in 1 .. Len(pending')
      BY <1>6, <1>13
    <3>3. pending'[i] = pending[i]
      BY <1>13
    <3>4. Begins(pending'[i], p)
      BY <3>1, <3>3
    <3> QED
      BY <3>2, <3>4 DEF WayToCome, Begins
  <2>3. CASE GoesOn(p)
    <3>1. /\ n < Len(p) /\ Begins(current_path, p)
          /\ \E y \in edge_ids : ends[y[1]].to = p[n + 1]
      BY <1>8, <2>3 DEF GoesOn
    <3>2. PICK y \in edge_ids : ends[y[1]].to = p[n + 1]
      BY <3>1
    <3>3. CASE y # x
      <4>1. y \in edge_ids' /\ ends' = ends /\ current_path' = current_path
        BY <1>2, <1>4, <3>3, SamePattern
      <4>2. GoesOn(p)'
        BY <1>8, <3>1, <3>2, <4>1 DEF GoesOn, Begins
      <4> QED
        BY <4>2 DEF WayToCome
    <3>4. CASE y = x
      <4>1. p \in Seq(StoredNode) /\ Len(p) \in Nat /\ IsInjective(p)
        BY <1>3, IsWay
      <4>2. p[n + 1] = t
        BY <1>0, <3>2, <3>4
      <4>3. /\ n + 1 <= Len(p) /\ n + 1 \in 1 .. Len(p)
            /\ \A i \in 1 .. n : i \in 1 .. Len(p) /\ i # n + 1
        BY <1>8, <3>1, <4>1
      <4>4. \A i \in 1 .. n : current_path[i] = p[i]
        BY <1>8, <3>1 DEF Begins
      <4>5. t \notin ToSet(current_path)
        <5>1. DOMAIN p = 1 .. Len(p)
          BY <4>1
        <5>2. \A i \in 1 .. n : p[i] # p[n + 1]
          BY <4>1, <4>3, <5>1 DEF IsInjective
        <5> QED
          BY <1>10, <4>2, <4>4, <5>2
      <4>6. Begins(q, p)
        <5>1. \A i \in 1 .. n + 1 : i \in 1 .. n \/ i = n + 1
          BY <1>8
        <5> QED
          BY <1>9, <4>2, <4>3, <4>4, <5>1 DEF Begins
      <4>7. \E i \in 1 .. Len(pending') : Begins(pending'[i], p)
        <5>1. pending'[Len(pending')] = q /\ Len(pending') \in 1 .. Len(pending')
          BY <1>13, <4>5
        <5>2. Begins(pending'[Len(pending')], p)
          BY <4>6, <5>1
        <5> QED
          BY <5>1, <5>2
      <4> QED
        BY <4>7 DEF WayToCome, Begins
    <3> QED
      BY <3>3, <3>4
  <2> QED
    BY <1>16, <2>1, <2>2, <2>3 DEF WayToCome
<1>17. WaysInv'
  <2>1. \A i \in 1 .. Len(pending') : Partial(pending'[i])
    <3>1. \A i \in 1 .. Len(pending) : Partial(pending[i])
      BY <1>2 DEF MatchInv, WaysInv
    <3> QED
      BY <1>12, <1>13, <3>1
  <2>2. \A i \in 1 .. Len(pending') : Partial(pending[i])'
    <3>1. \A i \in 1 .. Len(pending') : Partial(pending'[i]) => Partial(pending[i])'
      BY SamePattern DEF Partial, Joins
    <3> QED
      BY <2>1, <3>1
  <2>3. Partial(current_path)' /\ Len(current_path') <= hops'[2]
    BY <1>2, <1>7, SamePattern DEF Partial, Joins
  <2>4. \A p \in AllWays : Listed(PathRow(p))' \/ WayToCome(p)'
    BY <1>2, <1>16, SameRows DEF MatchInv, WaysInv
  <2> QED
    BY <2>2, <2>3, <2>4, SamePattern DEF WaysInv
<1> QED
  BY <1>2, <1>14, <1>15, <1>17, SamePattern DEF MatchInv, RowsInv

LEMMA ReturnStep ==
    ASSUME MatchInv,
           \/ Return /\ UNCHANGED pattern
           \/ UNCHANGED matchVars
    PROVE  MatchInv'
<1>1. /\ UNCHANGED pattern
      /\ untried_ids' = untried_ids /\ starts' = starts /\ pending' = pending
      /\ current_path' = current_path /\ edge_ids' = edge_ids /\ rows' = rows
      /\ \/ /\ returned' = TRUE /\ untried_ids = {} /\ starts = {}
            /\ edge_ids = {} /\ pending = <<>>
         \/ returned' = returned
  BY DEF Return, matchVars
<1>2. MatchTypeOK'
  BY <1>1, SamePattern DEF MatchInv, MatchTypeOK
<1>3. InTurn'
  BY <1>1, SamePattern DEF MatchInv, InTurn
<1>4. RowsInv'
  <2>1. \A row \in Wanted : Listed(row)' <=> Listed(row)
    BY <1>1, SameRows
  <2>2. \A row \in Wanted : RowToCome(row)' <=> RowToCome(row)
    BY <1>1 DEF RowToCome
  <2> QED
    BY <1>1, <2>1, <2>2, SamePattern DEF MatchInv, RowsInv
<1>5. WaysInv'
  <2>1. \A p \in AllWays : WayToCome(p)' <=> WayToCome(p)
    <3>1. \A p \in AllWays : GoesOn(p)' <=> GoesOn(p)
      BY <1>1, SamePattern DEF GoesOn, Begins
    <3> QED
      BY <1>1, <3>1 DEF WayToCome, Begins
  <2>2. \A p \in AllWays : Listed(PathRow(p))' <=> Listed(PathRow(p))
    BY <1>1, SameRows
  <2>3. \A i \in 1 .. Len(pending) : Partial(pending[i])' <=> Partial(pending[i])
    BY <1>1, SamePattern DEF Partial, Joins
  <2>4. Partial(current_path)' <=> Partial(current_path)
    BY <1>1, SamePattern DEF Partial, Joins
  <2> QED
    BY <1>1, <2>1, <2>2, <2>3, <2>4, SamePattern DEF MatchInv, WaysInv
<1> QED
  BY <1>2, <1>3, <1>4, <1>5 DEF MatchInv

LEMMA MatchStep == MatchInv /\ [MatchNext]_matchVars => MatchInv'
<1>1. ASSUME MatchInv, MatchNext PROVE MatchInv'
  <2>1. ~ returned /\ UNCHANGED pattern
    BY <1>1 DEF MatchNext
  <2>2. CASE \E n \in StoredNode : TryNode(n) \/ StartAt(n)
    BY <1>1, <2>1, <2>2, TryNodeStep, StartAtStep
  <2>3. CASE \E x \in edge_ids : Expand(x[1], x[2]) \/ Extend(x[1], x[2])
    BY <1>1, <2>1, <2>3, ExpandStep, ExtendStep
  <2>4. CASE TakePath
    BY <1>1, <2>1, <2>4, TakePathStep
  <2>5. CASE Return
    BY <1>1, <2>1, <2>5, ReturnStep
  <2> QED
    BY <1>1, <2>2, <2>3, <2>4, <2>5 DEF MatchNext
<1> QED
  BY <1>1, ReturnStep

LEMMA MatchInvExact == MatchInv => MatchExact
<1> SUFFICES ASSUME MatchInv, returned, directed
             PROVE  IF OneEdge
                    THEN /\ IsInjective(rows)
                         /\ ToSet(rows) = EdgeRows(ends, Found, matching_b)
                    ELSE ToSet(rows) = {PathRow(p) : p \in AllWays}
  BY DEF MatchExact, Found, AllWays
<1>1. untried_ids = {} /\ starts = {} /\ edge_ids = {} /\ Len(pending) = 0
  BY DEF MatchInv, InTurn
<1>2. rows \in Seq(Wanted) /\ Len(rows) \in Nat
  BY DEF MatchInv, MatchTypeOK
<1>3. \A y : y \in ToSet(rows) <=> Listed(y)
  BY <1>2 DEF ToSet, Listed
<1>4. \A y : Listed(y) => y \in Wanted
  BY <1>2 DEF Listed
<1>5. CASE OneEdge
  <2>1. \A row \in Wanted : Listed(row)
    BY <1>1, <1>5 DEF MatchInv, RowsInv, RowToCome
  <2>2. \A y : y \in ToSet(rows) <=> y \in Followed
    BY <1>3, <1>4, <1>5, <2>1 DEF Wanted
  <2>3. \A y : y \in Followed <=> y \in EdgeRows(ends, Found, matching_b)
    BY DEF Followed, EdgeRows
  <2>5. ToSet(rows) = EdgeRows(ends, Found, matching_b)
    BY <2>2, <2>3
  <2>4. IsInjective(rows)
    BY <1>2, <1>5 DEF MatchInv, RowsInv, IsInjective
  <2> QED
    BY <1>5, <2>4, <2>5
<1>6. CASE ~ OneEdge
  <2>1. \A p \in AllWays : Listed(PathRow(p))
    BY <1>1, <1>6 DEF MatchInv, WaysInv, WayToCome, GoesOn
  <2>2. \A y : y \in ToSet(rows) <=> y \in {PathRow(p) : p \in AllWays}
    BY <1>3, <1>4, <1>6, <2>1 DEF Wanted
  <2>3. ToSet(rows) = {PathRow(p) : p \in AllWays}
    BY <2>2
  <2> QED
    BY <1>6, <2>3
<1> QED
  BY <1>5, <1>6

(***************************************************************************)
(* MATCH with an arrow over any stored graph, for any nodes that fit and   *)
(* any pair of hops, returns the rows it is to return, each exactly once   *)
(* where it follows one edge (cypher/executor.cpp:212-313, 386-452).       *)
(***************************************************************************)
THEOREM MatchCorrect == MatchSpec => []MatchExact
<1>1. MatchSpec => []MatchInv
  BY MatchInitInv, MatchStep, PTL DEF MatchSpec
<1> QED
  BY <1>1, MatchInvExact, PTL
=============================================================================
