-------------------------- MODULE ListenerStkProofs --------------------------
(***************************************************************************)
(* Proofs about ListenerStk, for any listeners and any depth of nested     *)
(* calls: its two data structures agree, a removed listener is not         *)
(* reached, and it implements ListenerContract.                            *)
(***************************************************************************)
EXTENDS ListenerStk, ListLemmas

-----------------------------------------------------------------------------
(* The inductive invariant *)

\* A call in which another is nested is in code that may start one.
Nested ==
    /\ \A d \in Calls : d < depth => phase[d] \in {"inPre", "between", "inPost"}
    /\ \A d \in Calls : d <= depth => phase[d] # "free"

\* callPre looks at the mark as soon as a listener returns.
CleanInPre == \A d \in Calls : d <= depth /\ phase[d] = "pre" => ~dirty[d]

\* While nothing changes, the iterator has yet to reach exactly those who wait for Pre.
NobodyMissed ==
    \A d \in Calls : d <= depth /\ phase[d] \in {"pre", "inPre"} /\ ~dirty[d] =>
        /\ todo[d] \subseteq Registered
        /\ \A l \in Registered : slot[d][l] = 0 => l \in todo[d]

Held == \A d \in Calls : d <= depth => \A l \in Listeners : count[l] = 0 => slot[d][l] = 0

FreeIsEmpty == \A d \in Calls : d > depth => slot[d] = NoSlot

Agree == 
    \A d \in Calls : d <= depth => \A l \in Listeners :
        /\ slot[d][l] <= Len(pre[d])
        /\ \A i \in 1 .. Len(pre[d]) : pre[d][i] = l <=> slot[d][l] = i

IInv == TypeOK /\ Nested /\ CleanInPre /\ NobodyMissed /\ Held /\ FreeIsEmpty /\ Agree

-----------------------------------------------------------------------------
(* Helpers *)

\* A sequence with a listener in it has a last one.
LEMMA LastExists ==
    ASSUME NEW s \in Seq(Listeners \cup {None}), NEW i \in 1 .. Len(s), s[i] # None
    PROVE  \E k \in 1 .. Len(s) : s[k] # None /\ \A j \in 1 .. Len(s) : j > k => s[j] = None
<1> DEFINE T == {k \in 1 .. Len(s) : s[k] # None}
<1>0. Len(s) \in Nat
  OBVIOUS
<1>1. T \in SUBSET Nat /\ T # {} /\ \A x \in T : x <= Len(s)
  BY <1>0
<1>2. Max(T) \in T /\ \A y \in T : y <= Max(T)
  <2> HIDE DEF T
  <2> QED
    BY <1>0, <1>1, MaxIsGreatest
<1>3. \A j \in 1 .. Len(s) : j > Max(T) => s[j] = None
  <2> SUFFICES ASSUME NEW j \in 1 .. Len(s), j > Max(T), s[j] # None PROVE FALSE
    OBVIOUS
  <2>1. j \in T
    OBVIOUS
  <2>2. j <= Max(T) /\ Max(T) \in Nat
    BY <2>1, <1>1, <1>2
  <2> QED
    BY <2>2
<1> QED
  BY <1>2, <1>3

\* When no position is the last, no listener is left.
LEMMA NoLastNoneHeld ==
    ASSUME TypeOK, Agree, depth \in Calls, depth \in Nat, \A i \in DOMAIN pre[depth] : ~IsLast(i)
    PROVE  slot[depth] = NoSlot
<1>1. pre[depth] \in Seq(Listeners \cup {None}) /\ slot[depth] \in [Listeners -> Nat]
  BY DEF TypeOK
<1>2. \A i \in 1 .. Len(pre[depth]) : pre[depth][i] = None
  <2>1. DOMAIN pre[depth] = 1 .. Len(pre[depth])
    BY <1>1
  <2> QED
    BY <1>1, <2>1, LastExists DEF IsLast
<1>3. ASSUME NEW l \in Listeners PROVE slot[depth][l] = 0
  <2>1. slot[depth][l] \in Nat /\ slot[depth][l] <= Len(pre[depth]) /\ Len(pre[depth]) \in Nat
    BY <1>1 DEF Agree, TypeOK
  <2>2. \A i \in 1 .. Len(pre[depth]) : pre[depth][i] = l <=> slot[depth][l] = i
    BY DEF Agree, TypeOK
  <2>3. slot[depth][l] \notin 1 .. Len(pre[depth])
    BY <2>2, <1>2, ConstantsAssumption
  <2> QED
    BY <2>1, <2>3
<1> QED
  BY <1>1, <1>3 DEF NoSlot

-----------------------------------------------------------------------------
(* The invariant holds *)

LEMMA InitIInv == Init => IInv
<1> SUFFICES ASSUME Init PROVE IInv
  OBVIOUS
<1> USE ConstantsAssumption DEF Init, Calls
<1>1. TypeOK
  BY DEF TypeOK, NoSlot
<1>2. Nested /\ CleanInPre /\ NobodyMissed /\ Held /\ FreeIsEmpty /\ Agree
  BY DEF Nested, CleanInPre, NobodyMissed, Held, FreeIsEmpty, Agree
<1> QED
  BY <1>1, <1>2 DEF IInv

LEMMA Depths == TypeOK => MaxDepth \in Nat /\ depth \in Nat /\ depth <= MaxDepth
BY ConstantsAssumption DEF TypeOK

LEMMA StartIInv ==
    ASSUME IInv, Start
    PROVE  IInv'
<1> USE Depths, ConstantsAssumption DEF IInv, Calls, callVars
<1>1. TypeOK'
  BY DEF TypeOK, Start, CodeRuns, Registered, NoSlot
<1>2. Nested'
  BY DEF Nested, TypeOK, Start, CodeRuns, Registered
<1>3. CleanInPre'
  BY DEF CleanInPre, TypeOK, Start, CodeRuns, Registered
<1>4. NobodyMissed'
  BY DEF NobodyMissed, TypeOK, Start, CodeRuns, Registered
<1>5. Held'
  BY DEF Held, TypeOK, Start, CodeRuns, Registered, NoSlot
<1>6. FreeIsEmpty'
  BY DEF FreeIsEmpty, TypeOK, Start, CodeRuns, Registered
<1>7. Agree'
  BY DEF Agree, TypeOK, Start, CodeRuns, Registered, NoSlot
<1> QED
  BY <1>1, <1>2, <1>3, <1>4, <1>5, <1>6, <1>7

LEMMA PreReturnsIInv ==
    ASSUME IInv, PreReturns
    PROVE  IInv'
<1> USE Depths, ConstantsAssumption DEF IInv, Calls, callVars
<1>1. TypeOK'
  BY DEF TypeOK, PreReturns, InPhase, Goto, Registered
<1>2. Nested'
  BY DEF Nested, TypeOK, PreReturns, InPhase, Goto, Registered
<1>3. CleanInPre'
  BY DEF CleanInPre, TypeOK, PreReturns, InPhase, Goto, Registered
<1>4. NobodyMissed'
  BY DEF NobodyMissed, TypeOK, PreReturns, InPhase, Goto, Registered
<1>5. Held'
  BY DEF Held, TypeOK, PreReturns, InPhase, Goto, Registered
<1>6. FreeIsEmpty'
  BY DEF FreeIsEmpty, TypeOK, PreReturns, InPhase, Goto, Registered
<1>7. Agree'
  BY DEF Agree, TypeOK, PreReturns, InPhase, Goto, Registered
<1> QED
  BY <1>1, <1>2, <1>3, <1>4, <1>5, <1>6, <1>7

LEMMA PreDoneIInv ==
    ASSUME IInv, PreDone
    PROVE  IInv'
<1> USE Depths, ConstantsAssumption DEF IInv, Calls, callVars
<1>1. TypeOK'
  BY DEF TypeOK, PreDone, InPhase, Goto
<1>2. Nested'
  BY DEF Nested, TypeOK, PreDone, InPhase, Goto
<1>3. CleanInPre'
  BY DEF CleanInPre, TypeOK, PreDone, InPhase, Goto
<1>4. NobodyMissed'
  BY DEF NobodyMissed, TypeOK, PreDone, InPhase, Goto, Registered
<1>5. Held'
  BY DEF Held, TypeOK, PreDone, InPhase, Goto
<1>6. FreeIsEmpty'
  BY DEF FreeIsEmpty, TypeOK, PreDone, InPhase, Goto
<1>7. Agree'
  BY DEF Agree, TypeOK, PreDone, InPhase, Goto
<1> QED
  BY <1>1, <1>2, <1>3, <1>4, <1>5, <1>6, <1>7

LEMMA PostBeginsIInv ==
    ASSUME IInv, PostBegins
    PROVE  IInv'
<1> USE Depths, ConstantsAssumption DEF IInv, Calls, callVars
<1>1. TypeOK'
  BY DEF TypeOK, PostBegins, InPhase, Goto
<1>2. Nested'
  BY DEF Nested, TypeOK, PostBegins, InPhase, Goto
<1>3. CleanInPre'
  BY DEF CleanInPre, TypeOK, PostBegins, InPhase, Goto
<1>4. NobodyMissed'
  BY DEF NobodyMissed, TypeOK, PostBegins, InPhase, Goto, Registered
<1>5. Held'
  BY DEF Held, TypeOK, PostBegins, InPhase, Goto
<1>6. FreeIsEmpty'
  BY DEF FreeIsEmpty, TypeOK, PostBegins, InPhase, Goto
<1>7. Agree'
  BY DEF Agree, TypeOK, PostBegins, InPhase, Goto
<1> QED
  BY <1>1, <1>2, <1>3, <1>4, <1>5, <1>6, <1>7

LEMMA PostReturnsIInv ==
    ASSUME IInv, PostReturns
    PROVE  IInv'
<1> USE Depths, ConstantsAssumption DEF IInv, Calls, callVars
<1>1. TypeOK'
  BY DEF TypeOK, PostReturns, InPhase, Goto
<1>2. Nested'
  BY DEF Nested, TypeOK, PostReturns, InPhase, Goto
<1>3. CleanInPre'
  BY DEF CleanInPre, TypeOK, PostReturns, InPhase, Goto
<1>4. NobodyMissed'
  BY DEF NobodyMissed, TypeOK, PostReturns, InPhase, Goto, Registered
<1>5. Held'
  BY DEF Held, TypeOK, PostReturns, InPhase, Goto
<1>6. FreeIsEmpty'
  BY DEF FreeIsEmpty, TypeOK, PostReturns, InPhase, Goto
<1>7. Agree'
  BY DEF Agree, TypeOK, PostReturns, InPhase, Goto
<1> QED
  BY <1>1, <1>2, <1>3, <1>4, <1>5, <1>6, <1>7

LEMMA EndsIInv ==
    ASSUME IInv, Ends
    PROVE  IInv'
<1> USE Depths, ConstantsAssumption DEF IInv, Calls, callVars
<1>1. TypeOK'
  BY DEF TypeOK, Ends, InPhase, Goto
<1>2. Nested'
  BY DEF Nested, TypeOK, Ends, InPhase, Goto
<1>3. CleanInPre'
  BY DEF CleanInPre, TypeOK, Ends, InPhase, Goto
<1>4. NobodyMissed'
  BY DEF NobodyMissed, TypeOK, Ends, InPhase, Goto, Registered
<1>5. Held'
  BY DEF Held, TypeOK, Ends, InPhase, Goto
<1>6. FreeIsEmpty'
  <2>1. depth \in Calls
    BY DEF Ends, InPhase
  <2>2. slot[depth] = NoSlot
    BY <2>1, NoLastNoneHeld DEF Ends, InPhase
  <2> QED
    BY <2>1, <2>2 DEF FreeIsEmpty, TypeOK, Ends, InPhase
<1>7. Agree'
  BY DEF Agree, TypeOK, Ends, InPhase, Goto
<1> QED
  BY <1>1, <1>2, <1>3, <1>4, <1>5, <1>6, <1>7

LEMMA AddListenerIInv ==
    ASSUME IInv, NEW l \in Listeners, AddListener(l)
    PROVE  IInv'
<1> USE Depths, ConstantsAssumption DEF IInv, Calls, callVars
<1>1. TypeOK'
  BY DEF TypeOK, AddListener, CodeRuns
<1>2. Nested'
  BY DEF Nested, TypeOK, AddListener, CodeRuns
<1>3. CleanInPre'
  <2>1. \A d \in Calls : d <= depth => phase[d] # "pre"
    BY DEF AddListener, CodeRuns, Nested
  <2>2. phase' = phase /\ depth' = depth
    BY DEF AddListener
  <2> QED
    BY <2>1, <2>2 DEF CleanInPre
<1>4. NobodyMissed'
  BY DEF NobodyMissed, TypeOK, AddListener, CodeRuns
<1>5. Held'
  BY DEF Held, TypeOK, AddListener, CodeRuns
<1>6. FreeIsEmpty'
  BY DEF FreeIsEmpty, TypeOK, AddListener, CodeRuns
<1>7. Agree'
  BY DEF Agree, TypeOK, AddListener, CodeRuns
<1> QED
  BY <1>1, <1>2, <1>3, <1>4, <1>5, <1>6, <1>7

LEMMA RemoveListenerIInv ==
    ASSUME IInv, NEW l \in Listeners, RemoveListener(l)
    PROVE  IInv'
<1> USE Depths, ConstantsAssumption DEF IInv, Calls, callVars
<1>1. TypeOK'
  <2>1. count' \in [Listeners -> Nat]
    BY DEF TypeOK, RemoveListener
  <2>2. CASE count[l] = 1
    <3>1. ASSUME NEW d \in Calls PROVE pre'[d] \in Seq(Listeners \cup {None})
      <4>1. /\ pre[d] \in Seq(Listeners \cup {None})
            /\ Len(pre[d]) \in Nat
            /\ \A i \in 1 .. Len(pre[d]) : pre[d][i] \in Listeners \cup {None}
        BY DEF TypeOK
      <4>2. pre'[d] = [i \in 1 .. Len(pre[d]) |->
                          IF d <= depth /\ slot[d][l] = i THEN None ELSE pre[d][i]]
        BY <2>2 DEF RemoveListener, Forget
      <4> QED
        BY <4>1, <4>2
    <3>2. pre' \in [Calls -> Seq(Listeners \cup {None})]
      BY <3>1, <2>2 DEF RemoveListener, Forget
    <3>3. slot' \in [Calls -> [Listeners -> Nat]]
      BY <2>2 DEF RemoveListener, Forget, TypeOK
    <3>4. dirty' \in [Calls -> BOOLEAN]
      BY <2>2, Zenon DEF RemoveListener, TypeOK
    <3> QED
      BY <2>1, <3>2, <3>3, <3>4 DEF TypeOK, RemoveListener
  <2>3. CASE count[l] # 1
    BY <2>1, <2>3 DEF TypeOK, RemoveListener
  <2> QED
    BY <2>2, <2>3
<1>2. Nested'
  BY DEF Nested, TypeOK, RemoveListener, CodeRuns, Forget
<1>3. CleanInPre'
  <2>1. \A d \in Calls : d <= depth => phase[d] # "pre"
    BY DEF RemoveListener, CodeRuns, Nested
  <2>2. phase' = phase /\ depth' = depth
    BY DEF RemoveListener
  <2> QED
    BY <2>1, <2>2 DEF CleanInPre
<1>4. NobodyMissed'
  <2>1. CASE count[l] = 1
    <3>1. \A d \in Calls : d <= depth => dirty'[d]
      BY <2>1 DEF RemoveListener
    <3> QED
      BY <3>1 DEF NobodyMissed, RemoveListener
  <2>2. CASE count[l] # 1
    <3>1. Registered' = Registered
      BY <2>2 DEF RemoveListener, Registered, TypeOK
    <3> QED
      BY <2>2, <3>1 DEF NobodyMissed, RemoveListener
  <2> QED
    BY <2>1, <2>2
<1>5. Held'
  BY DEF Held, TypeOK, RemoveListener, CodeRuns, Forget
<1>6. FreeIsEmpty'
  BY DEF FreeIsEmpty, TypeOK, RemoveListener, CodeRuns, Forget
<1>7. Agree'
  <2>1. CASE count[l] = 1
    <3> SUFFICES ASSUME NEW d \in Calls, d <= depth, NEW k \in Listeners
                 PROVE  /\ slot'[d][k] <= Len(pre'[d])
                        /\ \A i \in 1 .. Len(pre'[d]) : pre'[d][i] = k <=> slot'[d][k] = i
      BY DEF Agree, RemoveListener
    <3>1. pre'[d] = [i \in 1 .. Len(pre[d]) |-> IF slot[d][l] = i THEN None ELSE pre[d][i]]
      BY <2>1 DEF RemoveListener, Forget
    <3>2. slot'[d] = [slot[d] EXCEPT ![l] = 0]
      BY <2>1 DEF RemoveListener, Forget
    <3>3. Len(pre[d]) \in Nat /\ slot[d] \in [Listeners -> Nat]
      BY DEF TypeOK
    <3>4. Len(pre'[d]) = Len(pre[d])
      BY <3>1, <3>3
    <3>5. /\ slot[d][k] <= Len(pre[d])
          /\ \A i \in 1 .. Len(pre[d]) : pre[d][i] = k <=> slot[d][k] = i
          /\ \A i \in 1 .. Len(pre[d]) : pre[d][i] = l <=> slot[d][l] = i
      BY DEF Agree
    <3>6. CASE k = l
      BY <3>1, <3>2, <3>3, <3>4, <3>5, <3>6
    <3>7. CASE k # l
      <4>1. slot'[d][k] = slot[d][k]
        BY <3>2, <3>3, <3>7
      <4> QED
        BY <3>1, <3>3, <3>4, <3>5, <3>7, <4>1
    <3> QED
      BY <3>6, <3>7
  <2>2. CASE count[l] # 1
    BY <2>2 DEF Agree, RemoveListener
  <2> QED
    BY <2>1, <2>2
<1> QED
  BY <1>1, <1>2, <1>3, <1>4, <1>5, <1>6, <1>7

LEMMA SkipPreIInv ==
    ASSUME IInv, NEW l \in Listeners, SkipPre(l)
    PROVE  IInv'
<1> USE Depths, ConstantsAssumption DEF IInv, Calls, callVars
<1>1. TypeOK'
  BY DEF TypeOK, SkipPre, Pass, InPhase
<1>2. Nested'
  BY DEF Nested, TypeOK, SkipPre, Pass, InPhase
<1>3. CleanInPre'
  BY DEF CleanInPre, TypeOK, SkipPre, Pass, InPhase
<1>4. NobodyMissed'
  BY DEF NobodyMissed, TypeOK, SkipPre, Pass, InPhase, Registered
<1>5. Held'
  BY DEF Held, TypeOK, SkipPre, Pass, InPhase
<1>6. FreeIsEmpty'
  BY DEF FreeIsEmpty, TypeOK, SkipPre, Pass, InPhase
<1>7. Agree'
  BY DEF Agree, TypeOK, SkipPre, Pass, InPhase
<1> QED
  BY <1>1, <1>2, <1>3, <1>4, <1>5, <1>6, <1>7

LEMMA CallPreIInv ==
    ASSUME IInv, NEW l \in Listeners, CallPre(l)
    PROVE  IInv'
<1> USE Depths, ConstantsAssumption DEF IInv, Calls, callVars
<1>1. TypeOK'
  BY DEF TypeOK, CallPre, Pass, InPhase, Goto
<1>2. Nested'
  BY DEF Nested, TypeOK, CallPre, Pass, InPhase, Goto
<1>3. CleanInPre'
  BY DEF CleanInPre, TypeOK, CallPre, Pass, InPhase, Goto
<1>4. NobodyMissed'
  BY DEF NobodyMissed, TypeOK, CallPre, Pass, InPhase, Goto, Registered
<1>5. Held'
  <2>1. count[l] # 0
    BY DEF CallPre, Pass, InPhase, NobodyMissed, CleanInPre, Registered, TypeOK
  <2> QED
    BY <2>1 DEF Held, TypeOK, CallPre, Pass, InPhase
<1>6. FreeIsEmpty'
  BY DEF FreeIsEmpty, TypeOK, CallPre, Pass, InPhase, Goto
<1>7. Agree'
  BY DEF Agree, TypeOK, CallPre, Pass, InPhase, Goto
<1> QED
  BY <1>1, <1>2, <1>3, <1>4, <1>5, <1>6, <1>7

LEMMA CallPostIInv ==
    ASSUME IInv, NEW i \in DOMAIN pre[depth], CallPost(i)
    PROVE  IInv'
<1> USE Depths, ConstantsAssumption DEF IInv, Calls, callVars
<1>1. TypeOK'
  <2>0. depth \in Calls
    BY DEF CallPost, InPhase
  <2>1. /\ pre[depth] \in Seq(Listeners \cup {None}) /\ Len(pre[depth]) \in Nat
        /\ DOMAIN pre[depth] = 1 .. Len(pre[depth])
        /\ pre[depth][i] \in Listeners
    BY <2>0 DEF TypeOK, CallPost, IsLast
  <2>2. SubSeq(pre[depth], 1, i - 1) \in Seq(Listeners \cup {None})
    BY <2>1
  <2>3. pre' \in [Calls -> Seq(Listeners \cup {None})]
    BY <2>0, <2>2 DEF TypeOK, CallPost
  <2>4. slot' \in [Calls -> [Listeners -> Nat]]
    BY <2>0, <2>1 DEF TypeOK, CallPost
  <2> QED
    BY <2>3, <2>4 DEF TypeOK, CallPost, InPhase, Goto
<1>2. Nested'
  BY DEF Nested, TypeOK, CallPost, InPhase, Goto, IsLast
<1>3. CleanInPre'
  BY DEF CleanInPre, TypeOK, CallPost, InPhase, Goto, IsLast
<1>4. NobodyMissed'
  BY DEF NobodyMissed, TypeOK, CallPost, InPhase, Goto, IsLast, Registered
<1>5. Held'
  BY DEF Held, TypeOK, CallPost, InPhase, Goto, IsLast
<1>6. FreeIsEmpty'
  BY DEF FreeIsEmpty, TypeOK, CallPost, InPhase
<1>7. Agree'
  <2>0. depth \in Calls
    BY DEF CallPost, InPhase
  <2>1. /\ pre[depth] \in Seq(Listeners \cup {None}) /\ Len(pre[depth]) \in Nat
        /\ slot[depth] \in [Listeners -> Nat]
        /\ DOMAIN pre[depth] = 1 .. Len(pre[depth])
        /\ i \in 1 .. Len(pre[depth])
        /\ pre[depth][i] \in Listeners
        /\ \A j \in 1 .. Len(pre[depth]) : j > i => pre[depth][j] = None
    BY <2>0 DEF TypeOK, CallPost, IsLast
  <2> DEFINE l == pre[depth][i]
  <2>2. /\ pre'[depth] = SubSeq(pre[depth], 1, i - 1)
        /\ slot'[depth] = [slot[depth] EXCEPT ![l] = 0]
        /\ depth' = depth
        /\ \A d \in Calls : d # depth => pre'[d] = pre[d] /\ slot'[d] = slot[d]
    BY <2>0 DEF TypeOK, CallPost
  <2>3. /\ Len(pre'[depth]) = i - 1
        /\ \A j \in 1 .. i - 1 : pre'[depth][j] = pre[depth][j]
    BY <2>1, <2>2
  <2>4. ASSUME NEW k \in Listeners
        PROVE  /\ slot'[depth][k] <= i - 1
               /\ \A j \in 1 .. i - 1 : pre'[depth][j] = k <=> slot'[depth][k] = j
    <3>1. /\ slot[depth][k] <= Len(pre[depth])
          /\ \A j \in 1 .. Len(pre[depth]) : pre[depth][j] = k <=> slot[depth][k] = j
          /\ \A j \in 1 .. Len(pre[depth]) : pre[depth][j] = l <=> slot[depth][l] = j
      BY <2>0, <2>1 DEF Agree
    <3>2. CASE k = l
      <4>1. slot[depth][l] = i /\ slot'[depth][l] = 0
        BY <2>1, <2>2, <3>1
      <4>2. \A j \in 1 .. i - 1 : pre[depth][j] # l
        BY <2>1, <3>1, <4>1
      <4> QED
        BY <2>1, <2>3, <3>2, <4>1, <4>2
    <3>3. CASE k # l
      <4>1. slot'[depth][k] = slot[depth][k] /\ slot[depth][k] \in Nat
        BY <2>1, <2>2, <3>3
      <4>2. slot[depth][k] <= i - 1
        BY <2>1, <3>1, <3>3, <4>1, ConstantsAssumption
      <4>3. \A j \in 1 .. i - 1 : j \in 1 .. Len(pre[depth])
        BY <2>1
      <4> QED
        BY <2>3, <3>1, <4>1, <4>2, <4>3
    <3> QED
      BY <3>2, <3>3
  <2>5. i - 1 \in Nat
    BY <2>1
  <2> HIDE DEF l
  <2>6. ASSUME NEW d \in Calls, d <= depth, NEW k \in Listeners
        PROVE  /\ slot'[d][k] <= Len(pre'[d])
               /\ \A j \in 1 .. Len(pre'[d]) : pre'[d][j] = k <=> slot'[d][k] = j
    <3>1. CASE d = depth
      BY <2>3, <2>4, <3>1
    <3>2. CASE d # depth
      BY <2>2, <2>6, <3>2 DEF Agree
    <3> QED
      BY <3>1, <3>2
  <2> QED
    BY <2>2, <2>6 DEF Agree
<1> QED
  BY <1>1, <1>2, <1>3, <1>4, <1>5, <1>6, <1>7

LEMMA NextIInv == IInv /\ [Next]_vars => IInv'
<1> SUFFICES ASSUME IInv, [Next]_vars PROVE IInv'
  OBVIOUS
<1>1. CASE Start \/ PreReturns \/ PreDone \/ PostBegins \/ PostReturns \/ Ends
  BY <1>1, StartIInv, PreReturnsIInv, PreDoneIInv, PostBeginsIInv, PostReturnsIInv, EndsIInv
<1>2. CASE \E l \in Listeners : AddListener(l) \/ RemoveListener(l) \/ SkipPre(l) \/ CallPre(l)
  BY <1>2, AddListenerIInv, RemoveListenerIInv, SkipPreIInv, CallPreIInv
<1>3. CASE \E d \in Calls : \E i \in DOMAIN pre[d] : d = depth /\ CallPost(i)
  BY <1>3, CallPostIInv
<1>4. CASE UNCHANGED vars
  BY <1>4 DEF IInv, TypeOK, Nested, CleanInPre, NobodyMissed, Held, FreeIsEmpty, Agree,
              Registered, vars, callVars
<1> QED
  BY <1>1, <1>2, <1>3, <1>4 DEF Next

LEMMA SpecIInv == Spec => []IInv
<1>1. Init => IInv
  BY InitIInv
<1>2. IInv /\ [Next]_vars => IInv'
  BY NextIInv
<1> QED
  BY <1>1, <1>2, PTL DEF Spec

-----------------------------------------------------------------------------
(* What follows *)

(* Every variable keeps its type. *)
THEOREM TypesHold == Spec => []TypeOK
<1>1. IInv => TypeOK
  BY DEF IInv
<1> QED
  BY <1>1, SpecIInv, PTL

(* The vector and the map of a call agree, whatever is removed and however *)
(* deep calls nest (pushBack, popBack, remove).                            *)
THEOREM SlotsAgreeHolds == Spec => []SlotsAgree
<1>1. IInv => SlotsAgree
  BY Depths DEF IInv, Agree, SlotsAgree, Calls
<1> QED
  BY <1>1, SpecIInv, PTL

(* No call under way can reach a listener that has been removed            *)
(* (removeListener, listenerPreCalledDirty).                               *)
THEOREM RemovedNotReachedHolds == Spec => []RemovedNotReached
<1>1. ASSUME IInv PROVE RemovedNotReached
  <2> SUFFICES ASSUME NEW d \in 1 .. depth, NEW l \in Listeners, count[l] = 0
               PROVE  /\ slot[d][l] = 0
                      /\ \A i \in 1 .. Len(pre[d]) : pre[d][i] # l
                      /\ l \in todo[d] /\ phase[d] \in {"pre", "inPre"} => dirty[d]
    BY DEF RemovedNotReached
  <2>1. d \in Calls /\ d <= depth
    BY <1>1, Depths DEF IInv, Calls
  <2>2. slot[d][l] = 0
    BY <1>1, <2>1 DEF IInv, Held
  <2>3. \A i \in 1 .. Len(pre[d]) : pre[d][i] # l
    BY <1>1, <2>1, <2>2 DEF IInv, Agree
  <2>4. l \in todo[d] /\ phase[d] \in {"pre", "inPre"} => dirty[d]
    BY <1>1, <2>1 DEF IInv, NobodyMissed, Registered
  <2> QED
    BY <2>2, <2>3, <2>4
<1> QED
  BY <1>1, SpecIInv, PTL

LEMMA InitContract == Init => C!Init
BY DEF Init, C!Init, C!Nobody, NoSlot, Registered, Calls

LEMMA StepContract ==
    ASSUME IInv, [Next]_vars
    PROVE  [C!Next]_(C!vars)
<1> USE Depths, ConstantsAssumption DEF IInv, Calls, C!vars, Registered
<1>1. CASE Start
  <2>1. C!Start
    BY <1>1 DEF Start, C!Start, C!Nobody, NoSlot
  <2> QED
    BY <2>1 DEF C!Next
<1>2. CASE PreReturns
  <2>1. C!PreReturns
    BY <1>2 DEF PreReturns, InPhase, Goto, C!PreReturns, C!Moves
  <2> QED
    BY <2>1 DEF C!Next
<1>3. CASE PreDone
  <2>1. C!PreDone
    <3>1. ASSUME NEW l \in Listeners, count[l] > 0 PROVE slot[depth][l] > 0
      BY <1>3, <3>1 DEF PreDone, InPhase, NobodyMissed, CleanInPre, TypeOK
    <3> QED
      BY <1>3, <3>1 DEF PreDone, InPhase, Goto, C!PreDone, C!Moves
  <2> QED
    BY <2>1 DEF C!Next
<1>4. CASE PostBegins
  <2>1. C!PostBegins
    BY <1>4 DEF PostBegins, InPhase, Goto, C!PostBegins, C!Moves
  <2> QED
    BY <2>1 DEF C!Next
<1>5. CASE PostReturns
  <2>1. C!PostReturns
    BY <1>5 DEF PostReturns, InPhase, Goto, C!PostReturns, C!Moves
  <2> QED
    BY <2>1 DEF C!Next
<1>6. CASE Ends
  <2>1. depth \in Calls
    BY <1>6 DEF Ends, InPhase
  <2>2. slot[depth] = NoSlot
    BY <1>6, <2>1, NoLastNoneHeld DEF Ends, InPhase
  <2>3. C!Ends
    BY <1>6, <2>1, <2>2 DEF Ends, InPhase, Goto, C!Ends, C!Nobody, NoSlot
  <2> QED
    BY <2>3 DEF C!Next
<1>7. ASSUME NEW l \in Listeners, AddListener(l) PROVE C!Next
  <2>1. Registered' = Registered \cup {l}
    BY <1>7 DEF AddListener, TypeOK
  <2>2. C!Add(l)
    BY <1>7, <2>1 DEF AddListener, C!Add
  <2> QED
    BY <2>2 DEF C!Next
<1>8. ASSUME NEW l \in Listeners, RemoveListener(l) PROVE C!Next \/ UNCHANGED C!vars
  <2>1. CASE count[l] = 1
    <3>1. Registered' = Registered \ {l}
      BY <1>8, <2>1 DEF RemoveListener, TypeOK
    <3>2. slot' = [d \in 1 .. MaxDepth |-> [slot[d] EXCEPT ![l] = 0]]
      <4>1. \A d \in Calls : d > depth => [slot[d] EXCEPT ![l] = 0] = slot[d]
        BY DEF FreeIsEmpty, NoSlot
      <4> QED
        BY <1>8, <2>1, <4>1 DEF RemoveListener, Forget, TypeOK
    <3>3. C!Remove(l)
      BY <1>8, <2>1, <3>1, <3>2 DEF RemoveListener, C!Remove
    <3> QED
      BY <3>3 DEF C!Next
  <2>2. CASE count[l] # 1
    <3>1. Registered' = Registered
      BY <1>8, <2>2 DEF RemoveListener, TypeOK
    <3> QED
      BY <1>8, <2>2, <3>1 DEF RemoveListener
  <2> QED
    BY <2>1, <2>2
<1>9. ASSUME NEW l \in Listeners, SkipPre(l) PROVE UNCHANGED C!vars
  BY <1>9 DEF SkipPre, Pass
<1>10. ASSUME NEW l \in Listeners, CallPre(l) PROVE C!Next
  <2>0. depth \in Calls /\ slot[depth] \in [Listeners -> Nat] /\ Len(pre[depth]) \in Nat
    BY <1>10 DEF CallPre, Pass, InPhase, TypeOK
  <2>1. l \in Registered
    BY <1>10 DEF CallPre, Pass, InPhase, NobodyMissed, CleanInPre
  <2>2. slot'[depth] = [slot[depth] EXCEPT ![l] = Len(pre[depth]) + 1]
    BY <1>10, <2>0 DEF CallPre, TypeOK
  <2>3. \A k \in Listeners : slot[depth][k] < slot'[depth][l]
    BY <2>0, <2>2 DEF Agree
  <2>4. slot' = [slot EXCEPT ![depth][l] = slot'[depth][l]]
    BY <1>10, <2>0, <2>2 DEF CallPre, TypeOK
  <2>5. C!CallPre(l)
    BY <1>10, <2>1, <2>3, <2>4 DEF CallPre, Pass, InPhase, Goto, C!CallPre, C!Moves
  <2> QED
    BY <2>5 DEF C!Next
<1>11. ASSUME NEW i \in DOMAIN pre[depth], CallPost(i) PROVE C!Next
  <2>0. depth \in Calls
    BY <1>11 DEF CallPost, InPhase
  <2>1. /\ DOMAIN pre[depth] = 1 .. Len(pre[depth]) /\ Len(pre[depth]) \in Nat
        /\ slot[depth] \in [Listeners -> Nat]
        /\ pre[depth][i] \in Listeners
        /\ \A j \in 1 .. Len(pre[depth]) : j > i => pre[depth][j] = None
    BY <1>11, <2>0 DEF CallPost, IsLast, TypeOK
  <2>2. PICK l \in Listeners : l = pre[depth][i]
    BY <2>1
  <2>3. slot[depth][l] = i
    BY <2>0, <2>1, <2>2 DEF Agree
  <2>4. ASSUME NEW k \in Listeners PROVE slot[depth][k] <= i
    <3>1. slot[depth][k] > i => pre[depth][slot[depth][k]] = k
      BY <2>0, <2>1 DEF Agree
    <3> QED
      BY <2>0, <2>1, <3>1 DEF Agree
  <2>5. C!CallPost(l)
    BY <1>11, <2>1, <2>2, <2>3, <2>4 DEF CallPost, InPhase, Goto, C!CallPost, C!Moves
  <2> QED
    BY <2>5 DEF C!Next
<1>12. CASE UNCHANGED vars
  BY <1>12 DEF vars, callVars
<1> QED
  BY <1>1, <1>2, <1>3, <1>4, <1>5, <1>6, <1>7, <1>8, <1>9, <1>10, <1>11, <1>12 DEF Next

(* The stack keeps its promise: everyone registered is told, Post matches  *)
(* Pre and goes in reverse order, calls nest (class ListenerStk).          *)
THEOREM ContractHolds == Spec => Contract
<1>1. Init => C!Init
  BY InitContract
<1>2. IInv /\ [Next]_vars => [C!Next]_(C!vars)
  BY StepContract
<1> QED
  BY <1>1, <1>2, SpecIInv, PTL DEF Spec, Contract, C!Spec
=============================================================================
