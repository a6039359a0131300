-------------------------- MODULE EventQueueProofs --------------------------
(***************************************************************************)
(* Proofs about EventQueue, for any number of levels and events: the lists *)
(* of active events match the events and are ordered; at the end of a game *)
(* tick nothing that is due is left; the queue implements the Agenda; and  *)
(* every step of a tick uses up something finite.                          *)
(***************************************************************************)
EXTENDS EventQueue, ListLemmas

-----------------------------------------------------------------------------
(* Lists of events ordered by given times *)

Precedes(e, f, time) ==
    \/ time[e] < time[f]
    \/ time[e] = time[f] /\ Priority[e] >= Priority[f]

OrderedBy(s, time) ==
    \A i, j \in 1 .. Len(s) : i < j => Precedes(s[i], s[j], time)

\* Taking an event out keeps the order.
LEMMA RemoveKeepsOrder ==
    ASSUME NEW s \in Seq(Events), IsInjective(s), NEW e \in ToSet(s),
           NEW time, OrderedBy(s, time)
    PROVE  OrderedBy(RemoveFirst(s, e), time)
<1> DEFINE r == RemoveFirst(s, e)
<1>1. \A k, m \in 1 .. Len(r) :
        k < m => \E i, j \in 1 .. Len(s) : i < j /\ r[k] = s[i] /\ r[m] = s[j]
  BY RemoveFirstOnce
<1> HIDE DEF r
<1>2. OrderedBy(r, time)
  BY <1>1 DEF OrderedBy
<1> QED
  BY <1>2 DEF r

\* The place where an event is inserted is behind all events that stay ahead of it,
\* and the event there, if any, does not.
LEMMA InsertionPlace ==
    ASSUME NEW s \in Seq(Events), NEW e \in Events, NEW t \in Int,
           triggerTime \in [Events -> Int]
    PROVE  \E p \in 1 .. Len(s) + 1 :
             /\ Inserted(s, e, t) = InsertAt(s, p, e)
             /\ \A k \in 1 .. p - 1 : Ahead(s[k], e, t)
             /\ p <= Len(s) => ~Ahead(s[p], e, t)
<1> DEFINE T == {i \in 1 .. Len(s) : ~Ahead(s[i], e, t)} \cup {Len(s) + 1}
           p == Min(T)
<1>1. Len(s) \in Nat
  OBVIOUS
<1>2. T \in SUBSET Nat /\ T # {}
  BY <1>1
<1>3. p \in T /\ \A y \in T : p <= y
  <2> HIDE DEF T
  <2> QED
    BY <1>2, MinIsLeast
<1>4. p \in 1 .. Len(s) + 1
  <2> HIDE DEF p
  <2> QED
    BY <1>1, <1>3
<1>5. ASSUME NEW k \in 1 .. p - 1
      PROVE  Ahead(s[k], e, t)
  <2> HIDE DEF p
  <2>1. k \in 1 .. Len(s) /\ k < p /\ ~(p <= k)
    BY <1>1, <1>4
  <2> QED
    BY <1>3, <2>1
<1>6. p <= Len(s) => ~Ahead(s[p], e, t)
  <2> HIDE DEF p
  <2> QED
    BY <1>1, <1>3
<1>7. Inserted(s, e, t) = InsertAt(s, p, e)
  BY DEF Inserted
<1> HIDE DEF p
<1> QED
  BY <1>4, <1>5, <1>6, <1>7

\* Inserting an event there with its new time keeps the order.
LEMMA InsertKeepsOrder ==
    ASSUME NEW s \in Seq(Events), NEW e \in Events, e \notin ToSet(s), NEW t \in Int,
           triggerTime \in [Events -> Int], OrderedBy(s, triggerTime)
    PROVE  OrderedBy(Inserted(s, e, t), [triggerTime EXCEPT ![e] = t])
<1> DEFINE r == Inserted(s, e, t)
           time == [triggerTime EXCEPT ![e] = t]
<1>0. Len(s) \in Nat /\ DOMAIN s = 1 .. Len(s) /\ \A i \in 1 .. Len(s) : s[i] \in Events
  OBVIOUS
<1>1. PICK p \in 1 .. Len(s) + 1 :
        /\ r = InsertAt(s, p, e)
        /\ \A k \in 1 .. p - 1 : Ahead(s[k], e, t)
        /\ p <= Len(s) => ~Ahead(s[p], e, t)
  BY InsertionPlace
<1>2. /\ Len(r) = Len(s) + 1
      /\ \A k \in 1 .. Len(s) + 1 : r[k] = IF k < p THEN s[k] ELSE IF k = p THEN e ELSE s[k - 1]
  BY <1>1, InsertAtShape
<1>3. time[e] = t /\ \A i \in 1 .. Len(s) : time[s[i]] = triggerTime[s[i]] /\ triggerTime[s[i]] \in Int
  BY <1>0 DEF ToSet
<1>4. \A i \in 1 .. Len(s) : Priority[s[i]] \in Int /\ Priority[e] \in Int
  BY <1>0, ConstantsAssumption
<1>5. \A i, j \in 1 .. Len(s) : i < j => Precedes(s[i], s[j], time)
  BY <1>3 DEF OrderedBy, Precedes
<1> HIDE DEF r, time
<1>6. \A i \in 1 .. p - 1 : Precedes(s[i], e, time)
  <2> SUFFICES ASSUME NEW i \in 1 .. p - 1 PROVE Precedes(s[i], e, time)
    OBVIOUS
  <2>1. i \in 1 .. Len(s) /\ Ahead(s[i], e, t)
    BY <1>0, <1>1
  <2> QED
    BY <1>3, <1>4, <2>1 DEF Ahead, Precedes
<1>7. \A j \in p .. Len(s) : Precedes(e, s[j], time)
  <2> SUFFICES ASSUME NEW j \in p .. Len(s) PROVE Precedes(e, s[j], time)
    OBVIOUS
  <2>1. j \in 1 .. Len(s) /\ p \in 1 .. Len(s) /\ p <= Len(s) /\ (p < j \/ p = j)
    BY <1>0
  <2>2. Precedes(e, s[p], time)
    BY <1>1, <1>3, <1>4, <2>1 DEF Ahead, Precedes
  <2>3. CASE p < j
    <3>1. Precedes(s[p], s[j], time)
      BY <1>5, <2>1, <2>3
    <3> QED
      BY <1>3, <1>4, <2>1, <2>2, <3>1 DEF Precedes
  <2> QED
    BY <2>1, <2>2, <2>3
<1>8. ASSUME NEW i \in 1 .. Len(s) + 1, NEW j \in 1 .. Len(s) + 1, i < j
      PROVE  Precedes(r[i], r[j], time)
  <2>1. CASE j < p
    <3>1. r[i] = s[i] /\ r[j] = s[j] /\ i \in 1 .. Len(s) /\ j \in 1 .. Len(s)
      BY <1>0, <1>2, <1>8, <2>1
    <3> QED
      BY <1>5, <1>8, <3>1
  <2>2. CASE j = p
    <3>1. r[i] = s[i] /\ r[j] = e /\ i \in 1 .. p - 1
      BY <1>0, <1>2, <1>8, <2>2
    <3> QED
      BY <1>6, <3>1
  <2>3. CASE j > p /\ i < p
    <3>1. r[i] = s[i] /\ r[j] = s[j - 1] /\ i \in 1 .. Len(s) /\ j - 1 \in 1 .. Len(s) /\ i \in 1 .. p - 1
      BY <1>0, <1>2, <2>3
    <3>2. i < j - 1 \/ i = j - 1
      BY <1>8, <2>3
    <3>3. CASE i < j - 1
      BY <1>5, <3>1, <3>3
    <3>4. CASE i = j - 1
      BY <2>3, <3>4
    <3> QED
      BY <3>2, <3>3, <3>4
  <2>4. CASE i = p
    <3>1. r[i] = e /\ r[j] = s[j - 1] /\ j - 1 \in p .. Len(s)
      BY <1>0, <1>2, <1>8, <2>4
    <3> QED
      BY <1>7, <3>1
  <2>5. CASE i > p
    <3>1. /\ r[i] = s[i - 1] /\ r[j] = s[j - 1]
          /\ i - 1 \in 1 .. Len(s) /\ j - 1 \in 1 .. Len(s) /\ i - 1 < j - 1
      BY <1>0, <1>2, <1>8, <2>5
    <3> QED
      BY <1>5, <3>1
  <2> QED
    BY <1>0, <1>8, <2>1, <2>2, <2>3, <2>4, <2>5
<1>9. OrderedBy(r, time)
  BY <1>2, <1>8 DEF OrderedBy
<1> QED
  BY <1>9 DEF r, time

-----------------------------------------------------------------------------
(* The lists of active events *)

Frames ==
    [kind : {"trigger"}, event : Events]
      \cup [kind : {"send"}, from : Levels, next : 0 .. NLevels]
      \cup [kind : {"receive"}, at : Levels, rest : Seq(Events)]

\* The part of the types that the lists depend on.
EventTypes ==
    /\ isActive \in [Events -> BOOLEAN]
    /\ triggerTime \in [Events -> Times \cup {-1}]
    /\ active \in [Levels -> Seq(Events)]

ListsInv == EventTypes /\ ActiveListsMatch /\ ActiveListsOrdered

\* What the three mean for one level.
LEMMA ListFacts ==
    ASSUME ListsInv, NEW l \in Levels
    PROVE  /\ active[l] \in Seq(Events)
           /\ \A e \in Events : e \in ToSet(active[l]) <=> isActive[e] /\ LevelOf[e] = l
           /\ IsInjective(active[l])
           /\ OrderedBy(active[l], triggerTime)
BY DEF ListsInv, EventTypes, ActiveListsMatch, ActiveListsOrdered, OrderedBy, Precedes

LEMMA TimesAreIntegers ==
    ASSUME EventTypes
    PROVE  triggerTime \in [Events -> Int]
BY ConstantsAssumption DEF EventTypes, Times

\* Deactivating an event takes it out of its list and changes no other list.
LEMMA DeactivatedKeepsLists ==
    ASSUME ListsInv, NEW e \in Events, Deactivated(e),
           triggerTime' \in [Events -> Times \cup {-1}],
           \A f \in Events : f # e => triggerTime'[f] = triggerTime[f]
    PROVE  /\ ListsInv'
           /\ \A l \in Levels : ToSet(active'[l]) = ToSet(active[l]) \ {e}
<1> DEFINE h == LevelOf[e]
<1>0. h \in Levels /\ \A f \in Events : LevelOf[f] \in Levels
  BY ConstantsAssumption DEF Levels
<1>1. /\ isActive' = [isActive EXCEPT ![e] = FALSE]
      /\ isActive \in [Events -> BOOLEAN]
      /\ active \in [Levels -> Seq(Events)]
  BY DEF Deactivated, ListsInv, EventTypes
<1>2. /\ active' \in [Levels -> Seq(Events)]
      /\ \A l \in Levels : /\ ToSet(active'[l]) = ToSet(active[l]) \ {e}
                           /\ IsInjective(active'[l])
                           /\ OrderedBy(active'[l], triggerTime)
  <2>1. CASE isActive[e]
    <3> DEFINE r == RemoveFirst(active[h], e)
    <3>1. active' = [active EXCEPT ![h] = r]
      BY <2>1 DEF Deactivated
    <3>2. e \in ToSet(active[h]) /\ active[h] \in Seq(Events) /\ IsInjective(active[h])
          /\ OrderedBy(active[h], triggerTime)
      BY <1>0, <2>1, ListFacts
    <3>3. /\ r \in Seq(Events)
          /\ ToSet(r) = ToSet(active[h]) \ {e}
          /\ IsInjective(r)
      BY <3>2, RemoveFirstOnce
    <3>4. OrderedBy(r, triggerTime)
      BY <3>2, RemoveKeepsOrder
    <3> HIDE DEF r
    <3>5. active' \in [Levels -> Seq(Events)]
      BY <1>0, <1>1, <3>1, <3>3
    <3>6. ASSUME NEW l \in Levels
          PROVE  /\ ToSet(active'[l]) = ToSet(active[l]) \ {e}
                 /\ IsInjective(active'[l])
                 /\ OrderedBy(active'[l], triggerTime)
      <4>1. CASE l = h
        <5>1. active'[l] = r
          BY <1>0, <1>1, <3>1, <4>1
        <5> QED
          BY <3>3, <3>4, <4>1, <5>1
      <4>2. CASE l # h
        <5>1. active'[l] = active[l]
          BY <1>1, <3>1, <4>2
        <5>2. e \notin ToSet(active[l])
          BY <4>2, ListFacts
        <5>3. IsInjective(active[l]) /\ OrderedBy(active[l], triggerTime)
          BY ListFacts
        <5> QED
          BY <5>1, <5>2, <5>3
      <4> QED
        BY <4>1, <4>2
    <3> QED
      BY <3>5, <3>6
  <2>2. CASE ~isActive[e]
    <3>1. active' = active
      BY <2>2 DEF Deactivated
    <3>2. ASSUME NEW l \in Levels
          PROVE  /\ ToSet(active'[l]) = ToSet(active[l]) \ {e}
                 /\ IsInjective(active'[l])
                 /\ OrderedBy(active'[l], triggerTime)
      <4>1. e \notin ToSet(active[l]) /\ IsInjective(active[l]) /\ OrderedBy(active[l], triggerTime)
        BY <2>2, ListFacts
      <4> QED
        BY <3>1, <4>1
    <3> QED
      BY <1>1, <3>1, <3>2
  <2> QED
    BY <2>1, <2>2
<1>3. EventTypes'
  BY <1>1, <1>2 DEF EventTypes
<1>4. ActiveListsMatch'
  <2>1. ASSUME NEW l \in Levels
        PROVE  ToSet(active'[l]) = {f \in Events : isActive'[f] /\ LevelOf[f] = l}
    <3>1. ToSet(active[l]) = {f \in Events : isActive[f] /\ LevelOf[f] = l}
      BY DEF ListsInv, ActiveListsMatch
    <3>2. ToSet(active'[l]) = ToSet(active[l]) \ {e}
      BY <1>2
    <3>3. \A f \in Events : isActive'[f] <=> isActive[f] /\ f # e
      BY <1>1
    <3> QED
      BY <3>1, <3>2, <3>3
  <2> QED
    BY <1>2, <2>1 DEF ActiveListsMatch
<1>5. ActiveListsOrdered'
  <2> SUFFICES ASSUME NEW l \in Levels, NEW i \in 1 .. Len(active'[l]),
                      NEW j \in 1 .. Len(active'[l]), i < j
               PROVE  Precedes(active'[l][i], active'[l][j], triggerTime')
    BY DEF ActiveListsOrdered, Precedes
  <2>1. active'[l] \in Seq(Events)
    BY <1>2
  <2>2. active'[l][i] \in ToSet(active'[l]) /\ active'[l][j] \in ToSet(active'[l])
    BY <2>1 DEF ToSet
  <2>3. active'[l][i] # e /\ active'[l][j] # e /\ active'[l][i] \in Events /\ active'[l][j] \in Events
    BY <1>2, <2>1, <2>2
  <2>4. Precedes(active'[l][i], active'[l][j], triggerTime)
    BY <1>2 DEF OrderedBy
  <2> QED
    BY <2>3, <2>4 DEF Precedes
<1> QED
  BY <1>2, <1>3, <1>4, <1>5 DEF ListsInv

\* Activating an event puts it into its list at its place, once.
LEMMA ActivateEventKeepsLists ==
    ASSUME ListsInv, NEW e \in Events, NEW t \in Times, ActivateEvent(e, t)
    PROVE  /\ ListsInv'
           /\ \A l \in Levels : l # LevelOf[e] => active'[l] = active[l]
           /\ \A f \in Events : f # e => triggerTime'[f] = triggerTime[f]
<1> DEFINE h == LevelOf[e]
           s == IF isActive[e] THEN RemoveFirst(active[h], e) ELSE active[h]
           r == Inserted(s, e, t)
<1>0. h \in Levels /\ \A f \in Events : LevelOf[f] \in Levels
  BY ConstantsAssumption DEF Levels
<1>1. /\ isActive' = [isActive EXCEPT ![e] = TRUE]
      /\ triggerTime' = [triggerTime EXCEPT ![e] = t]
      /\ active' = [active EXCEPT ![h] = r]
      /\ EventTypes
  BY DEF ActivateEvent, ListsInv
<1>2. t \in Int /\ triggerTime \in [Events -> Int]
  BY <1>1, TimesAreIntegers, ConstantsAssumption DEF Times
<1>3. /\ active[h] \in Seq(Events) /\ IsInjective(active[h])
      /\ OrderedBy(active[h], triggerTime)
      /\ e \in ToSet(active[h]) <=> isActive[e]
  BY <1>0, ListFacts
<1>4. /\ s \in Seq(Events)
      /\ ToSet(s) = ToSet(active[h]) \ {e}
      /\ IsInjective(s)
      /\ OrderedBy(s, triggerTime)
  <2>1. CASE isActive[e]
    <3>1. s = RemoveFirst(active[h], e)
      BY <2>1
    <3> QED
      BY <1>3, <2>1, <3>1, RemoveFirstOnce, RemoveKeepsOrder
  <2>2. CASE ~isActive[e]
    <3>1. s = active[h]
      BY <2>2
    <3> QED
      BY <1>3, <2>2, <3>1
  <2> QED
    BY <2>1, <2>2
<1> HIDE DEF s
<1>5. /\ r \in Seq(Events)
      /\ ToSet(r) = ToSet(active[h]) \cup {e}
      /\ IsInjective(r)
  <2>1. PICK p \in 1 .. Len(s) + 1 : r = InsertAt(s, p, e)
    BY <1>2, <1>4, InsertionPlace
  <2>2. InsertAt(s, p, e) \in Seq(Events)
    BY <1>4, InsertAtShape
  <2>3. ToSet(InsertAt(s, p, e)) = ToSet(s) \cup {e} /\ IsInjective(InsertAt(s, p, e))
    BY <1>4, InsertAtOnce
  <2> QED
    BY <1>4, <2>1, <2>2, <2>3
<1>6. OrderedBy(r, triggerTime')
  BY <1>1, <1>2, <1>4, InsertKeepsOrder
<1> HIDE DEF r
<1>7. /\ active \in [Levels -> Seq(Events)] /\ isActive \in [Events -> BOOLEAN]
      /\ triggerTime \in [Events -> Times \cup {-1}]
  BY <1>1 DEF EventTypes
<1>8. EventTypes'
  BY <1>0, <1>1, <1>5, <1>7 DEF EventTypes
<1>9. active'[h] = r /\ \A l \in Levels : l # h => active'[l] = active[l]
  BY <1>0, <1>1, <1>7
<1>10. \A f \in Events : f # e => triggerTime'[f] = triggerTime[f] /\ isActive'[f] = isActive[f]
  BY <1>1, <1>7
<1>11. isActive'[e]
  BY <1>1, <1>7
<1>12. ActiveListsMatch'
  <2> SUFFICES ASSUME NEW l \in Levels
               PROVE  /\ ToSet(active'[l]) = {f \in Events : isActive'[f] /\ LevelOf[f] = l}
                      /\ IsInjective(active'[l])
    BY DEF ActiveListsMatch
  <2>1. /\ ToSet(active[l]) = {f \in Events : isActive[f] /\ LevelOf[f] = l}
        /\ IsInjective(active[l])
    BY DEF ListsInv, ActiveListsMatch
  <2>2. CASE l = h
    <3>1. \A f \in Events : isActive'[f] <=> isActive[f] \/ f = e
      BY <1>10, <1>11
    <3> QED
      BY <1>5, <1>9, <2>1, <2>2, <3>1
  <2>3. CASE l # h
    <3>1. \A f \in Events : LevelOf[f] = l => isActive'[f] = isActive[f]
      BY <1>10, <2>3
    <3>2. {f \in Events : isActive'[f] /\ LevelOf[f] = l} = {f \in Events : isActive[f] /\ LevelOf[f] = l}
      BY <3>1
    <3> QED
      BY <1>9, <2>1, <2>3, <3>2
  <2> QED
    BY <2>2, <2>3
<1>13. ActiveListsOrdered'
  <2> SUFFICES ASSUME NEW l \in Levels, NEW i \in 1 .. Len(active'[l]),
                      NEW j \in 1 .. Len(active'[l]), i < j
               PROVE  Precedes(active'[l][i], active'[l][j], triggerTime')
    BY DEF ActiveListsOrdered, Precedes
  <2>1. CASE l = h
    BY <1>6, <1>9, <2>1 DEF OrderedBy
  <2>2. CASE l # h
    <3>1. active'[l] = active[l]
      BY <1>9, <2>2
    <3>2. Precedes(active[l][i], active[l][j], triggerTime)
      BY <3>1, ListFacts DEF OrderedBy
    <3>3. active[l] \in Seq(Events) /\ i \in 1 .. Len(active[l]) /\ j \in 1 .. Len(active[l])
      BY <1>7, <3>1
    <3>4. active[l][i] \in Events /\ active[l][i] \in ToSet(active[l])
      BY <3>3 DEF ToSet
    <3>5. active[l][j] \in Events /\ active[l][j] \in ToSet(active[l])
      BY <3>3 DEF ToSet
    <3>6. e \notin ToSet(active[l])
      BY <2>2, ListFacts
    <3>7. /\ triggerTime'[active[l][i]] = triggerTime[active[l][i]]
          /\ triggerTime'[active[l][j]] = triggerTime[active[l][j]]
      BY <1>10, <3>4, <3>5, <3>6
    <3> QED
      BY <3>1, <3>2, <3>7 DEF Precedes
  <2> QED
    BY <2>1, <2>2
<1> QED
  BY <1>8, <1>9, <1>10, <1>12, <1>13 DEF ListsInv

-----------------------------------------------------------------------------
(* The calls under way *)

TickTypes ==
    /\ dirty \in [Levels -> BOOLEAN]
    /\ others \in [Levels -> Seq(Events)]
    /\ tick \in 0 .. MaxTick
    /\ phase \in {"idle", "blocks", "events"}
    /\ level \in 0 .. NLevels
    /\ inLevel \in BOOLEAN
    /\ stack \in Seq(Frames)

\* Where the tick is: calls are under way only in the tick, and after the blocks only
\* within a level.
TickShape ==
    /\ inLevel => phase = "events" /\ level \in Levels
    /\ phase # "idle" => tick < MaxTick
    /\ phase = "idle" => stack = <<>>
    /\ phase = "events" /\ stack # <<>> => inLevel

TypesInv == ListsInv /\ TickTypes /\ TickShape

\* The innermost call and the calls below it.
LEMMA TopOfStack ==
    ASSUME TickTypes, NEW kind, TopIs(kind)
    PROVE  /\ Top \in Frames
           /\ Top.kind = kind
           /\ Tail(stack) \in Seq(Frames)
BY DEF TickTypes, TopIs, Top

LEMMA FrameShapes ==
    ASSUME NEW f \in Frames
    PROVE  /\ f.kind = "trigger" => f.event \in Events
           /\ f.kind = "send" => f.from \in Levels /\ f.next \in 0 .. NLevels
           /\ f.kind = "receive" => f.at \in Levels /\ f.rest \in Seq(Events)
BY DEF Frames

\* A call on top of the others.
LEMMA Pushed ==
    ASSUME NEW below \in Seq(Frames), NEW f \in Frames
    PROVE  /\ <<f>> \o below \in Seq(Frames)
           /\ Len(<<f>> \o below) = Len(below) + 1
           /\ \A i \in 1 .. Len(below) + 1 :
                (<<f>> \o below)[i] = IF i = 1 THEN f ELSE below[i - 1]
OBVIOUS

LEMMA FramesMade ==
    /\ \A e \in Events : Trigger(e) \in Frames
    /\ \A l \in Levels, n \in 0 .. NLevels : Send(l, n) \in Frames
    /\ \A l \in Levels, rest \in Seq(Events) : Receive(l, rest) \in Frames
BY DEF Frames, Trigger, Send, Receive

LEMMA FireKeepsTypes ==
    ASSUME ListsInv, NEW e \in Events, NEW below \in Seq(Frames), Fire(e, below),
           dirty \in [Levels -> BOOLEAN]
    PROVE  /\ ListsInv'
           /\ \A l \in Levels : ToSet(active'[l]) = ToSet(active[l]) \ {e}
           /\ stack' \in Seq(Frames)
           /\ dirty' \in [Levels -> BOOLEAN]
<1>1. Deactivated(e) /\ triggerTime' = triggerTime
  BY DEF Fire
<1>2. triggerTime \in [Events -> Times \cup {-1}]
  BY DEF ListsInv, EventTypes
<1>3. stack' \in Seq(Frames)
  BY FramesMade, Pushed DEF Fire
<1>4. dirty' \in [Levels -> BOOLEAN]
  BY DEF Fire
<1> QED
  BY <1>1, <1>2, <1>3, <1>4, DeactivatedKeepsLists

LEMMA SameLists ==
    ASSUME ListsInv, UNCHANGED eventVars
    PROVE  ListsInv'
BY DEF ListsInv, EventTypes, ActiveListsMatch, ActiveListsOrdered, eventVars

LEMMA TickShapeStep ==
    ASSUME TickTypes, TickShape, [Next]_vars
    PROVE  TickShape'
<1>1. ASSUME UNCHANGED tickVars, stack # <<>> \/ phase = "blocks" \/ stack' = stack PROVE TickShape'
  BY <1>1 DEF TickShape, tickVars
<1>2. ASSUME NEW e \in Events, NEW t \in Times, ActivateEvent(e, t) PROVE TickShape'
  BY <1>1, <1>2 DEF ActivateEvent
<1>3. ASSUME NEW e \in Events, DeactivateEvent(e) PROVE TickShape'
  BY <1>1, <1>3 DEF DeactivateEvent
<1>4. ASSUME NEW e \in Events, CallEvent(e) PROVE TickShape'
  BY <1>1, <1>4 DEF CallEvent, Running, TopIs
<1>5. ASSUME NEW e \in Events, OthersAddListener(e) PROVE TickShape'
  BY <1>1, <1>5 DEF OthersAddListener
<1>6. ASSUME NEW l \in Levels, OthersSend(l) PROVE TickShape'
  BY <1>1, <1>6 DEF OthersSend, TopIs
<1>7. CASE Return
  BY <1>1, <1>7 DEF Return, TopIs
<1>8. CASE SendToNext
  BY <1>1, <1>8 DEF SendToNext, TopIs
<1>9. CASE PassOn
  BY <1>1, <1>9 DEF PassOn, TopIs
<1>10. CASE PassOver
  BY <1>1, <1>10 DEF PassOver, TopIs
<1>11. CASE EndReceive
  BY <1>1, <1>11 DEF EndReceive, TopIs
<1>12. CASE BeginTick
  BY <1>12 DEF BeginTick, TickShape, TickTypes
<1>13. CASE BlocksDone
  BY <1>13 DEF BlocksDone, TickShape
<1>14. CASE EnterLevel
  BY <1>14 DEF EnterLevel, AtLevel, TickShape
<1>15. CASE NextLevel
  BY <1>15 DEF NextLevel, AtLevel, TickShape
<1>16. CASE TriggerFirst
  BY <1>16 DEF TriggerFirst, TickShape, tickVars
<1>17. CASE LeaveLevel
  BY <1>17 DEF LeaveLevel, TickShape
<1>18. CASE EndTick
  BY <1>18 DEF EndTick, AtLevel, TickShape
<1>19. CASE UNCHANGED vars
  BY <1>1, <1>19 DEF vars
<1> QED
  BY <1>2, <1>3, <1>4, <1>5, <1>6, <1>7, <1>8, <1>9, <1>10, <1>11, <1>12, <1>13,
     <1>14, <1>15, <1>16, <1>17, <1>18, <1>19 DEF Next, Finished

\* Types and lists are kept by every step.
LEMMA TypesInvStep ==
    ASSUME TypesInv, [Next]_vars
    PROVE  ListsInv' /\ TickTypes'
<1> DEFINE Kept == ListsInv' /\ TickTypes'
<1> USE DEF TypesInv
<1>1. ASSUME NEW e \in Events, NEW t \in Times, ActivateEvent(e, t) PROVE Kept
  <2>1. ListsInv'
    BY <1>1, ActivateEventKeepsLists
  <2>2. TickTypes'
    BY <1>1 DEF ActivateEvent, TickTypes, tickVars
  <2> QED
    BY <2>1, <2>2
<1>2. ASSUME NEW e \in Events, DeactivateEvent(e) PROVE Kept
  <2>1. /\ triggerTime' = [triggerTime EXCEPT ![e] = -1]
        /\ triggerTime \in [Events -> Times \cup {-1}]
        /\ Deactivated(e)
    BY <1>2 DEF DeactivateEvent, ListsInv, EventTypes
  <2>2. ListsInv'
    BY <2>1, DeactivatedKeepsLists
  <2>3. TickTypes'
    BY <1>2 DEF DeactivateEvent, TickTypes, tickVars
  <2> QED
    BY <2>2, <2>3
<1>3. ASSUME NEW e \in Events, CallEvent(e) PROVE Kept
  <2>1. Fire(e, stack) /\ stack \in Seq(Frames) /\ dirty \in [Levels -> BOOLEAN]
    BY <1>3 DEF CallEvent, TickTypes
  <2>2. ListsInv' /\ stack' \in Seq(Frames) /\ dirty' \in [Levels -> BOOLEAN]
    BY <2>1, FireKeepsTypes
  <2> QED
    BY <1>3, <2>2 DEF CallEvent, TickTypes, tickVars
<1>4. ASSUME NEW e \in Events, OthersAddListener(e) PROVE Kept
  <2>1. LevelOf[e] \in Levels
    BY ConstantsAssumption DEF Levels
  <2>2. others' \in [Levels -> Seq(Events)]
    <3>1. Cons(e, others[LevelOf[e]]) \in Seq(Events)
      BY <2>1 DEF TickTypes, Cons
    <3> QED
      BY <1>4, <2>1, <3>1 DEF OthersAddListener, TickTypes
  <2> QED
    BY <1>4, <2>2, SameLists DEF OthersAddListener, TickTypes, tickVars
<1>5. ASSUME NEW l \in Levels, OthersSend(l) PROVE Kept
  <2>1. Send(l, 0) \in Frames
    BY FramesMade, ConstantsAssumption
  <2>2. stack' \in Seq(Frames)
    BY <1>5, <2>1, Pushed DEF OthersSend, TickTypes
  <2> QED
    BY <1>5, <2>2, SameLists DEF OthersSend, TickTypes, tickVars
<1>6. CASE Return
  <2>1. stack' \in Seq(Frames)
    BY <1>6, TopOfStack DEF Return
  <2> QED
    BY <1>6, <2>1, SameLists DEF Return, TickTypes, tickVars
<1>7. CASE SendToNext
  <2>1. /\ Top.from \in Levels /\ Top.next \in 0 .. NLevels
        /\ Tail(stack) \in Seq(Frames)
    BY <1>7, TopOfStack, FrameShapes DEF SendToNext
  <2> DEFINE below == <<Send(Top.from, Top.next + 1)>> \o Tail(stack)
  <2>2. Top.next # NLevels => Top.next \in Levels /\ Top.next + 1 \in 0 .. NLevels
    BY <2>1, ConstantsAssumption DEF Levels
  <2>3. Top.next # NLevels => below \in Seq(Frames)
    BY <2>1, <2>2, FramesMade, Pushed
  <2>4. Top.next # NLevels => <<Receive(Top.next, others[Top.next])>> \o below \in Seq(Frames)
    <3> HIDE DEF below
    <3> SUFFICES ASSUME Top.next # NLevels
                 PROVE  <<Receive(Top.next, others[Top.next])>> \o below \in Seq(Frames)
      OBVIOUS
    <3>1. others[Top.next] \in Seq(Events)
      BY <2>2 DEF TickTypes
    <3>2. Receive(Top.next, others[Top.next]) \in Frames
      BY <2>2, <3>1, FramesMade
    <3> QED
      BY <2>3, <3>2, Pushed
  <2>5. \/ stack' = Tail(stack)
        \/ Top.next # NLevels /\ stack' = below
        \/ Top.next # NLevels /\ stack' = <<Receive(Top.next, others[Top.next])>> \o below
    BY <1>7 DEF SendToNext, OthersReceive
  <2>6. stack' \in Seq(Frames)
    BY <2>1, <2>3, <2>4, <2>5
  <2> QED
    BY <1>7, <2>6, SameLists DEF SendToNext, TickTypes, tickVars
<1>8. CASE PassOn
  <2>1. /\ Top.at \in Levels /\ Top.rest \in Seq(Events) /\ Top.rest # <<>>
        /\ Tail(stack) \in Seq(Frames)
    BY <1>8, TopOfStack, FrameShapes DEF PassOn
  <2>2. Head(Top.rest) \in Events /\ Tail(Top.rest) \in Seq(Events)
    BY <2>1
  <2> DEFINE below == <<Receive(Top.at, Tail(Top.rest))>> \o Tail(stack)
  <2>3. below \in Seq(Frames)
    BY <2>1, <2>2, FramesMade, Pushed
  <2>4. Fire(Head(Top.rest), below) /\ dirty \in [Levels -> BOOLEAN]
    BY <1>8 DEF PassOn, TickTypes
  <2> HIDE DEF below
  <2>5. ListsInv' /\ stack' \in Seq(Frames) /\ dirty' \in [Levels -> BOOLEAN]
    BY <2>2, <2>3, <2>4, FireKeepsTypes
  <2> QED
    BY <1>8, <2>5 DEF PassOn, TickTypes, tickVars
<1>9. CASE PassOver
  <2>1. /\ Top.at \in Levels /\ Top.rest \in Seq(Events) /\ Top.rest # <<>>
        /\ Tail(stack) \in Seq(Frames)
    BY <1>9, TopOfStack, FrameShapes DEF PassOver
  <2>2. Tail(Top.rest) \in Seq(Events)
    BY <2>1
  <2>3. stack' \in Seq(Frames)
    BY <1>9, <2>1, <2>2, FramesMade, Pushed DEF PassOver
  <2> QED
    BY <1>9, <2>3, SameLists DEF PassOver, TickTypes, tickVars
<1>10. CASE EndReceive
  <2>1. stack' \in Seq(Frames)
    BY <1>10, TopOfStack DEF EndReceive
  <2> QED
    BY <1>10, <2>1, SameLists DEF EndReceive, TickTypes, tickVars
<1>11. CASE BeginTick
  BY <1>11, SameLists DEF BeginTick, TickTypes
<1>12. CASE BlocksDone
  BY <1>12, SameLists, ConstantsAssumption DEF BlocksDone, TickTypes
<1>13. CASE EnterLevel
  BY <1>13, SameLists DEF EnterLevel, TickTypes
<1>14. CASE NextLevel
  <2>1. level \in Levels
    BY <1>14 DEF NextLevel, AtLevel
  <2>2. level' \in 0 .. NLevels
    BY <1>14, <2>1, ConstantsAssumption DEF NextLevel, Levels
  <2> QED
    BY <1>14, <2>2, SameLists DEF NextLevel, TickTypes
<1>15. CASE TriggerFirst
  <2>1. level \in Levels /\ active[level] # <<>>
    BY <1>15 DEF TriggerFirst, SomeDue, TickShape
  <2>2. Head(active[level]) \in Events
    BY <2>1 DEF ListsInv, EventTypes
  <2>3. Fire(Head(active[level]), <<>>) /\ dirty \in [Levels -> BOOLEAN] /\ <<>> \in Seq(Frames)
    BY <1>15 DEF TriggerFirst, TickTypes
  <2>4. ListsInv' /\ stack' \in Seq(Frames) /\ dirty' \in [Levels -> BOOLEAN]
    BY <2>2, <2>3, FireKeepsTypes
  <2> QED
    BY <1>15, <2>4 DEF TriggerFirst, TickTypes, tickVars
<1>16. CASE LeaveLevel
  <2>1. level' \in 0 .. NLevels
    BY <1>16, ConstantsAssumption DEF LeaveLevel
  <2>2. ListsInv'
    BY <1>16, SameLists DEF LeaveLevel
  <2>3. dirty' \in [Levels -> BOOLEAN] /\ inLevel' \in BOOLEAN
    BY <1>16 DEF LeaveLevel, TickTypes
  <2> QED
    BY <1>16, <2>1, <2>2, <2>3 DEF LeaveLevel, TickTypes
<1>17. CASE EndTick
  <2>1. tick' \in 0 .. MaxTick
    BY <1>17, ConstantsAssumption DEF EndTick, AtLevel, TickShape, TickTypes
  <2> QED
    BY <1>17, <2>1, SameLists DEF EndTick, TickTypes
<1>18. CASE UNCHANGED vars
  BY <1>18, SameLists DEF vars, tickVars, TickTypes
<1> QED
  BY <1>1, <1>2, <1>3, <1>4, <1>5, <1>6, <1>7, <1>8, <1>9, <1>10, <1>11, <1>12, <1>13,
     <1>14, <1>15, <1>16, <1>17, <1>18 DEF Next, Finished

-----------------------------------------------------------------------------
(* Nothing due is left *)

\* An event that is being triggered has marked its level, and before the events all
\* levels are marked: whoever can activate an event has its level dirty.
CallersAreDirty ==
    /\ phase = "blocks" => \A l \in Levels : dirty[l]
    /\ \A i \in 1 .. Len(stack) :
         stack[i].kind = "trigger" => dirty[LevelOf[stack[i].event]]

\* A level that is not dirty has nothing that is due.
CleanHasNothingDue ==
    phase = "events" => \A l \in Levels : ~dirty[l] =>
        \A e \in ToSet(active[l]) : triggerTime[e] > tick

\* Between two levels, those below are clean.
LowerAreClean ==
    phase = "events" /\ ~inLevel => \A l \in Levels : l < level => ~dirty[l]

IInv ==
    /\ TypesInv
    /\ CallersAreDirty
    /\ CleanHasNothingDue
    /\ LowerAreClean

LEMMA InitEstablishes == Init => IInv
<1> SUFFICES ASSUME Init PROVE IInv
  OBVIOUS
<1>1. EventTypes
  BY ConstantsAssumption DEF Init, EventTypes, Times
<1>2. \A l \in Levels : active[l] = <<>>
  BY DEF Init
<1>3. ActiveListsMatch /\ ActiveListsOrdered
  <2>1. ToSet(<<>>) = {} /\ IsInjective(<<>>)
    BY DEF ToSet, IsInjective
  <2>2. \A l \in Levels : {e \in Events : isActive[e] /\ LevelOf[e] = l} = {}
    BY DEF Init
  <2> QED
    BY <1>2, <2>1, <2>2 DEF ActiveListsMatch, ActiveListsOrdered
<1>4. TickTypes /\ TickShape
  <2>1. 0 \in 0 .. MaxTick /\ 0 \in 0 .. NLevels
    BY ConstantsAssumption
  <2>2. dirty \in [Levels -> BOOLEAN] /\ others \in [Levels -> Seq(Events)] /\ stack \in Seq(Frames)
    BY DEF Init
  <2> QED
    BY <2>1, <2>2 DEF Init, TickTypes, TickShape
<1>5. CallersAreDirty /\ CleanHasNothingDue /\ LowerAreClean
  BY DEF Init, CallersAreDirty, CleanHasNothingDue, LowerAreClean
<1> QED
  BY <1>1, <1>3, <1>4, <1>5 DEF IInv, TypesInv, ListsInv

\* Code of a level runs in the events only when the level is dirty.
LEMMA RunningIsDirty ==
    ASSUME IInv, NEW l \in Levels, Running(l), phase # "idle"
    PROVE  dirty[l]
<1>1. CASE stack = <<>>
  BY <1>1 DEF IInv, CallersAreDirty, Running
<1>2. CASE stack # <<>>
  <2>1. TopIs("trigger") /\ LevelOf[Top.event] = l
    BY <1>2 DEF Running
  <2>2. 1 \in 1 .. Len(stack) /\ Top = stack[1]
    BY <1>2 DEF IInv, TypesInv, TickTypes, Top
  <2> QED
    BY <2>1, <2>2 DEF IInv, CallersAreDirty, TopIs
<1> QED
  BY <1>1, <1>2

\* Triggering an event marks its level and keeps the rest.
LEMMA FireKeepsDirty ==
    ASSUME IInv, NEW e \in Events, NEW below \in Seq(Frames), Fire(e, below),
           \A i \in 1 .. Len(below) :
             below[i].kind = "trigger" => dirty[LevelOf[below[i].event]],
           UNCHANGED tickVars, phase = "events" => inLevel
    PROVE  CallersAreDirty' /\ CleanHasNothingDue' /\ LowerAreClean'
<1>1. /\ dirty' = [dirty EXCEPT ![LevelOf[e]] = TRUE]
      /\ stack' = <<Trigger(e)>> \o below
      /\ triggerTime' = triggerTime
      /\ dirty \in [Levels -> BOOLEAN]
      /\ tick' = tick /\ phase' = phase /\ level' = level /\ inLevel' = inLevel
  BY DEF Fire, IInv, TypesInv, TickTypes, tickVars
<1>2. \A f \in Events : LevelOf[f] \in Levels
  BY ConstantsAssumption DEF Levels
<1>3. \A l \in Levels : (dirty[l] => dirty'[l]) /\ dirty'[LevelOf[e]]
  BY <1>1, <1>2
<1>4. \A l \in Levels : ToSet(active'[l]) = ToSet(active[l]) \ {e}
  BY <1>1, FireKeepsTypes DEF IInv, TypesInv
<1>5. CallersAreDirty'
  <2>1. phase' = "blocks" => \A l \in Levels : dirty'[l]
    BY <1>1, <1>3 DEF IInv, CallersAreDirty
  <2>2. ASSUME NEW i \in 1 .. Len(stack'), stack'[i].kind = "trigger"
        PROVE  dirty'[LevelOf[stack'[i].event]]
    <3>1. Trigger(e) \in Frames
      BY FramesMade
    <3>2. /\ Len(stack') = Len(below) + 1
          /\ stack'[i] = IF i = 1 THEN Trigger(e) ELSE below[i - 1]
      BY <1>1, <3>1, Pushed
    <3>3. CASE i = 1
      BY <1>2, <1>3, <3>2, <3>3 DEF Trigger
    <3>4. CASE i # 1
      <4>1. i - 1 \in 1 .. Len(below) /\ stack'[i] = below[i - 1]
        BY <3>2, <3>4
      <4>2. below[i - 1] \in Frames
        BY <4>1
      <4>3. dirty[LevelOf[below[i - 1].event]] /\ LevelOf[below[i - 1].event] \in Levels
        BY <1>2, <2>2, <4>1, <4>2, FrameShapes
      <4> QED
        BY <1>3, <4>1, <4>3
    <3> QED
      BY <3>3, <3>4
  <2> QED
    BY <2>1, <2>2 DEF CallersAreDirty
<1>6. CleanHasNothingDue'
  BY <1>1, <1>3, <1>4 DEF IInv, CleanHasNothingDue
<1>7. LowerAreClean'
  BY <1>1 DEF LowerAreClean
<1> QED
  BY <1>5, <1>6, <1>7

\* A step of the calls that triggers nothing leaves no new trigger among them.
LEMMA CallsKeepDirty ==
    ASSUME IInv, UNCHANGED <<eventVars, dirty, tickVars>>,
           \A i \in 1 .. Len(stack') : stack'[i].kind = "trigger" =>
               \E j \in 1 .. Len(stack) : stack'[i] = stack[j]
    PROVE  CallersAreDirty' /\ CleanHasNothingDue' /\ LowerAreClean'
BY DEF IInv, CallersAreDirty, CleanHasNothingDue, LowerAreClean, eventVars, tickVars

\* The calls below the innermost one.
LEMMA TailShape ==
    ASSUME TickTypes, stack # <<>>
    PROVE  /\ Tail(stack) \in Seq(Frames)
           /\ \A i \in 1 .. Len(Tail(stack)) :
                i + 1 \in 1 .. Len(stack) /\ Tail(stack)[i] = stack[i + 1]
BY DEF TickTypes

LEMMA IInvStep ==
    ASSUME IInv, [Next]_vars
    PROVE  IInv'
<1> DEFINE Kept == CallersAreDirty' /\ CleanHasNothingDue' /\ LowerAreClean'
<1>0. TypesInv'
  BY TypesInvStep, TickShapeStep DEF IInv, TypesInv
<1>a. ListsInv /\ EventTypes /\ TickTypes /\ TickShape
  BY DEF IInv, TypesInv, ListsInv
<1> SUFFICES Kept
  BY <1>0 DEF IInv
<1>b. \A e \in Events : LevelOf[e] \in Levels
  BY ConstantsAssumption DEF Levels
<1>1. ASSUME NEW e \in Events, NEW t \in Times, ActivateEvent(e, t) PROVE Kept
  <2>1. /\ \A l \in Levels : l # LevelOf[e] => active'[l] = active[l]
        /\ \A f \in Events : f # e => triggerTime'[f] = triggerTime[f]
    BY <1>a, <1>1, ActivateEventKeepsLists
  <2>2. UNCHANGED <<dirty, tick, phase, level, inLevel, stack>> /\ (Running(LevelOf[e]) \/ phase = "idle")
    BY <1>1 DEF ActivateEvent, tickVars
  <2>3. phase # "idle" => dirty[LevelOf[e]]
    BY <1>b, <2>2, RunningIsDirty
  <2>4. CleanHasNothingDue'
    <3> SUFFICES ASSUME phase = "events", NEW l \in Levels, ~dirty[l], NEW f \in ToSet(active'[l])
                 PROVE  triggerTime'[f] > tick
      BY <2>2 DEF CleanHasNothingDue
    <3>1. l # LevelOf[e] /\ f \in ToSet(active[l])
      BY <2>1, <2>3
    <3>2. f \in Events /\ LevelOf[f] = l
      <4>1. active[l] \in Seq(Events)
        BY <1>a, ListFacts
      <4>2. f \in Events
        BY <3>1, <4>1 DEF ToSet
      <4> QED
        BY <1>a, <3>1, <4>2, ListFacts
    <3>3. triggerTime'[f] = triggerTime[f]
      BY <2>1, <3>1, <3>2
    <3> QED
      BY <3>1, <3>3 DEF IInv, CleanHasNothingDue
  <2> QED
    BY <2>2, <2>4 DEF IInv, CallersAreDirty, LowerAreClean
<1>2. ASSUME NEW e \in Events, DeactivateEvent(e) PROVE Kept
  <2>1. /\ triggerTime' = [triggerTime EXCEPT ![e] = -1]
        /\ triggerTime \in [Events -> Times \cup {-1}]
        /\ Deactivated(e)
        /\ UNCHANGED <<dirty, tick, phase, level, inLevel, stack>>
    BY <1>a, <1>2 DEF DeactivateEvent, EventTypes, tickVars
  <2>2. \A l \in Levels : ToSet(active'[l]) = ToSet(active[l]) \ {e}
    BY <1>a, <2>1, DeactivatedKeepsLists
  <2>3. CleanHasNothingDue'
    <3> SUFFICES ASSUME phase = "events", NEW l \in Levels, ~dirty[l], NEW f \in ToSet(active'[l])
                 PROVE  triggerTime'[f] > tick
      BY <2>1 DEF CleanHasNothingDue
    <3>1. f \in ToSet(active[l]) /\ f # e
      BY <2>2
    <3>2. f \in Events
      BY <1>a, <3>1, ListFacts DEF ToSet
    <3>3. triggerTime'[f] = triggerTime[f]
      BY <2>1, <3>1, <3>2
    <3> QED
      BY <3>1, <3>3 DEF IInv, CleanHasNothingDue
  <2> QED
    BY <2>1, <2>3 DEF IInv, CallersAreDirty, LowerAreClean
<1>3. ASSUME NEW e \in Events, CallEvent(e) PROVE Kept
  <2>1. Fire(e, stack) /\ UNCHANGED tickVars /\ stack \in Seq(Frames)
    BY <1>a, <1>3 DEF CallEvent, TickTypes
  <2>2. phase = "events" => inLevel
    BY <1>a, <1>3 DEF CallEvent, Running, TopIs, TickShape
  <2> QED
    BY <2>1, <2>2, FireKeepsDirty DEF IInv, CallersAreDirty
<1>4. ASSUME NEW e \in Events, OthersAddListener(e) PROVE Kept
  BY <1>4, CallsKeepDirty DEF OthersAddListener
<1>5. ASSUME NEW l \in Levels, OthersSend(l) PROVE Kept
  <2>1. Send(l, 0) \in Frames /\ stack \in Seq(Frames)
    BY <1>a, FramesMade, ConstantsAssumption DEF TickTypes
  <2>2. /\ Len(stack') = Len(stack) + 1
        /\ \A i \in 1 .. Len(stack) + 1 : stack'[i] = IF i = 1 THEN Send(l, 0) ELSE stack[i - 1]
    BY <1>5, <2>1, Pushed DEF OthersSend
  <2>3. ASSUME NEW i \in 1 .. Len(stack'), stack'[i].kind = "trigger"
        PROVE  \E j \in 1 .. Len(stack) : stack'[i] = stack[j]
    <3>1. i # 1
      BY <2>2, <2>3 DEF Send
    <3>2. i - 1 \in 1 .. Len(stack) /\ stack'[i] = stack[i - 1]
      BY <2>1, <2>2, <3>1
    <3> QED
      BY <3>2
  <2> QED
    BY <1>5, <2>3, CallsKeepDirty DEF OthersSend
<1>6. CASE Return \/ EndReceive
  <2>1. stack # <<>> /\ stack' = Tail(stack) /\ UNCHANGED <<eventVars, dirty, tickVars>>
    BY <1>6 DEF Return, EndReceive, TopIs
  <2>2. \A i \in 1 .. Len(stack') : \E j \in 1 .. Len(stack) : stack'[i] = stack[j]
    BY <1>a, <2>1, TailShape
  <2> QED
    BY <2>1, <2>2, CallsKeepDirty
<1>7. CASE SendToNext
  <2>1. /\ Top.from \in Levels /\ Top.next \in 0 .. NLevels
        /\ Tail(stack) \in Seq(Frames) /\ stack # <<>>
    BY <1>7, <1>a, TopOfStack, FrameShapes DEF SendToNext, TopIs
  <2> DEFINE n == Top.next
             sent == Send(Top.from, n + 1)
             below == <<sent>> \o Tail(stack)
             received == Receive(n, others[n])
  <2>2. ASSUME n # NLevels PROVE sent \in Frames /\ received \in Frames
    <3>1. n \in Levels /\ n + 1 \in 0 .. NLevels
      BY <2>1, <2>2, ConstantsAssumption DEF Levels
    <3>2. others[n] \in Seq(Events)
      BY <1>a, <3>1 DEF TickTypes
    <3> QED
      BY <2>1, <3>1, <3>2, FramesMade
  <2>3. \/ stack' = Tail(stack)
        \/ n # NLevels /\ stack' = below
        \/ n # NLevels /\ stack' = <<received>> \o below
    BY <1>7 DEF SendToNext, OthersReceive
  <2>4. sent.kind # "trigger" /\ received.kind # "trigger"
    BY DEF Send, Receive
  <2> HIDE DEF sent, received, n
  <2>5. ASSUME n # NLevels
        PROVE  /\ below \in Seq(Frames)
               /\ \A i \in 1 .. Len(below) : below[i].kind = "trigger" =>
                    \E j \in 1 .. Len(stack) : below[i] = stack[j]
    <3>1. /\ below \in Seq(Frames) /\ Len(below) = Len(Tail(stack)) + 1
          /\ \A i \in 1 .. Len(Tail(stack)) + 1 : below[i] = IF i = 1 THEN sent ELSE Tail(stack)[i - 1]
      BY <2>1, <2>2, <2>5, Pushed
    <3> HIDE DEF below
    <3>2. ASSUME NEW i \in 1 .. Len(below), below[i].kind = "trigger"
          PROVE  \E j \in 1 .. Len(stack) : below[i] = stack[j]
      <4>1. i # 1
        BY <2>4, <3>1, <3>2
      <4>2. i - 1 \in 1 .. Len(Tail(stack)) /\ below[i] = Tail(stack)[i - 1]
        BY <2>1, <3>1, <4>1
      <4> QED
        BY <1>a, <2>1, <4>2, TailShape
    <3> QED
      BY <3>1, <3>2
  <2>6. ASSUME NEW i \in 1 .. Len(stack'), stack'[i].kind = "trigger"
        PROVE  \E j \in 1 .. Len(stack) : stack'[i] = stack[j]
    <3>1. CASE stack' = Tail(stack)
      BY <1>a, <2>1, <3>1, TailShape
    <3>2. CASE n # NLevels /\ stack' = below
      BY <2>5, <2>6, <3>2
    <3>3. CASE n # NLevels /\ stack' = <<received>> \o below
      <4>1. below \in Seq(Frames) /\ received \in Frames
        BY <2>2, <2>5, <3>3
      <4> HIDE DEF below
      <4>2. /\ Len(stack') = Len(below) + 1
            /\ \A k \in 1 .. Len(below) + 1 : stack'[k] = IF k = 1 THEN received ELSE below[k - 1]
        BY <3>3, <4>1, Pushed
      <4>3. i # 1
        BY <2>4, <2>6, <4>2
      <4>4. i - 1 \in 1 .. Len(below) /\ stack'[i] = below[i - 1]
        BY <4>1, <4>2, <4>3
      <4> QED
        BY <2>5, <2>6, <3>3, <4>4
    <3> QED
      BY <2>3, <3>1, <3>2, <3>3
  <2> QED
    BY <1>7, <2>6, CallsKeepDirty DEF SendToNext
<1>8. CASE PassOn
  <2>1. /\ Top.at \in Levels /\ Top.rest \in Seq(Events) /\ Top.rest # <<>>
        /\ Tail(stack) \in Seq(Frames) /\ stack # <<>>
    BY <1>8, <1>a, TopOfStack, FrameShapes DEF PassOn, TopIs
  <2> DEFINE received == Receive(Top.at, Tail(Top.rest))
             below == <<received>> \o Tail(stack)
  <2>2. Head(Top.rest) \in Events /\ Tail(Top.rest) \in Seq(Events) /\ received \in Frames
    <3>1. Head(Top.rest) \in Events /\ Tail(Top.rest) \in Seq(Events)
      BY <2>1
    <3> QED
      BY <2>1, <3>1, FramesMade
  <2>3. received.kind # "trigger"
    BY DEF Receive
  <2>4. Fire(Head(Top.rest), below) /\ UNCHANGED tickVars
    BY <1>8 DEF PassOn
  <2> HIDE DEF received
  <2>5. /\ below \in Seq(Frames) /\ Len(below) = Len(Tail(stack)) + 1
        /\ \A i \in 1 .. Len(Tail(stack)) + 1 : below[i] = IF i = 1 THEN received ELSE Tail(stack)[i - 1]
    BY <2>1, <2>2, Pushed
  <2> HIDE DEF below
  <2>6. ASSUME NEW i \in 1 .. Len(below), below[i].kind = "trigger"
        PROVE  dirty[LevelOf[below[i].event]]
    <3>1. i # 1
      BY <2>3, <2>5, <2>6
    <3>2. i - 1 \in 1 .. Len(Tail(stack)) /\ below[i] = Tail(stack)[i - 1]
      BY <2>1, <2>5, <3>1
    <3>3. i \in 1 .. Len(stack) /\ below[i] = stack[i]
      <4>1. (i - 1) + 1 \in 1 .. Len(stack) /\ Tail(stack)[i - 1] = stack[(i - 1) + 1]
        BY <1>a, <2>1, <3>2, TailShape
      <4>2. (i - 1) + 1 = i
        BY <3>2
      <4> QED
        BY <3>2, <4>1, <4>2
    <3> QED
      BY <2>6, <3>3 DEF IInv, CallersAreDirty
  <2>7. phase = "events" => inLevel
    BY <1>a, <2>1 DEF TickShape
  <2> QED
    BY <2>2, <2>4, <2>5, <2>6, <2>7, FireKeepsDirty
<1>9. CASE PassOver
  <2>1. /\ Top.at \in Levels /\ Top.rest \in Seq(Events) /\ Top.rest # <<>>
        /\ Tail(stack) \in Seq(Frames) /\ stack # <<>>
    BY <1>9, <1>a, TopOfStack, FrameShapes DEF PassOver, TopIs
  <2> DEFINE received == Receive(Top.at, Tail(Top.rest))
  <2>2. Tail(Top.rest) \in Seq(Events)
    BY <2>1
  <2>3. received \in Frames /\ received.kind # "trigger"
    BY <2>1, <2>2, FramesMade DEF Receive
  <2>4. stack' = <<received>> \o Tail(stack)
    BY <1>9 DEF PassOver
  <2> HIDE DEF received
  <2>5. /\ Len(stack') = Len(Tail(stack)) + 1
        /\ \A i \in 1 .. Len(Tail(stack)) + 1 : stack'[i] = IF i = 1 THEN received ELSE Tail(stack)[i - 1]
    BY <2>1, <2>3, <2>4, Pushed
  <2>6. ASSUME NEW i \in 1 .. Len(stack'), stack'[i].kind = "trigger"
        PROVE  \E j \in 1 .. Len(stack) : stack'[i] = stack[j]
    <3>1. i # 1
      BY <2>3, <2>5, <2>6
    <3>2. i - 1 \in 1 .. Len(Tail(stack)) /\ stack'[i] = Tail(stack)[i - 1]
      BY <2>1, <2>5, <3>1
    <3> QED
      BY <1>a, <2>1, <3>2, TailShape
  <2> QED
    BY <1>9, <2>6, CallsKeepDirty DEF PassOver
<1>10. CASE BeginTick
  <2>1. phase' = "blocks" /\ (\A l \in Levels : dirty'[l]) /\ stack' = <<>>
    BY <1>10, <1>a DEF BeginTick, TickShape
  <2> QED
    BY <2>1 DEF CallersAreDirty, CleanHasNothingDue, LowerAreClean
<1>11. CASE BlocksDone
  <2>1. /\ phase' = "events" /\ level' = 0 /\ stack' = <<>>
        /\ \A l \in Levels : dirty'[l]
    BY <1>11 DEF BlocksDone, IInv, CallersAreDirty
  <2>2. \A l \in Levels : ~(l < 0)
    BY ConstantsAssumption DEF Levels
  <2> QED
    BY <2>1, <2>2 DEF CallersAreDirty, CleanHasNothingDue, LowerAreClean
<1>12. CASE EnterLevel
  BY <1>12 DEF EnterLevel, eventVars, IInv, CallersAreDirty, CleanHasNothingDue, LowerAreClean
<1>13. CASE NextLevel
  <2>1. /\ level \in Levels /\ ~dirty[level] /\ level' = level + 1 /\ phase = "events" /\ ~inLevel
        /\ UNCHANGED <<eventVars, dirty, tick, phase, inLevel, stack>>
    BY <1>13 DEF NextLevel, AtLevel
  <2>2. \A l \in Levels : l < level + 1 => l < level \/ l = level
    BY <2>1, ConstantsAssumption DEF Levels
  <2>3. LowerAreClean'
    BY <2>1, <2>2 DEF IInv, LowerAreClean
  <2> QED
    BY <2>1, <2>3 DEF eventVars, IInv, CallersAreDirty, CleanHasNothingDue
<1>14. CASE TriggerFirst
  <2>1. level \in Levels /\ active[level] # <<>>
    BY <1>14, <1>a DEF TriggerFirst, SomeDue, TickShape
  <2>2. Head(active[level]) \in Events
    BY <1>a, <2>1 DEF EventTypes
  <2>3. Fire(Head(active[level]), <<>>) /\ UNCHANGED tickVars /\ inLevel
    BY <1>14 DEF TriggerFirst
  <2>4. <<>> \in Seq(Frames) /\ \A i \in 1 .. Len(<<>>) : FALSE
    OBVIOUS
  <2> QED
    BY <2>2, <2>3, <2>4, FireKeepsDirty
<1>15. CASE LeaveLevel
  <2>1. /\ level \in Levels /\ stack' = <<>> /\ level' = 0
        /\ dirty' = [dirty EXCEPT ![level] = FALSE] /\ dirty \in [Levels -> BOOLEAN]
        /\ phase = "events" /\ UNCHANGED <<eventVars, tick, phase>>
    BY <1>15, <1>a DEF LeaveLevel, TickShape, TickTypes
  <2>2. \A l \in Levels : ~(l < 0)
    BY ConstantsAssumption DEF Levels
  <2>3. \A e \in ToSet(active[level]) : triggerTime[e] > tick
    <3> SUFFICES ASSUME NEW e \in ToSet(active[level]) PROVE triggerTime[e] > tick
      OBVIOUS
    <3>1. active[level] \in Seq(Events) /\ OrderedBy(active[level], triggerTime)
      BY <1>a, <2>1, ListFacts
    <3>2. PICK i \in 1 .. Len(active[level]) : active[level][i] = e
      BY <3>1 DEF ToSet
    <3>3. /\ active[level] # <<>> /\ 1 \in 1 .. Len(active[level])
          /\ Head(active[level]) = active[level][1] /\ (i = 1 \/ 1 < i)
          /\ active[level][1] \in Events /\ e \in Events
      BY <3>1, <3>2
    <3>4. ~(triggerTime[active[level][1]] <= tick)
      BY <1>15, <3>3 DEF LeaveLevel, SomeDue, Due
    <3>5. triggerTime[active[level][1]] \in Int /\ triggerTime[e] \in Int /\ tick \in Int
      BY <1>a, <3>3, TimesAreIntegers, ConstantsAssumption DEF TickTypes
    <3>6. i = 1 \/ triggerTime[active[level][1]] <= triggerTime[e]
      BY <3>1, <3>2, <3>3, <3>5 DEF OrderedBy, Precedes
    <3> QED
      BY <3>2, <3>4, <3>5, <3>6
  <2>4. CleanHasNothingDue'
    BY <2>1, <2>3 DEF eventVars, IInv, CleanHasNothingDue
  <2> QED
    BY <2>1, <2>2, <2>4 DEF CallersAreDirty, LowerAreClean
<1>16. CASE EndTick
  <2>1. phase' = "idle" /\ stack' = <<>>
    BY <1>16 DEF EndTick, AtLevel
  <2> QED
    BY <2>1 DEF CallersAreDirty, CleanHasNothingDue, LowerAreClean
<1>17. CASE UNCHANGED vars
  BY <1>17 DEF vars, eventVars, tickVars, IInv, CallersAreDirty, CleanHasNothingDue, LowerAreClean
<1> QED
  BY <1>1, <1>2, <1>3, <1>4, <1>5, <1>6, <1>7, <1>8, <1>9, <1>10, <1>11, <1>12, <1>13,
     <1>14, <1>15, <1>16, <1>17 DEF Next, Finished

THEOREM Invariance == Spec => []IInv
<1>1. IInv /\ [Next]_vars => IInv'
  BY IInvStep
<1> QED
  BY <1>1, InitEstablishes, PTL DEF Spec

\* The lists of active events hold exactly the events that say they are active.
THEOREM ListsMatchHold == Spec => []ActiveListsMatch
<1>1. IInv => ActiveListsMatch
  BY DEF IInv, TypesInv, ListsInv
<1> QED
  BY <1>1, Invariance, PTL

\* They are ordered by trigger time and priority, so that the loop of
\* Level::handleTimerEvents may stop at the first event that is not due.
THEOREM ListsOrderedHold == Spec => []ActiveListsOrdered
<1>1. IInv => ActiveListsOrdered
  BY DEF IInv, TypesInv, ListsInv
<1> QED
  BY <1>1, Invariance, PTL

\* Only EndTick ends a tick.
LEMMA EndsTick ==
    ASSUME TickShape, [Next]_vars, phase = "events", phase' = "idle"
    PROVE  EndTick
<1>1. CASE UNCHANGED tickVars
  BY <1>1 DEF tickVars
<1>2. CASE ~UNCHANGED tickVars
  BY <1>2 DEF Next, Finished, vars, ActivateEvent, DeactivateEvent, CallEvent, OthersAddListener,
              OthersSend, Return, SendToNext, PassOn, PassOver, EndReceive, BeginTick, BlocksDone,
              EnterLevel, NextLevel, TriggerFirst, LeaveLevel
<1> QED
  BY <1>1, <1>2

\* At the end of a game tick no level is dirty (the assert of Game::handleTimer)
\* and no active event is due.
THEOREM NothingDueIsLeftHolds == Spec => NothingDueIsLeft
<1> DEFINE Left == phase = "events" /\ phase' = "idle" =>
                     \A l \in Levels :
                        /\ ~dirty[l]
                        /\ \A e \in Events : isActive[e] => triggerTime[e] > tick
<1>1. ASSUME IInv, [Next]_vars PROVE Left
  <2> SUFFICES ASSUME phase = "events", phase' = "idle"
               PROVE  \A l \in Levels :
                        /\ ~dirty[l]
                        /\ \A e \in Events : isActive[e] => triggerTime[e] > tick
    OBVIOUS
  <2>1. EndTick
    BY <1>1, EndsTick DEF IInv, TypesInv
  <2>2. \A l \in Levels : ~dirty[l]
    <3>1. ~inLevel /\ level = NLevels
      BY <2>1 DEF EndTick, AtLevel
    <3>2. \A l \in Levels : l < NLevels
      BY ConstantsAssumption DEF Levels
    <3> QED
      BY <1>1, <3>1, <3>2 DEF IInv, LowerAreClean
  <2>3. ASSUME NEW e \in Events, isActive[e] PROVE triggerTime[e] > tick
    <3>1. LevelOf[e] \in Levels
      BY ConstantsAssumption DEF Levels
    <3>2. e \in ToSet(active[LevelOf[e]])
      BY <1>1, <2>3, <3>1, ListFacts DEF IInv, TypesInv
    <3> QED
      BY <1>1, <2>2, <3>1, <3>2 DEF IInv, CleanHasNothingDue
  <2> QED
    BY <2>2, <2>3
<1>2. IInv /\ [Next]_vars => [Left]_vars
  BY <1>1
<1> QED
  BY <1>2, Invariance, PTL DEF Spec, NothingDueIsLeft

-----------------------------------------------------------------------------
(* Nested messages *)

IsReceive(f, l) == f.kind = "receive" /\ f.at = l

\* Receiving, of any stack.
ReceivesIn(s, l) == {i \in 1 .. Len(s) : IsReceive(s[i], l)}

LEMMA ReceivesFinite ==
    ASSUME NEW s \in Seq(Frames), NEW l
    PROVE  IsFiniteSet(ReceivesIn(s, l)) /\ Cardinality(ReceivesIn(s, l)) \in Nat
<1>1. Len(s) \in Nat /\ IsFiniteSet(1 .. Len(s))
  BY FS_Interval
<1>2. ReceivesIn(s, l) \in SUBSET (1 .. Len(s))
  BY DEF ReceivesIn
<1> QED
  BY <1>1, <1>2, FS_Subset, FS_CardinalityType

\* A call pushed counts one more if it is a receive call of the level.
LEMMA PushedCounts ==
    ASSUME NEW s \in Seq(Frames), NEW f \in Frames, NEW l
    PROVE  Cardinality(ReceivesIn(<<f>> \o s, l)) =
             IF IsReceive(f, l) THEN Cardinality(ReceivesIn(s, l)) + 1 ELSE Cardinality(ReceivesIn(s, l))
<1> DEFINE p == <<f>> \o s
           R == ReceivesIn(s, l)
           M == {i + 1 : i \in R}
           h == [i \in R |-> i + 1]
<1>0. Len(s) \in Nat
  OBVIOUS
<1>1. /\ Len(p) = Len(s) + 1
      /\ \A i \in 1 .. Len(s) + 1 : p[i] = IF i = 1 THEN f ELSE s[i - 1]
  BY Pushed
<1> HIDE DEF p
<1>2. \A i \in R : i \in 1 .. Len(s)
  BY DEF ReceivesIn
<1>3. Cardinality(M) = Cardinality(R) /\ IsFiniteSet(M)
  <2>1. h \in Bijection(R, M)
    <3>1. h \in [R -> M]
      OBVIOUS
    <3>2. \A i, j \in R : h[i] = h[j] => i = j
      BY <1>2
    <3>3. \A m \in M : \E i \in R : h[i] = m
      OBVIOUS
    <3> QED
      BY <3>1, <3>2, <3>3 DEF Bijection, Injection, Surjection, IsInjective
  <2> HIDE DEF h, M, R
  <2>2. ExistsBijection(R, M)
    BY <2>1 DEF ExistsBijection
  <2>3. IsFiniteSet(R)
    BY ReceivesFinite DEF R
  <2> QED
    BY <2>2, <2>3, FS_Bijection
<1>4. 1 \notin M
  BY <1>2
<1>5. ReceivesIn(p, l) = IF IsReceive(f, l) THEN M \cup {1} ELSE M
  <2>1. ASSUME NEW i \in ReceivesIn(p, l) PROVE i \in M \/ (i = 1 /\ IsReceive(f, l))
    <3>1. i \in 1 .. Len(s) + 1 /\ IsReceive(p[i], l)
      BY <1>1 DEF ReceivesIn
    <3>2. CASE i = 1
      BY <1>1, <3>1, <3>2
    <3>3. CASE i # 1
      <4>1. i - 1 \in 1 .. Len(s) /\ p[i] = s[i - 1] /\ i = (i - 1) + 1
        BY <1>0, <1>1, <3>1, <3>3
      <4>2. i - 1 \in R
        BY <3>1, <4>1 DEF ReceivesIn
      <4> QED
        BY <4>1, <4>2
    <3> QED
      BY <3>2, <3>3
  <2>2. ASSUME NEW i \in R PROVE i + 1 \in ReceivesIn(p, l)
    <3>1. i + 1 \in 1 .. Len(s) + 1 /\ p[i + 1] = s[i]
      BY <1>0, <1>1, <1>2
    <3>2. IsReceive(s[i], l)
      BY DEF ReceivesIn
    <3> QED
      BY <1>1, <3>1, <3>2 DEF ReceivesIn
  <2>3. 1 \in ReceivesIn(p, l) <=> IsReceive(f, l)
    BY <1>0, <1>1 DEF ReceivesIn
  <2>4. \A m \in M : m \in ReceivesIn(p, l)
    BY <2>2
  <2> HIDE DEF M
  <2> QED
    BY <2>1, <2>3, <2>4
<1> HIDE DEF M
<1>6. Cardinality(ReceivesIn(p, l)) = IF IsReceive(f, l) THEN Cardinality(R) + 1 ELSE Cardinality(R)
  <2>1. CASE IsReceive(f, l)
    <3>1. Cardinality(M \cup {1}) = Cardinality(M) + 1
      BY <1>3, <1>4, FS_AddElement
    <3> QED
      BY <1>3, <1>5, <2>1, <3>1
  <2>2. CASE ~IsReceive(f, l)
    BY <1>3, <1>5, <2>2
  <2> QED
    BY <2>1, <2>2
<1> QED
  BY <1>6 DEF p, R

\* A call that returns counts one less if it is one.
LEMMA TailCounts ==
    ASSUME NEW s \in Seq(Frames), s # <<>>, NEW l
    PROVE  Cardinality(ReceivesIn(Tail(s), l)) =
             IF IsReceive(Head(s), l) THEN Cardinality(ReceivesIn(s, l)) - 1 ELSE Cardinality(ReceivesIn(s, l))
<1>1. Tail(s) \in Seq(Frames) /\ Head(s) \in Frames /\ s = <<Head(s)>> \o Tail(s)
  OBVIOUS
<1> DEFINE n == Cardinality(ReceivesIn(s, l))   m == Cardinality(ReceivesIn(Tail(s), l))
<1>2. n = IF IsReceive(Head(s), l) THEN m + 1 ELSE m
  <2> DEFINE u == Tail(s)  f == Head(s)
  <2>1. Cardinality(ReceivesIn(<<f>> \o u, l)) =
          IF IsReceive(f, l) THEN Cardinality(ReceivesIn(u, l)) + 1 ELSE Cardinality(ReceivesIn(u, l))
    BY <1>1, PushedCounts
  <2> QED
    BY <1>1, <2>1
<1>3. n \in Nat /\ m \in Nat
  BY <1>1, ReceivesFinite
<1> HIDE DEF n, m
<1>4. m = IF IsReceive(Head(s), l) THEN n - 1 ELSE n
  BY <1>2, <1>3
<1> QED
  BY <1>4 DEF n, m

\* The calls counted are those under way: inductive together with the types.
CallsCounted ==
    /\ nested \in [Levels -> 0 .. OthersLimit - 1]
    /\ \A l \in Levels : nested[l] = Cardinality(ReceivesIn(stack, l))
    /\ ops \in 0 .. MaxOps

\* A step that leaves the counters and the number of receive calls as they are.
LEMMA SameCounts ==
    ASSUME CallsCounted, nested' = nested, ops' \in 0 .. MaxOps,
           \A l \in Levels : Cardinality(ReceivesIn(stack', l)) = Cardinality(ReceivesIn(stack, l))
    PROVE  CallsCounted'
BY DEF CallsCounted

LEMMA OpsSpent ==
    ASSUME CallsCounted, SomeOp
    PROVE  ops' \in 0 .. MaxOps
BY ConstantsAssumption DEF CallsCounted, SomeOp

\* Triggering an event counts nothing.
LEMMA FireCounts ==
    ASSUME NEW e \in Events, NEW below \in Seq(Frames), Fire(e, below), NEW l \in Levels
    PROVE  Cardinality(ReceivesIn(stack', l)) = Cardinality(ReceivesIn(below, l))
<1>1. Trigger(e) \in Frames /\ ~IsReceive(Trigger(e), l)
  BY FramesMade DEF IsReceive, Trigger
<1>2. stack' = <<Trigger(e)>> \o below
  BY DEF Fire
<1> QED
  BY <1>1, <1>2, PushedCounts

LEMMA CallsCountedStep ==
    ASSUME IInv, CallsCounted, [Next]_vars
    PROVE  CallsCounted'
<1>a. TickTypes /\ stack \in Seq(Frames)
  BY DEF IInv, TypesInv, TickTypes
<1>b. nested \in [Levels -> 0 .. OthersLimit - 1] /\ ops \in 0 .. MaxOps
  BY DEF CallsCounted
<1>1. ASSUME NEW e \in Events, NEW t \in Times, ActivateEvent(e, t) PROVE CallsCounted'
  BY <1>1, SameCounts, OpsSpent DEF ActivateEvent
<1>2. ASSUME NEW e \in Events, DeactivateEvent(e) PROVE CallsCounted'
  BY <1>b, <1>2, SameCounts DEF DeactivateEvent
<1>3. ASSUME NEW e \in Events, CallEvent(e) PROVE CallsCounted'
  <2>1. Fire(e, stack) /\ nested' = nested /\ SomeOp
    BY <1>3 DEF CallEvent
  <2> QED
    BY <1>a, <2>1, FireCounts, SameCounts, OpsSpent
<1>4. ASSUME NEW e \in Events, OthersAddListener(e) PROVE CallsCounted'
  BY <1>b, <1>4, SameCounts DEF OthersAddListener
<1>5. ASSUME NEW k \in Levels, OthersSend(k) PROVE CallsCounted'
  <2>1. Send(k, 0) \in Frames /\ \A l \in Levels : ~IsReceive(Send(k, 0), l)
    BY FramesMade, ConstantsAssumption DEF Send, IsReceive
  <2>2. stack' = <<Send(k, 0)>> \o stack /\ nested' = nested /\ SomeOp
    BY <1>5 DEF OthersSend
  <2> QED
    BY <1>a, <2>1, <2>2, PushedCounts, SameCounts, OpsSpent
<1>6. CASE Return
  <2>1. /\ stack # <<>> /\ Head(stack).kind = "trigger"
        /\ stack' = Tail(stack) /\ UNCHANGED <<nested, ops>>
    BY <1>6 DEF Return, TopIs, Top
  <2>2. \A l \in Levels : ~IsReceive(Head(stack), l)
    BY <2>1 DEF IsReceive
  <2> QED
    BY <1>a, <1>b, <2>1, <2>2, TailCounts, SameCounts
<1>7. CASE SendToNext
  <2>1. /\ Top.from \in Levels /\ Top.next \in 0 .. NLevels
        /\ Tail(stack) \in Seq(Frames) /\ stack # <<>> /\ Head(stack).kind = "send"
        /\ ops' = ops
    BY <1>7, <1>a, TopOfStack, FrameShapes DEF SendToNext, TopIs, Top
  <2>2. \A l \in Levels : Cardinality(ReceivesIn(Tail(stack), l)) = Cardinality(ReceivesIn(stack, l))
    <3>1. \A l \in Levels : ~IsReceive(Head(stack), l)
      BY <2>1 DEF IsReceive
    <3> QED
      BY <1>a, <2>1, <3>1, TailCounts
  <2> DEFINE n == Top.next
             sent == Send(Top.from, n + 1)
             below == <<sent>> \o Tail(stack)
             received == Receive(n, others[n])
  <2>3. ASSUME n # NLevels
        PROVE  /\ n \in Levels /\ sent \in Frames /\ received \in Frames
               /\ below \in Seq(Frames)
    <3>1. n \in Levels /\ n + 1 \in 0 .. NLevels
      BY <2>1, <2>3, ConstantsAssumption DEF Levels
    <3>2. others[n] \in Seq(Events)
      BY <1>a, <3>1 DEF TickTypes
    <3>3. sent \in Frames /\ received \in Frames
      BY <2>1, <3>1, <3>2, FramesMade
    <3> HIDE DEF sent
    <3> QED
      BY <2>1, <3>1, <3>3, Pushed
  <2>4. \A l \in Levels : ~IsReceive(sent, l) /\ (IsReceive(received, l) <=> l = n)
    BY DEF IsReceive, Send, Receive
  <2>5. \/ stack' = Tail(stack) /\ nested' = nested
        \/ n # NLevels /\ stack' = below /\ nested' = nested
        \/ /\ n # NLevels /\ stack' = <<received>> \o below
           /\ nested[n] + 1 < OthersLimit /\ nested' = [nested EXCEPT ![n] = @ + 1]
    <3>1. n = NLevels \/ n = Top.from \/ n \notin {NLevels, Top.from}
      OBVIOUS
    <3>2. CASE n = NLevels
      BY <1>7, <3>2 DEF SendToNext
    <3>3. CASE n # NLevels /\ n = Top.from
      BY <1>7, <3>3 DEF SendToNext
    <3>4. CASE n # NLevels /\ n # Top.from
      <4>1. OthersReceive(n, below)
        BY <1>7, <3>4 DEF SendToNext
      <4>2. nested[n] \in Int /\ OthersLimit \in Int
        BY <1>b, <2>3, <3>4, ConstantsAssumption
      <4> QED
        BY <3>4, <4>1, <4>2 DEF OthersReceive
    <3> QED
      BY <3>2, <3>3, <3>4
  <2> HIDE DEF sent, received, n
  <2>6. n # NLevels => \A l \in Levels : Cardinality(ReceivesIn(below, l)) = Cardinality(ReceivesIn(stack, l))
    BY <2>1, <2>2, <2>3, <2>4, PushedCounts
  <2> HIDE DEF below
  <2>7. CASE stack' = Tail(stack) /\ nested' = nested
    BY <1>b, <2>1, <2>2, <2>7, SameCounts
  <2>8. CASE n # NLevels /\ stack' = below /\ nested' = nested
    BY <1>b, <2>1, <2>6, <2>8, SameCounts
  <2>9. CASE /\ n # NLevels /\ stack' = <<received>> \o below
             /\ nested[n] + 1 < OthersLimit /\ nested' = [nested EXCEPT ![n] = @ + 1]
    <3>1. nested' \in [Levels -> 0 .. OthersLimit - 1]
      BY <1>b, <2>3, <2>9, ConstantsAssumption
    <3>2. ASSUME NEW l \in Levels
          PROVE  nested'[l] = Cardinality(ReceivesIn(stack', l))
      <4>1. Cardinality(ReceivesIn(stack', l)) =
              IF l = n THEN Cardinality(ReceivesIn(stack, l)) + 1 ELSE Cardinality(ReceivesIn(stack, l))
        BY <2>3, <2>4, <2>6, <2>9, PushedCounts
      <4>2. nested'[l] = IF l = n THEN nested[l] + 1 ELSE nested[l]
        BY <1>b, <2>3, <2>9
      <4>3. nested[l] = Cardinality(ReceivesIn(stack, l))
        BY DEF CallsCounted
      <4> QED
        BY <4>1, <4>2, <4>3
    <3> QED
      BY <1>b, <2>1, <3>1, <3>2 DEF CallsCounted
  <2> QED
    BY <2>5, <2>7, <2>8, <2>9
<1>8. CASE PassOn \/ PassOver
  <2>1. /\ Top.at \in Levels /\ Top.rest \in Seq(Events) /\ Top.rest # <<>>
        /\ Tail(stack) \in Seq(Frames) /\ stack # <<>> /\ Top = Head(stack)
        /\ Top.kind = "receive" /\ UNCHANGED <<nested, ops>>
    BY <1>8, <1>a, TopOfStack, FrameShapes DEF PassOn, PassOver, TopIs, Top
  <2> DEFINE received == Receive(Top.at, Tail(Top.rest))
             below == <<received>> \o Tail(stack)
  <2>2. Head(Top.rest) \in Events /\ Tail(Top.rest) \in Seq(Events)
    BY <2>1
  <2>3. received \in Frames
    BY <2>1, <2>2, FramesMade
  <2>4. \A l \in Levels : IsReceive(received, l) <=> IsReceive(Head(stack), l)
    BY <2>1 DEF IsReceive, Receive
  <2>5. stack' = below \/ Fire(Head(Top.rest), below)
    BY <1>8 DEF PassOn, PassOver
  <2> HIDE DEF received
  <2>6. below \in Seq(Frames)
    BY <2>1, <2>3, Pushed
  <2>7. \A l \in Levels : Cardinality(ReceivesIn(below, l)) = Cardinality(ReceivesIn(stack, l))
    <3> SUFFICES ASSUME NEW l \in Levels
                 PROVE  Cardinality(ReceivesIn(below, l)) = Cardinality(ReceivesIn(stack, l))
      OBVIOUS
    <3>1. Cardinality(ReceivesIn(stack, l)) \in Nat
      BY <1>a, ReceivesFinite
    <3>2. Cardinality(ReceivesIn(below, l)) =
            IF IsReceive(received, l) THEN Cardinality(ReceivesIn(Tail(stack), l)) + 1
                                      ELSE Cardinality(ReceivesIn(Tail(stack), l))
      BY <2>1, <2>3, PushedCounts
    <3>3. Cardinality(ReceivesIn(Tail(stack), l)) =
            IF IsReceive(Head(stack), l) THEN Cardinality(ReceivesIn(stack, l)) - 1
                                         ELSE Cardinality(ReceivesIn(stack, l))
      BY <1>a, <2>1, TailCounts
    <3> QED
      BY <2>4, <3>1, <3>2, <3>3
  <2> HIDE DEF below
  <2>8. \A l \in Levels : Cardinality(ReceivesIn(stack', l)) = Cardinality(ReceivesIn(stack, l))
    BY <2>2, <2>5, <2>6, <2>7, FireCounts
  <2> QED
    BY <1>b, <2>1, <2>8, SameCounts
<1>9. CASE EndReceive
  <2>1. /\ Top.at \in Levels /\ stack # <<>> /\ Top = Head(stack) /\ Top.kind = "receive"
        /\ stack' = Tail(stack) /\ nested' = [nested EXCEPT ![Top.at] = @ - 1] /\ ops' = ops
    BY <1>9, <1>a, TopOfStack, FrameShapes DEF EndReceive, TopIs, Top
  <2>2. ASSUME NEW l \in Levels
        PROVE  nested'[l] = Cardinality(ReceivesIn(stack', l)) /\ nested'[l] \in 0 .. OthersLimit - 1
    <3> DEFINE c == Cardinality(ReceivesIn(stack, l))
               d == Cardinality(ReceivesIn(Tail(stack), l))
    <3>1. d = IF l = Top.at THEN c - 1 ELSE c
      BY <1>a, <2>1, TailCounts DEF IsReceive
    <3>2. nested'[l] = IF l = Top.at THEN nested[l] - 1 ELSE nested[l]
      BY <1>b, <2>1
    <3>3. nested[l] = c /\ nested[l] \in 0 .. OthersLimit - 1
      BY <1>b DEF CallsCounted
    <3>4. d \in Nat
      <4>1. Tail(stack) \in Seq(Frames)
        BY <1>a, <2>1, TailShape
      <4> QED
        BY <4>1, ReceivesFinite
    <3>5. d = Cardinality(ReceivesIn(stack', l))
      BY <2>1
    <3> HIDE DEF c, d
    <3>6. nested'[l] = d /\ d <= c
      BY <3>1, <3>2, <3>3, ConstantsAssumption
    <3>7. d \in 0 .. OthersLimit - 1
      BY <3>3, <3>4, <3>6, ConstantsAssumption
    <3> QED
      BY <3>5, <3>6, <3>7
  <2>3. nested' \in [Levels -> 0 .. OthersLimit - 1]
    BY <1>b, <2>1, <2>2
  <2> QED
    BY <1>b, <2>1, <2>2, <2>3 DEF CallsCounted
<1>10. CASE BeginTick
  BY <1>10, SameCounts, ConstantsAssumption DEF BeginTick
<1>11. CASE BlocksDone \/ EnterLevel \/ NextLevel \/ LeaveLevel \/ EndTick
  BY <1>b, <1>11, SameCounts DEF BlocksDone, EnterLevel, NextLevel, LeaveLevel, EndTick
<1>12. CASE TriggerFirst
  <2>1. level \in Levels /\ active[level] # <<>> /\ ListsInv
    BY <1>12 DEF TriggerFirst, SomeDue, IInv, TypesInv, TickShape
  <2>2. Head(active[level]) \in Events
    BY <2>1 DEF ListsInv, EventTypes
  <2>3. Fire(Head(active[level]), <<>>) /\ UNCHANGED <<nested, ops>> /\ stack = <<>> /\ <<>> \in Seq(Frames)
    BY <1>12 DEF TriggerFirst
  <2> QED
    BY <1>b, <2>2, <2>3, FireCounts, SameCounts
<1>13. CASE UNCHANGED vars
  BY <1>b, <1>13, SameCounts DEF vars
<1> QED
  BY <1>1, <1>2, <1>3, <1>4, <1>5, <1>6, <1>7, <1>8, <1>9, <1>10, <1>11, <1>12, <1>13
     DEF Next, Finished

LEMMA InitCounts == Init => CallsCounted
<1> SUFFICES ASSUME Init PROVE CallsCounted
  OBVIOUS
<1>1. \A l \in Levels : ReceivesIn(stack, l) = {}
  BY DEF Init, ReceivesIn
<1>2. \A l \in Levels : nested[l] = Cardinality(ReceivesIn(stack, l))
  BY <1>1, FS_EmptySet DEF Init
<1>3. nested \in [Levels -> 0 .. OthersLimit - 1] /\ ops \in 0 .. MaxOps
  BY ConstantsAssumption DEF Init
<1> QED
  BY <1>2, <1>3 DEF CallsCounted

LEMMA CountInvariance == Spec => [](IInv /\ CallsCounted)
<1>1. IInv /\ CallsCounted /\ [Next]_vars => CallsCounted'
  BY CallsCountedStep
<1> QED
  BY <1>1, Invariance, InitCounts, PTL DEF Spec

\* The types hold; above all, the nested calls counted stay between 0 and the limit.
THEOREM TypesHold == Spec => []TypeOK
<1>1. IInv /\ CallsCounted => TypeOK
  BY DEF IInv, TypesInv, ListsInv, EventTypes, TickTypes, CallsCounted, TypeOK
<1> QED
  BY <1>1, CountInvariance, PTL

\* The nested calls counted are those under way and fewer than the limit.
THEOREM NestedCallsHold == Spec => []NestedCallsCounted
<1>1. IInv /\ CallsCounted => NestedCallsCounted
  <2>1. \A l \in Levels : Receiving(l) = ReceivesIn(stack, l)
    BY DEF Receiving, ReceivesIn, IsReceive
  <2> QED
    BY <2>1, ConstantsAssumption DEF CallsCounted, NestedCallsCounted
<1> QED
  BY <1>1, CountInvariance, PTL

-----------------------------------------------------------------------------
(* The queue of events implements the Agenda.                              *)

\* In the events of a tick the outermost call is that of an event.
TurnIsTrigger == phase = "events" /\ stack # <<>> => stack[Len(stack)].kind = "trigger"

\* The calls change above those that stay, the outermost among them.
LEMMA TurnStays ==
    ASSUME TurnIsTrigger, UNCHANGED phase,
           NEW low \in Seq(Frames), low # <<>>,
           NEW x \in Seq(Frames), stack = x \o low,
           NEW y \in Seq(Frames), stack' = y \o low
    PROVE  TurnIsTrigger' /\ Turn' = Turn
<1>1. /\ stack # <<>> /\ stack[Len(stack)] = low[Len(low)]
      /\ stack' # <<>> /\ stack'[Len(stack')] = low[Len(low)]
  OBVIOUS
<1> QED
  BY <1>1 DEF TurnIsTrigger, Turn

\* Outside of the events there are no turns.
LEMMA NoTurns ==
    ASSUME phase # "events", UNCHANGED phase
    PROVE  TurnIsTrigger' /\ Turn' = Turn
BY DEF TurnIsTrigger, Turn

LEMMA PushKeepsTurn ==
    ASSUME TickTypes, TurnIsTrigger, UNCHANGED phase, phase = "events" => stack # <<>>,
           NEW f \in Frames, stack' = <<f>> \o stack
    PROVE  TurnIsTrigger' /\ Turn' = Turn
<1>1. CASE phase # "events"
  BY <1>1, NoTurns
<1>2. CASE phase = "events"
  <2>1. stack \in Seq(Frames) /\ stack # <<>> /\ stack = <<>> \o stack /\ <<f>> \in Seq(Frames)
    BY <1>2 DEF TickTypes
  <2>2. <<>> \in Seq(Frames)
    OBVIOUS
  <2> QED
    BY <2>1, <2>2, TurnStays
<1> QED
  BY <1>1, <1>2

\* A call other than that of an event is above another one.
LEMMA ChangeOfTopKeepsTurn ==
    ASSUME TickTypes, TurnIsTrigger, UNCHANGED phase, stack # <<>>,
           Top.kind # "trigger" \/ Tail(stack) # <<>>,
           NEW y \in Seq(Frames), stack' = y \o Tail(stack)
    PROVE  TurnIsTrigger' /\ Turn' = Turn
<1>1. CASE phase # "events"
  BY <1>1, NoTurns
<1>2. CASE phase = "events"
  <2>1. /\ Tail(stack) \in Seq(Frames) /\ <<Top>> \in Seq(Frames)
        /\ stack = <<Top>> \o Tail(stack)
    BY DEF TickTypes, Top
  <2>2. Tail(stack) # <<>>
    <3>1. Len(<<Top>> \o <<>>) = 1 /\ (<<Top>> \o <<>>)[1] = Top
      OBVIOUS
    <3>2. Tail(stack) = <<>> => Len(stack) = 1 /\ stack[1] = Top
      BY <2>1, <3>1, Zenon
    <3> QED
      BY <1>2, <3>2 DEF TurnIsTrigger
  <2> QED
    BY <2>1, <2>2, TurnStays
<1> QED
  BY <1>1, <1>2

\* An event that is fired, or deactivated, is not scheduled any more.
LEMMA DeactivatedUnscheduled ==
    ASSUME EventTypes, NEW e \in Events, Deactivated(e),
           triggerTime' \in [Events -> Times \cup {-1}],
           \A f \in Events : f # e => triggerTime'[f] = triggerTime[f]
    PROVE  Scheduled' = [Scheduled EXCEPT ![e] = -1]
<1>1. isActive \in [Events -> BOOLEAN] /\ isActive' = [isActive EXCEPT ![e] = FALSE]
  BY DEF EventTypes, Deactivated
<1> QED
  BY <1>1 DEF Scheduled

LEMMA FiredUnscheduled ==
    ASSUME EventTypes, NEW e \in Events, NEW below, Fire(e, below)
    PROVE  Scheduled' = [Scheduled EXCEPT ![e] = -1]
BY DeactivatedUnscheduled DEF Fire, EventTypes

\* What changes the agenda in the events of a tick is done in a turn.
LEMMA ChangesInTurn ==
    ASSUME NEW e \in Events, NEW t \in Times \cup {-1},
           phase = "events" => stack # <<>>,
           Scheduled' = [Scheduled EXCEPT ![e] = t],
           UNCHANGED <<tick, phase>>, Turn' = Turn
    PROVE  A!Next
<1>1. A!Change(e, t)
  BY DEF A!Change, Turn
<1>2. t \in Times \cup {A!Never}
  BY DEF A!Never
<1> QED
  BY <1>1, <1>2 DEF A!Next

LEMMA AgendaKept ==
    ASSUME UNCHANGED <<eventVars, tick, phase>>, Turn' = Turn
    PROVE  UNCHANGED A!vars
BY DEF A!vars, eventVars, Scheduled

\* The first event in the list of a level goes before all that are due.
LEMMA FirstGoesFirst ==
    ASSUME ListsInv, TickTypes, NEW l \in Levels, active[l] # <<>>,
           NEW f \in Events, isActive[f], LevelOf[f] = l
    PROVE  LET e == Head(active[l])
           IN  /\ e \in Events /\ isActive[e] /\ LevelOf[e] = l
               /\ Precedes(e, f, triggerTime)
<1> DEFINE s == active[l]
           e == Head(s)
<1>1. /\ s \in Seq(Events) /\ OrderedBy(s, triggerTime)
      /\ \A g \in Events : g \in ToSet(s) <=> isActive[g] /\ LevelOf[g] = l
  BY ListFacts
<1> HIDE DEF s
<1>2. e = s[1] /\ 1 \in 1 .. Len(s) /\ e \in Events /\ e \in ToSet(s)
  <2>1. e = s[1] /\ 1 \in 1 .. Len(s) /\ e \in Events
    BY <1>1 DEF s
  <2> QED
    BY <2>1 DEF ToSet
<1>3. PICK i \in 1 .. Len(s) : s[i] = f
  <2>1. f \in ToSet(s)
    BY <1>1
  <2> QED
    BY <2>1 DEF ToSet
<1>4. Precedes(e, f, triggerTime)
  <2>1. CASE i = 1
    <3>1. triggerTime[f] \in Int /\ Priority[f] \in Int
      BY TimesAreIntegers, ConstantsAssumption DEF ListsInv
    <3> QED
      BY <1>2, <1>3, <2>1, <3>1 DEF Precedes
  <2>2. CASE i # 1
    BY <1>1, <1>2, <1>3, <2>2 DEF OrderedBy
  <2> QED
    BY <2>1, <2>2
<1> QED
  BY <1>1, <1>2, <1>4 DEF s

\* An active event has a time.
ActiveAreTimed == \A e \in Events : isActive[e] => triggerTime[e] # -1

LEMMA TimedStep ==
    ASSUME EventTypes, ActiveAreTimed, [Next]_vars
    PROVE  ActiveAreTimed'
<1>0. isActive \in [Events -> BOOLEAN] /\ triggerTime \in [Events -> Times \cup {-1}] /\ -1 \notin Times
  BY DEF EventTypes, Times
<1>1. ASSUME NEW e, isActive' = [isActive EXCEPT ![e] = FALSE],
             triggerTime' \in {triggerTime, [triggerTime EXCEPT ![e] = -1]}
      PROVE  ActiveAreTimed'
  BY <1>0, <1>1 DEF ActiveAreTimed
<1>2. ASSUME UNCHANGED eventVars PROVE ActiveAreTimed'
  BY <1>2 DEF ActiveAreTimed, eventVars
<1>3. ASSUME NEW e \in Events, NEW t \in Times, ActivateEvent(e, t) PROVE ActiveAreTimed'
  BY <1>0, <1>3 DEF ActivateEvent, ActiveAreTimed
<1>4. ASSUME NEW e \in Events, DeactivateEvent(e) \/ CallEvent(e) \/ OthersAddListener(e)
      PROVE  ActiveAreTimed'
  BY <1>1, <1>2, <1>4 DEF DeactivateEvent, CallEvent, OthersAddListener, Fire, Deactivated
<1>5. CASE PassOn \/ TriggerFirst
  BY <1>1, <1>5 DEF PassOn, TriggerFirst, Fire, Deactivated
<1>6. CASE \/ Return \/ SendToNext \/ PassOver \/ EndReceive \/ BeginTick \/ BlocksDone
           \/ EnterLevel \/ NextLevel \/ LeaveLevel \/ EndTick \/ UNCHANGED vars
           \/ \E l \in Levels : OthersSend(l)
  BY <1>2, <1>6 DEF Return, SendToNext, PassOver, EndReceive, BeginTick, BlocksDone, EnterLevel,
     NextLevel, LeaveLevel, EndTick, OthersSend, vars, eventVars
<1> QED
  BY <1>3, <1>4, <1>5, <1>6 DEF Next, Finished

LEMMA AgendaStep ==
    ASSUME IInv, ActiveAreTimed, TurnIsTrigger, [Next]_vars
    PROVE  TurnIsTrigger' /\ [A!Next]_(A!vars)
<1> DEFINE Kept == TurnIsTrigger' /\ [A!Next]_(A!vars)
<1>0. /\ ListsInv /\ EventTypes /\ TickTypes /\ TickShape
      /\ Times \subseteq Int /\ -1 \in Times \cup {-1}
      /\ \A e \in Events : LevelOf[e] \in Levels
  BY ConstantsAssumption DEF IInv, TypesInv, ListsInv, Times, Levels
<1>1. ASSUME NEW e \in Events, NEW t \in Times, ActivateEvent(e, t) PROVE Kept
  <2>1. /\ isActive' = [isActive EXCEPT ![e] = TRUE]
        /\ triggerTime' = [triggerTime EXCEPT ![e] = t]
        /\ UNCHANGED <<tick, phase, stack>>
        /\ phase = "events" => stack # <<>>
    BY <1>1 DEF ActivateEvent, Running, TopIs, tickVars
  <2>2. Scheduled' = [Scheduled EXCEPT ![e] = t]
    BY <1>0, <2>1 DEF Scheduled, EventTypes
  <2>3. Turn' = Turn /\ TurnIsTrigger'
    BY <2>1 DEF Turn, TurnIsTrigger
  <2> QED
    BY <2>1, <2>2, <2>3, ChangesInTurn
<1>2. ASSUME NEW e \in Events, DeactivateEvent(e) PROVE Kept
  <2>1. /\ Deactivated(e)
        /\ triggerTime' = [triggerTime EXCEPT ![e] = -1]
        /\ UNCHANGED <<tick, phase, stack>>
        /\ phase = "events" => stack # <<>>
    BY <1>2 DEF DeactivateEvent, Running, TopIs, tickVars
  <2>2. Scheduled' = [Scheduled EXCEPT ![e] = -1]
    BY <1>0, <2>1, DeactivatedUnscheduled DEF EventTypes
  <2>3. Turn' = Turn /\ TurnIsTrigger'
    BY <2>1 DEF Turn, TurnIsTrigger
  <2> QED
    BY <1>0, <2>1, <2>2, <2>3, ChangesInTurn
<1>3. ASSUME NEW e \in Events, CallEvent(e) PROVE Kept
  <2>1. /\ Fire(e, stack) /\ UNCHANGED <<tick, phase>>
        /\ phase = "events" => stack # <<>>
    BY <1>3 DEF CallEvent, Running, TopIs, tickVars
  <2>2. Scheduled' = [Scheduled EXCEPT ![e] = -1]
    BY <1>0, <2>1, FiredUnscheduled
  <2>3. Turn' = Turn /\ TurnIsTrigger'
    BY <1>0, <2>1, FramesMade, PushKeepsTurn DEF Fire
  <2> QED
    BY <1>0, <2>1, <2>2, <2>3, ChangesInTurn
<1>4. ASSUME NEW e \in Events, OthersAddListener(e) PROVE Kept
  <2>1. UNCHANGED <<eventVars, tick, phase, stack>>
    BY <1>4 DEF OthersAddListener, tickVars
  <2>2. Turn' = Turn /\ TurnIsTrigger'
    BY <2>1 DEF Turn, TurnIsTrigger
  <2> QED
    BY <2>1, <2>2, AgendaKept
<1>5. ASSUME NEW l \in Levels, OthersSend(l) PROVE Kept
  <2>1. /\ stack' = <<Send(l, 0)>> \o stack /\ stack # <<>>
        /\ UNCHANGED <<eventVars, tick, phase>>
    BY <1>5 DEF OthersSend, TopIs, tickVars
  <2>2. Send(l, 0) \in Frames
    BY FramesMade, ConstantsAssumption
  <2>3. Turn' = Turn /\ TurnIsTrigger'
    BY <1>0, <2>1, <2>2, PushKeepsTurn
  <2> QED
    BY <2>1, <2>3, AgendaKept
<1>6. CASE Return
  <2>1. /\ stack # <<>> /\ stack' = Tail(stack) /\ Top.kind = "trigger"
        /\ UNCHANGED <<eventVars, tick, phase>>
    BY <1>6 DEF Return, TopIs, tickVars
  <2>2. CASE Tail(stack) # <<>>
    <3>1. Tail(stack) = <<>> \o Tail(stack) /\ <<>> \in Seq(Frames)
      BY <1>0, <2>1 DEF TickTypes
    <3>2. Turn' = Turn /\ TurnIsTrigger'
      BY <1>0, <2>1, <2>2, <3>1, ChangeOfTopKeepsTurn
    <3> QED
      BY <2>1, <3>2, AgendaKept
  <2>3. CASE Tail(stack) = <<>> /\ phase = "events"
    <3>1. Turn # {} /\ Turn' = {} /\ TurnIsTrigger'
      BY <2>1, <2>3 DEF Turn, TurnIsTrigger
    <3>2. A!EndTurn
      BY <2>1, <3>1 DEF A!EndTurn, eventVars, Scheduled
    <3> QED
      BY <3>1, <3>2 DEF A!Next
  <2>4. CASE phase # "events"
    BY <2>1, <2>4, NoTurns, AgendaKept
  <2> QED
    BY <2>2, <2>3, <2>4
<1>7. CASE SendToNext
  <2> DEFINE n == Top.next
             sent == Send(Top.from, n + 1)
             received == Receive(n, others[n])
  <2>1. /\ stack # <<>> /\ Top.kind = "send" /\ Top.from \in Levels /\ n \in 0 .. NLevels
        /\ UNCHANGED <<eventVars, tick, phase>>
    BY <1>0, <1>7, TopOfStack, FrameShapes DEF SendToNext, TopIs, tickVars
  <2>2. \/ stack' = Tail(stack)
        \/ n # NLevels /\ stack' = <<sent>> \o Tail(stack)
        \/ n # NLevels /\ stack' = <<received>> \o (<<sent>> \o Tail(stack))
    BY <1>7 DEF SendToNext, OthersReceive
  <2>3. n # NLevels => sent \in Frames /\ received \in Frames
    <3>1. n # NLevels => n \in Levels /\ n + 1 \in 0 .. NLevels
      BY <2>1, ConstantsAssumption DEF Levels
    <3> QED
      BY <1>0, <2>1, <3>1, FramesMade DEF TickTypes
  <2> HIDE DEF sent, received
  <2>4. \E y \in Seq(Frames) : stack' = y \o Tail(stack)
    <3>0. Tail(stack) \in Seq(Frames)
      BY <1>0, <2>1 DEF TickTypes
    <3>1. CASE stack' = Tail(stack)
      <4>1. <<>> \in Seq(Frames) /\ Tail(stack) = <<>> \o Tail(stack)
        BY <3>0
      <4> QED
        BY <3>1, <4>1
    <3>2. CASE n # NLevels /\ stack' = <<sent>> \o Tail(stack)
      <4>1. <<sent>> \in Seq(Frames)
        BY <2>3, <3>2
      <4> QED
        BY <3>2, <4>1
    <3>3. CASE n # NLevels /\ stack' = <<received>> \o (<<sent>> \o Tail(stack))
      <4>1. <<received>> \in Seq(Frames) /\ <<sent>> \in Seq(Frames)
        BY <2>3, <3>3
      <4>2. /\ <<received>> \o <<sent>> \in Seq(Frames)
            /\ <<received>> \o (<<sent>> \o Tail(stack)) = (<<received>> \o <<sent>>) \o Tail(stack)
        BY <3>0, <4>1
      <4> QED
        BY <3>3, <4>2
    <3> QED
      BY <2>2, <3>1, <3>2, <3>3
  <2>5. Turn' = Turn /\ TurnIsTrigger'
    BY <1>0, <2>1, <2>4, ChangeOfTopKeepsTurn
  <2> QED
    BY <2>1, <2>5, AgendaKept
<1>8. CASE PassOn
  <2> DEFINE e == Head(Top.rest)
             received == Receive(Top.at, Tail(Top.rest))
  <2>1. /\ stack # <<>> /\ Top.kind = "receive" /\ Top.at \in Levels
        /\ Top.rest \in Seq(Events) /\ Top.rest # <<>>
        /\ Fire(e, <<received>> \o Tail(stack)) /\ UNCHANGED <<tick, phase>>
    BY <1>0, <1>8, TopOfStack, FrameShapes DEF PassOn, TopIs, tickVars
  <2>2. e \in Events /\ Tail(Top.rest) \in Seq(Events)
    BY <2>1
  <2>3. received \in Frames /\ Trigger(e) \in Frames
    BY <2>1, <2>2, FramesMade
  <2>4. stack' = <<Trigger(e)>> \o (<<received>> \o Tail(stack))
    BY <2>1 DEF Fire
  <2>5. Scheduled' = [Scheduled EXCEPT ![e] = -1]
    BY <1>0, <2>1, <2>2, FiredUnscheduled
  <2> HIDE DEF received, e
  <2>6. /\ <<Trigger(e)>> \o <<received>> \in Seq(Frames)
        /\ stack' = (<<Trigger(e)>> \o <<received>>) \o Tail(stack)
    <3>1. Tail(stack) \in Seq(Frames) /\ <<Trigger(e)>> \in Seq(Frames) /\ <<received>> \in Seq(Frames)
      BY <1>0, <2>1, <2>3 DEF TickTypes
    <3> HIDE DEF Trigger
    <3> QED
      BY <2>4, <3>1
  <2>7. Turn' = Turn /\ TurnIsTrigger'
    BY <1>0, <2>1, <2>6, ChangeOfTopKeepsTurn
  <2> QED
    BY <1>0, <2>1, <2>2, <2>5, <2>7, ChangesInTurn
<1>9. CASE PassOver \/ EndReceive
  <2>1. /\ stack # <<>> /\ Top.kind = "receive" /\ Top.at \in Levels
        /\ Top.rest \in Seq(Events) /\ UNCHANGED <<eventVars, tick, phase>>
    BY <1>0, <1>9, TopOfStack, FrameShapes DEF PassOver, EndReceive, TopIs, tickVars
  <2>2. \E y \in Seq(Frames) : stack' = y \o Tail(stack)
    <3>1. CASE PassOver
      <4>1. Tail(Top.rest) \in Seq(Events)
        BY <2>1, <3>1 DEF PassOver
      <4>2. Receive(Top.at, Tail(Top.rest)) \in Frames
        BY <2>1, <4>1, FramesMade
      <4>3. <<Receive(Top.at, Tail(Top.rest))>> \in Seq(Frames)
        BY <4>2
      <4> QED
        BY <3>1, <4>3 DEF PassOver
    <3>2. CASE EndReceive
      <4>1. <<>> \in Seq(Frames) /\ Tail(stack) = <<>> \o Tail(stack)
        BY <1>0, <2>1 DEF TickTypes
      <4> QED
        BY <3>2, <4>1 DEF EndReceive
    <3> QED
      BY <1>9, <3>1, <3>2
  <2>3. Turn' = Turn /\ TurnIsTrigger'
    BY <1>0, <2>1, <2>2, ChangeOfTopKeepsTurn
  <2> QED
    BY <2>1, <2>3, AgendaKept
<1>10. CASE BeginTick
  <2>1. /\ phase = "idle" /\ phase' = "blocks" /\ UNCHANGED <<eventVars, tick>>
    BY <1>10 DEF BeginTick
  <2>2. Turn' = Turn /\ TurnIsTrigger'
    BY <2>1 DEF Turn, TurnIsTrigger
  <2>3. A!Begin("idle", "blocks")
    BY <2>1, <2>2 DEF A!Begin, eventVars, Scheduled
  <2> QED
    BY <2>2, <2>3 DEF A!Next
<1>11. CASE BlocksDone
  <2>1. /\ phase = "blocks" /\ phase' = "events" /\ UNCHANGED <<eventVars, tick>>
        /\ stack = <<>> /\ stack' = <<>>
    BY <1>11 DEF BlocksDone
  <2>2. Turn' = Turn /\ TurnIsTrigger'
    BY <2>1 DEF Turn, TurnIsTrigger
  <2>3. A!Begin("blocks", "events")
    BY <2>1, <2>2 DEF A!Begin, eventVars, Scheduled
  <2> QED
    BY <2>2, <2>3 DEF A!Next
<1>12. CASE EnterLevel \/ NextLevel \/ LeaveLevel \/ UNCHANGED vars
  <2>1. UNCHANGED <<eventVars, tick, phase, stack>>
    BY <1>12 DEF EnterLevel, NextLevel, LeaveLevel, vars, tickVars
  <2>2. Turn' = Turn /\ TurnIsTrigger'
    BY <2>1 DEF Turn, TurnIsTrigger
  <2> QED
    BY <2>1, <2>2, AgendaKept
<1>13. CASE TriggerFirst
  <2> DEFINE e == Head(active[level])
  <2>1. /\ level \in Levels /\ active[level] # <<>> /\ triggerTime[e] <= tick
        /\ phase = "events" /\ stack = <<>> /\ Fire(e, <<>>) /\ UNCHANGED <<tick, phase>>
    BY <1>0, <1>13 DEF TriggerFirst, SomeDue, Due, TickShape, tickVars
  <2>2. e \in Events /\ isActive[e] /\ LevelOf[e] = level
    <3>1. active[level] \in Seq(Events)
      BY <1>0, <2>1, ListFacts
    <3>2. e = active[level][1] /\ 1 \in 1 .. Len(active[level]) /\ e \in Events
      BY <2>1, <3>1
    <3>3. e \in ToSet(active[level])
      BY <3>2 DEF ToSet
    <3> QED
      BY <1>0, <2>1, <3>2, <3>3, ListFacts
  <2>3. ASSUME NEW f \in Events, isActive[f], LevelOf[f] = level
        PROVE  Precedes(e, f, triggerTime)
    BY <1>0, <2>1, <2>3, FirstGoesFirst
  <2>4. stack' = <<Trigger(e)>>
    BY <2>1 DEF Fire
  <2>5. Turn = {} /\ Turn' = {e} /\ TurnIsTrigger'
    BY <2>1, <2>4 DEF Turn, TurnIsTrigger, Trigger
  <2>6. Scheduled' = [Scheduled EXCEPT ![e] = -1]
    BY <1>0, <2>1, <2>2, FiredUnscheduled
  <2> HIDE DEF e
  <2>7. triggerTime[e] # -1
    BY <2>2 DEF ActiveAreTimed
  <2>8. A!TakeTurn(e)
    <3>1. \A f \in A!DueEvents : isActive[f] /\ Scheduled[f] = triggerTime[f] /\ f \in Events
      BY DEF A!DueEvents, A!Never, Scheduled
    <3>2. e \in A!DueEvents /\ Scheduled[e] = triggerTime[e]
      BY <2>1, <2>2, <2>7 DEF A!DueEvents, A!Never, Scheduled
    <3>3. \A f \in A!DueEvents : LevelOf[f] = LevelOf[e] => A!Before(e, f)
      BY <2>2, <2>3, <3>1, <3>2 DEF A!Before, Precedes
    <3> QED
      BY <2>1, <2>5, <2>6, <3>2, <3>3 DEF A!TakeTurn, A!Never
  <2> QED
    BY <2>2, <2>5, <2>8 DEF A!Next
<1>14. CASE EndTick
  <2>1. /\ phase = "events" /\ phase' = "idle" /\ stack = <<>> /\ tick' = tick + 1
        /\ UNCHANGED eventVars /\ ~inLevel /\ level = NLevels
    BY <1>14 DEF EndTick, AtLevel
  <2>2. Turn = {} /\ Turn' = {} /\ TurnIsTrigger'
    BY <2>1 DEF Turn, TurnIsTrigger
  <2>3. A!DueEvents = {}
    <3> SUFFICES ASSUME NEW e \in Events, isActive[e], triggerTime[e] <= tick PROVE FALSE
      BY DEF A!DueEvents, A!Never, Scheduled
    <3>1. ~dirty[LevelOf[e]]
      BY <1>0, <2>1, ConstantsAssumption DEF IInv, LowerAreClean, Levels
    <3>2. e \in ToSet(active[LevelOf[e]])
      BY <1>0, ListFacts
    <3>3. triggerTime[e] > tick
      BY <1>0, <2>1, <3>1, <3>2 DEF IInv, CleanHasNothingDue
    <3>4. triggerTime[e] \in Int /\ tick \in Int
      BY <1>0, TimesAreIntegers DEF TickTypes
    <3> QED
      BY <3>3, <3>4
  <2>4. A!EndTick
    BY <2>1, <2>2, <2>3 DEF A!EndTick, eventVars, Scheduled
  <2> QED
    BY <2>2, <2>4 DEF A!Next
<1> QED
  BY <1>1, <1>2, <1>3, <1>4, <1>5, <1>6, <1>7, <1>8, <1>9, <1>10, <1>11, <1>12, <1>13, <1>14
  DEF Next, Finished

\* The lists of active events, the flags and the loop over the levels implement the
\* Agenda: every step of the queue is a step of it or leaves it as it is.
THEOREM KeepsAgendaHolds == Spec => KeepsAgenda
<1>1. Init => A!Init /\ TurnIsTrigger /\ ActiveAreTimed
  BY DEF Init, A!Init, A!Never, Scheduled, Turn, TurnIsTrigger, ActiveAreTimed
<1>2. IInv /\ ActiveAreTimed /\ [Next]_vars => ActiveAreTimed'
  BY TimedStep DEF IInv, TypesInv, ListsInv
<1>3. IInv /\ ActiveAreTimed /\ TurnIsTrigger /\ [Next]_vars
        => TurnIsTrigger' /\ [A!Next]_(A!vars)
  BY AgendaStep
<1> QED
  BY <1>1, <1>2, <1>3, Invariance, PTL DEF Spec, KeepsAgenda, A!Spec

-----------------------------------------------------------------------------
(* A game tick cannot go on for ever: everything its steps use up is       *)
(* finite, and every step uses up some of it.                              *)

InLevelIsDirty == inLevel => dirty[level]

\* One call on top of others, and none.
LEMMA TurnsOfPushed ==
    ASSUME NEW below \in Seq(Frames), NEW f \in Frames, NEW kind
    PROVE  TurnsLeft(<<f>> \o below, kind)
             = TurnsLeft(below, kind) \cup ({Len(below) + 1} \X Turns(f, kind))
<1> DEFINE s == <<f>> \o below
           n == Len(below)
           Part(i) == {i} \X Turns(s[n + 2 - i], kind)
<1>1. n \in Nat /\ Len(s) = n + 1 /\ \A k \in 1 .. n + 1 : s[k] = IF k = 1 THEN f ELSE below[k - 1]
  BY Pushed
<1> HIDE DEF s, n
<1>2. TurnsLeft(s, kind) = UNION {Part(i) : i \in 1 .. n + 1}
  <2>1. \A i \in 1 .. n + 1 : Len(s) + 1 - i = n + 2 - i
    BY <1>1
  <2> QED
    BY <1>1, <2>1 DEF TurnsLeft
<1>3. TurnsLeft(below, kind) = UNION {Part(i) : i \in 1 .. n}
  <2>1. \A i \in 1 .. n : s[n + 2 - i] = below[n + 1 - i]
    <3> SUFFICES ASSUME NEW i \in 1 .. n PROVE s[n + 2 - i] = below[n + 1 - i]
      OBVIOUS
    <3>1. n + 2 - i \in 1 .. n + 1 /\ n + 2 - i # 1 /\ (n + 2 - i) - 1 = n + 1 - i
      BY <1>1
    <3> QED
      BY <1>1, <3>1
  <2> QED
    BY <2>1 DEF TurnsLeft, n
<1>4. Part(n + 1) = {n + 1} \X Turns(f, kind)
  <2>1. n + 2 - (n + 1) = 1 /\ s[1] = f
    BY <1>1
  <2> QED
    BY <2>1
<1>5. 1 .. n + 1 = (1 .. n) \cup {n + 1}
  BY <1>1
<1> HIDE DEF Part
<1>6. UNION {Part(i) : i \in 1 .. n + 1} = (UNION {Part(i) : i \in 1 .. n}) \cup Part(n + 1)
  BY <1>5
<1> QED
  BY <1>2, <1>3, <1>4, <1>6 DEF s, n

\* The turns of the calls below are not those of the call on top.
LEMMA TurnsBelow ==
    ASSUME NEW below \in Seq(Frames), NEW kind
    PROVE  \A x \in TurnsLeft(below, kind) : x[1] \in 1 .. Len(below)
BY DEF TurnsLeft

LEMMA LessTurns ==
    ASSUME NEW W, NEW d, \A x \in W : x[1] # d, NEW P, NEW Q, Less(P, Q)
    PROVE  Less(W \cup ({d} \X P), W \cup ({d} \X Q))
<1>1. PICK b \in Q : b \notin P
  BY DEF Less
<1>2. <<d, b>> \in W \cup ({d} \X Q) /\ <<d, b>> \notin W \cup ({d} \X P)
  BY <1>1
<1> QED
  BY <1>2 DEF Less

\* The calls with the innermost one gone, or replaced, or with another on top of it.
LEMMA TurnsOfCalls ==
    ASSUME TickTypes, stack # <<>>, NEW kind
    PROVE  LET d == Len(Tail(stack)) + 1
               W == TurnsLeft(Tail(stack), kind)
           IN  /\ \A x \in W : x[1] # d
               /\ TurnsLeft(stack, kind) = W \cup ({d} \X Turns(Top, kind))
               /\ \A f \in Frames :
                    TurnsLeft(<<f>> \o Tail(stack), kind) = W \cup ({d} \X Turns(f, kind))
               /\ \A f, g \in Frames : Turns(g, kind) = {} =>
                    TurnsLeft(<<g>> \o (<<f>> \o Tail(stack)), kind)
                      = W \cup ({d} \X Turns(f, kind))
<1> DEFINE t == Tail(stack)
           d == Len(t) + 1
           W == TurnsLeft(t, kind)
<1>1. t \in Seq(Frames) /\ Top \in Frames /\ stack = <<Top>> \o t
  BY DEF TickTypes, Top
<1> HIDE DEF t
<1>2. \A x \in W : x[1] # d
  BY <1>1, TurnsBelow
<1>3. \A f \in Frames : /\ <<f>> \o t \in Seq(Frames)
                        /\ TurnsLeft(<<f>> \o t, kind) = W \cup ({d} \X Turns(f, kind))
  BY <1>1, Pushed, TurnsOfPushed
<1>4. TurnsLeft(stack, kind) = W \cup ({d} \X Turns(Top, kind))
  BY <1>1, <1>3
<1>5. ASSUME NEW f \in Frames, NEW g \in Frames, Turns(g, kind) = {}
      PROVE  TurnsLeft(<<g>> \o (<<f>> \o t), kind) = W \cup ({d} \X Turns(f, kind))
  <2> DEFINE below == <<f>> \o t
  <2>1. below \in Seq(Frames) /\ TurnsLeft(below, kind) = W \cup ({d} \X Turns(f, kind))
    BY <1>3
  <2> HIDE DEF below, W
  <2>2. TurnsLeft(<<g>> \o below, kind)
          = TurnsLeft(below, kind) \cup ({Len(below) + 1} \X Turns(g, kind))
    BY <2>1, TurnsOfPushed
  <2>3. {Len(below) + 1} \X Turns(g, kind) = {}
    BY <1>5
  <2> QED
    BY <2>1, <2>2, <2>3 DEF below
<1> QED
  BY <1>2, <1>3, <1>4, <1>5 DEF t

\* The innermost call ends, or becomes f, perhaps with another call on top: P are the
\* turns of one kind that are left of it.
LeftOfTop(P, kind) ==
    \/ P = {} /\ stack' = Tail(stack)
    \/ \E f \in Frames : P = Turns(f, kind) /\ stack' = <<f>> \o Tail(stack)
    \/ \E f, g \in Frames : /\ P = Turns(f, kind) /\ Turns(g, kind) = {}
                            /\ stack' = <<g>> \o (<<f>> \o Tail(stack))

LEMMA TurnsOfTop ==
    ASSUME TickTypes, stack # <<>>, NEW kind, NEW P, LeftOfTop(P, kind)
    PROVE  /\ P = Turns(Top, kind) => TurnsLeft(stack', kind) = TurnsLeft(stack, kind)
           /\ Less(P, Turns(Top, kind)) => Less(TurnsLeft(stack', kind), TurnsLeft(stack, kind))
<1> DEFINE d == Len(Tail(stack)) + 1
           W == TurnsLeft(Tail(stack), kind)
<1>1. /\ \A x \in W : x[1] # d
      /\ TurnsLeft(stack, kind) = W \cup ({d} \X Turns(Top, kind))
      /\ \A f \in Frames :
           TurnsLeft(<<f>> \o Tail(stack), kind) = W \cup ({d} \X Turns(f, kind))
      /\ \A f, g \in Frames : Turns(g, kind) = {} =>
           TurnsLeft(<<g>> \o (<<f>> \o Tail(stack)), kind) = W \cup ({d} \X Turns(f, kind))
  BY TurnsOfCalls
<1>2. W = W \cup ({d} \X {})
  OBVIOUS
<1>3. stack' = Tail(stack) => TurnsLeft(stack', kind) = W
  OBVIOUS
<1> HIDE DEF W, d
<1>4. TurnsLeft(stack', kind) = W \cup ({d} \X P)
  <2>1. CASE P = {} /\ stack' = Tail(stack)
    BY <1>2, <1>3, <2>1
  <2>2. ASSUME NEW f \in Frames, P = Turns(f, kind), stack' = <<f>> \o Tail(stack)
        PROVE  TurnsLeft(stack', kind) = W \cup ({d} \X P)
    BY <1>1, <2>2
  <2>3. ASSUME NEW f \in Frames, NEW g \in Frames, P = Turns(f, kind), Turns(g, kind) = {},
               stack' = <<g>> \o (<<f>> \o Tail(stack))
        PROVE  TurnsLeft(stack', kind) = W \cup ({d} \X P)
    BY <1>1, <2>3
  <2> QED
    BY <2>1, <2>2, <2>3 DEF LeftOfTop
<1>5. Less(P, Turns(Top, kind)) => Less(W \cup ({d} \X P), W \cup ({d} \X Turns(Top, kind)))
  BY <1>1, LessTurns
<1> QED
  BY <1>1, <1>4, <1>5

LEMMA TurnsOfFrames ==
    /\ \A e : Turns(Trigger(e), "trigger") = {0}
    /\ \A e : Turns(Trigger(e), "send") = {} /\ Turns(Trigger(e), "receive") = {}
    /\ \A l, n : Turns(Send(l, n), "send") = n .. NLevels
    /\ \A l, n : Turns(Send(l, n), "receive") = {} /\ Turns(Send(l, n), "trigger") = {}
    /\ \A l, r : Turns(Receive(l, r), "receive") = 0 .. Len(r)
    /\ \A l, r : Turns(Receive(l, r), "send") = {} /\ Turns(Receive(l, r), "trigger") = {}
BY DEF Turns, Trigger, Send, Receive

LEMMA WorkParts ==
    /\ Len(Work) = 9 /\ Len(Work') = 9
    /\ Work[1] = 1 .. ops /\ Work'[1] = 1 .. ops'
    /\ Work[2] = NotListening /\ Work'[2] = NotListening'
    /\ Work[3] = ActiveEvents /\ Work'[3] = ActiveEvents'
    /\ Work[4] = TurnsLeft(stack, "send") /\ Work'[4] = TurnsLeft(stack', "send")
    /\ Work[5] = TurnsLeft(stack, "receive") /\ Work'[5] = TurnsLeft(stack', "receive")
    /\ Work[6] = TurnsLeft(stack, "trigger") /\ Work'[6] = TurnsLeft(stack', "trigger")
    /\ Work[7] = PhasesLeft /\ Work'[7] = PhasesLeft'
    /\ Work[8] = DirtyLevels /\ Work'[8] = DirtyLevels'
    /\ Work[9] = LoopLeft /\ Work'[9] = LoopLeft'
BY DEF Work

\* The first thing that changes is used up.
LEMMA WorkLessens ==
    ASSUME \/ Less(1 .. ops', 1 .. ops)
           \/ /\ UNCHANGED ops
              /\ Less(NotListening', NotListening)
           \/ /\ UNCHANGED <<ops, others>>
              /\ Less(ActiveEvents', ActiveEvents)
           \/ /\ UNCHANGED <<ops, others, isActive>>
              /\ \/ Less(TurnsLeft(stack', "send"), TurnsLeft(stack, "send"))
                 \/ /\ TurnsLeft(stack', "send") = TurnsLeft(stack, "send")
                    /\ Less(TurnsLeft(stack', "receive"), TurnsLeft(stack, "receive"))
                 \/ /\ TurnsLeft(stack', "send") = TurnsLeft(stack, "send")
                    /\ TurnsLeft(stack', "receive") = TurnsLeft(stack, "receive")
                    /\ Less(TurnsLeft(stack', "trigger"), TurnsLeft(stack, "trigger"))
           \/ /\ UNCHANGED <<ops, others, isActive, stack>>
              /\ \/ Less(PhasesLeft', PhasesLeft)
                 \/ UNCHANGED phase /\ Less(DirtyLevels', DirtyLevels)
                 \/ UNCHANGED <<phase, dirty>> /\ Less(LoopLeft', LoopLeft)
    PROVE  LessWork(Work', Work)
<1>1. \A i \in 1 .. 9 : i \in 1 .. Len(Work)
  BY WorkParts
<1>2. UNCHANGED others => NotListening' = NotListening
  BY DEF NotListening
<1>3. UNCHANGED isActive => ActiveEvents' = ActiveEvents
  BY DEF ActiveEvents
<1>4. UNCHANGED phase => PhasesLeft' = PhasesLeft
  BY DEF PhasesLeft
<1>5. UNCHANGED dirty => DirtyLevels' = DirtyLevels
  BY DEF DirtyLevels
<1> QED
  BY <1>1, <1>2, <1>3, <1>4, <1>5, WorkParts DEF LessWork

\* Events, listeners and the calls that the code of events makes.
LEMMA EventStepsAdvance ==
    ASSUME IInv, ops \in Nat, NEW e \in Events,
           \/ \E t \in Times : ActivateEvent(e, t)
           \/ DeactivateEvent(e) \/ CallEvent(e) \/ OthersAddListener(e)
           \/ \E l \in Levels : OthersSend(l)
    PROVE  LessWork(Work', Work)
<1>1. ASSUME SomeOp PROVE LessWork(Work', Work)
  <2>1. ops \notin 1 .. ops' /\ ops \in 1 .. ops /\ 1 .. ops' \subseteq 1 .. ops
    BY <1>1 DEF SomeOp
  <2> QED
    BY <2>1, WorkLessens DEF Less
<1>2. ASSUME DeactivateEvent(e) PROVE LessWork(Work', Work)
  <2>1. /\ isActive \in [Events -> BOOLEAN] /\ isActive' = [isActive EXCEPT ![e] = FALSE]
        /\ isActive[e] /\ UNCHANGED <<ops, others>>
    BY <1>2 DEF DeactivateEvent, Deactivated, IInv, TypesInv, ListsInv, EventTypes
  <2>2. Less(ActiveEvents', ActiveEvents)
    BY <2>1 DEF ActiveEvents, Less
  <2> QED
    BY <2>1, <2>2, WorkLessens
<1>3. ASSUME OthersAddListener(e) PROVE LessWork(Work', Work)
  <2> DEFINE h == LevelOf[e]
  <2>1. /\ h \in Levels /\ others \in [Levels -> Seq(Events)] /\ ~Contains(others[h], e)
        /\ others' = [others EXCEPT ![h] = Cons(e, @)] /\ UNCHANGED ops
    BY <1>3, ConstantsAssumption DEF OthersAddListener, Levels, IInv, TypesInv, TickTypes
  <2>2. \A f : Contains(Cons(e, others[h]), f) <=> f = e \/ Contains(others[h], f)
    <3> DEFINE s == others[h]
    <3>1. s \in Seq(Events)
      BY <2>1
    <3> HIDE DEF s
    <3>2. /\ Len(Cons(e, s)) = Len(s) + 1
          /\ \A i \in 1 .. Len(s) + 1 : Cons(e, s)[i] = IF i = 1 THEN e ELSE s[i - 1]
      BY <3>1 DEF Cons
    <3>3. ASSUME NEW f, Contains(s, f) PROVE Contains(Cons(e, s), f)
      <4>1. PICK i \in 1 .. Len(s) : s[i] = f
        BY <3>3 DEF Contains
      <4>2. i + 1 \in 1 .. Len(s) + 1 /\ i + 1 # 1 /\ (i + 1) - 1 = i
        BY <3>1, <4>1
      <4> QED
        BY <3>2, <4>1, <4>2 DEF Contains
    <3>4. Contains(Cons(e, s), e)
      <4>1. 1 \in 1 .. Len(s) + 1
        BY <3>1
      <4> QED
        BY <3>2, <4>1 DEF Contains
    <3>5. ASSUME NEW f, f # e, Contains(Cons(e, s), f) PROVE Contains(s, f)
      <4>1. PICK i \in 1 .. Len(s) + 1 : Cons(e, s)[i] = f
        BY <3>2, <3>5 DEF Contains
      <4>2. i # 1 /\ s[i - 1] = f
        BY <3>2, <3>5, <4>1
      <4>3. i - 1 \in 1 .. Len(s)
        BY <3>1, <4>2
      <4> QED
        BY <4>2, <4>3 DEF Contains
    <3> QED
      BY <3>3, <3>4, <3>5 DEF s
  <2>3. \A f \in Events : LevelOf[f] \in Levels
    BY ConstantsAssumption DEF Levels
  <2>4. \A f \in Events : Contains(others'[LevelOf[f]], f)
                            <=> f = e \/ Contains(others[LevelOf[f]], f)
    BY <2>1, <2>2, <2>3
  <2>5. Less(NotListening', NotListening)
    BY <2>1, <2>4 DEF NotListening, Less
  <2> QED
    BY <2>1, <2>5, WorkLessens
<1> QED
  BY <1>1, <1>2, <1>3 DEF ActivateEvent, CallEvent, OthersSend

\* What is fired stops being active, if it was, and nothing else changes of the
\* first three.
LEMMA FireUses ==
    ASSUME IInv, NEW e \in Events, NEW below, Fire(e, below), UNCHANGED <<ops, others>>
    PROVE  IF isActive[e] THEN LessWork(Work', Work) ELSE isActive' = isActive
<1>1. isActive \in [Events -> BOOLEAN] /\ isActive' = [isActive EXCEPT ![e] = FALSE]
  BY DEF Fire, Deactivated, IInv, TypesInv, ListsInv, EventTypes
<1>2. isActive[e] => Less(ActiveEvents', ActiveEvents)
  BY <1>1 DEF ActiveEvents, Less
<1> QED
  BY <1>1, <1>2, WorkLessens

\* The calls under way.
LEMMA CallStepsAdvance ==
    ASSUME IInv, Return \/ SendToNext \/ PassOn \/ PassOver \/ EndReceive
    PROVE  LessWork(Work', Work)
<1>1. TickTypes /\ stack # <<>> /\ Top \in Frames
  BY TopOfStack DEF IInv, TypesInv, Return, SendToNext, PassOn, PassOver, EndReceive, TopIs
<1>2. CASE Return
  <2>1. Top.kind = "trigger" /\ stack' = Tail(stack) /\ UNCHANGED <<ops, others, isActive>>
    BY <1>2 DEF Return, TopIs, eventVars
  <2>2. \A kind : LeftOfTop({}, kind)
    BY <2>1 DEF LeftOfTop
  <2>3. Turns(Top, "trigger") = {0} /\ Turns(Top, "send") = {} /\ Turns(Top, "receive") = {}
    BY <2>1 DEF Turns
  <2>4. Less({}, {0})
    BY DEF Less
  <2>5. TurnsLeft(stack', "send") = TurnsLeft(stack, "send")
    BY <1>1, <2>2, <2>3, TurnsOfTop
  <2>6. TurnsLeft(stack', "receive") = TurnsLeft(stack, "receive")
    BY <1>1, <2>2, <2>3, TurnsOfTop
  <2>7. Less(TurnsLeft(stack', "trigger"), TurnsLeft(stack, "trigger"))
    BY <1>1, <2>2, <2>3, <2>4, TurnsOfTop
  <2> QED
    BY <2>1, <2>5, <2>6, <2>7, WorkLessens
<1>3. CASE EndReceive
  <2>1. /\ Top.kind = "receive" /\ Top.rest = <<>> /\ stack' = Tail(stack)
        /\ UNCHANGED <<ops, others, isActive>>
    BY <1>3 DEF EndReceive, TopIs, eventVars
  <2>2. \A kind : LeftOfTop({}, kind)
    BY <2>1 DEF LeftOfTop
  <2>3. Turns(Top, "send") = {} /\ Turns(Top, "receive") = 0 .. 0
    BY <2>1 DEF Turns
  <2>4. Less({}, 0 .. 0)
    BY DEF Less
  <2>5. TurnsLeft(stack', "send") = TurnsLeft(stack, "send")
    BY <1>1, <2>2, <2>3, TurnsOfTop
  <2>6. Less(TurnsLeft(stack', "receive"), TurnsLeft(stack, "receive"))
    BY <1>1, <2>2, <2>3, <2>4, TurnsOfTop
  <2> QED
    BY <2>1, <2>5, <2>6, WorkLessens
<1>4. CASE PassOver \/ PassOn
  <2> DEFINE e == Head(Top.rest)
             rest == Tail(Top.rest)
             received == Receive(Top.at, rest)
             below == <<received>> \o Tail(stack)
  <2>1. /\ Top.kind = "receive" /\ Top.at \in Levels /\ Top.rest \in Seq(Events)
        /\ Top.rest # <<>> /\ UNCHANGED <<ops, others>>
    BY <1>1, <1>4, FrameShapes DEF PassOn, PassOver, TopIs
  <2>2. rest \in Seq(Events) /\ Len(rest) = Len(Top.rest) - 1 /\ e \in Events
    BY <2>1
  <2>3. received \in Frames
    BY <2>1, <2>2, FramesMade
  <2>4. /\ Turns(received, "send") = {}
        /\ Turns(received, "receive") = 0 .. Len(rest)
    BY TurnsOfFrames
  <2>5. Turns(Top, "send") = {} /\ Turns(Top, "receive") = 0 .. Len(Top.rest)
    BY <2>1 DEF Turns
  <2>6. Less(0 .. Len(rest), 0 .. Len(Top.rest))
    <3>1. Len(Top.rest) \in Nat
      BY <2>1
    <3>2. Len(Top.rest) \in 0 .. Len(Top.rest) /\ Len(Top.rest) \notin 0 .. Len(rest)
          /\ 0 .. Len(rest) \subseteq 0 .. Len(Top.rest)
      BY <2>2, <3>1
    <3> QED
      BY <3>2 DEF Less
  <2>7. ASSUME UNCHANGED isActive, LeftOfTop({}, "send"), LeftOfTop(0 .. Len(rest), "receive")
        PROVE  LessWork(Work', Work)
    <3>1. TurnsLeft(stack', "send") = TurnsLeft(stack, "send")
      BY <1>1, <2>5, <2>7, TurnsOfTop
    <3>2. Less(TurnsLeft(stack', "receive"), TurnsLeft(stack, "receive"))
      BY <1>1, <2>5, <2>6, <2>7, TurnsOfTop
    <3> QED
      BY <2>1, <2>7, <3>1, <3>2, WorkLessens
  <2>8. CASE PassOver
    <3>1. stack' = below /\ UNCHANGED isActive
      BY <2>8 DEF PassOver, eventVars
    <3> HIDE DEF received
    <3>2. LeftOfTop({}, "send") /\ LeftOfTop(0 .. Len(rest), "receive")
      BY <2>3, <2>4, <3>1 DEF LeftOfTop
    <3> QED
      BY <2>7, <3>1, <3>2
  <2>9. CASE PassOn
    <3>1. Fire(e, below)
      BY <2>9 DEF PassOn
    <3>2. CASE isActive[e]
      BY <2>1, <2>2, <3>1, <3>2, FireUses
    <3>3. CASE ~isActive[e]
      <4>1. isActive' = isActive
        BY <2>1, <2>2, <3>1, <3>3, FireUses
      <4>2. stack' = <<Trigger(e)>> \o below /\ Trigger(e) \in Frames
        BY <2>2, <3>1, FramesMade DEF Fire
      <4>3. Turns(Trigger(e), "send") = {} /\ Turns(Trigger(e), "receive") = {}
        BY TurnsOfFrames
      <4> HIDE DEF received, e
      <4>4. LeftOfTop({}, "send") /\ LeftOfTop(0 .. Len(rest), "receive")
        BY <2>3, <2>4, <4>2, <4>3 DEF LeftOfTop
      <4> QED
        BY <2>7, <4>1, <4>4
    <3> QED
      BY <3>2, <3>3
  <2> QED
    BY <1>4, <2>8, <2>9
<1>5. CASE SendToNext
  <2> DEFINE n == Top.next
             sent == Send(Top.from, n + 1)
             received == Receive(n, others[n])
  <2>1. /\ Top.kind = "send" /\ Top.from \in Levels /\ n \in 0 .. NLevels
        /\ UNCHANGED <<ops, others, isActive>>
    BY <1>1, <1>5, FrameShapes DEF SendToNext, TopIs, eventVars
  <2>2. Turns(Top, "send") = n .. NLevels
    BY <2>1 DEF Turns
  <2>3. \/ stack' = Tail(stack)
        \/ n # NLevels /\ stack' = <<sent>> \o Tail(stack)
        \/ n # NLevels /\ stack' = <<received>> \o (<<sent>> \o Tail(stack))
    BY <1>5 DEF SendToNext, OthersReceive
  <2>4. CASE stack' = Tail(stack)
    <3>1. Less({}, n .. NLevels)
      BY <2>1, ConstantsAssumption DEF Less
    <3>2. LeftOfTop({}, "send")
      BY <2>4 DEF LeftOfTop
    <3> QED
      BY <1>1, <2>1, <2>2, <3>1, <3>2, TurnsOfTop, WorkLessens
  <2>5. CASE n # NLevels /\ stack' # Tail(stack)
    <3>1. n \in Levels /\ n + 1 \in 0 .. NLevels
      BY <2>1, <2>5, ConstantsAssumption DEF Levels
    <3>2. sent \in Frames /\ received \in Frames
      BY <1>1, <2>1, <3>1, FramesMade DEF TickTypes
    <3>3. Turns(sent, "send") = n + 1 .. NLevels /\ Turns(received, "send") = {}
      BY TurnsOfFrames
    <3>4. Less(n + 1 .. NLevels, n .. NLevels)
      <4>1. n \in n .. NLevels /\ n \notin n + 1 .. NLevels /\ n + 1 .. NLevels \subseteq n .. NLevels
        BY <3>1, ConstantsAssumption DEF Levels
      <4> QED
        BY <4>1 DEF Less
    <3> HIDE DEF sent, received
    <3>5. LeftOfTop(n + 1 .. NLevels, "send")
      BY <2>3, <2>5, <3>2, <3>3 DEF LeftOfTop
    <3>6. Less(TurnsLeft(stack', "send"), TurnsLeft(stack, "send"))
      BY <1>1, <2>2, <3>4, <3>5, TurnsOfTop
    <3> QED
      BY <2>1, <3>6, WorkLessens
  <2> QED
    BY <2>3, <2>4, <2>5
<1> QED
  BY <1>2, <1>3, <1>4, <1>5

\* The tick and its levels' loop.
LEMMA TickStepsAdvance ==
    ASSUME IInv, InLevelIsDirty,
           BlocksDone \/ EnterLevel \/ NextLevel \/ TriggerFirst \/ LeaveLevel \/ EndTick
    PROVE  LessWork(Work', Work)
<1>0. /\ NLevels \in Nat /\ Levels = 0 .. NLevels - 1
      /\ level \in 0 .. NLevels
  BY ConstantsAssumption DEF IInv, TypesInv, TickTypes, Levels
<1>1. CASE BlocksDone
  <2>1. Less({1}, {1, 2})
    BY DEF Less
  <2> QED
    BY <1>1, <2>1, WorkLessens DEF BlocksDone, eventVars, PhasesLeft
<1>2. CASE EndTick
  <2>1. Less({}, {1})
    BY DEF Less
  <2> QED
    BY <1>2, <2>1, WorkLessens DEF EndTick, AtLevel, eventVars, PhasesLeft
<1>3. CASE EnterLevel
  <2>1. /\ level \in Levels /\ ~inLevel /\ inLevel' /\ level' = level
        /\ UNCHANGED <<ops, others, isActive, stack, phase, dirty>>
    BY <1>3 DEF EnterLevel, AtLevel, eventVars
  <2>2. Less(2 * level + 1 .. 2 * NLevels, 2 * level + 0 .. 2 * NLevels)
    BY <1>0, <2>1 DEF Less
  <2> QED
    BY <2>1, <2>2, WorkLessens DEF LoopLeft
<1>4. CASE NextLevel
  <2>1. /\ level \in Levels /\ ~inLevel /\ inLevel' = inLevel /\ level' = level + 1
        /\ UNCHANGED <<ops, others, isActive, stack, phase, dirty>>
    BY <1>4 DEF NextLevel, AtLevel, eventVars
  <2>2. Less(2 * (level + 1) + 0 .. 2 * NLevels, 2 * level + 0 .. 2 * NLevels)
    <3>1. 2 * level + 0 \in 2 * level + 0 .. 2 * NLevels
      BY <1>0, <2>1
    <3> QED
      BY <1>0, <2>1, <3>1 DEF Less
  <2> QED
    BY <2>1, <2>2, WorkLessens DEF LoopLeft
<1>5. CASE TriggerFirst
  <2> DEFINE e == Head(active[level])
  <2>1. level \in Levels /\ active[level] # <<>>
    BY <1>5 DEF TriggerFirst, SomeDue, IInv, TypesInv, TickShape
  <2>2. active[level] \in Seq(Events) /\ e \in Events /\ e \in ToSet(active[level])
    <3>1. active[level] \in Seq(Events)
      BY <2>1, ListFacts DEF IInv, TypesInv
    <3>2. e = active[level][1] /\ 1 \in 1 .. Len(active[level])
      BY <2>1, <3>1
    <3> QED
      BY <3>1, <3>2 DEF ToSet
  <2>3. isActive[e]
    BY <2>1, <2>2, ListFacts DEF IInv, TypesInv
  <2>4. Fire(e, <<>>) /\ UNCHANGED <<ops, others>>
    BY <1>5 DEF TriggerFirst
  <2> QED
    BY <2>2, <2>3, <2>4, FireUses
<1>6. CASE LeaveLevel
  <2>1. /\ level \in Levels /\ dirty[level] /\ dirty \in [Levels -> BOOLEAN]
        /\ dirty' = [dirty EXCEPT ![level] = FALSE]
        /\ UNCHANGED <<ops, others, isActive, stack, phase>>
    BY <1>6 DEF LeaveLevel, InLevelIsDirty, IInv, TypesInv, TickTypes, TickShape, eventVars
  <2>2. Less(DirtyLevels', DirtyLevels)
    BY <2>1 DEF DirtyLevels, Less
  <2> QED
    BY <2>1, <2>2, WorkLessens
<1> QED
  BY <1>1, <1>2, <1>3, <1>4, <1>5, <1>6

\* Only leaving a level makes it clean.
LEMMA InLevelStaysDirty ==
    ASSUME IInv, InLevelIsDirty, [Next]_vars
    PROVE  InLevelIsDirty'
<1>0. /\ dirty \in [Levels -> BOOLEAN] /\ \A e \in Events : LevelOf[e] \in Levels
      /\ inLevel => level \in Levels
  BY ConstantsAssumption DEF IInv, TypesInv, TickTypes, TickShape, Levels
<1>1. ASSUME NEW e \in Events, NEW below, Fire(e, below), UNCHANGED tickVars
      PROVE  InLevelIsDirty'
  BY <1>0, <1>1 DEF Fire, InLevelIsDirty, tickVars
<1>2. ASSUME UNCHANGED <<dirty, tickVars>>
      PROVE  InLevelIsDirty'
  BY <1>2 DEF InLevelIsDirty, tickVars
<1>3. ASSUME NEW e \in Events, CallEvent(e) PROVE InLevelIsDirty'
  BY <1>1, <1>3 DEF CallEvent
<1>4. CASE PassOn
  <2>1. TopIs("receive") /\ Top.rest # <<>>
    BY <1>4 DEF PassOn
  <2>2. Head(Top.rest) \in Events
    BY <2>1, TopOfStack, FrameShapes DEF IInv, TypesInv
  <2> QED
    BY <1>1, <1>4, <2>2 DEF PassOn
<1>5. CASE TriggerFirst
  <2>1. level \in Levels /\ active[level] # <<>> /\ active[level] \in Seq(Events)
    BY <1>5, ListFacts DEF TriggerFirst, SomeDue, IInv, TypesInv, TickShape
  <2>2. Head(active[level]) \in Events
    BY <2>1
  <2> QED
    BY <1>1, <1>5, <2>2 DEF TriggerFirst
<1>6. CASE BeginTick \/ BlocksDone \/ EndTick \/ EnterLevel \/ NextLevel \/ LeaveLevel
  BY <1>0, <1>6 DEF BeginTick, BlocksDone, EndTick, EnterLevel, NextLevel, LeaveLevel, AtLevel,
     InLevelIsDirty, IInv, TypesInv, TickShape
<1>7. CASE Return \/ SendToNext \/ PassOver \/ EndReceive \/ UNCHANGED vars
  BY <1>2, <1>7 DEF Return, SendToNext, PassOver, EndReceive, vars, tickVars
<1>8. ASSUME NEW e \in Events,
             \/ \E t \in Times : ActivateEvent(e, t)
             \/ DeactivateEvent(e) \/ OthersAddListener(e)
      PROVE  InLevelIsDirty'
  BY <1>2, <1>8 DEF ActivateEvent, DeactivateEvent, OthersAddListener
<1>9. ASSUME NEW l \in Levels, OthersSend(l) PROVE InLevelIsDirty'
  BY <1>2, <1>9 DEF OthersSend
<1> QED
  BY <1>3, <1>4, <1>5, <1>6, <1>7, <1>8, <1>9 DEF Next, Finished

\* In a tick every step of the handlers, of the calls they make and of the loop over
\* the levels uses up some of the work that is left.
THEOREM TickAdvancesHolds == Spec => TickAdvances
<1>1. ASSUME IInv, InLevelIsDirty, TypeOK, [Next]_vars
      PROVE  [phase # "idle" => LessWork(Work', Work)]_vars
  <2> SUFFICES ASSUME Next, phase # "idle" PROVE LessWork(Work', Work)
    BY <1>1
  <2>1. ops \in Nat
    BY <1>1, ConstantsAssumption DEF TypeOK
  <2>2. ~BeginTick /\ ~Finished
    BY DEF BeginTick, Finished
  <2>3. ASSUME NEW e \in Events,
               \/ \E t \in Times : ActivateEvent(e, t)
               \/ DeactivateEvent(e) \/ CallEvent(e) \/ OthersAddListener(e)
        PROVE  LessWork(Work', Work)
    BY <1>1, <2>1, <2>3, EventStepsAdvance
  <2>4. ASSUME NEW l \in Levels, OthersSend(l) PROVE LessWork(Work', Work)
    <3>1. Top.event \in Events
      BY <1>1, <2>4, TopOfStack, FrameShapes DEF OthersSend, IInv, TypesInv
    <3> QED
      BY <1>1, <2>1, <2>4, <3>1, EventStepsAdvance
  <2> QED
    BY <1>1, <2>2, <2>3, <2>4, CallStepsAdvance, TickStepsAdvance DEF Next
<1>2. Init => InLevelIsDirty
  BY DEF Init, InLevelIsDirty
<1>3. IInv /\ InLevelIsDirty /\ [Next]_vars => InLevelIsDirty'
  BY InLevelStaysDirty
<1>4. IInv /\ InLevelIsDirty /\ TypeOK /\ [Next]_vars => [phase # "idle" => LessWork(Work', Work)]_vars
  BY <1>1
<1>5. Spec => []InLevelIsDirty
  BY <1>2, <1>3, Invariance, PTL DEF Spec
<1> HIDE DEF Work
<1> QED
  BY <1>4, <1>5, Invariance, TypesHold, PTL DEF Spec, TickAdvances

\* All of that work is finite when there are finitely many events: no tick can take
\* infinitely many steps.
WorkIsFinite == \A i \in 1 .. Len(Work) : IsFiniteSet(Work[i])

THEOREM WorkIsFiniteHolds == Spec => []WorkIsFinite
<1>1. ASSUME IInv, TypeOK PROVE WorkIsFinite
  <2>0. NLevels \in Nat /\ level \in Nat /\ ops \in Nat /\ stack \in Seq(Frames)
    BY <1>1, ConstantsAssumption DEF TypeOK, IInv, TypesInv, TickTypes
  <2>1. \A a, b \in Int : IsFiniteSet(a .. b)
    BY FS_Interval
  <2>2. IsFiniteSet(NotListening) /\ IsFiniteSet(ActiveEvents)
    <3>1. NotListening \in SUBSET Events /\ ActiveEvents \in SUBSET Events
      BY DEF NotListening, ActiveEvents
    <3> QED
      BY <3>1, FiniteEvents, FS_Subset
  <2>3. IsFiniteSet(DirtyLevels) /\ IsFiniteSet(PhasesLeft)
    <3>1. DirtyLevels \in SUBSET (0 .. NLevels - 1) /\ PhasesLeft \in SUBSET (1 .. 2)
      BY DEF PhasesLeft, DirtyLevels, Levels
    <3>2. IsFiniteSet(0 .. NLevels - 1) /\ IsFiniteSet(1 .. 2)
      <4>1. NLevels - 1 \in Int /\ 0 \in Int /\ 1 \in Int /\ 2 \in Int
        BY <2>0
      <4> QED
        BY <2>1, <4>1
    <3> QED
      BY <3>1, <3>2, FS_Subset
  <2>4. IsFiniteSet(1 .. ops) /\ IsFiniteSet(LoopLeft)
    BY <2>0, <2>1 DEF LoopLeft
  <2>5. ASSUME NEW kind \in {"send", "receive", "trigger"}
        PROVE  IsFiniteSet(TurnsLeft(stack, kind))
    <3> DEFINE n == Len(stack)
               Part(i) == {i} \X Turns(stack[n + 1 - i], kind)
               part == [i \in 1 .. n |-> Part(i)]
    <3>1. n \in Nat /\ \A i \in 1 .. n : n + 1 - i \in 1 .. n
      BY <2>0
    <3>2. ASSUME NEW i \in 1 .. n PROVE IsFiniteSet(Part(i))
      <4> DEFINE f == stack[n + 1 - i]
      <4>1. f \in Frames
        BY <2>0, <3>1
      <4> HIDE DEF f
      <4>2. IsFiniteSet(Turns(f, kind))
        <5>1. IsFiniteSet({}) /\ IsFiniteSet({0})
          BY FS_EmptySet, FS_Singleton
        <5>2. f.kind = "send" => IsFiniteSet(f.next .. NLevels)
          BY <2>0, <2>1, <4>1, FrameShapes
        <5>3. f.kind = "receive" => IsFiniteSet(0 .. Len(f.rest))
          <6>1. f.kind = "receive" => Len(f.rest) \in Int
            BY <4>1, FrameShapes
          <6> QED
            BY <2>1, <6>1
        <5> QED
          BY <2>5, <5>1, <5>2, <5>3 DEF Turns
      <4>3. IsFiniteSet({i} \X Turns(f, kind))
        BY <4>2, FS_Singleton, FS_Product
      <4> QED
        BY <4>3 DEF f
    <3> HIDE DEF Part, n
    <3>3. part \in Surjection(1 .. n, {Part(i) : i \in 1 .. n})
      BY DEF Surjection
    <3>4. IsFiniteSet(1 .. n)
      BY <2>1, <3>1
    <3>5. IsFiniteSet({Part(i) : i \in 1 .. n})
      BY <3>3, <3>4, FS_Surjection
    <3>6. IsFiniteSet(UNION {Part(i) : i \in 1 .. n})
      BY <3>2, <3>5, FS_UNION
    <3> QED
      BY <3>6 DEF TurnsLeft, Part, n
  <2>6. \A i \in 1 .. 9 : IsFiniteSet(Work[i])
    BY <2>2, <2>3, <2>4, <2>5, WorkParts
  <2> QED
    BY <2>6, WorkParts DEF WorkIsFinite
<1> HIDE DEF WorkIsFinite
<1>2. IInv /\ TypeOK => WorkIsFinite
  BY <1>1
<1> QED
  BY <1>2, Invariance, TypesHold, PTL

\* The fairness of FairSpec, with what enables a step written out: in a tick there is
\* always one.
TicksRun == []<>(phase = "idle") \/ []<><<Next>>_vars

\* The work left in a tick does not stay what it is, whatever it is: either the tick
\* ends or less is left. That a tick ends follows, because the work is finite.
THEOREM WorkGoesOn ==
    ASSUME NEW w
    PROVE  Spec /\ TicksRun =>
             (phase # "idle" /\ Work = w ~> phase = "idle" \/ LessWork(Work, w))
<1> DEFINE Left == phase # "idle" /\ Work = w
           Done == phase = "idle" \/ LessWork(Work, w)
<1>1. [phase # "idle" => LessWork(Work', Work)]_vars /\ <<Next>>_vars /\ Left => Done'
  OBVIOUS
<1>2. [phase # "idle" => LessWork(Work', Work)]_vars /\ Left => Left' \/ Done'
  <2>1. UNCHANGED vars => UNCHANGED <<phase, Work>>
    BY DEF vars, eventVars, tickVars, Work, NotListening, ActiveEvents, DirtyLevels, PhasesLeft, LoopLeft, TurnsLeft, Turns
  <2> QED
    BY <2>1
<1>3. Left => phase # "idle"
  OBVIOUS
<1>4. phase = "idle" => Done
  OBVIOUS
<1> HIDE DEF Left, Done
<1>5. Spec /\ TicksRun => (Left ~> Done)
  BY <1>1, <1>2, <1>3, <1>4, TickAdvancesHolds, PTL DEF TicksRun, TickAdvances, Spec
<1> QED
  BY <1>5 DEF Left, Done
=============================================================================
