------------------------- MODULE BlockControlProofs -------------------------
(***************************************************************************)
(* Proofs about BlockControl, for any number of blocks, teams and mates:   *)
(* blocks and mates point to each other, the counts of mates in control    *)
(* are right, the lists hold the blocks they should, a mate that loses its *)
(* block gets another if there is one, with one team nobody waits beside a *)
(* free block, and with several only beside one that another team's mate   *)
(* gives up or that is opened to the mate's team.                          *)
(***************************************************************************)
EXTENDS BlockControl, ListLemmas

LEMMA NoMateIsNone ==
    /\ NoMate \notin Mates
    /\ \A p \in Mates : TeamOf(p) \in Teams
    /\ AnyTeam \notin Teams
    /\ TeamOf(NoMate) = AnyTeam
BY ConstantsAssumption DEF NoMate, Mates, Teams, TeamOf, AnyTeam

LEMMA TeamsForShape ==
    ASSUME NEW team \in Teams \cup {AnyTeam}
    PROVE  /\ TeamsFor(team) \in SUBSET Teams
           /\ team = AnyTeam => TeamsFor(team) = Teams
           /\ team # AnyTeam => TeamsFor(team) = {team}
BY NoMateIsNone DEF TeamsFor

-----------------------------------------------------------------------------
(* The lists of blocks *)

ListTypes ==
    /\ ordered \in [Teams -> Seq(Blocks)]
    /\ \A t \in Teams : IsInjective(ordered[t])

\* A block is inserted at a place of the list, or at its end.
LEMMA SlotIsPlace ==
    ASSUME NEW s \in Seq(Blocks), NEW b, NEW pos
    PROVE  Slot(s, b, pos) \in 1 .. Len(s) + 1
<1> DEFINE T == {i \in 1 .. Len(s) : pos[b] < pos[s[i]]} \cup {Len(s) + 1}
<1>1. Len(s) \in Nat
  OBVIOUS
<1>2. T \in SUBSET Nat /\ T # {} /\ T \subseteq 1 .. Len(s) + 1
  BY <1>1
<1>3. Min(T) \in T
  <2> HIDE DEF T
  <2> QED
    BY <1>2, MinIsLeast
<1>4. Slot(s, b, pos) = Min(T)
  BY DEF Slot
<1> HIDE DEF T
<1> QED
  BY <1>2, <1>3, <1>4

\* A block that is in none of the lists of some teams enters them.
LEMMA AddedToLists ==
    ASSUME ListTypes, NEW b \in Blocks, NEW S \in SUBSET Teams, NEW pos,
           \A t \in S : b \notin ToSet(ordered[t])
    PROVE  LET r == AddToLists(b, S, pos)
           IN  /\ r \in [Teams -> Seq(Blocks)]
               /\ \A t \in Teams :
                    /\ IsInjective(r[t])
                    /\ ToSet(r[t]) = IF t \in S THEN ToSet(ordered[t]) \cup {b} ELSE ToSet(ordered[t])
<1> DEFINE r == AddToLists(b, S, pos)
<1>1. ASSUME NEW t \in Teams
      PROVE  /\ r[t] \in Seq(Blocks)
             /\ IsInjective(r[t])
             /\ ToSet(r[t]) = IF t \in S THEN ToSet(ordered[t]) \cup {b} ELSE ToSet(ordered[t])
  <2>1. ordered[t] \in Seq(Blocks) /\ IsInjective(ordered[t])
    BY DEF ListTypes
  <2>2. CASE t \in S
    <3> DEFINE p == Slot(ordered[t], b, pos)
    <3>1. r[t] = InsertAt(ordered[t], p, b)
      BY <2>2 DEF AddToLists
    <3>2. p \in 1 .. Len(ordered[t]) + 1
      BY <2>1, SlotIsPlace
    <3> HIDE DEF p, r
    <3>3. InsertAt(ordered[t], p, b) \in Seq(Blocks)
      BY <2>1, <3>2, InsertAtShape
    <3>4. /\ ToSet(InsertAt(ordered[t], p, b)) = ToSet(ordered[t]) \cup {b}
          /\ IsInjective(InsertAt(ordered[t], p, b))
      BY <2>1, <2>2, <3>2, InsertAtOnce
    <3> QED
      BY <2>2, <3>1, <3>3, <3>4
  <2>3. CASE t \notin S
    BY <2>1, <2>3 DEF AddToLists
  <2> QED
    BY <2>2, <2>3
<1>2. r \in [Teams -> Seq(Blocks)]
  <2>1. DOMAIN r = Teams /\ r = [t \in Teams |-> r[t]]
    BY DEF AddToLists
  <2> HIDE DEF r
  <2> QED
    BY <1>1, <2>1
<1> QED
  BY <1>1, <1>2

\* A block that is in all lists of some teams leaves them.
LEMMA RemovedFromLists ==
    ASSUME ListTypes, NEW b \in Blocks, NEW S \in SUBSET Teams,
           \A t \in S : b \in ToSet(ordered[t])
    PROVE  LET r == RemoveFromLists(b, S)
           IN  /\ r \in [Teams -> Seq(Blocks)]
               /\ \A t \in Teams :
                    /\ IsInjective(r[t])
                    /\ ToSet(r[t]) = IF t \in S THEN ToSet(ordered[t]) \ {b} ELSE ToSet(ordered[t])
<1> DEFINE r == RemoveFromLists(b, S)
<1>1. ASSUME NEW t \in Teams
      PROVE  /\ r[t] \in Seq(Blocks)
             /\ IsInjective(r[t])
             /\ ToSet(r[t]) = IF t \in S THEN ToSet(ordered[t]) \ {b} ELSE ToSet(ordered[t])
  <2>1. ordered[t] \in Seq(Blocks) /\ IsInjective(ordered[t])
    BY DEF ListTypes
  <2>2. CASE t \in S
    <3>1. r[t] = RemoveFirst(ordered[t], b)
      BY <2>2 DEF RemoveFromLists
    <3>2. /\ RemoveFirst(ordered[t], b) \in Seq(Blocks)
          /\ ToSet(RemoveFirst(ordered[t], b)) = ToSet(ordered[t]) \ {b}
          /\ IsInjective(RemoveFirst(ordered[t], b))
      BY <2>1, <2>2, RemoveFirstOnce
    <3> HIDE DEF r
    <3> QED
      BY <2>2, <3>1, <3>2
  <2>3. CASE t \notin S
    BY <2>1, <2>3 DEF RemoveFromLists
  <2> QED
    BY <2>2, <2>3
<1>2. r \in [Teams -> Seq(Blocks)]
  <2>1. DOMAIN r = Teams /\ r = [t \in Teams |-> r[t]]
    BY DEF RemoveFromLists
  <2> HIDE DEF r
  <2> QED
    BY <1>1, <2>1
<1> QED
  BY <1>1, <1>2

\* Where a block of an injective list is.
LEMMA IndexOfShape ==
    ASSUME NEW s \in Seq(Blocks), NEW b \in ToSet(s)
    PROVE  IndexOf(s, b) \in 1 .. Len(s) /\ s[IndexOf(s, b)] = b
<1>1. \E i \in 1 .. Len(s) : s[i] = b
  BY DEF ToSet
<1> QED
  BY <1>1 DEF IndexOf

\* Repositioning a block in a list changes the order only.
LEMMA RepositionedKeepsSet ==
    ASSUME NEW s \in Seq(Blocks), IsInjective(s), NEW b \in ToSet(s), NEW pos
    PROVE  /\ Repositioned(s, b, pos) \in Seq(Blocks)
           /\ IsInjective(Repositioned(s, b, pos))
           /\ ToSet(Repositioned(s, b, pos)) = ToSet(s)
<1> DEFINE r     == RemoveFirst(s, b)
           i     == IndexOf(s, b)
           stay  == {j \in 1 .. i - 1 : pos[s[j]] <= pos[b]} \cup {0}
           later == {j \in i + 1 .. Len(s) : pos[b] < pos[s[j]]} \cup {Len(s) + 1}
           back  == 1 + Max(stay)
           ahead == Min(later)
           p     == IF back < i THEN back ELSE ahead - 1
<1>0. Len(s) \in Nat /\ b \in Blocks
  BY DEF ToSet
<1>1. i \in 1 .. Len(s) /\ s[i] = b
  BY IndexOfShape
<1>2. /\ r \in Seq(Blocks) /\ IsInjective(r)
      /\ ToSet(r) = ToSet(s) \ {b}
  BY RemoveFirstOnce
<1>3. Len(r) = Len(s) - 1
  <2>1. \A j \in 1 .. i - 1 : s[j] # b
    BY <1>0, <1>1 DEF IsInjective
  <2>2. r = RemoveAt(s, i)
    BY <1>1, <2>1, RemoveFirstIsRemoveAt
  <2> HIDE DEF r, i
  <2> QED
    BY <1>1, <2>2, RemoveAtShape
<1>4. Repositioned(s, b, pos) = InsertAt(r, p, b)
  BY DEF Repositioned
<1> HIDE DEF r, i
<1>5. ahead \in i + 1 .. Len(s) + 1
  <2>1. later \in SUBSET Nat /\ later # {} /\ later \subseteq i + 1 .. Len(s) + 1
    BY <1>0, <1>1
  <2> HIDE DEF later
  <2> QED
    BY <2>1, MinIsLeast
<1>6. Max(stay) \in Nat
  <2>1. stay \in SUBSET Nat /\ 0 \in stay /\ \A x \in stay : x <= i
    BY <1>0, <1>1
  <2>2. i \in Nat /\ stay # {}
    BY <1>0, <1>1
  <2> HIDE DEF stay
  <2>3. Max(stay) \in stay
    BY <2>1, <2>2, MaxIsGreatest
  <2> QED
    BY <2>1, <2>3
<1> HIDE DEF stay, later
<1>7. p \in 1 .. Len(s)
  <2>1. CASE back < i
    BY <1>0, <1>1, <1>6, <2>1
  <2>2. CASE ~(back < i)
    <3> HIDE DEF ahead, back
    <3>1. p = ahead - 1
      BY <2>2
    <3> QED
      BY <1>0, <1>1, <1>5, <3>1
  <2> QED
    BY <2>1, <2>2
<1> HIDE DEF p
<1>8. /\ InsertAt(r, p, b) \in Seq(Blocks)
      /\ ToSet(InsertAt(r, p, b)) = ToSet(r) \cup {b}
      /\ IsInjective(InsertAt(r, p, b))
  <2>1. p \in 1 .. Len(r) + 1 /\ b \notin ToSet(r)
    BY <1>0, <1>2, <1>3, <1>7
  <2> QED
    BY <1>0, <1>2, <2>1, InsertAtShape, InsertAtOnce
<1> QED
  BY <1>2, <1>4, <1>8

-----------------------------------------------------------------------------
(* Who controls what *)

BlockTypes ==
    /\ inLevel \subseteq Blocks
    /\ posX \in [Blocks -> Xs]
    /\ controllable \in [Blocks -> BOOLEAN]
    /\ controllerTeam \in [Blocks -> Teams \cup {AnyTeam}]
    /\ time \in 0 .. MaxTime

MateTypes ==
    /\ player \in [Blocks -> Mates \cup {NoMate}]
    /\ controlled \in [Mates -> Blocks \cup {NoBlock}]
    /\ lastTime \in [Mates -> -NMates .. MaxTime]
    /\ totInControl \in [Teams -> Int]

\* Blocks and mates point to each other.
Pointers ==
    /\ \A p \in Mates : controlled[p] # NoBlock => player[controlled[p]] = p
    /\ \A b \in Blocks : player[b] # NoMate => controlled[player[b]] = b

\* Whether mates of team t may control b.
Allowed(b, t) == b \in inLevel /\ controllable[b] /\ t \in TeamsFor(controllerTeam[b])

MateInv == MateTypes /\ Pointers /\ CountInControl

IInv ==
    /\ BlockTypes
    /\ ListTypes
    /\ \A t \in Teams : ToSet(ordered[t]) = {b \in Blocks : Allowed(b, t)}
    /\ MateInv
    /\ \A p \in Mates : controlled[p] # NoBlock => Allowed(controlled[p], TeamOf(p))

\* The mates of team t in control.
InControl(ctl, t) == {p \in Mates : TeamOf(p) = t /\ ctl[p] # NoBlock}

LEMMA TeamMates ==
    ASSUME NEW t \in Teams, NEW S \in SUBSET {p \in Mates : TeamOf(p) = t}
    PROVE  IsFiniteSet(S) /\ Cardinality(S) \in 0 .. NMates
<1> DEFINE N == 0 .. NMates - 1
           M == {p \in Mates : TeamOf(p) = t}
           f == [i \in N |-> <<t, i>>]
<1>1. IsFiniteSet(N) /\ Cardinality(N) = NMates
  BY FS_Interval, ConstantsAssumption
<1>2. f \in Surjection(N, M)
  <2>1. f \in [N -> M]
    BY DEF Mates, TeamOf
  <2>2. \A p \in M : \E i \in N : f[i] = p
    BY DEF Mates, TeamOf
  <2> QED
    BY <2>1, <2>2 DEF Surjection
<1> HIDE DEF f
<1>3. IsFiniteSet(M) /\ Cardinality(M) <= NMates
  BY <1>1, <1>2, FS_Surjection
<1>4. IsFiniteSet(S) /\ Cardinality(S) <= Cardinality(M)
  BY <1>3, FS_Subset
<1> HIDE DEF M
<1>5. Cardinality(S) \in Nat /\ Cardinality(M) \in Nat
  BY <1>3, <1>4, FS_CardinalityType
<1> QED
  BY <1>3, <1>4, <1>5, ConstantsAssumption

\* One mate more in control.
LEMMA OneMore ==
    ASSUME NEW t \in Teams, NEW ctl, NEW ctl2, NEW p \in Mates,
           ctl[p] = NoBlock, ctl2[p] # NoBlock,
           \A q \in Mates : q # p => (ctl2[q] # NoBlock <=> ctl[q] # NoBlock)
    PROVE  Cardinality(InControl(ctl2, t)) =
             IF TeamOf(p) = t THEN Cardinality(InControl(ctl, t)) + 1 ELSE Cardinality(InControl(ctl, t))
<1> DEFINE A == InControl(ctl, t)
           B == InControl(ctl2, t)
<1>1. IsFiniteSet(A)
  BY TeamMates DEF InControl
<1>2. p \notin A
  BY DEF InControl
<1>3. CASE TeamOf(p) = t
  <2>1. B = A \cup {p}
    BY <1>3 DEF InControl
  <2> HIDE DEF A, B
  <2>2. Cardinality(B) = Cardinality(A) + 1
    BY <1>1, <1>2, <2>1, FS_AddElement
  <2> QED
    BY <1>3, <2>2 DEF A, B
<1>4. CASE TeamOf(p) # t
  <2>1. B = A
    BY <1>4 DEF InControl
  <2> QED
    BY <1>4, <2>1
<1> QED
  BY <1>3, <1>4

\* The same mates in control.
LEMMA SameInControl ==
    ASSUME NEW t, NEW ctl, NEW ctl2,
           \A q \in Mates : ctl2[q] # NoBlock <=> ctl[q] # NoBlock
    PROVE  InControl(ctl2, t) = InControl(ctl, t)
BY DEF InControl

LEMMA CountsAre ==
    CountInControl <=> \A t \in Teams : totInControl[t] = Cardinality(InControl(controlled, t))
BY DEF CountInControl, InControl

LEMMA CountsAreNext ==
    CountInControl' <=> \A t \in Teams : totInControl'[t] = Cardinality(InControl(controlled', t))
BY DEF CountInControl, InControl

\* A free block is given to a mate that has none.
LEMMA AssignKeeps ==
    ASSUME MateInv, time \in 0 .. MaxTime, NEW b \in Blocks, NEW p \in Mates,
           player[b] = NoMate, controlled[p] = NoBlock, Assign(b, p)
    PROVE  /\ MateInv'
           /\ player' = [player EXCEPT ![b] = p]
           /\ controlled' = [controlled EXCEPT ![p] = b]
<1>1. /\ player' = [player EXCEPT ![b] = p]
      /\ controlled' = [controlled EXCEPT ![p] = b]
      /\ lastTime' = [lastTime EXCEPT ![p] = time]
      /\ totInControl' = [totInControl EXCEPT ![TeamOf(p)] = @ + 1]
  BY DEF Assign
<1>2. /\ player \in [Blocks -> Mates \cup {NoMate}]
      /\ controlled \in [Mates -> Blocks \cup {NoBlock}]
      /\ lastTime \in [Mates -> -NMates .. MaxTime]
      /\ totInControl \in [Teams -> Int]
  BY DEF MateInv, MateTypes
<1>3. MateTypes'
  <2>1. time \in -NMates .. MaxTime
    BY ConstantsAssumption
  <2>2. lastTime' \in [Mates -> -NMates .. MaxTime]
    BY <1>1, <1>2, <2>1
  <2>3. totInControl' \in [Teams -> Int]
    BY <1>1, <1>2, NoMateIsNone
  <2>4. player' \in [Blocks -> Mates \cup {NoMate}]
    BY <1>1, <1>2
  <2>5. controlled' \in [Mates -> Blocks \cup {NoBlock}]
    BY <1>1, <1>2
  <2> QED
    BY <2>2, <2>3, <2>4, <2>5 DEF MateTypes
<1>4. Pointers'
  BY <1>1, <1>2, NoMateIsNone, ConstantsAssumption DEF MateInv, Pointers
<1>5. CountInControl'
  <2> SUFFICES ASSUME NEW t \in Teams
               PROVE  totInControl'[t] = Cardinality(InControl(controlled', t))
    BY CountsAreNext
  <2>1. controlled'[p] # NoBlock /\ \A q \in Mates : q # p => (controlled'[q] # NoBlock <=> controlled[q] # NoBlock)
    BY <1>1, <1>2, ConstantsAssumption
  <2>2. Cardinality(InControl(controlled', t)) =
          IF TeamOf(p) = t THEN Cardinality(InControl(controlled, t)) + 1 ELSE Cardinality(InControl(controlled, t))
    BY <2>1, OneMore
  <2>3. totInControl[t] = Cardinality(InControl(controlled, t))
    BY CountsAre DEF MateInv
  <2>4. totInControl'[t] = IF TeamOf(p) = t THEN totInControl[t] + 1 ELSE totInControl[t]
    BY <1>1, <1>2, NoMateIsNone
  <2> QED
    BY <2>2, <2>3, <2>4
<1> QED
  BY <1>1, <1>3, <1>4, <1>5 DEF MateInv

\* The next free block after b is in the list and free; there is none only if no
\* other block of the list is free.
LEMMA NextFreeShape ==
    ASSUME ListTypes, NEW t \in Teams, NEW b \in ToSet(ordered[t])
    PROVE  LET n == NextFree(b, t)
           IN  \/ n = NoBlock /\ \A x \in ToSet(ordered[t]) : x = b \/ player[x] # NoMate
               \/ n \in ToSet(ordered[t]) /\ player[n] = NoMate
<1> DEFINE s == ordered[t]
           i == IndexOf(s, b)
           place(k) == ((i - 1 + k) % Len(s)) + 1
           free == {k \in 1 .. Len(s) - 1 : player[s[place(k)]] = NoMate}
<1>0. s \in Seq(Blocks) /\ Len(s) \in Nat /\ DOMAIN s = 1 .. Len(s)
  BY DEF ListTypes
<1>1. i \in 1 .. Len(s) /\ s[i] = b
  BY <1>0, IndexOfShape
<1>2. NextFree(b, t) = IF free = {} THEN NoBlock ELSE s[place(Min(free))]
  BY DEF NextFree
<1> HIDE DEF s, i
<1>3. \A k \in 1 .. Len(s) - 1 : place(k) \in 1 .. Len(s)
  <2> SUFFICES ASSUME NEW k \in 1 .. Len(s) - 1 PROVE place(k) \in 1 .. Len(s)
    OBVIOUS
  <2>1. i - 1 + k \in Int /\ Len(s) > 0
    BY <1>0, <1>1
  <2>2. (i - 1 + k) % Len(s) \in 0 .. Len(s) - 1
    BY <1>0, <2>1
  <2> QED
    BY <1>0, <2>2
<1>4. \A j \in 1 .. Len(s) : j # i => \E k \in 1 .. Len(s) - 1 : place(k) = j
  <2> SUFFICES ASSUME NEW j \in 1 .. Len(s), j # i
               PROVE  \E k \in 1 .. Len(s) - 1 : place(k) = j
    OBVIOUS
  <2>1. CASE j > i
    <3>1. j - i \in 1 .. Len(s) - 1 /\ i - 1 + (j - i) = j - 1
      BY <1>0, <1>1, <2>1
    <3>2. (j - 1) % Len(s) = j - 1
      BY <1>0
    <3> QED
      BY <3>1, <3>2
  <2>2. CASE j < i
    <3>1. j - i + Len(s) \in 1 .. Len(s) - 1 /\ i - 1 + (j - i + Len(s)) = j - 1 + Len(s)
      BY <1>0, <1>1, <2>2
    <3>2. (j - 1 + Len(s)) % Len(s) = j - 1
      BY <1>0
    <3> QED
      BY <3>1, <3>2
  <2> QED
    BY <1>0, <1>1, <2>1, <2>2
<1> HIDE DEF place
<1>5. CASE free = {}
  <2>1. \A x \in ToSet(s) : x = b \/ player[x] # NoMate
    <3> SUFFICES ASSUME NEW x \in ToSet(s), x # b PROVE player[x] # NoMate
      OBVIOUS
    <3>1. PICK j \in 1 .. Len(s) : s[j] = x
      BY <1>0 DEF ToSet
    <3>2. PICK k \in 1 .. Len(s) - 1 : place(k) = j
      BY <1>1, <1>4, <3>1
    <3> QED
      BY <1>5, <3>1, <3>2
  <2> QED
    BY <1>2, <1>5, <2>1 DEF s
<1>6. CASE free # {}
  <2>1. free \in SUBSET Nat
    BY <1>0
  <2>2. Min(free) \in free
    <3> HIDE DEF free
    <3> QED
      BY <1>6, <2>1, MinIsLeast
  <2>3. s[place(Min(free))] \in ToSet(s) /\ player[s[place(Min(free))]] = NoMate
    BY <1>0, <1>3, <2>2 DEF ToSet
  <2> HIDE DEF free
  <2> QED
    BY <1>2, <1>6, <2>3 DEF s
<1> QED
  BY <1>5, <1>6

\* A mate that gives up b for another block that is free.
LEMMA TakeOverKeeps ==
    ASSUME IInv, NEW b \in Blocks, player[b] # NoMate,
           NEW n \in Blocks, player[n] = NoMate, Allowed(n, TeamOf(player[b])),
           player' = [player EXCEPT ![b] = NoMate, ![n] = player[b]],
           controlled' = [controlled EXCEPT ![player[b]] = n],
           lastTime' = [lastTime EXCEPT ![player[b]] = time],
           totInControl' = totInControl
    PROVE  /\ MateInv'
           /\ player[b] \in Mates
           /\ player'[b] = NoMate
           /\ controlled'[player[b]] = n
           /\ \A p \in Mates : controlled'[p] # NoBlock =>
                controlled'[p] # b /\ Allowed(controlled'[p], TeamOf(p))
           /\ \A p \in Mates : p # player[b] => controlled'[p] = controlled[p]
           /\ \A x \in Blocks : player[x] # NoMate /\ x # b => player'[x] # NoMate
<1> DEFINE p == player[b]
<1>a. /\ player \in [Blocks -> Mates \cup {NoMate}]
      /\ controlled \in [Mates -> Blocks \cup {NoBlock}]
      /\ lastTime \in [Mates -> -NMates .. MaxTime]
      /\ totInControl \in [Teams -> Int]
      /\ Pointers /\ CountInControl
      /\ time \in -NMates .. MaxTime
  BY ConstantsAssumption DEF IInv, MateInv, MateTypes, BlockTypes
<1>b. p \in Mates /\ TeamOf(p) \in Teams /\ controlled[p] = b
  BY <1>a, NoMateIsNone DEF Pointers
<1>c. b # NoBlock /\ n # NoBlock
  BY ConstantsAssumption
<1>0. Allowed(n, TeamOf(p)) /\ n # b
  OBVIOUS
<1>1. /\ player' = [player EXCEPT ![b] = NoMate, ![n] = p]
      /\ controlled' = [controlled EXCEPT ![p] = n]
      /\ lastTime' = [lastTime EXCEPT ![p] = time]
      /\ totInControl' = totInControl
  OBVIOUS
<1> HIDE DEF p
<1>2. MateTypes'
  BY <1>a, <1>b, <1>0, <1>1 DEF MateTypes
<1>3. /\ player'[b] = NoMate /\ player'[n] = p
      /\ \A x \in Blocks : x # b /\ x # n => player'[x] = player[x]
  BY <1>a, <1>0, <1>1
<1>4. controlled'[p] = n /\ \A q \in Mates : q # p => controlled'[q] = controlled[q]
  BY <1>a, <1>b, <1>1
<1>5. \A q \in Mates : q # p => controlled[q] # b /\ controlled[q] # n
  BY <1>a, <1>b, <1>c, <1>0, NoMateIsNone, ConstantsAssumption DEF Pointers, p
<1>6. Pointers'
  <2>1. ASSUME NEW q \in Mates, controlled'[q] # NoBlock PROVE player'[controlled'[q]] = q
    <3>1. CASE q = p
      BY <1>3, <1>4, <3>1
    <3>2. CASE q # p
      <4>1. controlled[q] \in Blocks /\ controlled[q] # b /\ controlled[q] # n /\ controlled'[q] = controlled[q]
        BY <1>a, <1>4, <1>5, <2>1, <3>2
      <4> QED
        BY <1>a, <1>3, <2>1, <4>1 DEF Pointers
    <3> QED
      BY <3>1, <3>2
  <2>2. ASSUME NEW x \in Blocks, player'[x] # NoMate PROVE controlled'[player'[x]] = x
    <3>1. CASE x = n
      BY <1>3, <1>4, <3>1
    <3>2. CASE x # n
      <4>1. x # b /\ player'[x] = player[x] /\ player[x] \in Mates /\ controlled[player[x]] = x
        BY <1>a, <1>3, <2>2, <3>2 DEF Pointers
      <4>2. player[x] # p
        BY <1>b, <4>1
      <4> QED
        BY <1>4, <4>1, <4>2
    <3> QED
      BY <3>1, <3>2
  <2> QED
    BY <2>1, <2>2 DEF Pointers
<1>7. CountInControl'
  <2>1. \A q \in Mates : controlled'[q] # NoBlock <=> controlled[q] # NoBlock
    BY <1>b, <1>c, <1>4
  <2>2. \A u \in Teams : InControl(controlled', u) = InControl(controlled, u)
    BY <2>1, SameInControl
  <2> QED
    BY <1>a, <1>1, <2>2, CountsAre, CountsAreNext
<1>8. \A q \in Mates : controlled'[q] # NoBlock =>
        controlled'[q] # b /\ Allowed(controlled'[q], TeamOf(q))
  <2> SUFFICES ASSUME NEW q \in Mates, controlled'[q] # NoBlock
               PROVE  controlled'[q] # b /\ Allowed(controlled'[q], TeamOf(q))
    OBVIOUS
  <2>1. CASE q = p
    BY <1>0, <1>4, <2>1
  <2>2. CASE q # p
    BY <1>4, <1>5, <2>2 DEF IInv
  <2> QED
    BY <2>1, <2>2
<1>9. \A x \in Blocks : player[x] # NoMate /\ x # b => player'[x] # NoMate
  BY <1>0, <1>3
<1> QED
  BY <1>a, <1>b, <1>2, <1>3, <1>4, <1>6, <1>7, <1>8, <1>9 DEF MateInv, p

\* The mate that controls b loses it, and gets another block that is free, if there
\* is one.
LEMMA HandOverKeeps ==
    ASSUME IInv, NEW b \in Blocks, player[b] # NoMate, HandOver(b)
    PROVE  /\ MateInv'
           /\ player[b] \in Mates
           /\ player'[b] = NoMate
           /\ \A p \in Mates : controlled'[p] # NoBlock =>
                controlled'[p] # b /\ Allowed(controlled'[p], TeamOf(p))
           /\ \A p \in Mates : p # player[b] => controlled'[p] = controlled[p]
           /\ \A x \in Blocks : player[x] # NoMate /\ x # b => player'[x] # NoMate
           /\ controlled'[player[b]] = NoBlock =>
                \A x \in ToSet(ordered[TeamOf(player[b])]) : x = b \/ player'[x] # NoMate
<1> DEFINE p == player[b]
           t == TeamOf(p)
           n == NextFree(b, t)
<1>1. /\ player \in [Blocks -> Mates \cup {NoMate}]
      /\ controlled \in [Mates -> Blocks \cup {NoBlock}]
      /\ lastTime \in [Mates -> -NMates .. MaxTime]
      /\ totInControl \in [Teams -> Int]
      /\ Pointers /\ CountInControl /\ ListTypes
      /\ time \in -NMates .. MaxTime
  BY ConstantsAssumption DEF IInv, MateInv, MateTypes, BlockTypes
<1>2. p \in Mates /\ t \in Teams /\ controlled[p] = b
  BY <1>1, NoMateIsNone DEF Pointers
<1>3. b # NoBlock
  BY ConstantsAssumption
<1>4. b \in ToSet(ordered[t]) /\ Allowed(b, t)
  BY <1>2, <1>3 DEF IInv
<1>5. \/ n = NoBlock /\ \A x \in ToSet(ordered[t]) : x = b \/ player[x] # NoMate
      \/ n \in ToSet(ordered[t]) /\ player[n] = NoMate
  BY <1>1, <1>2, <1>4, NextFreeShape
<1>6. \A x \in ToSet(ordered[t]) : x \in Blocks /\ Allowed(x, t)
  BY <1>2 DEF IInv
<1> HIDE DEF n
<1>7. CASE n = NoBlock
  <2>1. /\ player' = [player EXCEPT ![b] = NoMate]
        /\ controlled' = [controlled EXCEPT ![p] = NoBlock]
        /\ totInControl' = [totInControl EXCEPT ![t] = @ - 1]
        /\ lastTime' = lastTime
    BY <1>7 DEF HandOver, n
  <2> HIDE DEF p, t
  <2>2. MateTypes'
    BY <1>1, <1>2, <2>1 DEF MateTypes
  <2>3. Pointers'
    BY <1>1, <1>2, <2>1 DEF Pointers, p
  <2>4. CountInControl'
    <3> SUFFICES ASSUME NEW u \in Teams
                 PROVE  totInControl'[u] = Cardinality(InControl(controlled', u))
      BY CountsAreNext
    <3>1. /\ controlled[p] # NoBlock /\ controlled'[p] = NoBlock
          /\ \A q \in Mates : q # p => (controlled'[q] # NoBlock <=> controlled[q] # NoBlock)
      BY <1>1, <1>2, <1>3, <2>1
    <3>2. Cardinality(InControl(controlled, u)) =
            IF TeamOf(p) = u THEN Cardinality(InControl(controlled', u)) + 1
                             ELSE Cardinality(InControl(controlled', u))
      BY <1>2, <3>1, OneMore
    <3>3. totInControl[u] = Cardinality(InControl(controlled, u))
      BY <1>1, CountsAre
    <3>4. totInControl'[u] = IF TeamOf(p) = u THEN totInControl[u] - 1 ELSE totInControl[u]
      BY <1>1, <1>2, <2>1 DEF t
    <3>5. Cardinality(InControl(controlled', u)) \in Int
      BY TeamMates DEF InControl
    <3> QED
      BY <3>2, <3>3, <3>4, <3>5
  <2>5. \A q \in Mates : controlled'[q] # NoBlock =>
          controlled'[q] # b /\ Allowed(controlled'[q], TeamOf(q))
    <3> SUFFICES ASSUME NEW q \in Mates, controlled'[q] # NoBlock
                 PROVE  controlled'[q] # b /\ Allowed(controlled'[q], TeamOf(q))
      OBVIOUS
    <3>1. q # p /\ controlled'[q] = controlled[q]
      BY <1>1, <1>2, <2>1
    <3>2. controlled[q] # b
      BY <1>1, <1>3, <3>1 DEF Pointers, p
    <3> QED
      BY <3>1, <3>2 DEF IInv
  <2>6. player'[b] = NoMate /\ \A q \in Mates : q # p => controlled'[q] = controlled[q]
    BY <1>1, <1>2, <2>1
  <2>7. \A x \in Blocks : x # b => player'[x] = player[x]
    BY <1>1, <2>1
  <2>8. \A x \in ToSet(ordered[t]) : x = b \/ player'[x] # NoMate
    BY <1>3, <1>5, <1>6, <1>7, <2>7, ConstantsAssumption
  <2> QED
    BY <1>1, <1>2, <2>2, <2>3, <2>4, <2>5, <2>6, <2>7, <2>8 DEF MateInv, p, t
<1>8. CASE n # NoBlock
  <2>1. n \in Blocks /\ Allowed(n, t) /\ player[n] = NoMate
    BY <1>5, <1>6, <1>8
  <2>2. /\ player' = [player EXCEPT ![b] = NoMate, ![n] = p]
        /\ controlled' = [controlled EXCEPT ![p] = n]
        /\ lastTime' = [lastTime EXCEPT ![p] = time]
        /\ totInControl' = totInControl
    BY <1>8 DEF HandOver, n
  <2>3. controlled'[p] = n
    BY <2>1, <2>2, TakeOverKeeps
  <2> QED
    BY <1>8, <2>1, <2>2, <2>3, TakeOverKeeps
<1> QED
  BY <1>7, <1>8

\* What a step does to the mates when b is taken from the mates of all teams but t.
Lost(b) ==
    /\ MateInv'
    /\ player'[b] = NoMate
    /\ \A p \in Mates : controlled'[p] # NoBlock =>
         controlled'[p] # b /\ Allowed(controlled'[p], TeamOf(p))
    /\ \A x \in Blocks : player[x] # NoMate /\ x # b => player'[x] # NoMate
    /\ \A p \in Mates : controlled[p] # NoBlock /\ controlled'[p] = NoBlock =>
         /\ controlled[p] = b
         /\ \A x \in ToSet(ordered[TeamOf(p)]) : x = b \/ player'[x] # NoMate

LEMMA SameMates ==
    ASSUME MateInv, UNCHANGED mateVars
    PROVE  MateInv'
<1>1. MateTypes' /\ Pointers'
  BY DEF MateInv, MateTypes, Pointers, mateVars
<1>2. CountInControl'
  BY CountsAre, CountsAreNext DEF MateInv, mateVars
<1> QED
  BY <1>1, <1>2 DEF MateInv

LEMMA LoseControlKeeps ==
    ASSUME IInv, NEW b \in Blocks, NEW t \in Teams \cup {AnyTeam}, LoseControl(b, t)
    PROVE  \/ Lost(b)
           \/ player[b] # NoMate /\ TeamOf(player[b]) = t /\ UNCHANGED mateVars
<1>1. CASE player[b] = NoMate
  <2>1. UNCHANGED mateVars
    BY <1>1 DEF LoseControl
  <2>2. MateInv'
    BY <2>1, SameMates DEF IInv
  <2>3. \A p \in Mates : controlled[p] # NoBlock => controlled[p] # b
    BY <1>1, NoMateIsNone DEF IInv, MateInv, Pointers
  <2> QED
    BY <1>1, <2>1, <2>2, <2>3 DEF Lost, IInv, mateVars
<1>2. CASE player[b] # NoMate /\ TeamOf(player[b]) = t
  BY <1>2 DEF LoseControl
<1>3. CASE player[b] # NoMate /\ TeamOf(player[b]) # t
  <2>1. HandOver(b)
    BY <1>3 DEF LoseControl
  <2>2. controlled[player[b]] = b
    BY <1>3 DEF IInv, MateInv, Pointers
  <2>3. Lost(b)
    BY <1>3, <2>1, <2>2, HandOverKeeps DEF Lost
  <2> QED
    BY <2>3
<1> QED
  BY <1>1, <1>2, <1>3

\* The whole of it, for the operations that take b from everybody.
LEMMA LoseControlToAny ==
    ASSUME IInv, NEW b \in Blocks, LoseControl(b, AnyTeam)
    PROVE  Lost(b)
<1>1. player[b] # NoMate => TeamOf(player[b]) \in Teams
  BY NoMateIsNone DEF IInv, MateInv, MateTypes
<1> QED
  BY <1>1, LoseControlKeeps, NoMateIsNone

\* The count hides no idle mate from blockAssignControlToLongestWaitingMate.
LEMMA WaitingAreIdle ==
    ASSUME MateInv, NEW S \in SUBSET Teams
    PROVE  Waiting(S) = Idle(S)
<1> SUFFICES ASSUME NEW p \in Idle(S)
             PROVE  totInControl[TeamOf(p)] < NMates
  BY DEF Waiting
<1> DEFINE t == TeamOf(p)
           A == InControl(controlled, t)
<1>1. p \in Mates /\ t \in Teams /\ controlled[p] = NoBlock
  BY DEF Idle
<1>2. p \notin A /\ A \cup {p} \in SUBSET {q \in Mates : TeamOf(q) = t}
  BY <1>1 DEF InControl
<1>3. totInControl[t] = Cardinality(A)
  BY <1>1, CountsAre DEF MateInv
<1> HIDE DEF A, t
<1>4. IsFiniteSet(A) /\ Cardinality(A) \in 0 .. NMates
  BY <1>1, <1>2, TeamMates
<1>5. Cardinality(A \cup {p}) \in 0 .. NMates
  BY <1>1, <1>2, TeamMates
<1>6. Cardinality(A \cup {p}) = Cardinality(A) + 1
  BY <1>2, <1>4, FS_AddElement
<1>7. Cardinality(A) < NMates
  BY <1>4, <1>5, <1>6, ConstantsAssumption
<1> QED
  BY <1>3, <1>7 DEF t

\* A block that enters the lists is given to a mate that waits, if there is one.
LEMMA AssignToWaitingKeeps ==
    ASSUME IInv, NEW b \in Blocks, player[b] = NoMate, NEW S \in SUBSET Teams,
           AssignToWaiting(b, S)
    PROVE  /\ MateInv'
           /\ \/ Idle(S) = {} /\ UNCHANGED mateVars
              \/ \E p \in LongestWaiting(S) :
                   /\ p \in Mates /\ TeamOf(p) \in S /\ controlled[p] = NoBlock
                   /\ player' = [player EXCEPT ![b] = p]
                   /\ controlled' = [controlled EXCEPT ![p] = b]
<1>1. MateInv /\ time \in 0 .. MaxTime
  BY DEF IInv, BlockTypes
<1>w. Waiting(S) = Idle(S)
  BY <1>1, WaitingAreIdle
<1>2. CASE Idle(S) = {}
  <2>1. UNCHANGED mateVars
    BY <1>2, <1>w DEF AssignToWaiting
  <2> QED
    BY <1>1, <1>2, <2>1, SameMates
<1>3. CASE Idle(S) # {}
  <2>1. PICK p \in LongestWaiting(S) : Assign(b, p)
    BY <1>3, <1>w DEF AssignToWaiting
  <2>2. p \in Mates /\ TeamOf(p) \in S /\ controlled[p] = NoBlock
    BY DEF LongestWaiting, Waiting, Idle
  <2> QED
    BY <1>1, <2>1, <2>2, AssignKeeps
<1> QED
  BY <1>2, <1>3

-----------------------------------------------------------------------------
(* The invariant *)

\* A block in no list, not in the level or not controllable, has no player.
LEMMA FreeUnlessAllowed ==
    ASSUME IInv, NEW b \in Blocks, ~(b \in inLevel /\ controllable[b])
    PROVE  player[b] = NoMate /\ \A t \in Teams : b \notin ToSet(ordered[t])
<1>1. player[b] # NoMate => player[b] \in Mates /\ controlled[player[b]] = b /\ b # NoBlock
  BY ConstantsAssumption DEF IInv, MateInv, MateTypes, Pointers
<1> QED
  BY <1>1 DEF IInv, Allowed

\* The same after the step.
AllowedNext(b, t) == b \in inLevel' /\ controllable'[b] /\ t \in TeamsFor(controllerTeam'[b])

\* What is left to show of an operation on b once the mates are right.
LEMMA IInvFrom ==
    ASSUME BlockTypes', ListTypes', MateInv',
           \A t \in Teams : ToSet(ordered'[t]) = {b \in Blocks : AllowedNext(b, t)},
           \A p \in Mates : controlled'[p] # NoBlock => AllowedNext(controlled'[p], TeamOf(p))
    PROVE  IInv'
BY DEF IInv, Allowed, AllowedNext

\* The lists of a block that is used: those of its teams, of which it is in all.
LEMMA InItsLists ==
    ASSUME IInv, NEW b \in Blocks, b \in inLevel, controllable[b]
    PROVE  /\ TeamsFor(controllerTeam[b]) \in SUBSET Teams
           /\ \A t \in Teams : b \in ToSet(ordered[t]) <=> t \in TeamsFor(controllerTeam[b])
<1>1. controllerTeam[b] \in Teams \cup {AnyTeam}
  BY DEF IInv, BlockTypes
<1> QED
  BY <1>1, TeamsForShape DEF IInv, Allowed

\* The lists once b has left.
LEMMA ListsWithoutShape ==
    ASSUME IInv, NEW b \in Blocks, b \in inLevel
    PROVE  /\ ListsWithout(b) \in [Teams -> Seq(Blocks)]
           /\ \A t \in Teams : /\ IsInjective(ListsWithout(b)[t])
                               /\ ToSet(ListsWithout(b)[t]) = {x \in Blocks : Allowed(x, t) /\ x # b}
<1>1. \A t \in Teams : ToSet(ordered[t]) = {x \in Blocks : Allowed(x, t)}
  BY DEF IInv
<1>2. ListTypes
  BY DEF IInv
<1>3. CASE controllable[b]
  <2> DEFINE S == TeamsFor(controllerTeam[b])
             r == RemoveFromLists(b, S)
  <2>1. S \in SUBSET Teams /\ \A t \in Teams : b \in ToSet(ordered[t]) <=> t \in S
    BY <1>3, InItsLists
  <2>2. /\ r \in [Teams -> Seq(Blocks)]
        /\ \A t \in Teams :
             /\ IsInjective(r[t])
             /\ ToSet(r[t]) = IF t \in S THEN ToSet(ordered[t]) \ {b} ELSE ToSet(ordered[t])
    <3> HIDE DEF S
    <3> QED
      BY <1>2, <2>1, RemovedFromLists
  <2>3. ListsWithout(b) = r
    BY <1>3 DEF ListsWithout
  <2> HIDE DEF S, r
  <2>4. \A t \in Teams : ToSet(r[t]) = ToSet(ordered[t]) \ {b}
    BY <2>1, <2>2
  <2> QED
    BY <1>1, <2>2, <2>3, <2>4
<1>4. CASE ~controllable[b]
  <2>1. ListsWithout(b) = ordered
    BY <1>4 DEF ListsWithout
  <2>2. \A t \in Teams : ~Allowed(b, t)
    BY <1>4 DEF Allowed
  <2> QED
    BY <1>1, <1>2, <2>1, <2>2 DEF ListTypes
<1> QED
  BY <1>3, <1>4

-----------------------------------------------------------------------------
(* What every step does *)

\* What ReplacedWhenPossible says of a step.
Replaced ==
    \A p \in Mates : controlled[p] # NoBlock /\ controlled'[p] = NoBlock =>
        \A b \in ToSet(ordered'[TeamOf(p)]) : player'[b] # NoMate

\* What LongestIdleServed says of a step in which b becomes available.
Served(b) ==
    LET waiting == {p \in Mates : controlled[p] = NoBlock
                                  /\ TeamOf(p) \in TeamsFor(controllerTeam'[b])}
    IN  /\ waiting # {} => player'[b] \in waiting
        /\ player'[b] # NoMate => \A p \in waiting : lastTime[player'[b]] <= lastTime[p]

Available(b) == b \in inLevel /\ controllable[b]
AvailableNext(b) == b \in inLevel' /\ controllable'[b]

\* The two ways in which the step may leave p waiting beside b.
LeftTo(p, b) ==
    /\ player'[b] = NoMate
    /\ \/ player[b] # NoMate /\ TeamOf(player[b]) # TeamOf(p)
       \/ player[b] = NoMate /\ Available(b) /\ b \notin ToSet(ordered[TeamOf(p)])

\* What LeftWaitingByOthers says of a step.
LeftByOthers ==
    \A p \in Mates : ~WaitsBesideFree(p) /\ WaitsBesideFree(p)' =>
        \E b \in ToSet(ordered'[TeamOf(p)]) : LeftTo(p, b)

StepOK ==
    /\ IInv'
    /\ Replaced
    /\ LeftByOthers
    /\ \A b \in Blocks : ~Available(b) /\ AvailableNext(b) => Served(b)
    /\ NTeams = 1 /\ NoIdleMateBesideFreeBlock => NoIdleMateBesideFreeBlock'

\* A block that mates of one team or another may control.
LEMMA AllowedIsAvailable ==
    ASSUME NEW b, NEW t
    PROVE  /\ Allowed(b, t) => Available(b)
           /\ AllowedNext(b, t) => AvailableNext(b)
BY DEF Allowed, AllowedNext, Available, AvailableNext

\* It is enough to look at the free blocks of the lists of mates that did not wait
\* beside one before.
LEMMA LeftByOthersFrom ==
    ASSUME \A p \in Mates, x \in Blocks :
             /\ x \in ToSet(ordered'[TeamOf(p)])
             /\ controlled'[p] = NoBlock
             /\ player'[x] = NoMate
             /\ controlled[p] = NoBlock => \A y \in ToSet(ordered[TeamOf(p)]) : player[y] # NoMate
             => LeftTo(p, x),
           \A t \in Teams : ToSet(ordered'[t]) \subseteq Blocks
    PROVE  LeftByOthers
<1> SUFFICES ASSUME NEW p \in Mates, ~WaitsBesideFree(p), WaitsBesideFree(p)'
             PROVE  \E b \in ToSet(ordered'[TeamOf(p)]) : LeftTo(p, b)
  BY DEF LeftByOthers
<1>1. PICK x \in ToSet(ordered'[TeamOf(p)]) : controlled'[p] = NoBlock /\ player'[x] = NoMate
  BY DEF WaitsBesideFree
<1>2. x \in Blocks
  BY <1>1, NoMateIsNone
<1>3. controlled[p] = NoBlock => \A y \in ToSet(ordered[TeamOf(p)]) : player[y] # NoMate
  BY DEF WaitsBesideFree
<1> QED
  BY <1>1, <1>2, <1>3

\* The lists when only b changes: what is left to show of an operation that takes b
\* from its mate.
LEMMA LostStep ==
    ASSUME IInv, NEW b \in Blocks, Lost(b), BlockTypes', ListTypes',
           \A t \in Teams : ToSet(ordered'[t]) = {x \in Blocks : AllowedNext(x, t)},
           \A x \in Blocks, t \in Teams : x # b => (AllowedNext(x, t) <=> Allowed(x, t)),
           \A t \in Teams : AllowedNext(b, t) => ~Allowed(b, t) /\ NTeams > 1,
           \A x \in Blocks : AvailableNext(x) => Available(x)
    PROVE  StepOK
<1>0. \A p \in Mates : TeamOf(p) \in Teams
  BY NoMateIsNone
<1>1. \A t \in Teams : ToSet(ordered[t]) = {x \in Blocks : Allowed(x, t)}
  BY DEF IInv
<1>2. controlled' \in [Mates -> Blocks \cup {NoBlock}]
  BY DEF Lost, MateInv, MateTypes
<1>3. IInv'
  <2>1. \A p \in Mates : controlled'[p] # NoBlock => AllowedNext(controlled'[p], TeamOf(p))
    BY <1>0, <1>2 DEF Lost
  <2> QED
    BY <2>1, IInvFrom DEF Lost
<1>4. Replaced
  <2> SUFFICES ASSUME NEW p \in Mates, controlled[p] # NoBlock, controlled'[p] = NoBlock,
                      NEW x \in ToSet(ordered'[TeamOf(p)])
               PROVE  player'[x] # NoMate
    BY DEF Replaced
  <2>1. x \in Blocks /\ AllowedNext(x, TeamOf(p))
    BY <1>0
  <2>2. controlled[p] = b /\ \A y \in ToSet(ordered[TeamOf(p)]) : y = b \/ player'[y] # NoMate
    BY DEF Lost
  <2>3. Allowed(b, TeamOf(p))
    BY <2>2 DEF IInv
  <2>4. x # b
    BY <1>0, <2>1, <2>3
  <2>5. x \in ToSet(ordered[TeamOf(p)])
    BY <1>0, <1>1, <2>1, <2>4
  <2> QED
    BY <2>2, <2>4, <2>5
<1>5. ASSUME NTeams = 1, NoIdleMateBesideFreeBlock PROVE NoIdleMateBesideFreeBlock'
  <2> SUFFICES ASSUME NEW t \in Teams, NEW q \in Idle({t})', NEW x \in ToSet(ordered'[t])
               PROVE  player'[x] # NoMate
    BY DEF NoIdleMateBesideFreeBlock
  <2>1. q \in Mates /\ TeamOf(q) = t /\ controlled'[q] = NoBlock
    BY DEF Idle
  <2>2. x \in Blocks /\ x # b /\ x \in ToSet(ordered[t])
    BY <1>1, <1>5
  <2>3. CASE controlled[q] # NoBlock
    BY <2>1, <2>2, <2>3 DEF Lost
  <2>4. CASE controlled[q] = NoBlock
    <3>1. q \in Idle({t})
      BY <2>1, <2>4 DEF Idle
    <3>2. player[x] # NoMate
      BY <1>5, <2>2, <3>1 DEF NoIdleMateBesideFreeBlock
    <3> QED
      BY <2>2, <3>2 DEF Lost
  <2> QED
    BY <2>3, <2>4
<1>6. LeftByOthers
  <2> SUFFICES ASSUME NEW p \in Mates, NEW x \in Blocks, x \in ToSet(ordered'[TeamOf(p)]),
                      controlled'[p] = NoBlock, player'[x] = NoMate,
                      controlled[p] = NoBlock => \A y \in ToSet(ordered[TeamOf(p)]) : player[y] # NoMate
               PROVE  LeftTo(p, x)
    BY LeftByOthersFrom
  <2>1. \A y \in ToSet(ordered[TeamOf(p)]) : player[y] # NoMate
    BY <1>4 DEF Replaced
  <2>2. AllowedNext(x, TeamOf(p))
    BY <1>0
  <2>3. x = b
    <3> SUFFICES ASSUME x # b PROVE FALSE
      OBVIOUS
    <3>1. x \in ToSet(ordered[TeamOf(p)])
      BY <1>0, <1>1, <2>2
    <3> QED
      BY <2>1, <3>1 DEF Lost
  <2>4. ~Allowed(b, TeamOf(p)) /\ Available(b)
    BY <1>0, <2>2, <2>3, AllowedIsAvailable
  <2>5. player[b] # NoMate => Allowed(b, TeamOf(player[b]))
    BY ConstantsAssumption DEF IInv, MateInv, MateTypes, Pointers
  <2>6. b \notin ToSet(ordered[TeamOf(p)])
    BY <1>0, <1>1, <2>4
  <2> QED
    BY <2>3, <2>4, <2>5, <2>6 DEF LeftTo
<1> QED
  BY <1>3, <1>4, <1>5, <1>6 DEF StepOK

\* What is left to show of an operation that leaves mates alone and makes no block
\* available.
LEMMA SameMatesStep ==
    ASSUME IInv, UNCHANGED mateVars, BlockTypes', ListTypes',
           \A t \in Teams : ToSet(ordered'[t]) = {x \in Blocks : AllowedNext(x, t)},
           \A p \in Mates : controlled[p] # NoBlock => AllowedNext(controlled[p], TeamOf(p)),
           \A x \in Blocks : AvailableNext(x) => Available(x),
           NTeams = 1 => \A t \in Teams : ToSet(ordered'[t]) \subseteq ToSet(ordered[t])
    PROVE  StepOK
<1>1. player' = player /\ controlled' = controlled
  BY DEF mateVars
<1>2. IInv'
  <2>1. MateInv'
    BY SameMates DEF IInv
  <2> QED
    BY <1>1, <2>1, IInvFrom
<1>3. Replaced
  BY <1>1 DEF Replaced
<1>4. NTeams = 1 /\ NoIdleMateBesideFreeBlock => NoIdleMateBesideFreeBlock'
  <2>1. \A t : Idle({t})' = Idle({t})
    BY <1>1 DEF Idle
  <2> QED
    BY <1>1, <2>1 DEF NoIdleMateBesideFreeBlock
<1>5. LeftByOthers
  <2> SUFFICES ASSUME NEW p \in Mates, NEW x \in Blocks, x \in ToSet(ordered'[TeamOf(p)]),
                      controlled'[p] = NoBlock, player'[x] = NoMate,
                      controlled[p] = NoBlock => \A y \in ToSet(ordered[TeamOf(p)]) : player[y] # NoMate
               PROVE  LeftTo(p, x)
    BY LeftByOthersFrom
  <2>1. player[x] = NoMate /\ x \notin ToSet(ordered[TeamOf(p)])
    BY <1>1
  <2>2. Available(x)
    BY NoMateIsNone, AllowedIsAvailable
  <2> QED
    BY <2>1, <2>2 DEF LeftTo
<1> QED
  BY <1>2, <1>3, <1>4, <1>5 DEF StepOK

LEMMA OneTeam ==
    ASSUME NTeams = 1
    PROVE  Teams = {0}
BY DEF Teams

\* What is left to show of an operation that makes b available to the teams of S.
LEMMA EnterStep ==
    ASSUME IInv, NEW b \in Blocks, ~Available(b), NEW S \in SUBSET Teams, S # {},
           S = TeamsFor(controllerTeam'[b]), AssignToWaiting(b, S),
           BlockTypes', ListTypes',
           \A t \in Teams : ToSet(ordered'[t]) = {x \in Blocks : AllowedNext(x, t)},
           \A x \in Blocks, t \in Teams : x # b => (AllowedNext(x, t) <=> Allowed(x, t)),
           \A t \in Teams : AllowedNext(b, t) <=> t \in S,
           \A x \in Blocks : x # b => (AvailableNext(x) => Available(x))
    PROVE  StepOK
<1>0. /\ \A p \in Mates : TeamOf(p) \in Teams
      /\ NoMate \notin Mates
  BY NoMateIsNone
<1>1. \A t \in Teams : ToSet(ordered[t]) = {x \in Blocks : Allowed(x, t)}
  BY DEF IInv
<1>2. /\ player \in [Blocks -> Mates \cup {NoMate}]
      /\ controlled \in [Mates -> Blocks \cup {NoBlock}]
      /\ b # NoBlock
  BY ConstantsAssumption DEF IInv, MateInv, MateTypes
<1>3. player[b] = NoMate
  BY FreeUnlessAllowed DEF Available
<1>4. /\ MateInv'
      /\ \/ Idle(S) = {} /\ UNCHANGED mateVars
         \/ \E p \in LongestWaiting(S) :
              /\ p \in Mates /\ TeamOf(p) \in S /\ controlled[p] = NoBlock
              /\ player' = [player EXCEPT ![b] = p]
              /\ controlled' = [controlled EXCEPT ![p] = b]
  BY <1>3, AssignToWaitingKeeps
<1>5. \A p \in Mates : controlled[p] # NoBlock => AllowedNext(controlled[p], TeamOf(p))
  <2> SUFFICES ASSUME NEW p \in Mates, controlled[p] # NoBlock
               PROVE  AllowedNext(controlled[p], TeamOf(p))
    OBVIOUS
  <2>1. controlled[p] \in Blocks /\ Allowed(controlled[p], TeamOf(p))
    BY <1>2 DEF IInv
  <2>2. controlled[p] # b
    BY <2>1, AllowedIsAvailable
  <2> QED
    BY <1>0, <2>1, <2>2
<1>6. {p \in Mates : controlled[p] = NoBlock /\ TeamOf(p) \in TeamsFor(controllerTeam'[b])} = Idle(S)
  BY DEF Idle
<1>7. CASE Idle(S) = {} /\ UNCHANGED mateVars
  <2>1. player' = player /\ controlled' = controlled
    BY <1>7 DEF mateVars
  <2>2. IInv'
    BY <1>4, <1>5, <2>1, IInvFrom
  <2>3. Replaced
    BY <2>1 DEF Replaced
  <2>4. Served(b)
    BY <1>3, <1>6, <1>7, <2>1 DEF Served
  <2>5. NTeams = 1 => NoIdleMateBesideFreeBlock'
    <3>1. NTeams = 1 => \A t \in Teams : {t} = S
      BY OneTeam
    <3> QED
      BY <1>7, <2>1, <3>1 DEF NoIdleMateBesideFreeBlock, Idle
  <2>6. LeftByOthers
    <3> SUFFICES ASSUME NEW q \in Mates, NEW x \in Blocks, x \in ToSet(ordered'[TeamOf(q)]),
                        controlled'[q] = NoBlock, player'[x] = NoMate,
                        controlled[q] = NoBlock => \A y \in ToSet(ordered[TeamOf(q)]) : player[y] # NoMate
                 PROVE  LeftTo(q, x)
      BY LeftByOthersFrom
    <3>1. TeamOf(q) \notin S
      BY <1>7, <2>1 DEF Idle
    <3>2. x # b /\ Allowed(x, TeamOf(q))
      BY <1>0, <3>1
    <3> QED
      BY <1>0, <1>1, <2>1, <3>2
  <2> QED
    BY <2>2, <2>3, <2>4, <2>5, <2>6 DEF StepOK
<1>8. CASE \E p \in LongestWaiting(S) :
              /\ p \in Mates /\ TeamOf(p) \in S /\ controlled[p] = NoBlock
              /\ player' = [player EXCEPT ![b] = p]
              /\ controlled' = [controlled EXCEPT ![p] = b]
  <2>1. PICK p \in LongestWaiting(S) :
              /\ p \in Mates /\ TeamOf(p) \in S /\ controlled[p] = NoBlock
              /\ player' = [player EXCEPT ![b] = p]
              /\ controlled' = [controlled EXCEPT ![p] = b]
    BY <1>8
  <2>2. /\ player'[b] = p /\ \A x \in Blocks : x # b => player'[x] = player[x]
        /\ controlled'[p] = b /\ \A q \in Mates : q # p => controlled'[q] = controlled[q]
        /\ p \in Mates /\ TeamOf(p) \in S
    BY <1>2, <2>1
  <2>3. IInv'
    <3>1. \A q \in Mates : controlled'[q] # NoBlock => AllowedNext(controlled'[q], TeamOf(q))
      BY <1>5, <2>2
    <3> QED
      BY <1>4, <3>1, IInvFrom
  <2>4. Replaced
    BY <1>2, <2>2 DEF Replaced
  <2>5. Served(b)
    <3>1. p \in Idle(S) /\ \A q \in Idle(S) : lastTime[p] <= lastTime[q]
      BY WaitingAreIdle DEF LongestWaiting, IInv
    <3> QED
      BY <1>6, <2>2, <3>1 DEF Served
  <2>6. ASSUME NTeams = 1, NoIdleMateBesideFreeBlock PROVE NoIdleMateBesideFreeBlock'
    <3> SUFFICES ASSUME NEW t \in Teams, NEW x \in ToSet(ordered'[t])
                 PROVE  player'[x] # NoMate
      BY DEF NoIdleMateBesideFreeBlock
    <3>1. x \in Blocks /\ AllowedNext(x, t)
      OBVIOUS
    <3>2. CASE x = b
      BY <1>0, <2>2, <3>2
    <3>3. CASE x # b
      <4>1. x \in ToSet(ordered[t])
        BY <1>1, <3>1, <3>3
      <4>2. p \in Idle({t})
        <5>1. TeamOf(p) = t
          BY <1>0, <2>1, <2>6, OneTeam
        <5> QED
          BY <2>1, <5>1 DEF Idle
      <4>3. player[x] # NoMate
        BY <2>6, <4>1, <4>2 DEF NoIdleMateBesideFreeBlock
      <4> QED
        BY <2>2, <3>1, <3>3, <4>3
    <3> QED
      BY <3>2, <3>3
  <2>7. LeftByOthers
    <3> SUFFICES ASSUME NEW q \in Mates, NEW x \in Blocks, x \in ToSet(ordered'[TeamOf(q)]),
                        controlled'[q] = NoBlock, player'[x] = NoMate,
                        controlled[q] = NoBlock => \A y \in ToSet(ordered[TeamOf(q)]) : player[y] # NoMate
                 PROVE  LeftTo(q, x)
      BY LeftByOthersFrom
    <3>1. x # b /\ AllowedNext(x, TeamOf(q))
      BY <1>0, <2>2
    <3>2. controlled[q] = NoBlock /\ player[x] = NoMate
      BY <1>2, <2>2, <3>1
    <3> QED
      BY <1>0, <1>1, <3>1, <3>2
  <2> QED
    BY <2>3, <2>4, <2>5, <2>6, <2>7 DEF StepOK
<1> QED
  BY <1>4, <1>7, <1>8

-----------------------------------------------------------------------------
(* One lemma per operation *)

\* Nothing changes but what none of the properties depends on.
LEMMA NoChangeStep ==
    ASSUME IInv, UNCHANGED <<mateVars, ordered>>, BlockTypes',
           \A x \in Blocks, t \in Teams : AllowedNext(x, t) <=> Allowed(x, t),
           \A x \in Blocks : AvailableNext(x) => Available(x)
    PROVE  StepOK
<1>1. UNCHANGED mateVars /\ ordered' = ordered
  OBVIOUS
<1>2. ListTypes'
  BY <1>1 DEF IInv, ListTypes
<1>3. \A t \in Teams : ToSet(ordered'[t]) = {x \in Blocks : AllowedNext(x, t)}
  BY <1>1 DEF IInv
<1>4. \A p \in Mates : controlled[p] # NoBlock => AllowedNext(controlled[p], TeamOf(p))
  BY NoMateIsNone DEF IInv, MateInv, MateTypes
<1> QED
  BY <1>1, <1>2, <1>3, <1>4, SameMatesStep

LEMMA TickKeeps ==
    ASSUME IInv, Tick
    PROVE  StepOK
<1>1. /\ UNCHANGED <<inLevel, posX, controllable, controllerTeam>>
      /\ UNCHANGED <<mateVars, ordered>> /\ time' = time + 1 /\ time < MaxTime
  BY DEF Tick, blockVars
<1>2. BlockTypes'
  BY <1>1, ConstantsAssumption DEF IInv, BlockTypes
<1>3. /\ \A x \in Blocks, t \in Teams : AllowedNext(x, t) <=> Allowed(x, t)
      /\ \A x \in Blocks : AvailableNext(x) => Available(x)
  BY <1>1 DEF Allowed, AllowedNext, Available, AvailableNext
<1> QED
  BY <1>1, <1>2, <1>3, NoChangeStep

LEMMA MoveKeeps ==
    ASSUME IInv, NEW b \in Blocks, NEW x \in Xs, Move(b, x)
    PROVE  StepOK
<1>1. /\ UNCHANGED <<inLevel, controllable, controllerTeam, time>>
      /\ UNCHANGED <<mateVars, ordered>> /\ posX' = [posX EXCEPT ![b] = x]
  BY DEF Move
<1>2. BlockTypes'
  BY <1>1 DEF IInv, BlockTypes
<1>3. /\ \A y \in Blocks, t \in Teams : AllowedNext(y, t) <=> Allowed(y, t)
      /\ \A y \in Blocks : AvailableNext(y) => Available(y)
  BY <1>1 DEF Allowed, AllowedNext, Available, AvailableNext
<1> QED
  BY <1>1, <1>2, <1>3, NoChangeStep

\* Some lists that a block enters.
LEMMA EnteredLists ==
    ASSUME IInv, NEW b \in Blocks, NEW S \in SUBSET Teams, NEW pos,
           \A t \in S : ~Allowed(b, t),
           ordered' = AddToLists(b, S, pos),
           \A x \in Blocks, t \in Teams : x # b => (AllowedNext(x, t) <=> Allowed(x, t)),
           \A t \in Teams : AllowedNext(b, t) <=> t \in S \/ Allowed(b, t)
    PROVE  ListTypes' /\ \A t \in Teams : ToSet(ordered'[t]) = {x \in Blocks : AllowedNext(x, t)}
<1>1. ListTypes /\ \A t \in Teams : ToSet(ordered[t]) = {x \in Blocks : Allowed(x, t)}
  BY DEF IInv
<1> DEFINE r == AddToLists(b, S, pos)
<1>2. /\ r \in [Teams -> Seq(Blocks)]
      /\ \A t \in Teams :
           /\ IsInjective(r[t])
           /\ ToSet(r[t]) = IF t \in S THEN ToSet(ordered[t]) \cup {b} ELSE ToSet(ordered[t])
  <2>1. \A t \in S : b \notin ToSet(ordered[t])
    BY <1>1
  <2>2. ListTypes
    BY <1>1
  <2> QED
    BY <2>1, <2>2, AddedToLists, Zenon
<1>3. ordered' = r
  OBVIOUS
<1> HIDE DEF r
<1>4. ASSUME NEW t \in Teams PROVE ToSet(ordered'[t]) = {x \in Blocks : AllowedNext(x, t)}
  <2>1. CASE t \in S
    <3>1. ToSet(ordered'[t]) = ToSet(ordered[t]) \cup {b} /\ AllowedNext(b, t)
      BY <1>2, <1>3, <2>1
    <3> QED
      BY <1>1, <3>1
  <2>2. CASE t \notin S
    <3>1. ToSet(ordered'[t]) = ToSet(ordered[t]) /\ (AllowedNext(b, t) <=> Allowed(b, t))
      BY <1>2, <1>3, <2>2
    <3>2. \A x \in Blocks : AllowedNext(x, t) <=> Allowed(x, t)
      BY <3>1
    <3> QED
      BY <1>1, <3>1, <3>2
  <2> QED
    BY <2>1, <2>2
<1> QED
  BY <1>2, <1>3, <1>4 DEF ListTypes

\* Some lists that a block leaves.
LEMMA LeftLists ==
    ASSUME IInv, NEW b \in Blocks, NEW S \in SUBSET Teams,
           \A t \in S : Allowed(b, t),
           ordered' = RemoveFromLists(b, S),
           \A x \in Blocks, t \in Teams : x # b => (AllowedNext(x, t) <=> Allowed(x, t)),
           \A t \in Teams : AllowedNext(b, t) <=> t \notin S /\ Allowed(b, t)
    PROVE  ListTypes' /\ \A t \in Teams : ToSet(ordered'[t]) = {x \in Blocks : AllowedNext(x, t)}
<1>1. ListTypes /\ \A t \in Teams : ToSet(ordered[t]) = {x \in Blocks : Allowed(x, t)}
  BY DEF IInv
<1> DEFINE r == RemoveFromLists(b, S)
<1>2. /\ r \in [Teams -> Seq(Blocks)]
      /\ \A t \in Teams :
           /\ IsInjective(r[t])
           /\ ToSet(r[t]) = IF t \in S THEN ToSet(ordered[t]) \ {b} ELSE ToSet(ordered[t])
  <2>1. \A t \in S : b \in ToSet(ordered[t])
    BY <1>1
  <2>2. ListTypes
    BY <1>1
  <2> QED
    BY ONLY <2>1, <2>2, RemovedFromLists, b \in Blocks, S \in SUBSET Teams, ZenonT(60)
<1>3. ordered' = r
  OBVIOUS
<1> HIDE DEF r
<1>4. ASSUME NEW t \in Teams PROVE ToSet(ordered'[t]) = {x \in Blocks : AllowedNext(x, t)}
  <2>1. CASE t \in S
    <3>1. ToSet(ordered'[t]) = ToSet(ordered[t]) \ {b} /\ ~AllowedNext(b, t)
      BY <1>2, <1>3, <2>1
    <3> QED
      BY <1>1, <3>1
  <2>2. CASE t \notin S
    <3>1. ToSet(ordered'[t]) = ToSet(ordered[t]) /\ (AllowedNext(b, t) <=> Allowed(b, t))
      BY <1>2, <1>3, <2>2
    <3>2. \A x \in Blocks : AllowedNext(x, t) <=> Allowed(x, t)
      BY <3>1
    <3> QED
      BY <1>1, <3>1, <3>2
  <2> QED
    BY <2>1, <2>2
<1> QED
  BY <1>2, <1>3, <1>4 DEF ListTypes

LEMMA SomeTeam ==
    ASSUME NEW team \in Teams \cup {AnyTeam}
    PROVE  TeamsFor(team) \in SUBSET Teams /\ TeamsFor(team) # {}
<1>1. 0 \in Teams
  BY ConstantsAssumption DEF Teams
<1> QED
  BY <1>1, TeamsForShape

LEMMA AddKeeps ==
    ASSUME IInv, NEW b \in Blocks, NEW x \in Xs, NEW can \in BOOLEAN,
           NEW team \in Teams \cup {AnyTeam}, Add(b, x, can, team)
    PROVE  StepOK
<1>1. /\ b \notin inLevel
      /\ inLevel'        = inLevel \cup {b}
      /\ posX'           = [posX EXCEPT ![b] = x]
      /\ controllable'   = [controllable EXCEPT ![b] = can]
      /\ controllerTeam' = [controllerTeam EXCEPT ![b] = team]
      /\ time' = time
  BY DEF Add
<1>2. /\ inLevel \subseteq Blocks
      /\ posX \in [Blocks -> Xs]
      /\ controllable \in [Blocks -> BOOLEAN]
      /\ controllerTeam \in [Blocks -> Teams \cup {AnyTeam}]
      /\ time \in 0 .. MaxTime
  BY DEF IInv, BlockTypes
<1>3. BlockTypes'
  BY <1>1, <1>2 DEF BlockTypes
<1>4. ~Available(b) /\ \A t \in Teams : ~Allowed(b, t)
  BY <1>1 DEF Available, Allowed
<1>5. /\ \A y \in Blocks : y # b => controllable'[y] = controllable[y]
      /\ \A y \in Blocks : y # b => controllerTeam'[y] = controllerTeam[y]
      /\ \A y \in Blocks : y # b => (y \in inLevel' <=> y \in inLevel)
      /\ controllable'[b] = can /\ controllerTeam'[b] = team /\ b \in inLevel'
  BY <1>1, <1>2
<1>6. /\ \A y \in Blocks, t \in Teams : y # b => (AllowedNext(y, t) <=> Allowed(y, t))
      /\ \A y \in Blocks : y # b => (AvailableNext(y) => Available(y))
  BY <1>5 DEF Allowed, AllowedNext, Available, AvailableNext
<1>7. TeamsFor(team) \in SUBSET Teams /\ TeamsFor(team) # {}
  BY SomeTeam
<1>8. CASE can
  <2>1. ordered' = AddToLists(b, TeamsFor(team), posX') /\ AssignToWaiting(b, TeamsFor(team))
    BY <1>8 DEF Add
  <2>2. \A t \in Teams : AllowedNext(b, t) <=> t \in TeamsFor(team)
    BY <1>5, <1>8 DEF AllowedNext
  <2>3. ListTypes' /\ \A t \in Teams : ToSet(ordered'[t]) = {y \in Blocks : AllowedNext(y, t)}
    <3>1. /\ \A t \in TeamsFor(team) : ~Allowed(b, t)
          /\ \A t \in Teams : AllowedNext(b, t) <=> t \in TeamsFor(team) \/ Allowed(b, t)
      BY <1>4, <1>7, <2>2
    <3> QED
      BY <1>6, <1>7, <2>1, <3>1, EnteredLists
  <2>4. TeamsFor(team) = TeamsFor(controllerTeam'[b])
    BY <1>5
  <2> QED
    BY <1>3, <1>4, <1>6, <1>7, <2>1, <2>2, <2>3, <2>4, EnterStep
<1>9. CASE ~can
  <2>1. UNCHANGED <<mateVars, ordered>>
    BY <1>9 DEF Add
  <2>2. ~AvailableNext(b) /\ \A t \in Teams : ~AllowedNext(b, t)
    BY <1>5, <1>9 DEF AllowedNext, AvailableNext
  <2> QED
    BY <1>3, <1>4, <1>6, <2>1, <2>2, NoChangeStep
<1> QED
  BY <1>8, <1>9

\* What is left to show of an operation after which nobody may control b.
LEMMA LeaveStep ==
    ASSUME IInv, NEW b \in Blocks, Lost(b), BlockTypes',
           ordered' \in [Teams -> Seq(Blocks)],
           \A t \in Teams : /\ IsInjective(ordered'[t])
                            /\ ToSet(ordered'[t]) = {x \in Blocks : Allowed(x, t) /\ x # b},
           \A x \in Blocks, t \in Teams : x # b => (AllowedNext(x, t) <=> Allowed(x, t)),
           \A x \in Blocks : x # b => (AvailableNext(x) => Available(x)),
           ~AvailableNext(b)
    PROVE  StepOK
<1>1. ListTypes'
  BY DEF ListTypes
<1>2. \A t \in Teams : ~AllowedNext(b, t)
  BY AllowedIsAvailable
<1>3. ASSUME NEW t \in Teams PROVE ToSet(ordered'[t]) = {x \in Blocks : AllowedNext(x, t)}
  <2>1. \A x \in Blocks : AllowedNext(x, t) <=> Allowed(x, t) /\ x # b
    BY <1>2
  <2> QED
    BY <2>1
<1>4. \A x \in Blocks : AvailableNext(x) => Available(x)
  OBVIOUS
<1> QED
  BY <1>1, <1>2, <1>3, <1>4, LostStep

LEMMA BlockRemoveKeeps ==
    ASSUME IInv, NEW b \in Blocks, BlockRemove(b)
    PROVE  StepOK
<1>1. /\ b \in inLevel /\ LoseControl(b, AnyTeam)
      /\ inLevel' = inLevel \ {b} /\ ordered' = ListsWithout(b)
      /\ UNCHANGED <<posX, controllable, controllerTeam, time>>
  BY DEF BlockRemove, Usable, Leave
<1>2. Lost(b)
  BY <1>1, LoseControlToAny
<1>3. BlockTypes'
  BY <1>1 DEF IInv, BlockTypes
<1>4. /\ \A x \in Blocks, t \in Teams : x # b => (AllowedNext(x, t) <=> Allowed(x, t))
      /\ \A x \in Blocks : x # b => (AvailableNext(x) => Available(x))
      /\ ~AvailableNext(b)
  BY <1>1 DEF Allowed, AllowedNext, Available, AvailableNext
<1>5. /\ ordered' \in [Teams -> Seq(Blocks)]
      /\ \A t \in Teams : /\ IsInjective(ordered'[t])
                          /\ ToSet(ordered'[t]) = {x \in Blocks : Allowed(x, t) /\ x # b}
  BY <1>1, ListsWithoutShape, Zenon
<1> QED
  BY <1>2, <1>3, <1>4, <1>5, LeaveStep

LEMMA MakeUncontrollableKeeps ==
    ASSUME IInv, NEW b \in Blocks, MakeUncontrollable(b)
    PROVE  StepOK
<1>1. /\ b \in inLevel /\ LoseControl(b, AnyTeam) /\ ordered' = ListsWithout(b)
      /\ controllable'   = [controllable EXCEPT ![b] = FALSE]
      /\ controllerTeam' = [controllerTeam EXCEPT ![b] = AnyTeam]
      /\ UNCHANGED <<inLevel, posX, time>>
  BY DEF MakeUncontrollable, Usable
<1>2. Lost(b)
  BY <1>1, LoseControlToAny
<1>3. BlockTypes'
  BY <1>1 DEF IInv, BlockTypes
<1>4. /\ \A x \in Blocks : x # b => controllable'[x] = controllable[x]
      /\ \A x \in Blocks : x # b => controllerTeam'[x] = controllerTeam[x]
      /\ ~controllable'[b] /\ inLevel' = inLevel
  BY <1>1 DEF IInv, BlockTypes
<1>5. /\ \A x \in Blocks, t \in Teams : x # b => (AllowedNext(x, t) <=> Allowed(x, t))
      /\ \A x \in Blocks : x # b => (AvailableNext(x) => Available(x))
      /\ ~AvailableNext(b)
  BY <1>4 DEF Allowed, AllowedNext, Available, AvailableNext
<1>6. /\ ordered' \in [Teams -> Seq(Blocks)]
      /\ \A t \in Teams : /\ IsInjective(ordered'[t])
                          /\ ToSet(ordered'[t]) = {x \in Blocks : Allowed(x, t) /\ x # b}
  BY <1>1, ListsWithoutShape, Zenon
<1> QED
  BY <1>2, <1>3, <1>5, <1>6, LeaveStep

LEMMA MakeControllableKeeps ==
    ASSUME IInv, NEW b \in Blocks, NEW team \in Teams \cup {AnyTeam}, MakeControllable(b, team)
    PROVE  StepOK
<1>1. /\ b \in inLevel /\ ~controllable[b]
      /\ controllable'   = [controllable EXCEPT ![b] = TRUE]
      /\ controllerTeam' = [controllerTeam EXCEPT ![b] = team]
      /\ ordered' = AddToLists(b, TeamsFor(team), posX)
      /\ AssignToWaiting(b, TeamsFor(team))
      /\ UNCHANGED <<inLevel, posX, time>>
  BY DEF MakeControllable, Usable
<1>2. BlockTypes'
  BY <1>1 DEF IInv, BlockTypes
<1>3. ~Available(b)
  BY <1>1 DEF Available
<1>4. /\ \A x \in Blocks : x # b => controllable'[x] = controllable[x]
      /\ \A x \in Blocks : x # b => controllerTeam'[x] = controllerTeam[x]
      /\ controllable'[b] /\ controllerTeam'[b] = team /\ inLevel' = inLevel
  BY <1>1 DEF IInv, BlockTypes
<1>5. /\ \A x \in Blocks, t \in Teams : x # b => (AllowedNext(x, t) <=> Allowed(x, t))
      /\ \A x \in Blocks : x # b => (AvailableNext(x) => Available(x))
      /\ \A t \in Teams : AllowedNext(b, t) <=> t \in TeamsFor(team)
  BY <1>1, <1>4 DEF Allowed, AllowedNext, Available, AvailableNext
<1>6. TeamsFor(team) \in SUBSET Teams /\ TeamsFor(team) # {}
  BY SomeTeam
<1>7. ListTypes' /\ \A t \in Teams : ToSet(ordered'[t]) = {x \in Blocks : AllowedNext(x, t)}
  <2>1. /\ \A t \in TeamsFor(team) : ~Allowed(b, t)
        /\ \A t \in Teams : AllowedNext(b, t) <=> t \in TeamsFor(team) \/ Allowed(b, t)
    BY <1>3, <1>5, <1>6, AllowedIsAvailable
  <2> QED
    BY <1>1, <1>5, <1>6, <2>1, EnteredLists
<1>8. TeamsFor(team) = TeamsFor(controllerTeam'[b])
  BY <1>4
<1> QED
  BY <1>1, <1>2, <1>3, <1>5, <1>6, <1>7, <1>8, EnterStep

\* Which teams a controllable block in the level is for.
LEMMA AllowedTeams ==
    ASSUME IInv, NEW b \in Blocks, b \in inLevel, controllable[b]
    PROVE  \A t : Allowed(b, t) <=> t \in TeamsFor(controllerTeam[b])
BY DEF Allowed

LEMMA EnlargeKeeps ==
    ASSUME IInv, NEW b \in Blocks, Enlarge(b)
    PROVE  StepOK
<1> DEFINE S == Teams \ {controllerTeam[b]}
<1>1. /\ b \in inLevel /\ controllable[b] /\ controllerTeam[b] # AnyTeam
      /\ controllerTeam' = [controllerTeam EXCEPT ![b] = AnyTeam]
      /\ ordered' = AddToLists(b, S, posX)
      /\ UNCHANGED <<inLevel, posX, controllable, mateVars, time>>
  BY DEF Enlarge, Usable
<1>2. BlockTypes'
  BY <1>1 DEF IInv, BlockTypes
<1>3. /\ \A x \in Blocks : x # b => controllerTeam'[x] = controllerTeam[x]
      /\ controllerTeam'[b] = AnyTeam
      /\ controllerTeam[b] \in Teams \cup {AnyTeam}
  BY <1>1 DEF IInv, BlockTypes
<1>4. TeamsFor(controllerTeam[b]) = {controllerTeam[b]} /\ TeamsFor(AnyTeam) = Teams
  BY <1>1, <1>3, TeamsForShape
<1>5. \A t : Allowed(b, t) <=> t = controllerTeam[b]
  BY <1>1, <1>4, AllowedTeams
<1>6. \A t \in Teams : AllowedNext(b, t)
  BY <1>1, <1>3, <1>4 DEF AllowedNext
<1>7. /\ \A x \in Blocks, t \in Teams : x # b => (AllowedNext(x, t) <=> Allowed(x, t))
      /\ \A x \in Blocks : AvailableNext(x) => Available(x)
  BY <1>1, <1>3 DEF Allowed, AllowedNext, Available, AvailableNext
<1>8. ListTypes' /\ \A t \in Teams : ToSet(ordered'[t]) = {x \in Blocks : AllowedNext(x, t)}
  <2>1. /\ S \in SUBSET Teams
        /\ \A t \in S : ~Allowed(b, t)
        /\ \A t \in Teams : AllowedNext(b, t) <=> t \in S \/ Allowed(b, t)
    BY <1>5, <1>6
  <2> HIDE DEF S
  <2> QED
    BY <1>1, <1>7, <2>1, EnteredLists
<1>9. \A p \in Mates : controlled[p] # NoBlock => AllowedNext(controlled[p], TeamOf(p))
  BY <1>6, <1>7, NoMateIsNone DEF IInv, MateInv, MateTypes
<1>10. NTeams = 1 => \A t \in Teams : ToSet(ordered'[t]) \subseteq ToSet(ordered[t])
  <2>1. NTeams = 1 => \A t \in Teams : t = controllerTeam[b]
    BY <1>1, <1>3, OneTeam
  <2>2. NTeams = 1 => \A t \in Teams, x \in Blocks : AllowedNext(x, t) => Allowed(x, t)
    BY <1>5, <1>7, <2>1
  <2> QED
    BY <1>8, <2>2 DEF IInv
<1> QED
  BY <1>1, <1>2, <1>7, <1>8, <1>9, <1>10, SameMatesStep

LEMMA RestrictToKeeps ==
    ASSUME IInv, RestrictOwnOnly, NEW b \in Blocks, NEW team \in Teams, RestrictTo(b, team)
    PROVE  StepOK
<1> DEFINE S == Teams \ {team}
<1>1. /\ b \in inLevel /\ controllable[b] /\ controllerTeam[b] = AnyTeam
      /\ TeamOf(player[b]) = team
      /\ controllerTeam' = [controllerTeam EXCEPT ![b] = team]
      /\ LoseControl(b, team)
      /\ ordered' = RemoveFromLists(b, S)
      /\ UNCHANGED <<inLevel, posX, controllable, time>>
  BY DEF RestrictTo, Usable
<1>2. UNCHANGED mateVars
  BY <1>1 DEF LoseControl
<1>3. BlockTypes'
  BY <1>1 DEF IInv, BlockTypes
<1>4. /\ \A x \in Blocks : x # b => controllerTeam'[x] = controllerTeam[x]
      /\ controllerTeam'[b] = team
  BY <1>1 DEF IInv, BlockTypes
<1>5. TeamsFor(team) = {team} /\ TeamsFor(AnyTeam) = Teams
  BY TeamsForShape, NoMateIsNone
<1>6. \A t : Allowed(b, t) <=> t \in Teams
  BY <1>1, <1>5, AllowedTeams
<1>7. \A t : AllowedNext(b, t) <=> t = team
  BY <1>1, <1>4, <1>5 DEF AllowedNext
<1>8. /\ \A x \in Blocks, t \in Teams : x # b => (AllowedNext(x, t) <=> Allowed(x, t))
      /\ \A x \in Blocks : AvailableNext(x) => Available(x)
  BY <1>1, <1>4 DEF Allowed, AllowedNext, Available, AvailableNext
<1>9. ListTypes' /\ \A t \in Teams : ToSet(ordered'[t]) = {x \in Blocks : AllowedNext(x, t)}
  <2>1. /\ S \in SUBSET Teams
        /\ \A t \in S : Allowed(b, t)
        /\ \A t \in Teams : AllowedNext(b, t) <=> t \notin S /\ Allowed(b, t)
    BY <1>6, <1>7
  <2> HIDE DEF S
  <2> QED
    BY <1>1, <1>8, <2>1, LeftLists
<1>10. \A p \in Mates : controlled[p] # NoBlock => AllowedNext(controlled[p], TeamOf(p))
  <2> SUFFICES ASSUME NEW p \in Mates, controlled[p] # NoBlock
               PROVE  AllowedNext(controlled[p], TeamOf(p))
    OBVIOUS
  <2>1. /\ controlled[p] \in Blocks /\ Allowed(controlled[p], TeamOf(p))
        /\ player[controlled[p]] = p /\ TeamOf(p) \in Teams
    BY NoMateIsNone DEF IInv, MateInv, MateTypes, Pointers
  <2>2. CASE controlled[p] = b
    BY <1>1, <1>7, <2>1, <2>2
  <2>3. CASE controlled[p] # b
    BY <1>8, <2>1, <2>3
  <2> QED
    BY <2>2, <2>3
<1>11. \A t \in Teams : ToSet(ordered'[t]) \subseteq ToSet(ordered[t])
  <2>1. \A t \in Teams, x \in Blocks : AllowedNext(x, t) => Allowed(x, t)
    BY <1>6, <1>8
  <2> QED
    BY <1>9, <2>1 DEF IInv
<1> QED
  BY <1>2, <1>3, <1>8, <1>9, <1>10, <1>11, SameMatesStep

LEMMA ChangeTeamKeeps ==
    ASSUME IInv, NEW b \in Blocks, NEW team \in Teams, ChangeTeam(b, team)
    PROVE  StepOK
<1> DEFINE old  == controllerTeam[b]
           less == RemoveFromLists(b, {old})
           more == AddToLists(b, {team}, posX)
<1>1. /\ b \in inLevel /\ controllable[b] /\ old \notin {AnyTeam, team}
      /\ controllerTeam' = [controllerTeam EXCEPT ![b] = team]
      /\ LoseControl(b, team)
      /\ ordered' = [less EXCEPT ![team] = more[team]]
      /\ UNCHANGED <<inLevel, posX, controllable, time>>
  BY DEF ChangeTeam, Usable
<1>2. BlockTypes'
  BY <1>1 DEF IInv, BlockTypes
<1>3. /\ \A x \in Blocks : x # b => controllerTeam'[x] = controllerTeam[x]
      /\ controllerTeam'[b] = team
      /\ old \in Teams
  BY <1>1 DEF IInv, BlockTypes
<1>4. TeamsFor(team) = {team} /\ TeamsFor(old) = {old}
  BY <1>1, <1>3, TeamsForShape, NoMateIsNone
<1>5. \A t : Allowed(b, t) <=> t = old
  BY <1>1, <1>4, AllowedTeams
<1>6. \A t : AllowedNext(b, t) <=> t = team
  BY <1>1, <1>3, <1>4 DEF AllowedNext
<1>7. /\ \A x \in Blocks, t \in Teams : x # b => (AllowedNext(x, t) <=> Allowed(x, t))
      /\ \A x \in Blocks : AvailableNext(x) => Available(x)
  BY <1>1, <1>3 DEF Allowed, AllowedNext, Available, AvailableNext
<1>8. ListTypes /\ \A t \in Teams : ToSet(ordered[t]) = {x \in Blocks : Allowed(x, t)}
  BY DEF IInv
<1> HIDE DEF old
<1>9. /\ less \in [Teams -> Seq(Blocks)]
      /\ \A t \in Teams :
           /\ IsInjective(less[t])
           /\ ToSet(less[t]) = IF t \in {old} THEN ToSet(ordered[t]) \ {b} ELSE ToSet(ordered[t])
  <2>1. \A t \in {old} : b \in ToSet(ordered[t])
    BY <1>3, <1>5, <1>8
  <2>2. {old} \in SUBSET Teams /\ ListTypes
    BY <1>3, <1>8
  <2> QED
    BY ONLY <2>1, <2>2, RemovedFromLists, b \in Blocks, ZenonT(60)
<1>10. /\ more \in [Teams -> Seq(Blocks)]
       /\ \A t \in Teams :
            /\ IsInjective(more[t])
            /\ ToSet(more[t]) = IF t \in {team} THEN ToSet(ordered[t]) \cup {b} ELSE ToSet(ordered[t])
  <2>1. \A t \in {team} : b \notin ToSet(ordered[t])
    BY <1>1, <1>5, <1>8
  <2>2. {team} \in SUBSET Teams /\ ListTypes
    BY <1>8
  <2> QED
    BY ONLY <2>1, <2>2, AddedToLists, b \in Blocks, ZenonT(60)
<1> HIDE DEF less, more
<1>11. ordered'[team] = more[team] /\ \A t \in Teams : t # team => ordered'[t] = less[t]
  BY <1>1, <1>9
<1>12. ListTypes'
  <2>1. ordered' \in [Teams -> Seq(Blocks)]
    BY <1>1, <1>9, <1>10
  <2>2. \A t \in Teams : IsInjective(ordered'[t])
    BY <1>9, <1>10, <1>11
  <2> QED
    BY <2>1, <2>2 DEF ListTypes
<1>13. ASSUME NEW t \in Teams PROVE ToSet(ordered'[t]) = {x \in Blocks : AllowedNext(x, t)}
  <2>1. CASE t = team
    <3>1. ToSet(ordered'[t]) = ToSet(ordered[t]) \cup {b} /\ AllowedNext(b, t)
      BY <1>6, <1>10, <1>11, <2>1
    <3> QED
      BY <1>7, <1>8, <3>1
  <2>2. CASE t = old
    <3>1. ToSet(ordered'[t]) = ToSet(ordered[t]) \ {b} /\ ~AllowedNext(b, t)
      BY <1>1, <1>6, <1>9, <1>11, <2>2
    <3> QED
      BY <1>7, <1>8, <3>1
  <2>3. CASE t # team /\ t # old
    <3>1. ToSet(ordered'[t]) = ToSet(ordered[t])
      BY <1>9, <1>11, <2>3
    <3>2. \A x \in Blocks : AllowedNext(x, t) <=> Allowed(x, t)
      BY <1>5, <1>6, <1>7, <2>3
    <3> QED
      BY <1>8, <3>1, <3>2
  <2> QED
    BY <2>1, <2>2, <2>3
<1>14. Lost(b)
  <2>1. player[b] # NoMate => Allowed(b, TeamOf(player[b]))
    BY ConstantsAssumption DEF IInv, MateInv, MateTypes, Pointers
  <2>2. ~(player[b] # NoMate /\ TeamOf(player[b]) = team)
    BY <1>1, <1>5, <2>1
  <2> QED
    BY <1>1, <2>2, LoseControlKeeps
<1>15. \A t \in Teams : AllowedNext(b, t) => ~Allowed(b, t) /\ NTeams > 1
  <2>1. NTeams > 1
    BY <1>1, <1>3, ConstantsAssumption DEF Teams
  <2> QED
    BY <1>1, <1>5, <1>6, <2>1
<1> QED
  BY <1>2, <1>7, <1>12, <1>13, <1>14, <1>15, LostStep

LEMMA FuseKeeps ==
    ASSUME IInv, NEW b \in Blocks, NEW victim \in Blocks, NEW x \in Xs, Fuse(b, victim, x)
    PROVE  StepOK
<1> DEFINE rest == ListsWithout(victim)
           S    == TeamsFor(controllerTeam[b])
<1>1. /\ b # victim /\ victim \in inLevel
      /\ posX' = [posX EXCEPT ![b] = x]
      /\ LoseControl(victim, AnyTeam)
      /\ inLevel' = inLevel \ {victim}
      /\ ordered' = IF player'[b] = NoMate THEN rest
                    ELSE [t \in Teams |-> IF t \in S THEN Repositioned(rest[t], b, posX') ELSE rest[t]]
      /\ UNCHANGED <<controllable, controllerTeam, time>>
  BY DEF Fuse, Usable, Leave
<1>2. Lost(victim)
  BY <1>1, LoseControlToAny
<1>3. BlockTypes'
  BY <1>1 DEF IInv, BlockTypes
<1>4. /\ \A y \in Blocks, t \in Teams : y # victim => (AllowedNext(y, t) <=> Allowed(y, t))
      /\ \A y \in Blocks : y # victim => (AvailableNext(y) => Available(y))
      /\ ~AvailableNext(victim)
  BY <1>1 DEF Allowed, AllowedNext, Available, AvailableNext
<1>5. /\ rest \in [Teams -> Seq(Blocks)]
      /\ \A t \in Teams : /\ IsInjective(rest[t])
                          /\ ToSet(rest[t]) = {y \in Blocks : Allowed(y, t) /\ y # victim}
  BY <1>1, ListsWithoutShape, Zenon
<1> HIDE DEF rest
<1>6. player'[b] # NoMate => \A t \in S \cap Teams : b \in ToSet(rest[t])
  <2> SUFFICES ASSUME player'[b] # NoMate, NEW t \in S \cap Teams PROVE b \in ToSet(rest[t])
    OBVIOUS
  <2>1. player'[b] \in Mates /\ controlled'[player'[b]] = b
    BY <1>2 DEF Lost, MateInv, MateTypes, Pointers
  <2>2. Allowed(b, TeamOf(player'[b]))
    BY <1>2, <2>1, ConstantsAssumption DEF Lost
  <2>3. Allowed(b, t)
    BY <2>2 DEF Allowed
  <2> QED
    BY <1>1, <1>5, <2>3
<1>7. ASSUME NEW t \in Teams
      PROVE  /\ ordered'[t] \in Seq(Blocks) /\ IsInjective(ordered'[t])
             /\ ToSet(ordered'[t]) = ToSet(rest[t])
  <2>1. CASE player'[b] # NoMate /\ t \in S
    <3>1. ordered'[t] = Repositioned(rest[t], b, posX')
      BY <1>1, <2>1
    <3>2. b \in ToSet(rest[t]) /\ rest[t] \in Seq(Blocks) /\ IsInjective(rest[t])
      BY <1>5, <1>6, <2>1
    <3>3. /\ Repositioned(rest[t], b, posX') \in Seq(Blocks)
          /\ IsInjective(Repositioned(rest[t], b, posX'))
          /\ ToSet(Repositioned(rest[t], b, posX')) = ToSet(rest[t])
      BY <3>2, RepositionedKeepsSet
    <3> QED
      BY <3>1, <3>3
  <2>2. CASE ~(player'[b] # NoMate /\ t \in S)
    <3>1. ordered'[t] = rest[t]
      BY <1>1, <2>2
    <3> QED
      BY <1>5, <3>1
  <2> QED
    BY <2>1, <2>2
<1>8. ordered' \in [Teams -> Seq(Blocks)]
  <2>1. ordered' = [t \in Teams |-> ordered'[t]]
    <3>1. CASE player'[b] = NoMate
      BY <1>1, <1>5, <3>1
    <3>2. CASE player'[b] # NoMate
      BY <1>1, <3>2
    <3> QED
      BY <3>1, <3>2
  <2> QED
    BY <1>7, <2>1
<1> QED
  BY <1>1, <1>2, <1>3, <1>4, <1>5, <1>7, <1>8, LeaveStep

LEMMA CycleKeeps ==
    ASSUME IInv, NEW b \in Blocks, NEW preferred \in inLevel \cup {NoBlock}, Cycle(b, preferred)
    PROVE  StepOK
<1> DEFINE p == player[b]
           t == TeamOf(p)
           n == IF preferred # NoBlock /\ Preferable(preferred, t) THEN preferred ELSE NextFree(b, t)
<1>1. /\ player[b] # NoMate /\ n # NoBlock
      /\ player'     = [player EXCEPT ![b] = NoMate, ![n] = p]
      /\ controlled' = [controlled EXCEPT ![p] = n]
      /\ lastTime'   = [lastTime EXCEPT ![p] = time]
      /\ UNCHANGED <<inLevel, posX, controllable, controllerTeam, totInControl, ordered, time>>
  BY DEF Cycle, blockVars
<1>2. p \in Mates /\ t \in Teams /\ controlled[p] = b /\ b # NoBlock
  BY <1>1, NoMateIsNone, ConstantsAssumption DEF IInv, MateInv, MateTypes, Pointers
<1>3. n \in Blocks /\ player[n] = NoMate /\ Allowed(n, t)
  <2>1. CASE preferred # NoBlock /\ Preferable(preferred, t)
    BY <2>1 DEF Preferable, Allowed, IInv, BlockTypes
  <2>2. CASE ~(preferred # NoBlock /\ Preferable(preferred, t))
    <3>1. n = NextFree(b, t)
      BY <2>2
    <3>2. b \in ToSet(ordered[t]) /\ ListTypes
      BY <1>2 DEF IInv
    <3> HIDE DEF n, t
    <3>3. n \in ToSet(ordered[t]) /\ player[n] = NoMate
      BY <1>1, <1>2, <3>1, <3>2, NextFreeShape
    <3> QED
      BY <1>2, <3>3 DEF IInv
  <2> QED
    BY <2>1, <2>2
<1> HIDE DEF n
<1>4. /\ MateInv'
      /\ controlled'[p] = n
      /\ \A q \in Mates : controlled'[q] # NoBlock => Allowed(controlled'[q], TeamOf(q))
      /\ \A q \in Mates : q # p => controlled'[q] = controlled[q]
  BY <1>1, <1>3, TakeOverKeeps
<1>5. /\ \A x \in Blocks : \A u : AllowedNext(x, u) <=> Allowed(x, u)
      /\ \A x \in Blocks : AvailableNext(x) => Available(x)
  BY <1>1 DEF Allowed, AllowedNext, Available, AvailableNext
<1>6. IInv'
  <2>1. BlockTypes' /\ ListTypes'
    BY <1>1 DEF IInv, BlockTypes, ListTypes
  <2>2. \A u \in Teams : ToSet(ordered'[u]) = {x \in Blocks : AllowedNext(x, u)}
    BY <1>1, <1>5 DEF IInv
  <2>3. \A q \in Mates : controlled'[q] # NoBlock => AllowedNext(controlled'[q], TeamOf(q))
    BY <1>4, <1>5 DEF MateInv, MateTypes
  <2> QED
    BY <1>4, <2>1, <2>2, <2>3, IInvFrom
<1>7. \A q \in Mates : controlled'[q] = NoBlock <=> controlled[q] = NoBlock
  BY <1>1, <1>2, <1>4
<1>8. Replaced
  BY <1>7 DEF Replaced
<1>9. NTeams = 1 /\ NoIdleMateBesideFreeBlock => NoIdleMateBesideFreeBlock'
  <2>1. NTeams = 1 => Teams = {t}
    BY <1>2, OneTeam
  <2>2. n \in ToSet(ordered[t])
    BY <1>2, <1>3 DEF IInv
  <2>3. NTeams = 1 /\ NoIdleMateBesideFreeBlock => Idle({t}) = {}
    BY <1>2, <1>3, <2>2 DEF NoIdleMateBesideFreeBlock
  <2>4. \A u \in Teams : Idle({u})' = Idle({u})
    BY <1>7 DEF Idle
  <2>5. NTeams = 1 /\ NoIdleMateBesideFreeBlock => \A u \in Teams : Idle({u})' = {}
    BY <2>1, <2>3, <2>4
  <2> QED
    BY <2>5 DEF NoIdleMateBesideFreeBlock
<1>10. LeftByOthers
  <2> SUFFICES ASSUME NEW q \in Mates, NEW x \in Blocks, x \in ToSet(ordered'[TeamOf(q)]),
                      controlled'[q] = NoBlock, player'[x] = NoMate,
                      controlled[q] = NoBlock => \A y \in ToSet(ordered[TeamOf(q)]) : player[y] # NoMate
               PROVE  LeftTo(q, x)
    <3>1. \A u \in Teams : ToSet(ordered'[u]) \subseteq Blocks
      BY <1>6 DEF IInv
    <3> QED
      BY <3>1, LeftByOthersFrom
  <2>1. \A y \in ToSet(ordered[TeamOf(q)]) : player[y] # NoMate
    BY <1>7
  <2>2. player[x] # NoMate
    BY <1>1, <2>1
  <2>3. x = b
    BY <1>1, <1>3, <2>2 DEF IInv, MateInv, MateTypes
  <2>4. n \in ToSet(ordered[t])
    BY <1>2, <1>3 DEF IInv
  <2>5. TeamOf(q) # t
    BY <1>3, <2>1, <2>4
  <2> QED
    BY <1>1, <2>3, <2>5 DEF LeftTo
<1> QED
  BY <1>5, <1>6, <1>8, <1>9, <1>10 DEF StepOK

-----------------------------------------------------------------------------
(* The theorems *)

LEMMA InitEstablishes ==
    ASSUME Init
    PROVE  IInv
<1>1. /\ inLevel        = {}
      /\ posX           = [b \in Blocks |-> 0]
      /\ controllable   = [b \in Blocks |-> FALSE]
      /\ controllerTeam = [b \in Blocks |-> AnyTeam]
      /\ player         = [b \in Blocks |-> NoMate]
      /\ controlled     = [p \in Mates |-> NoBlock]
      /\ lastTime       = [p \in Mates |-> p[2] - NMates]
      /\ ordered        = [t \in Teams |-> <<>>]
      /\ totInControl   = [t \in Teams |-> 0]
      /\ time           = 0
  BY DEF Init
<1>2. BlockTypes
  BY <1>1, ConstantsAssumption DEF BlockTypes, Xs
<1>3. ListTypes /\ \A t \in Teams : ToSet(ordered[t]) = {b \in Blocks : Allowed(b, t)}
  <2>1. ListTypes
    BY <1>1 DEF ListTypes, IsInjective
  <2>2. ToSet(<<>>) = {}
    BY DEF ToSet
  <2>3. \A t \in Teams : {b \in Blocks : Allowed(b, t)} = {}
    BY <1>1 DEF Allowed
  <2> QED
    BY <1>1, <2>1, <2>2, <2>3
<1>4. MateTypes
  <2>1. lastTime \in [Mates -> -NMates .. MaxTime]
    <3>1. \A p \in Mates : p[2] - NMates \in -NMates .. MaxTime
      BY ConstantsAssumption DEF Mates
    <3> QED
      BY <1>1, <3>1
  <2> QED
    BY <1>1, <2>1 DEF MateTypes
<1>5. Pointers
  BY <1>1 DEF Pointers
<1>6. CountInControl
  <2>1. \A t \in Teams : {p \in Mates : TeamOf(p) = t /\ controlled[p] # NoBlock} = {}
    BY <1>1
  <2> QED
    BY <1>1, <2>1, FS_EmptySet DEF CountInControl
<1> QED
  BY <1>1, <1>2, <1>3, <1>4, <1>5, <1>6 DEF IInv, MateInv

\* Every step keeps the invariant and does what the action properties say.
LEMMA NextKeeps ==
    ASSUME IInv, RestrictOwnOnly, Next
    PROVE  StepOK
<1>1. CASE Tick
  BY <1>1, TickKeeps
<1>2. ASSUME NEW b \in Blocks,
             \/ \E x \in Xs, can \in BOOLEAN, team \in Teams \cup {AnyTeam} : Add(b, x, can, team)
             \/ BlockRemove(b)
             \/ \E victim \in Blocks, x \in Xs : Fuse(b, victim, x)
             \/ \E x \in Xs : Move(b, x)
             \/ \E preferred \in inLevel \cup {NoBlock} : Cycle(b, preferred)
             \/ Enlarge(b)
             \/ MakeUncontrollable(b)
             \/ \E team \in Teams : RestrictTo(b, team) \/ ChangeTeam(b, team)
             \/ \E team \in Teams \cup {AnyTeam} : MakeControllable(b, team)
      PROVE  StepOK
  <2>1. CASE \E x \in Xs, can \in BOOLEAN, team \in Teams \cup {AnyTeam} : Add(b, x, can, team)
    BY <2>1, AddKeeps
  <2>2. CASE BlockRemove(b)
    BY <2>2, BlockRemoveKeeps
  <2>3. CASE \E victim \in Blocks, x \in Xs : Fuse(b, victim, x)
    BY <2>3, FuseKeeps
  <2>4. CASE \E x \in Xs : Move(b, x)
    BY <2>4, MoveKeeps
  <2>5. CASE \E preferred \in inLevel \cup {NoBlock} : Cycle(b, preferred)
    BY <2>5, CycleKeeps
  <2>6. CASE Enlarge(b)
    BY <2>6, EnlargeKeeps
  <2>7. CASE MakeUncontrollable(b)
    BY <2>7, MakeUncontrollableKeeps
  <2>8. CASE \E team \in Teams : RestrictTo(b, team) \/ ChangeTeam(b, team)
    BY <2>8, RestrictToKeeps, ChangeTeamKeeps
  <2>9. CASE \E team \in Teams \cup {AnyTeam} : MakeControllable(b, team)
    BY <2>9, MakeControllableKeeps
  <2> QED
    BY <1>2, <2>1, <2>2, <2>3, <2>4, <2>5, <2>6, <2>7, <2>8, <2>9
<1> QED
  BY <1>1, <1>2 DEF Next

LEMMA StutterKeeps ==
    ASSUME IInv, UNCHANGED vars
    PROVE  StepOK
<1>1. UNCHANGED <<inLevel, posX, controllable, controllerTeam, mateVars, ordered, time>>
  BY DEF vars, blockVars
<1>2. BlockTypes'
  BY <1>1 DEF IInv, BlockTypes
<1>3. /\ \A x \in Blocks, t \in Teams : AllowedNext(x, t) <=> Allowed(x, t)
      /\ \A x \in Blocks : AvailableNext(x) => Available(x)
  BY <1>1 DEF Allowed, AllowedNext, Available, AvailableNext
<1> QED
  BY <1>1, <1>2, <1>3, NoChangeStep

\* The invariant holds throughout when callers restrict a block to a team only while
\* a mate of that team controls it.
LEMMA IInvHolds ==
    ASSUME RestrictOwnOnly
    PROVE  Spec => []IInv
<1>1. Init => IInv
  BY InitEstablishes
<1>2. IInv /\ [Next]_vars => IInv'
  BY NextKeeps, StutterKeeps DEF StepOK
<1> QED
  BY <1>1, <1>2, PTL DEF Spec

\* Blocks, mates, lists and counts have their types.
THEOREM TypesHold ==
    ASSUME RestrictOwnOnly
    PROVE  Spec => []TypeOK
<1>1. IInv => TypeOK
  <2> SUFFICES ASSUME IInv PROVE TypeOK
    OBVIOUS
  <2>1. BlockTypes /\ MateTypes /\ ListTypes /\ CountInControl
    BY DEF IInv, MateInv
  <2>2. \A t \in Teams : totInControl[t] \in 0 .. NMates
    BY <2>1, TeamMates DEF CountInControl
  <2> QED
    BY <2>1, <2>2 DEF TypeOK, BlockTypes, MateTypes, ListTypes
<1> QED
  BY <1>1, IInvHolds, PTL

\* A mate and its block name each other, and its team may control that block, whatever
\* is added, removed, fused, cycled through or given to other teams.
THEOREM ControlMirroredHolds ==
    ASSUME RestrictOwnOnly
    PROVE  Spec => []ControlMirrored
<1>1. IInv => ControlMirrored
  BY DEF IInv, MateInv, Pointers, Allowed, ControlMirrored
<1> QED
  BY <1>1, IInvHolds, PTL

\* The count of mates in control of each team is the number of its mates that have a
\* block, so that blockAssignControlToLongestWaitingMate overlooks nobody.
THEOREM CountHolds ==
    ASSUME RestrictOwnOnly
    PROVE  Spec => []CountInControl
<1>1. IInv => CountInControl
  BY DEF IInv, MateInv
<1> QED
  BY <1>1, IInvHolds, PTL

\* The list of each team holds exactly the blocks of the level that its mates may
\* control, each once: no iterator kept in a block dangles.
THEOREM ListsHold ==
    ASSUME RestrictOwnOnly
    PROVE  Spec => []ListsHoldControllable
<1>1. IInv => ListsHoldControllable
  <2> SUFFICES ASSUME IInv, NEW t \in Teams
               PROVE  /\ ToSet(ordered[t]) = {b \in inLevel : controllable[b] /\ t \in TeamsFor(controllerTeam[b])}
                      /\ IsInjective(ordered[t])
    BY DEF ListsHoldControllable
  <2>1. {b \in Blocks : Allowed(b, t)} = {b \in inLevel : controllable[b] /\ t \in TeamsFor(controllerTeam[b])}
    BY DEF IInv, BlockTypes, Allowed
  <2> QED
    BY <2>1 DEF IInv, ListTypes
<1> QED
  BY <1>1, IInvHolds, PTL

\* A mate that loses its block gets another unless none of its team's list is free.
THEOREM ReplacedHolds ==
    ASSUME RestrictOwnOnly
    PROVE  Spec => ReplacedWhenPossible
<1>1. IInv /\ [Next]_vars =>
        [\A p \in Mates : controlled[p] # NoBlock /\ controlled'[p] = NoBlock =>
            \A b \in ToSet(ordered'[TeamOf(p)]) : player'[b] # NoMate]_vars
  BY NextKeeps DEF StepOK, Replaced
<1> QED
  BY <1>1, IInvHolds, PTL DEF Spec, ReplacedWhenPossible

\* A mate comes to wait beside a free block only when a mate of another team gives that
\* block up or it is opened to the waiting mate's team, however many teams there are.
THEOREM LeftWaitingHolds ==
    ASSUME RestrictOwnOnly
    PROVE  Spec => LeftWaitingByOthers
<1>1. IInv /\ [Next]_vars =>
        [\A p \in Mates : ~WaitsBesideFree(p) /\ WaitsBesideFree(p)' =>
            \E b \in ToSet(ordered'[TeamOf(p)]) :
               /\ player'[b] = NoMate
               /\ \/ player[b] # NoMate /\ TeamOf(player[b]) # TeamOf(p)
                  \/ /\ player[b] = NoMate /\ b \in inLevel /\ controllable[b]
                     /\ b \notin ToSet(ordered[TeamOf(p)])]_vars
  BY NextKeeps DEF StepOK, LeftByOthers, LeftTo, Available
<1> QED
  BY <1>1, IInvHolds, PTL DEF Spec, LeftWaitingByOthers

\* A block that becomes available goes to one of the mates that wait longest for it.
THEOREM LongestIdleHolds ==
    ASSUME RestrictOwnOnly
    PROVE  Spec => LongestIdleServed
<1>1. IInv /\ [Next]_vars =>
        [\A b \in Blocks : (b \notin inLevel \/ ~controllable[b]) /\ b \in inLevel' /\ controllable'[b] =>
            LET waiting == {p \in Mates : controlled[p] = NoBlock
                                          /\ TeamOf(p) \in TeamsFor(controllerTeam'[b])}
            IN  /\ waiting # {} => player'[b] \in waiting
                /\ player'[b] # NoMate => \A p \in waiting : lastTime[player'[b]] <= lastTime[p]]_vars
  BY NextKeeps DEF StepOK, Served, Available, AvailableNext
<1> QED
  BY <1>1, IInvHolds, PTL DEF Spec, LongestIdleServed

\* With one team, nobody waits while a block its team may control is free.
THEOREM NobodyWaitsBesideFree ==
    ASSUME RestrictOwnOnly, NTeams = 1
    PROVE  Spec => []NoIdleMateBesideFreeBlock
<1>1. Init => NoIdleMateBesideFreeBlock
  <2>1. ToSet(<<>>) = {}
    BY DEF ToSet
  <2> QED
    BY <2>1 DEF Init, NoIdleMateBesideFreeBlock
<1>2. IInv /\ NoIdleMateBesideFreeBlock /\ [Next]_vars => NoIdleMateBesideFreeBlock'
  BY NextKeeps, StutterKeeps DEF StepOK
<1> QED
  BY <1>1, <1>2, IInvHolds, PTL DEF Spec
=============================================================================
