----------------------------- MODULE ListLemmas -----------------------------
(***************************************************************************)
(* What inserting an element into a sequence and removing one yields.  The *)
(* std::list members of Level are modelled as sequences without            *)
(* repetitions, changed by these two operators only. First, that a set of  *)
(* natural numbers has a least member, such as the place of an insertion.  *)
(***************************************************************************)
EXTENDS Integers, SequencesExt, SequenceTheorems, FiniteSetTheorems, WellFoundedInduction, TLAPS

\* A non-empty set of natural numbers has a least member.
LEMMA SmallestExists ==
    ASSUME NEW T \in SUBSET Nat, T # {}
    PROVE  \E x \in T : \A y \in T : x <= y
<1> DEFINE UpTo(x) == {y \in T : y <= x}
           F == {UpTo(x) : x \in T}
           R == StrictSubsetOrdering(Nat)
<1>1. \A x \in T : UpTo(x) \in FiniteSubsetsOf(Nat)
  <2> SUFFICES ASSUME NEW x \in T PROVE UpTo(x) \in SUBSET Nat /\ IsFiniteSet(UpTo(x))
    BY DEF FiniteSubsetsOf
  <2> QED
    BY FS_BoundedSetOfNaturals
<1>2. F \subseteq FiniteSubsetsOf(Nat) /\ F # {}
  BY <1>1
<1>3. PICK U \in F : \A V \in F : ~(<<V, U>> \in R)
  <2>1. IsWellFoundedOn(R, FiniteSubsetsOf(Nat))
    BY FS_StrictSubsetOrderingWellFounded
  <2> HIDE DEF F, R
  <2> QED
    BY <1>2, <2>1, WFMin
<1>4. PICK x \in T : U = UpTo(x)
  OBVIOUS
<1>5. ASSUME NEW y \in T, ~(x <= y)
      PROVE  FALSE
  <2>0. \A z \in T : z \in Nat
    OBVIOUS
  <2>1. UpTo(y) \in SUBSET UpTo(x) /\ x \in UpTo(x) /\ x \notin UpTo(y)
    <3>1. \A z \in T : z <= y => z <= x
      BY <1>5, <2>0
    <3>2. x <= x
      BY <2>0
    <3> QED
      BY <1>5, <3>1, <3>2
  <2>2. <<UpTo(y), UpTo(x)>> \in R
    BY <1>1, <2>1 DEF StrictSubsetOrdering
  <2> QED
    BY <1>3, <1>4, <2>2
<1> QED
  BY <1>5
\* The operator Min finds it.
LEMMA MinIsLeast ==
    ASSUME NEW T \in SUBSET Nat, T # {}
    PROVE  Min(T) \in T /\ \A y \in T : Min(T) <= y
BY SmallestExists DEF Min

\* A bounded one has a greatest member, which Max finds.
LEMMA MaxIsGreatest ==
    ASSUME NEW T \in SUBSET Nat, T # {}, NEW n \in Nat, \A x \in T : x <= n
    PROVE  Max(T) \in T /\ \A y \in T : y <= Max(T)
<1> DEFINE D == {n - x : x \in T}
<1>0. \A x \in T : x \in Nat /\ n - x \in Nat
  OBVIOUS
<1>1. D \in SUBSET Nat /\ D # {}
  BY <1>0
<1>2. PICK d \in D : \A y \in D : d <= y
  <2> HIDE DEF D
  <2> QED
    BY <1>1, SmallestExists
<1>3. PICK m \in T : d = n - m
  OBVIOUS
<1>4. \A y \in T : y <= m
  <2> SUFFICES ASSUME NEW y \in T PROVE y <= m
    OBVIOUS
  <2>1. d <= n - y
    BY <1>2
  <2> QED
    BY <1>0, <1>3, <2>1
<1> QED
  BY <1>4 DEF Max

\* The length and the elements of a sequence after an insertion at place i, as
\* std::list::insert does.
LEMMA InsertAtShape ==
    ASSUME NEW S, NEW s \in Seq(S), NEW e \in S, NEW i \in 1 .. Len(s) + 1
    PROVE  /\ InsertAt(s, i, e) \in Seq(S)
           /\ Len(InsertAt(s, i, e)) = Len(s) + 1
           /\ \A k \in 1 .. Len(s) + 1 :
                InsertAt(s, i, e)[k] = IF k < i THEN s[k] ELSE IF k = i THEN e ELSE s[k - 1]
<1> DEFINE a == SubSeq(s, 1, i - 1)
           b == SubSeq(s, i, Len(s))
           ae == a \o <<e>>
<1>0. Len(s) \in Nat
  OBVIOUS
<1>1. /\ a \in Seq(S)
      /\ Len(a) = i - 1
      /\ \A k \in 1 .. i - 1 : a[k] = s[k]
  OBVIOUS
<1>2. /\ b \in Seq(S)
      /\ Len(b) = Len(s) - i + 1
      /\ \A k \in 1 .. Len(s) - i + 1 : b[k] = s[i + k - 1]
  OBVIOUS
<1>3. InsertAt(s, i, e) = ae \o b
  BY DEF InsertAt
<1> HIDE DEF a, b
<1>4. <<e>> \in Seq(S) /\ Len(<<e>>) = 1 /\ <<e>>[1] = e
  OBVIOUS
<1>5. /\ ae \in Seq(S)
      /\ Len(ae) = i
      /\ \A k \in 1 .. i : ae[k] = IF k < i THEN s[k] ELSE e
  BY <1>1, <1>4, ConcatProperties
<1> HIDE DEF ae
<1>6. /\ ae \o b \in Seq(S)
      /\ Len(ae \o b) = Len(s) + 1
      /\ \A k \in 1 .. Len(s) + 1 : (ae \o b)[k] = IF k <= i THEN ae[k] ELSE b[k - i]
  <2>1. Len(ae) + Len(b) = Len(s) + 1
    BY <1>0, <1>2, <1>5
  <2>2. /\ ae \o b \in Seq(S)
        /\ Len(ae \o b) = Len(ae) + Len(b)
        /\ \A k \in 1 .. Len(ae) + Len(b) :
             (ae \o b)[k] = IF k <= Len(ae) THEN ae[k] ELSE b[k - Len(ae)]
    BY <1>2, <1>5, ConcatProperties
  <2> QED
    BY <1>5, <2>1, <2>2
<1>7. ASSUME NEW k \in 1 .. Len(s) + 1
      PROVE  (ae \o b)[k] = IF k < i THEN s[k] ELSE IF k = i THEN e ELSE s[k - 1]
  <2>1. CASE k <= i
    BY <1>0, <1>5, <1>6, <2>1
  <2>2. CASE k > i
    <3>1. k - i \in 1 .. Len(s) - i + 1 /\ i + (k - i) - 1 = k - 1
      BY <2>2
    <3>2. b[k - i] = s[k - 1]
      BY <3>1, <1>2
    <3> QED
      BY <1>0, <1>6, <2>2, <3>2
  <2>3. k <= i \/ k > i
    BY <1>0
  <2> QED
    BY <2>1, <2>2, <2>3, Zenon
<1> QED
  BY <1>3, <1>6, <1>7

\* The length and the elements of a sequence after its element at place i has gone,
\* as std::list::erase does.
LEMMA RemoveAtShape ==
    ASSUME NEW S, NEW s \in Seq(S), NEW i \in 1 .. Len(s)
    PROVE  /\ RemoveAt(s, i) \in Seq(S)
           /\ Len(RemoveAt(s, i)) = Len(s) - 1
           /\ \A k \in 1 .. Len(s) - 1 : RemoveAt(s, i)[k] = IF k < i THEN s[k] ELSE s[k + 1]
<1> DEFINE a == SubSeq(s, 1, i - 1)
           b == SubSeq(s, i + 1, Len(s))
<1>0. Len(s) \in Nat
  OBVIOUS
<1>1. /\ a \in Seq(S)
      /\ Len(a) = i - 1
      /\ \A k \in 1 .. i - 1 : a[k] = s[k]
  OBVIOUS
<1>2. /\ b \in Seq(S)
      /\ Len(b) = Len(s) - i
      /\ \A k \in 1 .. Len(s) - i : b[k] = s[i + k]
  OBVIOUS
<1>3. RemoveAt(s, i) = a \o b
  BY DEF RemoveAt
<1> HIDE DEF a, b
<1>4. /\ a \o b \in Seq(S)
      /\ Len(a \o b) = Len(s) - 1
      /\ \A k \in 1 .. Len(s) - 1 : (a \o b)[k] = IF k <= i - 1 THEN a[k] ELSE b[k - (i - 1)]
  <2>1. Len(a) + Len(b) = Len(s) - 1
    BY <1>0, <1>1, <1>2
  <2>2. /\ a \o b \in Seq(S)
        /\ Len(a \o b) = Len(a) + Len(b)
        /\ \A k \in 1 .. Len(a) + Len(b) :
             (a \o b)[k] = IF k <= Len(a) THEN a[k] ELSE b[k - Len(a)]
    BY <1>1, <1>2, ConcatProperties
  <2> QED
    BY <1>1, <2>1, <2>2
<1>5. ASSUME NEW k \in 1 .. Len(s) - 1
      PROVE  (a \o b)[k] = IF k < i THEN s[k] ELSE s[k + 1]
  <2>1. CASE k < i
    BY <1>0, <1>1, <1>4, <2>1
  <2>2. CASE k >= i
    <3>1. k - (i - 1) \in 1 .. Len(s) - i /\ i + (k - (i - 1)) = k + 1
      BY <2>2
    <3>2. b[k - (i - 1)] = s[k + 1]
      BY <3>1, <1>2
    <3> QED
      BY <1>0, <1>4, <2>2, <3>2
  <2>3. k < i \/ k >= i
    BY <1>0
  <2> QED
    BY <2>1, <2>2, <2>3, Zenon
<1> QED
  BY <1>3, <1>4, <1>5

\* Removing an element by value, as Util::listExtract does, takes away its first place.
LEMMA RemoveFirstIsRemoveAt ==
    ASSUME NEW S, NEW s \in Seq(S), NEW e, NEW i \in 1 .. Len(s),
           s[i] = e, \A j \in 1 .. i - 1 : s[j] # e
    PROVE  RemoveFirst(s, e) = RemoveAt(s, i)
<1> DEFINE I == {j \in 1 .. Len(s) : s[j] = e}
<1>1. \A j \in I : i <= j
  OBVIOUS
<1>2. Min(I) = i
  BY <1>1 DEF Min
<1>3. SelectInSeq(s, LAMBDA v : v = e) = i
  BY <1>2 DEF SelectInSeq
<1> QED
  BY <1>3 DEF RemoveFirst

\* An element taken out of a list in which it is once.
LEMMA RemoveFirstOnce ==
    ASSUME NEW S, NEW s \in Seq(S), IsInjective(s), NEW e \in ToSet(s)
    PROVE  LET r == RemoveFirst(s, e)
           IN  /\ r \in Seq(S)
               /\ ToSet(r) = ToSet(s) \ {e}
               /\ IsInjective(r)
               /\ \A k, m \in 1 .. Len(r) :
                    k < m => \E i, j \in 1 .. Len(s) : i < j /\ r[k] = s[i] /\ r[m] = s[j]
<1> DEFINE r == RemoveFirst(s, e)
<1>0. Len(s) \in Nat /\ DOMAIN s = 1 .. Len(s)
  OBVIOUS
<1>1. PICK i \in 1 .. Len(s) : s[i] = e
  BY <1>0 DEF ToSet
<1>2. \A j, k \in 1 .. Len(s) : s[j] = s[k] => j = k
  BY <1>0 DEF IsInjective
<1>3. r = RemoveAt(s, i)
  <2>1. \A j \in 1 .. i - 1 : s[j] # e
    BY <1>0, <1>1, <1>2
  <2> QED
    BY <1>1, <2>1, RemoveFirstIsRemoveAt
<1> HIDE DEF r
<1>4. /\ r \in Seq(S)
      /\ Len(r) = Len(s) - 1
      /\ \A k \in 1 .. Len(s) - 1 : r[k] = IF k < i THEN s[k] ELSE s[k + 1]
  BY <1>3, RemoveAtShape
<1>5. DOMAIN r = 1 .. Len(s) - 1
  BY <1>4
<1> DEFINE src(k) == IF k < i THEN k ELSE k + 1
<1>6. \A k \in 1 .. Len(s) - 1 : src(k) \in (1 .. Len(s)) \ {i} /\ r[k] = s[src(k)]
  BY <1>0, <1>4
<1>7. \A k, m \in 1 .. Len(s) - 1 : k < m => src(k) < src(m)
  BY <1>0
<1>8. \A j \in (1 .. Len(s)) \ {i} : \E k \in 1 .. Len(s) - 1 : src(k) = j
  <2> SUFFICES ASSUME NEW j \in (1 .. Len(s)) \ {i}
               PROVE  \E k \in 1 .. Len(s) - 1 : src(k) = j
    OBVIOUS
  <2>1. CASE j < i
    BY <1>0, <2>1
  <2>2. CASE j > i
    <3>1. j - 1 \in 1 .. Len(s) - 1 /\ src(j - 1) = j
      BY <1>0, <2>2
    <3> QED
      BY <3>1
  <2> QED
    BY <1>0, <2>1, <2>2
<1> HIDE DEF src
<1>9. ToSet(r) = ToSet(s) \ {e}
  <2>1. ASSUME NEW v \in ToSet(r) PROVE v \in ToSet(s) \ {e}
    <3>1. PICK k \in 1 .. Len(s) - 1 : v = r[k]
      BY <1>5 DEF ToSet
    <3> QED
      BY <1>0, <1>1, <1>2, <1>6, <3>1 DEF ToSet
  <2>2. ASSUME NEW v \in ToSet(s) \ {e} PROVE v \in ToSet(r)
    <3>1. PICK j \in 1 .. Len(s) : v = s[j]
      BY <1>0 DEF ToSet
    <3>2. j # i
      BY <1>1, <3>1
    <3>3. PICK k \in 1 .. Len(s) - 1 : src(k) = j
      BY <1>8, <3>2
    <3>4. v = r[k]
      BY <1>6, <3>1, <3>3
    <3> QED
      BY <1>5, <3>4 DEF ToSet
  <2> QED
    BY <2>1, <2>2
<1>10. IsInjective(r)
  <2>1. ASSUME NEW k \in 1 .. Len(s) - 1, NEW m \in 1 .. Len(s) - 1, r[k] = r[m]
        PROVE  k = m
    <3>1. src(k) = src(m)
      BY <1>2, <1>6, <2>1
    <3>2. ~(k < m) /\ ~(m < k)
      BY <1>6, <1>7, <3>1
    <3> QED
      BY <3>2
  <2> QED
    BY <1>5, <2>1 DEF IsInjective
<1>11. \A k, m \in 1 .. Len(r) :
         k < m => \E a, b \in 1 .. Len(s) : a < b /\ r[k] = s[a] /\ r[m] = s[b]
  BY <1>4, <1>6, <1>7
<1> QED
  BY <1>4, <1>9, <1>10, <1>11 DEF r

\* An element put into a list in which it is not.
LEMMA InsertAtOnce ==
    ASSUME NEW S, NEW s \in Seq(S), IsInjective(s), NEW e \in S, e \notin ToSet(s),
           NEW i \in 1 .. Len(s) + 1
    PROVE  /\ ToSet(InsertAt(s, i, e)) = ToSet(s) \cup {e}
           /\ IsInjective(InsertAt(s, i, e))
<1> DEFINE r == InsertAt(s, i, e)
<1>0. Len(s) \in Nat /\ DOMAIN s = 1 .. Len(s)
  OBVIOUS
<1>1. /\ r \in Seq(S)
      /\ Len(r) = Len(s) + 1
      /\ \A k \in 1 .. Len(s) + 1 : r[k] = IF k < i THEN s[k] ELSE IF k = i THEN e ELSE s[k - 1]
  BY InsertAtShape
<1> HIDE DEF r
<1>2. DOMAIN r = 1 .. Len(s) + 1
  BY <1>1
<1> DEFINE src(k) == IF k < i THEN k ELSE k - 1
<1>3. \A k \in (1 .. Len(s) + 1) \ {i} : src(k) \in 1 .. Len(s) /\ r[k] = s[src(k)]
  BY <1>0, <1>1
<1>4. \A k, m \in (1 .. Len(s) + 1) \ {i} : k < m => src(k) < src(m)
  BY <1>0
<1>5. \A j \in 1 .. Len(s) : \E k \in (1 .. Len(s) + 1) \ {i} : src(k) = j
  <2> SUFFICES ASSUME NEW j \in 1 .. Len(s)
               PROVE  \E k \in (1 .. Len(s) + 1) \ {i} : src(k) = j
    OBVIOUS
  <2>1. CASE j < i
    BY <1>0, <2>1
  <2>2. CASE j >= i
    <3>1. j + 1 \in (1 .. Len(s) + 1) \ {i} /\ src(j + 1) = j
      BY <1>0, <2>2
    <3> QED
      BY <3>1
  <2> QED
    BY <1>0, <2>1, <2>2
<1>6. r[i] = e
  BY <1>0, <1>1
<1>7. \A j \in 1 .. Len(s) : s[j] # e
  BY <1>0 DEF ToSet
<1>8. \A j, k \in 1 .. Len(s) : s[j] = s[k] => j = k
  BY <1>0 DEF IsInjective
<1> HIDE DEF src
<1>9. ToSet(r) = ToSet(s) \cup {e}
  <2>1. ASSUME NEW v \in ToSet(r) PROVE v \in ToSet(s) \cup {e}
    <3>1. PICK k \in 1 .. Len(s) + 1 : v = r[k]
      BY <1>2 DEF ToSet
    <3> QED
      BY <1>0, <1>3, <1>6, <3>1 DEF ToSet
  <2>2. ASSUME NEW v \in ToSet(s) PROVE v \in ToSet(r)
    <3>1. PICK j \in 1 .. Len(s) : v = s[j]
      BY <1>0 DEF ToSet
    <3>2. PICK k \in (1 .. Len(s) + 1) \ {i} : src(k) = j
      BY <1>5
    <3>3. v = r[k]
      BY <1>3, <3>1, <3>2
    <3> QED
      BY <1>2, <3>3 DEF ToSet
  <2>3. e \in ToSet(r)
    BY <1>2, <1>6 DEF ToSet
  <2> QED
    BY <2>1, <2>2, <2>3
<1>10. IsInjective(r)
  <2>1. ASSUME NEW k \in 1 .. Len(s) + 1, NEW m \in 1 .. Len(s) + 1, r[k] = r[m]
        PROVE  k = m
    <3>1. CASE k = i \/ m = i
      BY <1>3, <1>6, <1>7, <2>1, <3>1
    <3>2. CASE k # i /\ m # i
      <4>1. src(k) = src(m)
        BY <1>3, <1>8, <2>1, <3>2
      <4>2. ~(k < m) /\ ~(m < k)
        BY <1>3, <1>4, <3>2, <4>1
      <4> QED
        BY <4>2
    <3> QED
      BY <3>1, <3>2
  <2> QED
    BY <1>2, <2>1 DEF IsInjective
<1> QED
  BY <1>9, <1>10 DEF r
=============================================================================
