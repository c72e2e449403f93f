-------------------------- MODULE TreeChainsProofs --------------------------
(***************************************************************************)
(* Facts about the operators of TREE_HASH_TABLE that are computed by a     *)
(* walk over data, each by induction on its length: chains of paths and    *)
(* their distribution, lists of children, ancestors and subtrees, and what *)
(* a call of DeleteIf takes out.                                           *)
(***************************************************************************)
EXTENDS TablesProofs

-----------------------------------------------------------------------------
(* Chains: sequences of paths in ascending order of their hashes         *)

LEMMA TreeConstants ==
  /\ NoRecord \notin TreeRecord /\ NoPath \notin Path
  /\ ParentOf \in [Path -> Path \cup {NoPath}] /\ PathOf \in [TreeRecord -> Path]
  /\ PathHash \in [Path -> Nat] /\ \A p \in Path : PathHash[p] \in Nat
  /\ IsFiniteSet(Path) /\ Cardinality(Path) \in Nat
  /\ InitialBuckets \in Nat \ {0} /\ Primes \subseteq Nat \ {0}
  /\ TreeOpNames \subseteq {"Insert", "FindKey", "Apply", "DeleteKey", "DeleteIf", "Clear"}
<1>1. IsFiniteSet(Path)
  BY StructuresAssumption DEF Trees!TreeAssumption, Trees!IsFiniteSet, IsFiniteSet
<1>2. Cardinality(Path) \in Nat
  BY <1>1, FS_CardinalityType
<1> QED BY <1>1, <1>2, StructuresAssumption DEF Trees!TreeAssumption

\* An instance has its own copies of these operators.
LEMMA TreeSizes ==
  \A S : Trees!Cardinality(S) = Cardinality(S) /\ (Trees!IsFiniteSet(S) <=> IsFiniteSet(S))
<1>1. \A S : Trees!IsFiniteSet(S) <=> IsFiniteSet(S)
  BY DEF Trees!IsFiniteSet, IsFiniteSet
<1>2. \A S : Trees!Cardinality(S) = Cardinality(S)
  BY <1>1 DEF Trees!Cardinality, Cardinality
<1> QED BY <1>1, <1>2

PathsIn(c) == Trees!ToSet(c)
PathHashAt(c, i) == PathHash[c[i]]

PathsOrdered(c) ==
  \A j, k \in DOMAIN c : j < k =>
    PathHashAt(c, j) <= PathHashAt(c, k) /\ c[j] # c[k]

\* s is in the chain behind p, or anywhere if p is the bucket itself.
PathFollows(c, p, s) ==
  \E j \in DOMAIN c : c[j] = s /\ (p = NoPath \/ \E i \in DOMAIN c : i < j /\ c[i] = p)

LEMMA PathChainFacts ==
  ASSUME NEW c \in Seq(Path)
  PROVE  /\ Len(c) \in Nat /\ DOMAIN c = 1 .. Len(c)
         /\ \A i \in DOMAIN c : c[i] \in Path /\ PathHashAt(c, i) \in Nat
         /\ PathsIn(c) = {c[i] : i \in DOMAIN c} /\ PathsIn(c) \subseteq Path
<1>1. Len(c) \in Nat /\ DOMAIN c = 1 .. Len(c) /\ \A i \in DOMAIN c : c[i] \in Path
  OBVIOUS
<1>2. PathsIn(c) = {c[i] : i \in DOMAIN c}
  BY DEF PathsIn, Trees!ToSet
<1> QED BY <1>1, <1>2, TreeConstants DEF PathHashAt

\* A path has one place.
LEMMA PathOnePlace ==
  ASSUME NEW c \in Seq(Path), PathsOrdered(c)
  PROVE  \A i, j \in DOMAIN c : c[i] = c[j] => i = j
BY PathChainFacts DEF PathsOrdered

LEMMA PathPassedWithin ==
  ASSUME NEW c \in Seq(Path), NEW h \in Nat
  PROVE  LET p == Trees!Passed(c, h)
         IN  /\ p \in 0 .. Len(c) /\ \A i \in 1 .. p : PathHashAt(c, i) <= h
             /\ p < Len(c) => PathHashAt(c, p + 1) > h
<1> DEFINE K == {k \in 0 .. Len(c) : k < Len(c) => PathHashAt(c, k + 1) > h}
           Right(k) == /\ \A i \in 1 .. k : PathHashAt(c, i) <= h
                       /\ k < Len(c) => PathHashAt(c, k + 1) > h
<1>1. PICK m \in K : \A y \in K : m <= y
  <2>1. Len(c) \in K /\ K \in SUBSET Nat
    BY PathChainFacts
  <2> HIDE DEF K
  <2> QED BY <2>1, NatMin
<1>2. Right(m)
  <2>1. ASSUME NEW i \in 1 .. m PROVE PathHashAt(c, i) <= h
    <3>1. m \in 0 .. Len(c) /\ Len(c) \in Nat /\ DOMAIN c = 1 .. Len(c)
      BY <1>1, PathChainFacts
    <3>2. i - 1 \notin K
      <4> HIDE DEF K
      <4> QED BY <1>1, <3>1
    <3>3. i - 1 \in 0 .. Len(c) /\ i \in DOMAIN c /\ (i - 1) + 1 = i
      BY <3>1
    <3> QED BY <3>2, <3>3, PathChainFacts
  <2> QED BY <1>1, <2>1
<1>3. Trees!Passed(c, h) = CHOOSE k \in 0 .. Len(c) : Right(k)
  BY DEF Trees!Passed, PathHashAt
<1> DEFINE p == Trees!Passed(c, h)
<1>4. p \in 0 .. Len(c) /\ Right(p)
  <2> HIDE DEF Right
  <2> QED BY <1>1, <1>2, <1>3
<1> QED BY <1>4

LEMMA PathPassedIs ==
  ASSUME NEW c \in Seq(Path), PathsOrdered(c), NEW h \in Nat
  PROVE  LET p == Trees!Passed(c, h)
         IN  p \in 0 .. Len(c) /\ \A i \in DOMAIN c : i <= p <=> PathHashAt(c, i) <= h
<1> DEFINE p == Trees!Passed(c, h)
<1>1. /\ p \in 0 .. Len(c) /\ \A i \in 1 .. p : PathHashAt(c, i) <= h
      /\ p < Len(c) => PathHashAt(c, p + 1) > h
  BY PathPassedWithin
<1> HIDE DEF p
<1>2. ASSUME NEW i \in DOMAIN c, i > p PROVE PathHashAt(c, i) > h
  <2>1. p + 1 \in DOMAIN c /\ PathHashAt(c, p + 1) > h /\ p + 1 <= i
    BY <1>1, <1>2, PathChainFacts
  <2>2. PathHashAt(c, p + 1) <= PathHashAt(c, i)
    BY <2>1, PathChainFacts DEF PathsOrdered
  <2> QED BY <2>1, <2>2, PathChainFacts
<1>3. \A i \in DOMAIN c : i <= p => PathHashAt(c, i) <= h
  BY <1>1, PathChainFacts
<1> QED BY <1>1, <1>2, <1>3, PathChainFacts DEF p

\* What InsertAt does.
LEMMA PathInsertAtIs ==
  ASSUME NEW s \in Seq(Path), NEW r \in Path, NEW k \in 1 .. Len(s) + 1
  PROVE  /\ Trees!InsertAt(s, k, r) \in Seq(Path)
         /\ Len(Trees!InsertAt(s, k, r)) = Len(s) + 1
         /\ \A i \in 1 .. Len(s) + 1 :
              Trees!InsertAt(s, k, r)[i] = IF i < k THEN s[i] ELSE IF i = k THEN r ELSE s[i - 1]
<1> DEFINE a == SubSeq(s, 1, k - 1)  b == SubSeq(s, k, Len(s))  c == <<r>>
<1>1. a \in Seq(Path) /\ Len(a) = k - 1 /\ \A i \in 1 .. k - 1 : a[i] = s[i]
  BY SubSeqProperties
<1>2. b \in Seq(Path) /\ Len(b) = Len(s) + 1 - k /\ \A i \in 1 .. Len(s) + 1 - k : b[i] = s[k + i - 1]
  BY SubSeqProperties
<1>3. c \in Seq(Path) /\ Len(c) = 1 /\ c[1] = r
  OBVIOUS
<1>4. Trees!InsertAt(s, k, r) = a \o c \o b
  BY DEF Trees!InsertAt
<1> HIDE DEF a, b, c
<1> DEFINE d == a \o c
<1>5. d \in Seq(Path) /\ Len(d) = k /\ (\A i \in 1 .. k - 1 : d[i] = s[i]) /\ d[k] = r
  <2>1. d \in Seq(Path) /\ Len(d) = Len(a) + Len(c)
        /\ \A i \in 1 .. Len(a) + Len(c) : d[i] = IF i <= Len(a) THEN a[i] ELSE c[i - Len(a)]
    BY <1>1, <1>3, ConcatProperties
  <2> HIDE DEF d
  <2> QED BY <1>1, <1>3, <2>1
<1>6. Trees!InsertAt(s, k, r) = d \o b
  BY <1>4
<1> HIDE DEF d
<1> DEFINE e == d \o b
<1>7. /\ e \in Seq(Path) /\ Len(e) = Len(d) + Len(b)
      /\ \A i \in 1 .. Len(d) + Len(b) : e[i] = IF i <= Len(d) THEN d[i] ELSE b[i - Len(d)]
  BY <1>5, <1>2, ConcatProperties
<1> HIDE DEF e
<1>8. Len(e) = Len(s) + 1
  BY <1>7, <1>5, <1>2
<1>9. ASSUME NEW i \in 1 .. Len(s) + 1
      PROVE  e[i] = IF i < k THEN s[i] ELSE IF i = k THEN r ELSE s[i - 1]
  <2>1. CASE i <= k
    BY <1>5, <1>2, <1>7, <2>1
  <2>2. CASE i > k
    <3>1. e[i] = b[i - k] /\ i - k \in 1 .. Len(s) + 1 - k
      BY <1>5, <1>2, <1>7, <2>2
    <3> QED BY <3>1, <1>2, <2>2
  <2> QED BY <2>1, <2>2
<1> QED BY <1>6, <1>7, <1>8, <1>9 DEF e

KeepsBy(g, S, s, gone) ==
  /\ g \in [0 .. Len(s) -> Seq(S)] /\ Trees!Without(s, gone) = g[Len(s)] /\ g[0] = <<>>
  /\ \A k \in 1 .. Len(s) : g[k] = Trees!Keeping(s, gone, k, g[k - 1])

LEMMA PathWithoutByPrefix ==
  ASSUME NEW S, NEW s \in Seq(S), NEW gone
  PROVE  \E g : KeepsBy(g, S, s, gone)
<1> DEFINE n == Len(s)  X == Seq(S)
           rhs(f) == [k \in 0 .. n |-> IF k = 0 THEN Nothing ELSE Trees!Keeping(s, gone, k, f[k - 1])]
           step == [k \in 1 .. n |-> [q \in X |-> Trees!Keeping(s, gone, k, q)]]
           c == CHOOSE f : f = rhs(f)
<1>1. n \in Nat /\ Nothing \in X
  BY DEF Nothing
<1>2. \A k \in 1 .. n, q \in X : Trees!Keeping(s, gone, k, q) \in X
  BY DEF Trees!Keeping
<1>3. Trees!Without(s, gone) = c[n]
  BY DEF Trees!Without, Nothing
<1> HIDE DEF n, X
<1>4. step \in [1 .. n -> [X -> X]] /\ \A k \in 1 .. n, q \in X : step[k][q] = Trees!Keeping(s, gone, k, q)
  BY <1>2
<1> HIDE DEF step
<1>5. \E g \in [0 .. n -> X] : g[0] = Nothing /\ \A k \in 1 .. n : g[k] = step[k][g[k - 1]]
  <2>1. n \in Nat
    BY <1>1
  <2>2. Nothing \in X
    BY <1>1
  <2>3. step \in [1 .. n -> [X -> X]]
    BY <1>4
  <2> HIDE DEF rhs, c
  <2>4. \E g : Iterates(g, n, X, Nothing, step)
    BY <2>1, <2>2, <2>3, Recursion
  <2> QED BY <2>4 DEF Iterates
<1>6. PICK g \in [0 .. n -> X] : g[0] = Nothing /\ \A k \in 1 .. n : g[k] = step[k][g[k - 1]]
  BY <1>5
<1>7. g = rhs(g)
  <2>1. \A k \in 1 .. n : g[k] = Trees!Keeping(s, gone, k, g[k - 1])
    BY <1>1, <1>4, <1>6
  <2>2. g = [k \in 0 .. n |-> g[k]]
    OBVIOUS
  <2>3. \A k \in 0 .. n : g[k] = IF k = 0 THEN Nothing ELSE Trees!Keeping(s, gone, k, g[k - 1])
    BY <1>1, <1>6, <2>1
  <2> QED BY <2>2, <2>3
<1>8. c = rhs(c)
  <2> HIDE DEF rhs
  <2> QED BY <1>7
<1> HIDE DEF c
<1>9. c[0] = Nothing /\ \A k \in 1 .. n : c[k] = Trees!Keeping(s, gone, k, c[k - 1])
  BY <1>1, <1>8
<1>10. \A k \in 0 .. n : c[k] \in X
  <2> DEFINE T == {k \in 0 .. n : c[k] \in X}
  <2>1. 0 \in T
    BY <1>1, <1>9
  <2>2. \A k \in 0 .. n - 1 : k \in T => k + 1 \in T
    <3> TAKE k \in 0 .. n - 1
    <3> HAVE k \in T
    <3>1. k + 1 \in 1 .. n /\ (k + 1) - 1 = k
      BY <1>1
    <3> QED BY <1>1, <1>2, <1>9, <3>1
  <2> HIDE DEF T
  <2>3. \A k \in 0 .. n : k \in T
    BY <1>1, <2>1, <2>2, UpTo
  <2> QED BY <2>3 DEF T
<1>11. c \in [0 .. n -> X]
  <2>1. c = [k \in 0 .. n |-> c[k]]
    BY <1>8
  <2> QED BY <1>10, <2>1
<1> QED BY <1>3, <1>9, <1>11 DEF Nothing, n, X, KeepsBy

\* A path among those of a lower or equal hash and those of a higher one.
LEMMA PathPlaced ==
  ASSUME NEW c \in Seq(Path), PathsOrdered(c), NEW r \in Path, NEW k \in 1 .. Len(c) + 1,
         \A i \in DOMAIN c : i < k <=> PathHashAt(c, i) <= PathHash[r],
         \A s \in PathsIn(c) : s # r
  PROVE  LET d == Trees!InsertAt(c, k, r)
         IN  /\ d \in Seq(Path) /\ PathsIn(d) = PathsIn(c) \cup {r} /\ PathsOrdered(d)
             /\ \A p, s \in Path \cup {NoPath} : PathFollows(c, p, s) => PathFollows(d, p, s)
             /\ \A s \in PathsIn(c) : PathHash[s] <= PathHash[r] => PathFollows(d, s, r)
<1> DEFINE d == Trees!InsertAt(c, k, r)
           To(i) == IF i < k THEN i ELSE i + 1
<1>1. /\ d \in Seq(Path) /\ Len(d) = Len(c) + 1 /\ DOMAIN d = 1 .. Len(c) + 1
      /\ \A i \in DOMAIN d : d[i] = IF i < k THEN c[i] ELSE IF i = k THEN r ELSE c[i - 1]
  <2>1. /\ d \in Seq(Path) /\ Len(d) = Len(c) + 1
        /\ \A i \in 1 .. Len(c) + 1 : d[i] = IF i < k THEN c[i] ELSE IF i = k THEN r ELSE c[i - 1]
    <3>1. r \in Path /\ c \in Seq(Path) /\ k \in 1 .. Len(c) + 1
      OBVIOUS
    <3> QED BY <3>1, PathInsertAtIs
  <2> HIDE DEF d
  <2>2. DOMAIN d = 1 .. Len(d)
    BY <2>1, LenProperties
  <2> QED BY <2>1, <2>2
<1> HIDE DEF d
<1>2. Len(c) \in Nat /\ DOMAIN c = 1 .. Len(c) /\ k \in Nat /\ k \in DOMAIN d /\ d[k] = r
  BY <1>1, PathChainFacts
<1>3. \A i \in DOMAIN c : To(i) \in DOMAIN d /\ d[To(i)] = c[i] /\ To(i) # k
  BY <1>1, <1>2
<1>4. \A j \in DOMAIN d : j # k => \E i \in DOMAIN c : j = To(i)
  <2> TAKE j \in DOMAIN d
  <2> HAVE j # k
  <2> DEFINE i == IF j < k THEN j ELSE j - 1
  <2>1. i \in DOMAIN c /\ j = To(i)
    BY <1>1, <1>2
  <2> QED BY <2>1
<1>5. \A i, j \in DOMAIN c : i < j <=> To(i) < To(j)
  BY <1>2
<1>6. \A i \in DOMAIN c : To(i) < k <=> i < k
  BY <1>2
<1> HIDE DEF To
<1>7. PathsIn(d) = PathsIn(c) \cup {r}
  <2>1. PathsIn(d) = {d[i] : i \in DOMAIN d} /\ PathsIn(c) = {c[i] : i \in DOMAIN c}
    BY <1>1, PathChainFacts
  <2> QED BY <1>2, <1>3, <1>4, <2>1
<1>8. PathsOrdered(d)
  <2> SUFFICES ASSUME NEW i \in DOMAIN d, NEW j \in DOMAIN d, i < j
               PROVE  PathHashAt(d, i) <= PathHashAt(d, j) /\ d[i] # d[j]
    BY DEF PathsOrdered
  <2>0. i \in Nat /\ j \in Nat
    BY <1>1, <1>2
  <2>1. CASE i # k /\ j # k
    <3>1. PICK x \in DOMAIN c, y \in DOMAIN c : i = To(x) /\ j = To(y)
      BY <1>4, <2>1
    <3> QED BY <1>3, <1>5, <3>1 DEF PathsOrdered, PathHashAt
  <2>2. CASE i = k
    <3>1. PICK y \in DOMAIN c : j = To(y)
      BY <1>4, <2>0, <2>2
    <3>2. ~(y < k)
      BY <1>6, <2>0, <2>2, <3>1, <1>2
    <3>3. PathHashAt(c, y) > PathHash[r] /\ c[y] \in PathsIn(c)
      BY <3>2, PathChainFacts, TreeConstants
    <3> QED BY <1>2, <1>3, <2>2, <3>1, <3>3, PathChainFacts, TreeConstants DEF PathHashAt
  <2>3. CASE j = k
    <3>1. PICK x \in DOMAIN c : i = To(x)
      BY <1>4, <2>0, <2>3
    <3>2. x < k
      BY <1>6, <2>0, <2>3, <3>1, <1>2
    <3>3. PathHashAt(c, x) <= PathHash[r] /\ c[x] \in PathsIn(c)
      BY <3>2, PathChainFacts
    <3> QED BY <1>2, <1>3, <2>3, <3>1, <3>3 DEF PathHashAt
  <2> QED BY <2>1, <2>2, <2>3
<1>9. \A p, s \in Path \cup {NoPath} : PathFollows(c, p, s) => PathFollows(d, p, s)
  <2> SUFFICES ASSUME NEW p, NEW s, PathFollows(c, p, s) PROVE PathFollows(d, p, s)
    OBVIOUS
  <2>1. PICK j \in DOMAIN c : c[j] = s /\ (p = NoPath \/ \E i \in DOMAIN c : i < j /\ c[i] = p)
    BY DEF PathFollows
  <2>2. To(j) \in DOMAIN d /\ d[To(j)] = s
    BY <1>3, <2>1
  <2>3. CASE p = NoPath
    BY <2>2, <2>3 DEF PathFollows
  <2>4. CASE p # NoPath
    <3>1. PICK i \in DOMAIN c : i < j /\ c[i] = p
      BY <2>1, <2>4
    <3>2. To(i) \in DOMAIN d /\ d[To(i)] = p /\ To(i) < To(j)
      BY <1>3, <1>5, <3>1
    <3> QED BY <2>2, <3>2 DEF PathFollows
  <2> QED BY <2>3, <2>4
<1>10. ASSUME NEW s \in PathsIn(c), PathHash[s] <= PathHash[r]
       PROVE  PathFollows(d, s, r)
  <2>1. PICK i \in DOMAIN c : c[i] = s
    BY PathChainFacts
  <2>2. To(i) \in DOMAIN d /\ d[To(i)] = s /\ To(i) < k
    BY <1>3, <1>6, <1>10, <2>1 DEF PathHashAt
  <2> QED BY <1>2, <2>2 DEF PathFollows
<1> QED BY <1>1, <1>7, <1>8, <1>9, <1>10 DEF d

LEMMA PathWithNodeIs ==
  ASSUME NEW c \in Seq(Path), PathsOrdered(c), NEW r \in Path,
         \A s \in PathsIn(c) : s # r
  PROVE  LET d == Trees!WithNode(c, r)
         IN  d \in Seq(Path) /\ PathsIn(d) = PathsIn(c) \cup {r} /\ PathsOrdered(d)
<1> DEFINE h == PathHash[r]  k == Trees!Passed(c, h) + 1
<1>1. h \in Nat /\ Len(c) \in Nat
  BY TreeConstants, PathChainFacts
<1>2. Trees!Passed(c, h) \in 0 .. Len(c) /\ \A i \in DOMAIN c : i <= Trees!Passed(c, h) <=> PathHashAt(c, i) <= h
  <2> HIDE DEF h
  <2> QED BY <1>1, PathPassedIs
<1>3. k \in 1 .. Len(c) + 1 /\ \A i \in DOMAIN c : i < k <=> PathHashAt(c, i) <= h
  BY <1>1, <1>2, PathChainFacts
<1>4. Trees!WithNode(c, r) = Trees!InsertAt(c, k, r)
  BY DEF Trees!WithNode
<1> QED
  <2> HIDE DEF k
  <2> QED BY <1>3, <1>4, PathPlaced

\* The place behind p, or the first one if p is the bucket itself.
PathSpot(c, p) == IF p = NoPath THEN 1 ELSE 1 + CHOOSE k \in DOMAIN c : c[k] = p

LEMMA PathSpotIs ==
  ASSUME NEW c \in Seq(Path), PathsOrdered(c), NEW p \in PathsIn(c) \cup {NoPath}
  PROVE  /\ PathSpot(c, p) \in 1 .. Len(c) + 1
         /\ \A j \in DOMAIN c : j >= PathSpot(c, p) <=> PathFollows(c, p, c[j])
         /\ p # NoPath => \A j \in DOMAIN c : j < PathSpot(c, p) => PathHashAt(c, j) <= PathHash[p]
<1> DEFINE i == PathSpot(c, p)
<1>1. /\ Len(c) \in Nat /\ DOMAIN c = 1 .. Len(c) /\ NoPath \notin PathsIn(c)
      /\ PathsIn(c) = {c[j] : j \in DOMAIN c} /\ \A j \in DOMAIN c : c[j] \in Path /\ PathHashAt(c, j) \in Nat
  BY PathChainFacts, TreeConstants
<1>2. CASE p = NoPath
  BY <1>1, <1>2 DEF PathFollows, PathSpot
<1>3. CASE p # NoPath
  <2> DEFINE k == CHOOSE x \in DOMAIN c : c[x] = p
  <2>1. k \in DOMAIN c /\ c[k] = p
    BY <1>1, <1>3
  <2>2. i = 1 + k
    BY <1>3 DEF PathSpot
  <2> HIDE DEF k, i
  <2>3. \A x, y \in DOMAIN c : c[x] = c[y] => x = y
    BY PathOnePlace
  <2>4. \A j \in DOMAIN c : j > k <=> PathFollows(c, p, c[j])
    <3> TAKE j \in DOMAIN c
    <3>1. ASSUME j > k PROVE PathFollows(c, p, c[j])
      BY <2>1, <3>1 DEF PathFollows
    <3>2. ASSUME PathFollows(c, p, c[j]) PROVE j > k
      <4>0. PICK x \in DOMAIN c : c[x] = c[j] /\ (p = NoPath \/ \E y \in DOMAIN c : y < x /\ c[y] = p)
        BY <3>2, Zenon DEF PathFollows
      <4>1. PICK y \in DOMAIN c : y < x /\ c[y] = p
        BY <1>3, <4>0
      <4>2. x = j /\ y = k
        BY <2>1, <2>3, <4>0, <4>1
      <4> QED BY <4>1, <4>2
    <3> QED BY <3>1, <3>2
  <2>5. ASSUME NEW j \in DOMAIN c, j <= k PROVE PathHashAt(c, j) <= PathHash[p]
    <3>1. PathHash[p] = PathHashAt(c, k)
      BY <2>1 DEF PathHashAt
    <3>2. CASE j = k
      BY <1>1, <3>1, <3>2
    <3>3. CASE j < k
      BY <2>1, <3>1, <3>3 DEF PathsOrdered
    <3> QED BY <1>1, <2>1, <2>5, <3>2, <3>3
  <2>6. i \in 1 .. Len(c) + 1 /\ \A j \in DOMAIN c : j >= i <=> j > k
    BY <1>1, <2>1, <2>2
  <2>7. \A j \in DOMAIN c : j < i => j <= k
    BY <1>1, <2>1, <2>2
  <2> QED BY <2>4, <2>5, <2>6, <2>7 DEF i
<1> QED BY <1>2, <1>3

\* Behind is the first node that follows p, if one does.
LEMMA PathBehindIs ==
  ASSUME NEW c \in Seq(Path), PathsOrdered(c), NEW p \in PathsIn(c) \cup {NoPath}
  PROVE  LET q == Trees!Behind(c, p)
         IN  \/ q = NoPath /\ \A s \in Path : ~PathFollows(c, p, s)
             \/ /\ q \in PathsIn(c) /\ PathFollows(c, p, q)
                /\ \A s \in Path : PathFollows(c, p, s) => s = q \/ PathFollows(c, q, s)
<1> DEFINE i == PathSpot(c, p)
           q == Trees!Behind(c, p)
<1>1. /\ Len(c) \in Nat /\ DOMAIN c = 1 .. Len(c) /\ NoPath \notin PathsIn(c)
      /\ PathsIn(c) = {c[j] : j \in DOMAIN c} /\ PathsIn(c) \subseteq Path
      /\ \A j \in DOMAIN c : c[j] \in Path /\ c[j] # NoPath
  BY PathChainFacts, TreeConstants
<1>2. q = IF i \in DOMAIN c THEN c[i] ELSE NoPath
  BY DEF Trees!Behind, PathSpot
<1>3. i \in 1 .. Len(c) + 1 /\ \A j \in DOMAIN c : j >= i <=> PathFollows(c, p, c[j])
  BY PathSpotIs
<1> HIDE DEF i, q
<1>4. CASE i \in DOMAIN c
  <2>1. q = c[i] /\ q \in PathsIn(c) /\ PathFollows(c, p, q) /\ q # NoPath
    BY <1>1, <1>2, <1>3, <1>4
  <2>2. ASSUME NEW s \in Path, PathFollows(c, p, s) PROVE s = q \/ PathFollows(c, q, s)
    <3>1. PICK j \in DOMAIN c : c[j] = s
      BY <2>2 DEF PathFollows
    <3>2. j >= i
      BY <1>3, <2>2, <3>1
    <3>3. CASE j = i
      BY <2>1, <3>1, <3>3
    <3>4. CASE j > i
      BY <1>4, <2>1, <3>1, <3>4 DEF PathFollows
    <3> QED BY <1>1, <1>4, <3>2, <3>3, <3>4
  <2> QED BY <2>1, <2>2 DEF q
<1>5. CASE i \notin DOMAIN c
  <2>1. q = NoPath
    BY <1>2, <1>5
  <2>2. ASSUME NEW s \in Path, PathFollows(c, p, s) PROVE FALSE
    <3>1. PICK j \in DOMAIN c : c[j] = s
      BY <2>2 DEF PathFollows
    <3>2. j >= i
      BY <1>3, <2>2, <3>1
    <3> QED BY <1>1, <1>3, <1>5, <3>2
  <2> QED BY <2>1, <2>2 DEF q
<1> QED BY <1>4, <1>5

LEMMA PathAppendIs ==
  ASSUME NEW c \in Seq(Path), NEW r \in Path
  PROVE  LET d == Append(c, r)
         IN  /\ d \in Seq(Path) /\ Len(d) = Len(c) + 1 /\ d[Len(c) + 1] = r
             /\ \A i \in 1 .. Len(c) : d[i] = c[i]
             /\ PathsIn(d) = PathsIn(c) \cup {r}
<1> DEFINE d == Append(c, r)
<1>1. d \in Seq(Path) /\ Len(d) = Len(c) + 1 /\ d[Len(c) + 1] = r /\ \A i \in 1 .. Len(c) : d[i] = c[i]
  OBVIOUS
<1> HIDE DEF d
<1>2. DOMAIN d = 1 .. Len(c) + 1 /\ DOMAIN c = 1 .. Len(c) /\ Len(c) \in Nat
  BY <1>1, PathChainFacts
<1>3. PathsIn(d) = {d[i] : i \in DOMAIN d} /\ PathsIn(c) = {c[i] : i \in DOMAIN c}
  BY <1>1, PathChainFacts
<1>4. PathsIn(d) = PathsIn(c) \cup {r}
  <2>1. ASSUME NEW x \in PathsIn(d) PROVE x \in PathsIn(c) \cup {r}
    BY <1>1, <1>2, <1>3
  <2>2. ASSUME NEW x \in PathsIn(c) PROVE x \in PathsIn(d)
    BY <1>1, <1>2, <1>3
  <2>3. r \in PathsIn(d)
    BY <1>1, <1>2, <1>3
  <2> QED BY <2>1, <2>2, <2>3
<1> QED BY <1>1, <1>4 DEF d

\* The paths that stay, in their order.
LEMMA PathWithoutIs ==
  ASSUME NEW c \in Seq(Path), PathsOrdered(c), NEW gone
  PROVE  LET d == Trees!Without(c, gone)
         IN  d \in Seq(Path) /\ PathsIn(d) = PathsIn(c) \ gone /\ PathsOrdered(d)
<1>0. PICK g : KeepsBy(g, Path, c, gone)
  BY PathWithoutByPrefix
<1>1. /\ g \in [0 .. Len(c) -> Seq(Path)] /\ Trees!Without(c, gone) = g[Len(c)] /\ g[0] = <<>>
      /\ \A k \in 1 .. Len(c) : g[k] = Trees!Keeping(c, gone, k, g[k - 1])
  BY <1>0 DEF KeepsBy
<1> DEFINE Before(k) == {c[i] : i \in 1 .. k}
           T == {k \in 0 .. Len(c) : PathsIn(g[k]) = Before(k) \ gone /\ PathsOrdered(g[k])}
<1>2. Len(c) \in Nat /\ DOMAIN c = 1 .. Len(c) /\ PathsIn(c) = Before(Len(c)) /\ \A i \in 1 .. Len(c) : c[i] \in Path
  BY PathChainFacts
<1>3. 0 \in T
  <2>1. PathsIn(g[0]) = {} /\ PathsOrdered(g[0])
    BY <1>1 DEF PathsIn, PathsOrdered, Trees!ToSet
  <2> QED BY <1>2, <2>1
<1>4. \A k \in 0 .. Len(c) - 1 : k \in T => k + 1 \in T
  <2> TAKE k \in 0 .. Len(c) - 1
  <2> HAVE k \in T
  <2> DEFINE q == g[k]  r == c[k + 1]
  <2>1. q \in Seq(Path) /\ r \in Path /\ k + 1 \in 1 .. Len(c) /\ (k + 1) - 1 = k
    BY <1>1, <1>2
  <2>2. g[k + 1] = IF r \in gone THEN q ELSE Append(q, r)
    <3>1. g[k + 1] = Trees!Keeping(c, gone, k + 1, g[k])
      BY <1>1, <2>1
    <3> QED BY <3>1 DEF Trees!Keeping
  <2>3. PathsIn(q) = Before(k) \ gone /\ PathsOrdered(q)
    OBVIOUS
  <2>4. Before(k + 1) = Before(k) \cup {r}
    BY <1>2, <2>1
  <2>5. \A s \in Before(k) : PathHash[s] <= PathHash[r] /\ s # r
    <3> TAKE s \in Before(k)
    <3>1. PICK i \in 1 .. k : s = c[i]
      OBVIOUS
    <3>2. i \in DOMAIN c /\ k + 1 \in DOMAIN c /\ i < k + 1
      BY <1>2, <2>1
    <3>3. PathHashAt(c, i) <= PathHashAt(c, k + 1) /\ c[i] # c[k + 1]
      BY <3>2 DEF PathsOrdered
    <3> QED BY <3>1, <3>3 DEF PathHashAt
  <2> HIDE DEF q, r, Before
  <2>6. CASE r \in gone
    BY <2>1, <2>2, <2>3, <2>4, <2>6
  <2>7. CASE r \notin gone
    <3> DEFINE d == Append(q, r)
    <3>1. /\ d \in Seq(Path) /\ Len(d) = Len(q) + 1 /\ d[Len(q) + 1] = r
          /\ (\A i \in 1 .. Len(q) : d[i] = q[i]) /\ PathsIn(d) = PathsIn(q) \cup {r}
      BY <2>1, PathAppendIs
    <3>2. g[k + 1] = d
      BY <2>2, <2>7
    <3> HIDE DEF d
    <3>3. PathsIn(d) = Before(k + 1) \ gone
      BY <2>3, <2>4, <2>7, <3>1
    <3>4. PathsOrdered(d)
      <4> SUFFICES ASSUME NEW i \in DOMAIN d, NEW j \in DOMAIN d, i < j
                   PROVE  PathHashAt(d, i) <= PathHashAt(d, j) /\ d[i] # d[j]
        BY DEF PathsOrdered
      <4>1. /\ DOMAIN d = 1 .. Len(q) + 1 /\ DOMAIN q = 1 .. Len(q) /\ Len(q) \in Nat
            /\ PathsIn(q) = {q[x] : x \in DOMAIN q}
        BY <2>1, <3>1, PathChainFacts
      <4>2. CASE j \in DOMAIN q
        BY <2>3, <3>1, <4>1, <4>2 DEF PathsOrdered, PathHashAt
      <4>3. CASE j = Len(q) + 1
        <5>1. i \in DOMAIN q /\ d[i] = q[i] /\ q[i] \in Before(k) /\ d[j] = r
          BY <2>3, <3>1, <4>1, <4>3
        <5> QED BY <2>5, <5>1 DEF PathHashAt
      <4> QED BY <4>1, <4>2, <4>3
    <3> QED BY <2>1, <3>2, <3>3, <3>4
  <2> QED BY <2>6, <2>7
<1>5. Len(c) \in T
  <2> HIDE DEF T
  <2>1. \A k \in 0 .. Len(c) : k \in T
    BY <1>2, <1>3, <1>4, UpTo
  <2> QED BY <1>2, <2>1
<1> QED BY <1>1, <1>2, <1>5

LEMMA PathWithNodeInSeq ==
  ASSUME NEW c \in Seq(Path), NEW r \in Path
  PROVE  Trees!WithNode(c, r) \in Seq(Path)
<1> DEFINE h == PathHash[r]  k == Trees!Passed(c, h) + 1
<1>1. h \in Nat /\ Len(c) \in Nat
  BY TreeConstants, PathChainFacts
<1>2. k \in 1 .. Len(c) + 1
  <2>1. Trees!Passed(c, h) \in 0 .. Len(c)
    <3> HIDE DEF h
    <3> QED BY <1>1, PathPassedWithin
  <2> QED BY <1>1, <2>1
<1>3. Trees!WithNode(c, r) = Trees!InsertAt(c, k, r)
  BY DEF Trees!WithNode
<1> HIDE DEF k
<1> QED BY <1>2, <1>3, PathInsertAtIs

PathFillsBy(g, s, m, i) ==
  /\ g \in [0 .. Len(s) -> Seq(Path)]
  /\ Trees!Filled(s, m, i) = g[Len(s)] /\ g[0] = <<>>
  /\ \A k \in 1 .. Len(s) : g[k] = Trees!Adding(s, m, i, k, g[k - 1])

LEMMA PathFilledByPrefix ==
  ASSUME NEW s \in Seq(Path), NEW m, NEW i
  PROVE  \E g : PathFillsBy(g, s, m, i)
<1> DEFINE n == Len(s)  X == Seq(Path)
           rhs(f) == [k \in 0 .. n |-> IF k = 0 THEN Nothing ELSE Trees!Adding(s, m, i, k, f[k - 1])]
           step == [k \in 1 .. n |-> [q \in X |-> Trees!Adding(s, m, i, k, q)]]
           c == CHOOSE f : f = rhs(f)
<1>1. n \in Nat /\ Nothing \in X
  BY DEF Nothing
<1>2. \A k \in 1 .. n, q \in X : Trees!Adding(s, m, i, k, q) \in X
  <2> TAKE k \in 1 .. n, q \in X
  <2>1. s[k] \in Path
    OBVIOUS
  <2> HIDE DEF n, X
  <2>2. Trees!WithNode(q, s[k]) \in X
    BY <2>1, PathWithNodeInSeq DEF X
  <2> QED BY <2>2 DEF Trees!Adding
<1>3. Trees!Filled(s, m, i) = c[n]
  BY DEF Trees!Filled, Nothing
<1> HIDE DEF n, X
<1>4. step \in [1 .. n -> [X -> X]] /\ \A k \in 1 .. n, q \in X : step[k][q] = Trees!Adding(s, m, i, k, q)
  BY <1>2
<1> HIDE DEF step
<1>5. \E g \in [0 .. n -> X] : g[0] = Nothing /\ \A k \in 1 .. n : g[k] = step[k][g[k - 1]]
  <2>1. n \in Nat
    BY <1>1
  <2>2. Nothing \in X
    BY <1>1
  <2>3. step \in [1 .. n -> [X -> X]]
    BY <1>4
  <2> HIDE DEF rhs, c
  <2>4. \E g : Iterates(g, n, X, Nothing, step)
    BY <2>1, <2>2, <2>3, Recursion
  <2> QED BY <2>4 DEF Iterates
<1>6. PICK g \in [0 .. n -> X] : g[0] = Nothing /\ \A k \in 1 .. n : g[k] = step[k][g[k - 1]]
  BY <1>5
<1>7. g = rhs(g)
  <2>1. \A k \in 1 .. n : g[k] = Trees!Adding(s, m, i, k, g[k - 1])
    BY <1>1, <1>4, <1>6
  <2>2. g = [k \in 0 .. n |-> g[k]]
    OBVIOUS
  <2>3. \A k \in 0 .. n : g[k] = IF k = 0 THEN Nothing ELSE Trees!Adding(s, m, i, k, g[k - 1])
    BY <1>1, <1>6, <2>1
  <2> QED BY <2>2, <2>3
<1>8. c = rhs(c)
  <2> HIDE DEF rhs
  <2> QED BY <1>7
<1> HIDE DEF c
<1>9. c[0] = Nothing /\ \A k \in 1 .. n : c[k] = Trees!Adding(s, m, i, k, c[k - 1])
  BY <1>1, <1>8
<1>10. \A k \in 0 .. n : c[k] \in X
  <2> DEFINE T == {k \in 0 .. n : c[k] \in X}
  <2>1. 0 \in T
    BY <1>1, <1>9
  <2>2. \A k \in 0 .. n - 1 : k \in T => k + 1 \in T
    <3> TAKE k \in 0 .. n - 1
    <3> HAVE k \in T
    <3>1. k + 1 \in 1 .. n /\ (k + 1) - 1 = k
      BY <1>1
    <3> QED BY <1>1, <1>2, <1>9, <3>1
  <2> HIDE DEF T
  <2>3. \A k \in 0 .. n : k \in T
    BY <1>1, <2>1, <2>2, UpTo
  <2> QED BY <2>3 DEF T
<1>11. c \in [0 .. n -> X]
  <2>1. c = [k \in 0 .. n |-> c[k]]
    BY <1>8
  <2> QED BY <1>10, <2>1
<1> QED BY <1>3, <1>9, <1>11 DEF Nothing, n, X, PathFillsBy

\* The paths of one residue, of those all different.
DistinctPaths(s) == \A i, j \in DOMAIN s : i # j => s[i] # s[j]

LEMMA PathFilledIs ==
  ASSUME NEW s \in Seq(Path), DistinctPaths(s), NEW m, NEW i
  PROVE  LET d == Trees!Filled(s, m, i)
         IN  /\ d \in Seq(Path) /\ PathsOrdered(d)
             /\ PathsIn(d) = {r \in PathsIn(s) : PathHash[r] % m = i}
<1>1. PICK g \in [0 .. Len(s) -> Seq(Path)] :
        /\ Trees!Filled(s, m, i) = g[Len(s)] /\ g[0] = <<>>
        /\ \A k \in 1 .. Len(s) : g[k] = Trees!Adding(s, m, i, k, g[k - 1])
  <2>1. \E g : PathFillsBy(g, s, m, i)
    BY PathFilledByPrefix
  <2> QED BY <2>1 DEF PathFillsBy
<1> DEFINE Before(k) == {s[j] : j \in 1 .. k}
           Wanted(r) == PathHash[r] % m = i
           T == {k \in 0 .. Len(s) : PathsIn(g[k]) = {r \in Before(k) : Wanted(r)} /\ PathsOrdered(g[k])}
<1>2. Len(s) \in Nat /\ DOMAIN s = 1 .. Len(s) /\ PathsIn(s) = Before(Len(s)) /\ \A j \in 1 .. Len(s) : s[j] \in Path
  BY PathChainFacts
<1>3. 0 \in T
  <2>1. PathsIn(g[0]) = {} /\ PathsOrdered(g[0])
    BY <1>1 DEF PathsIn, PathsOrdered, Trees!ToSet
  <2> QED BY <1>2, <2>1
<1>4. \A k \in 0 .. Len(s) - 1 : k \in T => k + 1 \in T
  <2> TAKE k \in 0 .. Len(s) - 1
  <2> HAVE k \in T
  <2> DEFINE q == g[k]  r == s[k + 1]
  <2>1. q \in Seq(Path) /\ r \in Path /\ k + 1 \in 1 .. Len(s) /\ (k + 1) - 1 = k
    BY <1>1, <1>2, SMTT(40)
  <2>2. g[k + 1] = IF Wanted(r) THEN Trees!WithNode(q, r) ELSE q
    <3>1. g[k + 1] = Trees!Adding(s, m, i, k + 1, g[k])
      BY <1>1, <2>1
    <3> QED BY <3>1 DEF Trees!Adding
  <2>3. PathsIn(q) = {x \in Before(k) : Wanted(x)} /\ PathsOrdered(q)
    OBVIOUS
  <2>4. Before(k + 1) = Before(k) \cup {r}
    BY <1>2, <2>1
  <2>5. \A x \in Before(k) : x # r
    <3> TAKE x \in Before(k)
    <3>1. PICK j \in 1 .. k : x = s[j]
      OBVIOUS
    <3>2. j \in DOMAIN s /\ k + 1 \in DOMAIN s /\ j # k + 1
      BY <1>2, <2>1
    <3> QED BY <3>1, <3>2 DEF DistinctPaths
  <2>6. k + 1 \in 0 .. Len(s)
    BY <2>1
  <2> HIDE DEF q, r, Before, Wanted
  <2>7. CASE ~Wanted(r)
    BY <2>2, <2>3, <2>4, <2>6, <2>7
  <2>8. CASE Wanted(r)
    <3>1. \A x \in PathsIn(q) : x # r
      BY <2>3, <2>5
    <3> DEFINE d == Trees!WithNode(q, r)
    <3>2. PathsIn(d) = PathsIn(q) \cup {r} /\ PathsOrdered(d)
      BY <2>1, <2>3, <3>1, PathWithNodeIs
    <3> HIDE DEF d
    <3>3. g[k + 1] = d
      BY <2>2, <2>8 DEF d
    <3> QED BY <2>3, <2>4, <2>6, <2>8, <3>2, <3>3
  <2> QED BY <2>7, <2>8
<1>5. Len(s) \in T
  <2> HIDE DEF T
  <2>1. \A k \in 0 .. Len(s) : k \in T
    BY <1>2, <1>3, <1>4, UpTo
  <2> QED BY <1>2, <2>1
<1> QED BY <1>1, <1>2, <1>5

PathJoining(seqs, k, q) == q \o seqs[k]
PathJoinsBy(g, seqs) ==
  /\ g \in [0 .. Len(seqs) -> Seq(Path)]
  /\ Trees!FlattenSeq(seqs) = g[Len(seqs)] /\ g[0] = <<>>
  /\ \A k \in 1 .. Len(seqs) : g[k] = PathJoining(seqs, k, g[k - 1])

LEMMA PathJoinedByPrefix ==
  ASSUME NEW seqs \in Seq(Seq(Path)), Len(seqs) # 0
  PROVE  \E g : PathJoinsBy(g, seqs)
<1> DEFINE n == Len(seqs)  X == Seq(Path)
           rhs(f) == [k \in 1 .. n |-> IF k = 1 THEN seqs[k] ELSE PathJoining(seqs, k, f[k - 1])]
           step == [k \in 1 .. n |-> [q \in X |-> PathJoining(seqs, k, q)]]
           c == CHOOSE f : f = rhs(f)
<1>1. n \in Nat \ {0} /\ Nothing \in X
  BY DEF Nothing
<1>2. \A k \in 1 .. n, q \in X : seqs[k] \in X /\ PathJoining(seqs, k, q) \in X
  BY DEF PathJoining
<1>3. Trees!FlattenSeq(seqs) = c[n]
  BY DEF Trees!FlattenSeq, PathJoining
<1>a. 1 \in 1 .. n /\ 1 - 1 = 0 /\ PathJoining(seqs, 1, Nothing) = seqs[1]
  <2>1. 1 \in 1 .. n /\ 1 - 1 = 0
    BY <1>1
  <2> HIDE DEF n
  <2> QED BY <1>2, <2>1, ConcatEmptySeq DEF PathJoining, Nothing
<1> HIDE DEF n, X
<1>4. step \in [1 .. n -> [X -> X]] /\ \A k \in 1 .. n, q \in X : step[k][q] = PathJoining(seqs, k, q)
  BY <1>2
<1> HIDE DEF step
<1>5. \E g \in [0 .. n -> X] : g[0] = Nothing /\ \A k \in 1 .. n : g[k] = step[k][g[k - 1]]
  <2>1. n \in Nat
    BY <1>1
  <2>2. Nothing \in X
    BY <1>1
  <2>3. step \in [1 .. n -> [X -> X]]
    BY <1>4
  <2> HIDE DEF rhs, c
  <2>4. \E g : Iterates(g, n, X, Nothing, step)
    BY <2>1, <2>2, <2>3, Recursion
  <2> QED BY <2>4 DEF Iterates
<1>6. PICK g \in [0 .. n -> X] : g[0] = Nothing /\ \A k \in 1 .. n : g[k] = step[k][g[k - 1]]
  BY <1>5
<1>7. [k \in 1 .. n |-> g[k]] = rhs([k \in 1 .. n |-> g[k]])
  <2> DEFINE f == [k \in 1 .. n |-> g[k]]
  <2>1. \A k \in 1 .. n : g[k] = PathJoining(seqs, k, g[k - 1])
    BY <1>1, <1>4, <1>6
  <2>2. \A k \in 1 .. n : k # 1 => k - 1 \in 1 .. n
    BY <1>1
  <2>3. g[1] = seqs[1]
    BY <1>1, <1>6, <1>a, <2>1
  <2>4. \A k \in 1 .. n : f[k] = IF k = 1 THEN seqs[k] ELSE PathJoining(seqs, k, f[k - 1])
    BY <2>1, <2>2, <2>3
  <2> QED BY <2>4
<1>8. c = rhs(c)
  <2> HIDE DEF rhs
  <2> QED BY <1>7
<1> HIDE DEF c
<1>9. c[1] = seqs[1] /\ \A k \in 2 .. n : c[k] = PathJoining(seqs, k, c[k - 1])
  BY <1>1, <1>8
<1>10. \A k \in 1 .. n : c[k] \in X
  <2> DEFINE T == {k \in 0 .. n : k = 0 \/ c[k] \in X}
  <2>1. 0 \in T
    BY <1>1
  <2>2. \A k \in 0 .. n - 1 : k \in T => k + 1 \in T
    <3> TAKE k \in 0 .. n - 1
    <3> HAVE k \in T
    <3>1. k + 1 \in 1 .. n /\ (k + 1) - 1 = k /\ (k # 0 => k + 1 \in 2 .. n)
      BY <1>1
    <3>2. CASE k = 0
      BY <1>1, <1>2, <1>9, <1>a, <3>1, <3>2
    <3>3. CASE k # 0
      BY <1>1, <1>2, <1>9, <3>1, <3>3
    <3> QED BY <3>2, <3>3
  <2> HIDE DEF T
  <2>3. \A k \in 0 .. n : k \in T
    BY <1>1, <2>1, <2>2, UpTo
  <2> QED BY <1>1, <2>3 DEF T
<1> DEFINE h == [k \in 0 .. n |-> IF k = 0 THEN Nothing ELSE c[k]]
<1>11. h \in [0 .. n -> X] /\ h[0] = Nothing /\ h[n] = c[n]
  BY <1>1, <1>10
<1>12. \A k \in 1 .. n : h[k] = PathJoining(seqs, k, h[k - 1])
  <2> TAKE k \in 1 .. n
  <2>1. CASE k = 1
    <3>1. h[1] = seqs[1] /\ h[0] = Nothing
      BY <1>1, <1>9
    <3> HIDE DEF h
    <3> QED BY <1>1, <1>a, <2>1, <3>1
  <2>2. CASE k # 1
    <3>1. k \in 2 .. n /\ k - 1 \in 0 .. n /\ k - 1 # 0 /\ k \in 0 .. n /\ k # 0
      BY <1>1, <2>2
    <3> QED BY <1>9, <3>1
  <2> QED BY <2>1, <2>2
<1> HIDE DEF h
<1> QED BY <1>3, <1>11, <1>12 DEF Nothing, n, X, PathJoinsBy

\* All paths of the buckets, in one sequence.
LEMMA PathFlattenIs ==
  ASSUME NEW n \in Nat \ {0}, NEW bs \in [0 .. n - 1 -> Seq(Path)],
         \A i \in 0 .. n - 1 : PathsOrdered(bs[i]),
         \A i, j \in 0 .. n - 1 : i # j =>
           \A r \in PathsIn(bs[i]), s \in PathsIn(bs[j]) : r # s
  PROVE  LET f == Trees!FlattenSeq([i \in 1 .. n |-> bs[i - 1]])
         IN  /\ f \in Seq(Path) /\ DistinctPaths(f)
             /\ PathsIn(f) = UNION {PathsIn(bs[i]) : i \in 0 .. n - 1}
<1> DEFINE seqs == [i \in 1 .. n |-> bs[i - 1]]
<1>1. seqs \in Seq(Seq(Path)) /\ Len(seqs) = n /\ n # 0 /\ \A i \in 1 .. n : seqs[i] = bs[i - 1]
  OBVIOUS
<1> HIDE DEF seqs
<1>2. PICK g : PathJoinsBy(g, seqs)
  BY <1>1, PathJoinedByPrefix
<1>3. /\ g \in [0 .. n -> Seq(Path)] /\ Trees!FlattenSeq(seqs) = g[n] /\ g[0] = <<>>
      /\ \A k \in 1 .. n : g[k] = g[k - 1] \o bs[k - 1]
  BY <1>1, <1>2 DEF PathJoinsBy, PathJoining
<1> DEFINE All(k) == UNION {PathsIn(bs[i]) : i \in 0 .. k - 1}
           T == {k \in 0 .. n : PathsIn(g[k]) = All(k) /\ DistinctPaths(g[k])}
<1>4. 0 \in T
  <2>1. PathsIn(g[0]) = {} /\ DistinctPaths(g[0])
    BY <1>3 DEF PathsIn, DistinctPaths, Trees!ToSet
  <2>2. All(0) = {}
    OBVIOUS
  <2> QED BY <2>1, <2>2
<1>5. \A k \in 0 .. n - 1 : k \in T => k + 1 \in T
  <2> TAKE k \in 0 .. n - 1
  <2> HAVE k \in T
  <2> DEFINE a == g[k]  b == bs[k]  d == a \o b
  <2>1. a \in Seq(Path) /\ b \in Seq(Path) /\ PathsOrdered(b) /\ k + 1 \in 0 .. n
    BY <1>3
  <2>2. g[k + 1] = d
    <3>1. k + 1 \in 1 .. n /\ (k + 1) - 1 = k
      OBVIOUS
    <3> QED BY <1>3, <3>1
  <2>3. PathsIn(a) = All(k) /\ DistinctPaths(a)
    OBVIOUS
  <2>4. All(k + 1) = All(k) \cup PathsIn(b)
    <3>1. 0 .. (k + 1) - 1 = (0 .. k - 1) \cup {k}
      OBVIOUS
    <3> QED BY <3>1
  <2>5. \A r \in All(k), s \in PathsIn(b) : r # s
    <3> TAKE r \in All(k), s \in PathsIn(b)
    <3>1. PICK i \in 0 .. k - 1 : r \in PathsIn(bs[i])
      OBVIOUS
    <3>2. i \in 0 .. n - 1 /\ i # k
      BY <3>1
    <3> QED BY <3>1, <3>2
  <2>6. /\ d \in Seq(Path) /\ Len(d) = Len(a) + Len(b)
        /\ \A i \in 1 .. Len(a) + Len(b) : d[i] = IF i <= Len(a) THEN a[i] ELSE b[i - Len(a)]
    BY <2>1, ConcatProperties
  <2> HIDE DEF a, b, d, All
  <2>7. /\ Len(a) \in Nat /\ DOMAIN a = 1 .. Len(a) /\ PathsIn(a) = {a[i] : i \in DOMAIN a}
        /\ Len(b) \in Nat /\ DOMAIN b = 1 .. Len(b) /\ PathsIn(b) = {b[i] : i \in DOMAIN b}
        /\ DOMAIN d = 1 .. Len(a) + Len(b) /\ PathsIn(d) = {d[i] : i \in DOMAIN d}
    BY <2>1, <2>6, PathChainFacts
  <2>8. \A i \in DOMAIN d : (i \in DOMAIN a /\ d[i] = a[i])
                        \/ (i \notin DOMAIN a /\ i - Len(a) \in DOMAIN b /\ d[i] = b[i - Len(a)])
    <3> TAKE i \in DOMAIN d
    <3>1. i \in 1 .. Len(a) + Len(b) /\ d[i] = IF i <= Len(a) THEN a[i] ELSE b[i - Len(a)]
      BY <2>6, <2>7
    <3> QED BY <2>7, <3>1
  <2>9. PathsIn(d) = PathsIn(a) \cup PathsIn(b)
    <3>1. ASSUME NEW x \in PathsIn(a) PROVE x \in PathsIn(d)
      <4>1. PICK i \in DOMAIN a : x = a[i]
        BY <2>7
      <4>2. i \in 1 .. Len(a) + Len(b) /\ i <= Len(a)
        BY <2>7, <4>1
      <4>3. i \in DOMAIN d /\ d[i] = a[i]
        BY <2>6, <2>7, <4>2
      <4> QED BY <2>7, <4>1, <4>3
    <3>2. ASSUME NEW x \in PathsIn(b) PROVE x \in PathsIn(d)
      <4>1. PICK i \in DOMAIN b : x = b[i]
        BY <2>7
      <4>2. Len(a) + i \in 1 .. Len(a) + Len(b) /\ ~(Len(a) + i <= Len(a)) /\ (Len(a) + i) - Len(a) = i
        BY <2>7, <4>1
      <4>3. Len(a) + i \in DOMAIN d /\ d[Len(a) + i] = b[i]
        BY <2>6, <2>7, <4>2
      <4> QED BY <2>7, <4>1, <4>3
    <3>3. ASSUME NEW x \in PathsIn(d) PROVE x \in PathsIn(a) \cup PathsIn(b)
      <4>1. PICK i \in DOMAIN d : x = d[i]
        BY <2>7
      <4>2. (i \in DOMAIN a /\ d[i] = a[i]) \/ (i - Len(a) \in DOMAIN b /\ d[i] = b[i - Len(a)])
        BY <2>8
      <4> QED BY <2>7, <4>1, <4>2
    <3> QED BY <3>1, <3>2, <3>3
  <2>10. DistinctPaths(d)
    <3> SUFFICES ASSUME NEW i \in DOMAIN d, NEW j \in DOMAIN d, i # j, d[i] = d[j]
                 PROVE  FALSE
      BY DEF DistinctPaths
    <3>1. CASE i \in DOMAIN a /\ j \in DOMAIN a
      BY <2>3, <2>6, <2>7, <3>1 DEF DistinctPaths
    <3>2. CASE i \notin DOMAIN a /\ j \notin DOMAIN a
      <4>1. /\ i - Len(a) \in DOMAIN b /\ j - Len(a) \in DOMAIN b /\ i - Len(a) # j - Len(a)
            /\ d[i] = b[i - Len(a)] /\ d[j] = b[j - Len(a)]
        BY <2>7, <2>8, <3>2
      <4> QED BY <2>1, <4>1, PathOnePlace
    <3>3. CASE i \in DOMAIN a /\ j \notin DOMAIN a
      <4>1. d[i] \in PathsIn(a) /\ d[j] \in PathsIn(b)
        BY <2>6, <2>7, <2>8, <3>3
      <4> QED BY <2>3, <2>5, <4>1
    <3>4. CASE i \notin DOMAIN a /\ j \in DOMAIN a
      <4>1. d[j] \in PathsIn(a) /\ d[i] \in PathsIn(b)
        BY <2>6, <2>7, <2>8, <3>4
      <4> QED BY <2>3, <2>5, <4>1
    <3> QED BY <3>1, <3>2, <3>3, <3>4
  <2> QED BY <2>1, <2>2, <2>3, <2>4, <2>9, <2>10
<1>6. n \in T
  <2> HIDE DEF T
  <2>1. \A k \in 0 .. n : k \in T
    BY <1>4, <1>5, UpTo
  <2> QED BY <2>1
<1> QED BY <1>3, <1>6 DEF seqs

-----------------------------------------------------------------------------
(* Buckets: a chain in order for each residue                              *)

NodesIn(bs) == UNION {PathsIn(bs[i]) : i \in DOMAIN bs}
TreeSize(bs) == Cardinality(DOMAIN bs)
PathHome(bs, r) == PathHash[r] % TreeSize(bs)

TreeGood(bs) ==
  /\ TreeSize(bs) \in Nat \ {0} /\ bs \in [0 .. TreeSize(bs) - 1 -> Seq(Path)]
  /\ \A i \in DOMAIN bs : PathsOrdered(bs[i]) /\ \A r \in PathsIn(bs[i]) : PathHome(bs, r) = i

LEMMA TreeSizeIs ==
  ASSUME NEW n \in Nat \ {0}, NEW bs, DOMAIN bs = 0 .. n - 1
  PROVE  TreeSize(bs) = n
<1>1. Cardinality(0 .. n - 1) = n
  BY FS_Interval
<1> QED BY <1>1 DEF TreeSize

LEMMA NodesAre == Trees!Nodes = NodesIn(treeBuckets) /\ Trees!nBuckets = TreeSize(treeBuckets)
BY TreeSizes DEF Trees!Nodes, NodesIn, PathsIn, Trees!nBuckets, TreeSize

LEMMA NodesThen == Trees!Nodes' = NodesIn(treeBuckets') /\ Trees!nBuckets' = TreeSize(treeBuckets')
BY TreeSizes DEF Trees!Nodes, NodesIn, PathsIn, Trees!nBuckets, TreeSize

LEMMA PathsFinite ==
  ASSUME NEW c \in Seq(Path)
  PROVE  IsFiniteSet(PathsIn(c))
<1>1. Len(c) \in Nat /\ DOMAIN c = 1 .. Len(c) /\ PathsIn(c) = {c[i] : i \in DOMAIN c}
  BY PathChainFacts
<1> DEFINE f == [i \in 1 .. Len(c) |-> c[i]]
<1>2. f \in Surjection(1 .. Len(c), PathsIn(c))
  BY <1>1 DEF Surjection
<1>3. IsFiniteSet(1 .. Len(c))
  BY <1>1, FS_Interval
<1> QED BY <1>2, <1>3, FS_Surjection

LEMMA TreeBucketFacts ==
  ASSUME NEW bs, TreeGood(bs)
  PROVE  /\ DOMAIN bs = 0 .. TreeSize(bs) - 1 /\ NodesIn(bs) \subseteq Path /\ IsFiniteSet(NodesIn(bs))
         /\ \A r \in Path : PathHome(bs, r) \in DOMAIN bs /\ bs[PathHome(bs, r)] \in Seq(Path)
                             /\ PathsOrdered(bs[PathHome(bs, r)])
         /\ \A r \in NodesIn(bs) : r \in PathsIn(bs[PathHome(bs, r)])
         /\ \A i \in DOMAIN bs : PathsIn(bs[i]) \subseteq NodesIn(bs)
         /\ \A r, s \in NodesIn(bs) : r = s => r = s
<1>1. TreeSize(bs) \in Nat \ {0} /\ DOMAIN bs = 0 .. TreeSize(bs) - 1 /\ \A i \in DOMAIN bs : bs[i] \in Seq(Path)
  BY DEF TreeGood
<1>2. \A r \in Path : PathHome(bs, r) \in DOMAIN bs
  BY <1>1, TreeConstants DEF PathHome
<1>3. \A i \in DOMAIN bs : PathsIn(bs[i]) \subseteq NodesIn(bs) /\ PathsIn(bs[i]) \subseteq Path
  BY <1>1, PathChainFacts DEF NodesIn
<1>4. \A r \in NodesIn(bs) : r \in Path /\ r \in PathsIn(bs[PathHome(bs, r)])
  BY <1>3 DEF NodesIn, TreeGood
<1>5. IsFiniteSet(NodesIn(bs))
  <2> DEFINE R == {PathsIn(bs[i]) : i \in DOMAIN bs}  f == [i \in DOMAIN bs |-> PathsIn(bs[i])]
  <2>1. f \in Surjection(DOMAIN bs, R)
    BY DEF Surjection
  <2>2. IsFiniteSet(DOMAIN bs)
    BY <1>1, FS_Interval
  <2>3. IsFiniteSet(R)
    <3> HIDE DEF f, R
    <3> QED BY <2>1, <2>2, FS_Surjection
  <2>4. \A T \in R : IsFiniteSet(T)
    BY <1>1, PathsFinite
  <2>5. NodesIn(bs) = UNION R
    BY DEF NodesIn
  <2> HIDE DEF R
  <2> QED BY <2>3, <2>4, <2>5, FS_UNION
<1>6. ASSUME NEW r \in NodesIn(bs), NEW s \in NodesIn(bs), r = s PROVE r = s
  <2>1. PathHome(bs, r) = PathHome(bs, s)
    BY <1>6 DEF PathHome
  <2> DEFINE c == bs[PathHome(bs, r)]
  <2>2. r \in PathsIn(c) /\ s \in PathsIn(c) /\ c \in Seq(Path) /\ PathsOrdered(c)
    BY <1>1, <1>2, <1>4, <2>1 DEF TreeGood
  <2> HIDE DEF c
  <2>3. PICK i \in DOMAIN c, j \in DOMAIN c : r = c[i] /\ s = c[j]
    BY <2>2, PathChainFacts
  <2> QED BY <1>6, <2>2, <2>3, PathOnePlace
<1> QED BY <1>1, <1>2, <1>3, <1>4, <1>5, <1>6 DEF TreeGood

LEMMA TreeDistributeIs ==
  ASSUME NEW s \in Seq(Path), DistinctPaths(s), NEW n \in Nat \ {0}
  PROVE  LET bs == Trees!Distribute(s, n)
         IN  TreeGood(bs) /\ NodesIn(bs) = PathsIn(s)
<1> DEFINE bs == Trees!Distribute(s, n)
<1>1. bs = [i \in 0 .. n - 1 |-> Trees!Filled(s, n, i)]
  BY DEF Trees!Distribute
<1>2. \A i \in 0 .. n - 1 :
        /\ bs[i] \in Seq(Path) /\ PathsOrdered(bs[i])
        /\ PathsIn(bs[i]) = {r \in PathsIn(s) : PathHash[r] % n = i}
  <2> TAKE i \in 0 .. n - 1
  <2>1. bs[i] = Trees!Filled(s, n, i)
    BY <1>1
  <2> HIDE DEF bs
  <2> QED BY <2>1, PathFilledIs
<1> HIDE DEF bs
<1>3. DOMAIN bs = 0 .. n - 1 /\ TreeSize(bs) = n
  BY <1>1, TreeSizeIs
<1>4. bs \in [0 .. n - 1 -> Seq(Path)]
  <2>1. bs = [i \in 0 .. n - 1 |-> bs[i]]
    BY <1>1
  <2> QED BY <1>2, <2>1
<1>5. TreeGood(bs)
  BY <1>2, <1>3, <1>4 DEF TreeGood, PathHome
<1>6. \A r \in PathsIn(s) : PathHash[r] % n \in 0 .. n - 1
  BY TreeConstants, PathChainFacts
<1>7. NodesIn(bs) = PathsIn(s)
  BY <1>2, <1>3, <1>6 DEF NodesIn
<1> QED BY <1>5, <1>7 DEF bs

LEMMA TreeThinnedIs ==
  ASSUME NEW bs, TreeGood(bs), NEW gone
  PROVE  LET ts == [i \in DOMAIN bs |-> Trees!Without(bs[i], gone)]
         IN  TreeGood(ts) /\ NodesIn(ts) = NodesIn(bs) \ gone /\ TreeSize(ts) = TreeSize(bs)
<1> DEFINE ts == [i \in DOMAIN bs |-> Trees!Without(bs[i], gone)]
<1>1. \A i \in DOMAIN bs :
        ts[i] \in Seq(Path) /\ PathsOrdered(ts[i]) /\ PathsIn(ts[i]) = PathsIn(bs[i]) \ gone
  <2> TAKE i \in DOMAIN bs
  <2>1. ts[i] = Trees!Without(bs[i], gone) /\ bs[i] \in Seq(Path) /\ PathsOrdered(bs[i])
    BY DEF TreeGood
  <2> HIDE DEF ts
  <2> QED BY <2>1, PathWithoutIs
<1>2. DOMAIN ts = DOMAIN bs /\ TreeSize(ts) = TreeSize(bs)
  BY DEF TreeSize
<1>3. ts = [i \in DOMAIN bs |-> ts[i]]
  OBVIOUS
<1> HIDE DEF ts
<1>4. TreeGood(ts)
  BY <1>1, <1>2, <1>3 DEF TreeGood, PathHome
<1>5. NodesIn(ts) = NodesIn(bs) \ gone
  BY <1>1, <1>2 DEF NodesIn
<1> QED BY <1>2, <1>4, <1>5 DEF ts

\* What a thread that is about to link knows of its chain: the pointer that it
\* holds is behind every lower hash and in front of the path itself.
PathSearchKnows(c, p, q, r) ==
  /\ p \in PathsIn(c) \cup {NoPath} /\ q \in PathsIn(c) \cup {NoPath}
  /\ p # NoPath => PathHash[p] <= PathHash[r]
  /\ q # NoPath => PathHash[q] > PathHash[r]
  /\ \A s \in PathsIn(c) : s = r => PathFollows(c, p, s)

\* A path was put into its chain.
PathGrown(bs, ds, r) ==
  /\ NodesIn(ds) = NodesIn(bs) \cup {r} /\ TreeSize(ds) = TreeSize(bs) /\ DOMAIN ds = DOMAIN bs
  /\ \A s \in NodesIn(bs) : s # r
  /\ \A i \in DOMAIN bs : PathsIn(bs[i]) \subseteq PathsIn(ds[i])
  /\ \A i \in DOMAIN bs : \A x, y \in Path \cup {NoPath} :
       PathFollows(bs[i], x, y) => PathFollows(ds[i], x, y)
  /\ \A i \in DOMAIN bs : i # PathHome(bs, r) => ds[i] = bs[i]
  /\ PathsIn(ds[PathHome(bs, r)]) = PathsIn(bs[PathHome(bs, r)]) \cup {r}
  /\ \A s \in PathsIn(bs[PathHome(bs, r)]) :
       PathHash[s] <= PathHash[r] => PathFollows(ds[PathHome(bs, r)], s, r)

\* A path put behind p, where nothing of its hash or the path itself follows.
LEMMA PathPlacedIs ==
  ASSUME NEW bs, TreeGood(bs), NEW r \in Path, NEW p, NEW q,
         PathSearchKnows(bs[PathHome(bs, r)], p, q, r), q = Trees!Behind(bs[PathHome(bs, r)], p),
         NEW ds, ds = [bs EXCEPT ![PathHome(bs, r)] = Trees!InsertAt(@, PathSpot(@, p), r)]
  PROVE  TreeGood(ds) /\ PathGrown(bs, ds, r)
<1> DEFINE c == bs[PathHome(bs, r)]
<1>0. /\ p \in PathsIn(c) \cup {NoPath} /\ (p # NoPath => PathHash[p] <= PathHash[r])
      /\ (q # NoPath => PathHash[q] > PathHash[r]) /\ q = Trees!Behind(c, p)
      /\ \A s \in PathsIn(c) : s = r => PathFollows(c, p, s)
      /\ ds = [bs EXCEPT ![PathHome(bs, r)] = Trees!InsertAt(c, PathSpot(c, p), r)]
      /\ c = bs[PathHome(bs, r)]
  BY DEF PathSearchKnows
<1> HIDE DEF c
<1> DEFINE h == PathHome(bs, r)  k == PathSpot(c, p)  d == Trees!InsertAt(c, k, r)
<1>1. /\ h \in DOMAIN bs /\ c \in Seq(Path) /\ PathsOrdered(c) /\ PathHash[r] \in Nat
      /\ NodesIn(bs) \subseteq Path /\ Len(c) \in Nat /\ DOMAIN c = 1 .. Len(c)
      /\ PathsIn(c) = {c[j] : j \in DOMAIN c} /\ \A j \in DOMAIN c : c[j] \in Path /\ PathHashAt(c, j) \in Nat
  BY <1>0, TreeBucketFacts, PathChainFacts, TreeConstants
<1>2. /\ k \in 1 .. Len(c) + 1 /\ \A j \in DOMAIN c : j >= k <=> PathFollows(c, p, c[j])
      /\ p # NoPath => \A j \in DOMAIN c : j < k => PathHashAt(c, j) <= PathHash[p]
  BY <1>0, <1>1, PathSpotIs
<1>3. ASSUME NEW j \in DOMAIN c, j >= k PROVE PathHashAt(c, j) > PathHash[r]
  <2>1. PathFollows(c, p, c[j]) /\ c[j] \in Path
    BY <1>1, <1>2, <1>3
  <2>2. q \in PathsIn(c) /\ (c[j] = q \/ PathFollows(c, q, c[j])) /\ q # NoPath
    <3>1. \/ q = NoPath /\ \A s \in Path : ~PathFollows(c, p, s)
          \/ /\ q \in PathsIn(c) /\ PathFollows(c, p, q)
             /\ \A s \in Path : PathFollows(c, p, s) => s = q \/ PathFollows(c, q, s)
      BY <1>0, <1>1, PathBehindIs
    <3> QED BY <1>1, <2>1, <3>1, TreeConstants
  <2>3. CASE c[j] = q
    BY <1>0, <2>2, <2>3 DEF PathHashAt
  <2>4. CASE PathFollows(c, q, c[j])
    <3>1. PICK x \in DOMAIN c : c[x] = c[j] /\ (q = NoPath \/ \E i \in DOMAIN c : i < x /\ c[i] = q)
      BY <2>4, Zenon DEF PathFollows
    <3>2. PICK i \in DOMAIN c : i < x /\ c[i] = q
      BY <2>2, <3>1
    <3>3. PathHashAt(c, i) <= PathHashAt(c, x)
      BY <1>1, <3>2 DEF PathsOrdered
    <3>4. PathHashAt(c, x) = PathHashAt(c, j) /\ PathHashAt(c, i) = PathHash[q]
      BY <3>1, <3>2 DEF PathHashAt
    <3>5. PathHashAt(c, i) \in Nat /\ PathHashAt(c, j) \in Nat
      BY <1>1
    <3> QED BY <1>0, <1>1, <2>2, <3>3, <3>4, <3>5
  <2> QED BY <2>2, <2>3, <2>4
<1>4. ASSUME NEW j \in DOMAIN c, j < k PROVE PathHashAt(c, j) <= PathHash[r]
  <2>1. p # NoPath
    BY <1>0, <1>1, <1>4 DEF PathSpot
  <2>2. p \in Path
    BY <1>0, <1>1, <2>1
  <2> QED BY <1>0, <1>1, <1>2, <1>4, <2>1, <2>2, TreeConstants
<1>5. \A j \in DOMAIN c : j < k <=> PathHashAt(c, j) <= PathHash[r]
  BY <1>1, <1>2, <1>3, <1>4
<1>6. ASSUME NEW s \in PathsIn(c), s = r PROVE FALSE
  <2>1. PICK j \in DOMAIN c : c[j] = s
    BY <1>1
  <2>2. j >= k
    BY <1>0, <1>2, <1>6, <2>1
  <2>3. PathHashAt(c, j) = PathHash[r]
    BY <1>6, <2>1 DEF PathHashAt
  <2> QED BY <1>1, <1>3, <2>2, <2>3
<1>7. /\ d \in Seq(Path) /\ PathsIn(d) = PathsIn(c) \cup {r} /\ PathsOrdered(d)
      /\ \A x, y \in Path \cup {NoPath} : PathFollows(c, x, y) => PathFollows(d, x, y)
      /\ \A s \in PathsIn(c) : PathHash[s] <= PathHash[r] => PathFollows(d, s, r)
  <2>1. \A s \in PathsIn(c) : s # r
    BY <1>6
  <2> HIDE DEF k
  <2> QED BY <1>1, <1>2, <1>5, <2>1, PathPlaced
<1> HIDE DEF k, d
<1>8. /\ DOMAIN ds = DOMAIN bs /\ TreeSize(ds) = TreeSize(bs) /\ ds[h] = d
      /\ \A i \in DOMAIN bs : i # h => ds[i] = bs[i]
  BY <1>0, <1>1 DEF TreeSize, d, k
<1>9. ds \in [DOMAIN bs -> Seq(Path)]
  BY <1>0, <1>1, <1>7 DEF TreeGood, d, k
<1>10. TreeGood(ds)
  <2>1. \A x \in Path : PathHome(ds, x) = PathHome(bs, x)
    BY <1>8 DEF PathHome
  <2>2. \A x \in PathsIn(c) : x \in Path /\ PathHome(bs, x) = h
    BY <1>0, <1>1 DEF TreeGood
  <2>3. \A i \in DOMAIN ds : PathsOrdered(ds[i]) /\ \A x \in PathsIn(ds[i]) : x \in Path /\ PathHome(bs, x) = i
    <3> TAKE i \in DOMAIN ds
    <3>1. CASE i = h
      BY <1>7, <1>8, <2>2, <3>1
    <3>2. CASE i # h
      BY <1>8, <3>2, PathChainFacts DEF TreeGood
    <3> QED BY <3>1, <3>2
  <2>4. TreeSize(bs) \in Nat \ {0} /\ DOMAIN bs = 0 .. TreeSize(bs) - 1
    BY TreeBucketFacts DEF TreeGood
  <2>5. TreeSize(ds) \in Nat \ {0} /\ ds \in [0 .. TreeSize(ds) - 1 -> Seq(Path)]
    BY <1>8, <1>9, <2>4
  <2>6. \A i \in DOMAIN ds : PathsOrdered(ds[i]) /\ \A x \in PathsIn(ds[i]) : PathHome(ds, x) = i
    BY <2>1, <2>3
  <2> QED BY <2>5, <2>6 DEF TreeGood
<1>11. NodesIn(ds) = NodesIn(bs) \cup {r}
  BY <1>0, <1>1, <1>7, <1>8 DEF NodesIn
<1>12. \A s \in NodesIn(bs) : s # r
  <2> TAKE s \in NodesIn(bs)
  <2>1. s \in PathsIn(bs[PathHome(bs, s)])
    BY TreeBucketFacts
  <2>2. s = r => PathHome(bs, s) = h
    BY DEF PathHome
  <2> QED BY <1>0, <1>6, <2>1, <2>2
<1>13. PathGrown(bs, ds, r)
  BY <1>0, <1>1, <1>7, <1>8, <1>11, <1>12 DEF PathGrown
<1> QED BY <1>10, <1>13
-----------------------------------------------------------------------------
(* Lists of children                                                       *)

\* The children that stay.
LEMMA ChildrenThinned ==
  ASSUME NEW c \in Seq(Path), DistinctPaths(c), NEW gone
  PROVE  LET d == Trees!Without(c, gone)
         IN  d \in Seq(Path) /\ PathsIn(d) = PathsIn(c) \ gone /\ DistinctPaths(d)
<1>0. PICK g : KeepsBy(g, Path, c, gone)
  BY PathWithoutByPrefix
<1>1. /\ g \in [0 .. Len(c) -> Seq(Path)] /\ Trees!Without(c, gone) = g[Len(c)] /\ g[0] = <<>>
      /\ \A k \in 1 .. Len(c) : g[k] = Trees!Keeping(c, gone, k, g[k - 1])
  BY <1>0 DEF KeepsBy
<1> DEFINE Before(k) == {c[i] : i \in 1 .. k}
           T == {k \in 0 .. Len(c) : PathsIn(g[k]) = Before(k) \ gone /\ DistinctPaths(g[k])}
<1>2. Len(c) \in Nat /\ DOMAIN c = 1 .. Len(c) /\ PathsIn(c) = Before(Len(c)) /\ \A i \in 1 .. Len(c) : c[i] \in Path
  BY PathChainFacts
<1>3. 0 \in T
  <2>1. PathsIn(g[0]) = {} /\ DistinctPaths(g[0])
    BY <1>1 DEF PathsIn, DistinctPaths, Trees!ToSet
  <2> QED BY <1>2, <2>1
<1>4. \A k \in 0 .. Len(c) - 1 : k \in T => k + 1 \in T
  <2> TAKE k \in 0 .. Len(c) - 1
  <2> HAVE k \in T
  <2> DEFINE q == g[k]  r == c[k + 1]
  <2>1. q \in Seq(Path) /\ r \in Path /\ k + 1 \in 1 .. Len(c) /\ (k + 1) - 1 = k
    BY <1>1, <1>2
  <2>2. g[k + 1] = IF r \in gone THEN q ELSE Append(q, r)
    <3>1. g[k + 1] = Trees!Keeping(c, gone, k + 1, g[k])
      BY <1>1, <2>1
    <3> QED BY <3>1 DEF Trees!Keeping
  <2>3. PathsIn(q) = Before(k) \ gone /\ DistinctPaths(q)
    OBVIOUS
  <2>4. Before(k + 1) = Before(k) \cup {r}
    BY <1>2, <2>1
  <2>5. r \notin Before(k)
    <3> SUFFICES ASSUME NEW i \in 1 .. k, c[i] = r PROVE FALSE
      OBVIOUS
    <3>1. i \in DOMAIN c /\ k + 1 \in DOMAIN c /\ i # k + 1
      BY <1>2, <2>1
    <3> QED BY <3>1 DEF DistinctPaths
  <2> HIDE DEF q, r, Before
  <2>6. CASE r \in gone
    BY <2>1, <2>2, <2>3, <2>4, <2>6
  <2>7. CASE r \notin gone
    <3> DEFINE d == Append(q, r)
    <3>1. /\ d \in Seq(Path) /\ Len(d) = Len(q) + 1 /\ d[Len(q) + 1] = r
          /\ (\A i \in 1 .. Len(q) : d[i] = q[i]) /\ PathsIn(d) = PathsIn(q) \cup {r}
      BY <2>1, PathAppendIs
    <3>2. g[k + 1] = d
      BY <2>2, <2>7
    <3> HIDE DEF d
    <3>3. PathsIn(d) = Before(k + 1) \ gone
      BY <2>3, <2>4, <2>7, <3>1
    <3>4. DistinctPaths(d)
      <4>1. /\ DOMAIN d = 1 .. Len(q) + 1 /\ DOMAIN q = 1 .. Len(q) /\ Len(q) \in Nat
            /\ PathsIn(q) = {q[x] : x \in DOMAIN q}
        BY <2>1, <3>1, PathChainFacts
      <4>2. \A i \in 1 .. Len(q) : d[i] # r
        BY <2>3, <2>5, <3>1, <4>1
      <4> QED BY <2>3, <3>1, <4>1, <4>2 DEF DistinctPaths
    <3> QED BY <2>1, <3>2, <3>3, <3>4
  <2> QED BY <2>6, <2>7
<1>5. Len(c) \in T
  <2> HIDE DEF T
  <2>1. \A k \in 0 .. Len(c) : k \in T
    BY <1>2, <1>3, <1>4, UpTo
  <2> QED BY <1>2, <2>1
<1> QED BY <1>1, <1>2, <1>5

\* A new child in front of the others.
LEMMA ChildAdded ==
  ASSUME NEW c \in Seq(Path), DistinctPaths(c), NEW p \in Path, p \notin PathsIn(c)
  PROVE  LET d == <<p>> \o c
         IN  d \in Seq(Path) /\ PathsIn(d) = PathsIn(c) \cup {p} /\ DistinctPaths(d)
<1> DEFINE d == <<p>> \o c
<1>1. Len(c) \in Nat /\ DOMAIN c = 1 .. Len(c) /\ PathsIn(c) = {c[i] : i \in DOMAIN c}
  BY PathChainFacts
<1>2. d \in Seq(Path) /\ Len(d) = Len(c) + 1 /\ d[1] = p /\ \A i \in 1 .. Len(c) : d[i + 1] = c[i]
  BY <1>1
<1> HIDE DEF d
<1>3. DOMAIN d = 1 .. Len(c) + 1 /\ PathsIn(d) = {d[i] : i \in DOMAIN d}
  BY <1>2, PathChainFacts
<1>4. \A i \in DOMAIN d : i = 1 \/ (i - 1 \in DOMAIN c /\ d[i] = c[i - 1])
  <2> TAKE i \in DOMAIN d
  <2>1. i # 1 => i - 1 \in 1 .. Len(c) /\ (i - 1) + 1 = i
    BY <1>1, <1>3
  <2> QED BY <1>1, <1>2, <2>1
<1>5. PathsIn(d) = PathsIn(c) \cup {p}
  <2>1. \A x \in PathsIn(c) \cup {p} : x \in PathsIn(d)
    <3>1. \A i \in DOMAIN c : i + 1 \in DOMAIN d /\ d[i + 1] = c[i]
      BY <1>1, <1>2, <1>3
    <3>2. 1 \in DOMAIN d
      BY <1>1, <1>3
    <3> QED BY <1>1, <1>2, <1>3, <3>1, <3>2
  <2>2. \A x \in PathsIn(d) : x \in PathsIn(c) \cup {p}
    BY <1>1, <1>2, <1>3, <1>4
  <2> QED BY <2>1, <2>2
<1>6. DistinctPaths(d)
  <2> SUFFICES ASSUME NEW i \in DOMAIN d, NEW j \in DOMAIN d, i # j PROVE d[i] # d[j]
    BY DEF DistinctPaths
  <2>1. \A k \in DOMAIN c : c[k] # p
    BY <1>1
  <2>2. i \in Int /\ j \in Int
    BY <1>1, <1>3
  <2> QED BY <1>2, <1>4, <2>1, <2>2 DEF DistinctPaths
<1> QED BY <1>2, <1>5, <1>6 DEF d

-----------------------------------------------------------------------------
(* Ancestors and subtrees                                                  *)

\* The values of the recursion that Closure is made of.
ReachesBy(g, first, steps) ==
  /\ g \in [0 .. Cardinality(Path) -> SUBSET Path]
  /\ Trees!Closure(first, steps) = g[Cardinality(Path)] /\ g[0] = first
  /\ \A k \in 1 .. Cardinality(Path) : g[k] = Trees!Reaching(g[k - 1], steps)

LEMMA ReachingIs ==
  ASSUME NEW steps \in [Path -> SUBSET Path], NEW S \in SUBSET Path
  PROVE  /\ Trees!Reaching(S, steps) \in SUBSET Path /\ S \subseteq Trees!Reaching(S, steps)
         /\ \A q \in Trees!Reaching(S, steps) : q \in S \/ \E r \in S : q \in steps[r]
         /\ \A r \in S : steps[r] \subseteq Trees!Reaching(S, steps)
BY DEF Trees!Reaching

LEMMA ClosureByPrefix ==
  ASSUME NEW first \in SUBSET Path, NEW steps \in [Path -> SUBSET Path]
  PROVE  \E g : ReachesBy(g, first, steps)
<1> DEFINE n == Cardinality(Path)  X == SUBSET Path
           rhs(f) == [k \in 0 .. n |-> IF k = 0 THEN first ELSE Trees!Reaching(f[k - 1], steps)]
           step == [k \in 1 .. n |-> [S \in X |-> Trees!Reaching(S, steps)]]
           c == CHOOSE f : f = rhs(f)
<1>1. n \in Nat /\ Trees!Cardinality(Path) = n
  BY TreeConstants, TreeSizes
<1>2. Trees!Closure(first, steps) = c[n]
  BY <1>1 DEF Trees!Closure
<1> HIDE DEF n
<1>3. \A S \in X : Trees!Reaching(S, steps) \in X
  BY ReachingIs
<1> HIDE DEF X
<1>4. step \in [1 .. n -> [X -> X]] /\ \A k \in 1 .. n, S \in X : step[k][S] = Trees!Reaching(S, steps)
  BY <1>3
<1> HIDE DEF step
<1>5. first \in X
  BY DEF X
<1>6. PICK g : Iterates(g, n, X, first, step)
  <2> HIDE DEF rhs, c
  <2> QED BY <1>1, <1>4, <1>5, Recursion
<1>7. g \in [0 .. n -> X] /\ g[0] = first /\ \A k \in 1 .. n : g[k] = step[k][g[k - 1]]
  BY <1>6 DEF Iterates
<1>8. g = rhs(g)
  <2>1. \A k \in 1 .. n : g[k] = Trees!Reaching(g[k - 1], steps)
    BY <1>1, <1>4, <1>7
  <2>2. g = [k \in 0 .. n |-> g[k]]
    BY <1>7
  <2>3. \A k \in 0 .. n : g[k] = IF k = 0 THEN first ELSE Trees!Reaching(g[k - 1], steps)
    BY <1>1, <1>7, <2>1
  <2> QED BY <2>2, <2>3
<1>9. c = rhs(c)
  <2> HIDE DEF rhs
  <2> QED BY <1>8
<1> HIDE DEF c
<1>10. c[0] = first /\ \A k \in 1 .. n : c[k] = Trees!Reaching(c[k - 1], steps)
  BY <1>1, <1>9
<1>11. \A k \in 0 .. n : c[k] \in X
  <2> DEFINE T == {k \in 0 .. n : c[k] \in X}
  <2>1. 0 \in T
    BY <1>1, <1>5, <1>10
  <2>2. \A k \in 0 .. n - 1 : k \in T => k + 1 \in T
    <3> TAKE k \in 0 .. n - 1
    <3> HAVE k \in T
    <3>1. k + 1 \in 1 .. n /\ (k + 1) - 1 = k
      BY <1>1
    <3> QED BY <1>1, <1>3, <1>10, <3>1
  <2> HIDE DEF T
  <2>3. \A k \in 0 .. n : k \in T
    BY <1>1, <2>1, <2>2, UpTo
  <2> QED BY <2>3 DEF T
<1>12. c \in [0 .. n -> X]
  <2>1. c = [k \in 0 .. n |-> c[k]]
    BY <1>9
  <2> QED BY <1>11, <2>1
<1> QED BY <1>2, <1>10, <1>12 DEF n, X, ReachesBy

\* A set of paths cannot grow more often than there are paths.
LEMMA ClosureIs ==
  ASSUME NEW first \in SUBSET Path, NEW steps \in [Path -> SUBSET Path]
  PROVE  LET C == Trees!Closure(first, steps)
         IN  /\ C \in SUBSET Path /\ first \subseteq C
             /\ \A q \in C : steps[q] \subseteq C
             /\ \A q \in C \ first : \E r \in C : q \in steps[r]
<1> DEFINE n == Cardinality(Path)
           Closed(S) == \A q \in S : steps[q] \subseteq S
<1>1. n \in Nat /\ IsFiniteSet(Path)
  BY TreeConstants
<1>2. PICK g : ReachesBy(g, first, steps)
  BY ClosureByPrefix
<1>3. /\ g \in [0 .. n -> SUBSET Path] /\ Trees!Closure(first, steps) = g[n] /\ g[0] = first
      /\ \A k \in 1 .. n : g[k] = Trees!Reaching(g[k - 1], steps)
  BY <1>2 DEF ReachesBy
<1> HIDE DEF n
<1> DEFINE T == {k \in 0 .. n : /\ first \subseteq g[k]
                                /\ \A q \in g[k] \ first : \E r \in g[k] : q \in steps[r]
                                /\ Closed(g[k]) \/ Cardinality(g[k]) >= k}
<1>4. 0 \in T
  <2>1. IsFiniteSet(first)
    BY <1>1, FS_Subset
  <2>2. Cardinality(first) >= 0
    BY <2>1, FS_CardinalityType
  <2> QED BY <1>1, <1>3, <2>2
<1>5. \A k \in 0 .. n - 1 : k \in T => k + 1 \in T
  <2> TAKE k \in 0 .. n - 1
  <2> HAVE k \in T
  <2>0. k + 1 \in 1 .. n /\ (k + 1) - 1 = k /\ k \in 0 .. n /\ k + 1 \in 0 .. n
    BY <1>1
  <2> DEFINE S == g[k]  R == g[k + 1]
  <2>1. S \in SUBSET Path /\ R = Trees!Reaching(S, steps)
    BY <1>3, <2>0
  <2>2. /\ R \in SUBSET Path /\ S \subseteq R
        /\ \A q \in R : q \in S \/ \E r \in S : q \in steps[r]
        /\ \A r \in S : steps[r] \subseteq R
    BY <2>1, ReachingIs
  <2>3. /\ first \subseteq S /\ (\A q \in S \ first : \E r \in S : q \in steps[r])
        /\ Closed(S) \/ Cardinality(S) >= k
    OBVIOUS
  <2> HIDE DEF S, R
  <2>4. first \subseteq R /\ \A q \in R \ first : \E r \in R : q \in steps[r]
    BY <2>2, <2>3
  <2>5. Closed(R) \/ Cardinality(R) >= k + 1
    <3>1. CASE Closed(S)
      <4>1. R = S
        BY <2>2, <3>1
      <4> QED BY <3>1, <4>1
    <3>2. CASE ~Closed(S)
      <4>1. S # R
        BY <2>2, <3>2
      <4>2. IsFiniteSet(R) /\ IsFiniteSet(S)
        BY <1>1, <2>1, <2>2, FS_Subset
      <4>3. Cardinality(S) < Cardinality(R)
        <5>1. Cardinality(S) <= Cardinality(R)
          BY <2>2, <4>2, FS_Subset
        <5>2. Cardinality(S) # Cardinality(R)
          BY <2>2, <4>1, <4>2, FS_Subset
        <5>3. Cardinality(S) \in Nat /\ Cardinality(R) \in Nat
          BY <4>2, FS_CardinalityType
        <5> QED BY <5>1, <5>2, <5>3
      <4>4. Cardinality(S) \in Nat /\ Cardinality(R) \in Nat
        BY <4>2, FS_CardinalityType
      <4> QED BY <2>0, <2>3, <3>2, <4>3, <4>4
    <3> HIDE DEF Closed
    <3> QED BY <3>1, <3>2
  <2> QED BY <2>0, <2>4, <2>5 DEF R
<1> HIDE DEF T
<1>6. n \in T
  <2>1. \A k \in 0 .. n : k \in T
    BY <1>1, <1>4, <1>5, UpTo
  <2> QED BY <1>1, <2>1
<1> USE DEF T
<1>7. g[n] \in SUBSET Path
  BY <1>1, <1>3
<1>8. Closed(g[n])
  <2>1. CASE Cardinality(g[n]) >= n
    <3>1. IsFiniteSet(g[n])
      BY <1>1, <1>7, FS_Subset
    <3>2. Cardinality(g[n]) <= Cardinality(Path) /\ Cardinality(g[n]) \in Nat /\ Cardinality(Path) = n
      BY <1>1, <1>7, <3>1, FS_Subset, FS_CardinalityType DEF n
    <3>3. Cardinality(g[n]) = Cardinality(Path)
      BY <1>1, <2>1, <3>2
    <3>4. g[n] = Path
      BY <1>1, <1>7, <3>3, FS_Subset
    <3> QED BY <3>4
  <2> QED BY <1>6, <2>1
<1> QED BY <1>3, <1>6, <1>7, <1>8

\* The paths from key up.
Line(key) == Trees!Closure({key}, Trees!Upwards)

LEMMA LineIs ==
  ASSUME NEW key \in Path
  PROVE  /\ key \in Line(key) /\ Line(key) \subseteq Path
         /\ \A q \in Line(key) : ParentOf[q] # NoPath => ParentOf[q] \in Line(key)
         /\ \A q \in Line(key) : q # key =>
              /\ Trees!TowardsKey(q, key) \in Line(key)
              /\ ParentOf[Trees!TowardsKey(q, key)] = q
<1> DEFINE steps == Trees!Upwards
<1>1. steps \in [Path -> SUBSET Path] /\ \A q \in Path : steps[q] = {ParentOf[q]} \ {NoPath}
  BY TreeConstants DEF Trees!Upwards
<1> HIDE DEF steps
<1>2. /\ Line(key) \subseteq Path /\ key \in Line(key)
      /\ \A q \in Line(key) : steps[q] \subseteq Line(key)
      /\ \A q \in Line(key) \ {key} : \E r \in Line(key) : q \in steps[r]
  <2> DEFINE first == {key}
  <2>1. first \in SUBSET Path /\ Line(key) = Trees!Closure(first, steps)
    BY DEF Line, steps
  <2> HIDE DEF first
  <2>2. /\ Line(key) \in SUBSET Path /\ first \subseteq Line(key)
        /\ \A q \in Line(key) : steps[q] \subseteq Line(key)
        /\ \A q \in Line(key) \ first : \E r \in Line(key) : q \in steps[r]
    BY <1>1, <2>1, ClosureIs
  <2> QED BY <2>2 DEF first
<1>3. ASSUME NEW q \in Line(key), q # key
      PROVE  Trees!TowardsKey(q, key) \in Line(key) /\ ParentOf[Trees!TowardsKey(q, key)] = q
  <2>1. \E r \in Line(key) : ParentOf[r] = q
    BY <1>1, <1>2, <1>3
  <2>2. Trees!TowardsKey(q, key) = CHOOSE r \in Line(key) : ParentOf[r] = q
    BY DEF Trees!TowardsKey, Line
  <2> QED BY <2>1, <2>2
<1> QED BY <1>1, <1>2, <1>3

-----------------------------------------------------------------------------
(* What a call of DeleteIf takes out                                       *)

Outcome == [gone : SUBSET Path, emptied : SUBSET Path]
Untouched == [gone |-> {}, emptied |-> {}]

\* All nodes, bucket by bucket.
LEMMA AllNodesIs ==
  ASSUME TreeGood(treeBuckets)
  PROVE  /\ Trees!AllNodes \in Seq(Path) /\ DistinctPaths(Trees!AllNodes)
         /\ PathsIn(Trees!AllNodes) = NodesIn(treeBuckets)
<1> DEFINE n == TreeSize(treeBuckets)  s == Trees!FlattenSeq([i \in 1 .. n |-> treeBuckets[i - 1]])
<1>1. n \in Nat \ {0} /\ Trees!nBuckets = n /\ treeBuckets \in [0 .. n - 1 -> Seq(Path)]
  BY NodesAre DEF TreeGood
<1>2. Trees!AllNodes = s
  BY <1>1, Zenon DEF Trees!AllNodes
<1> HIDE DEF n
<1>3. DOMAIN treeBuckets = 0 .. n - 1 /\ \A i \in 0 .. n - 1 : PathsOrdered(treeBuckets[i])
  BY <1>1 DEF TreeGood
<1>4. \A i, j \in 0 .. n - 1 : i # j =>
         \A x \in PathsIn(treeBuckets[i]), y \in PathsIn(treeBuckets[j]) : x # y
  <2> TAKE i, j \in 0 .. n - 1
  <2> HAVE i # j
  <2> TAKE x \in PathsIn(treeBuckets[i]), y \in PathsIn(treeBuckets[j])
  <2>1. PathHome(treeBuckets, x) = i /\ PathHome(treeBuckets, y) = j
    BY <1>3 DEF TreeGood
  <2> QED BY <2>1
<1>5. s \in Seq(Path) /\ DistinctPaths(s) /\ PathsIn(s) = UNION {PathsIn(treeBuckets[i]) : i \in 0 .. n - 1}
  BY <1>1, <1>3, <1>4, PathFlattenIs
<1> QED BY <1>2, <1>3, <1>5 DEF NodesIn

MeetsBy(g, chosen) ==
  /\ g \in [0 .. Len(Trees!AllNodes) -> Outcome]
  /\ Trees!DeletedIf(chosen) = g[Len(Trees!AllNodes)] /\ g[0] = Untouched
  /\ \A k \in 1 .. Len(Trees!AllNodes) : g[k] = Trees!Meeting(chosen, Trees!AllNodes[k], g[k - 1])

LEMMA MeetingIs ==
  ASSUME NEW chosen, NEW p \in Path, NEW done \in Outcome
  PROVE  /\ Trees!Meeting(chosen, p, done) \in Outcome
         /\ \/ Trees!Meeting(chosen, p, done) = done
            \/ /\ Trees!Meeting(chosen, p, done) = [done EXCEPT !.gone = @ \cup {p}]
               /\ PathsIn(children[p]) \subseteq done.gone
            \/ Trees!Meeting(chosen, p, done) = [done EXCEPT !.emptied = @ \cup {p}]
BY DEF Trees!Meeting, Outcome, PathsIn

LEMMA DeletedByPrefix ==
  ASSUME NEW chosen, Trees!AllNodes \in Seq(Path)
  PROVE  \E g : MeetsBy(g, chosen)
<1> DEFINE s == Trees!AllNodes  n == Len(s)  X == Outcome
           rhs(f) == [k \in 0 .. n |-> IF k = 0 THEN Untouched ELSE Trees!Meeting(chosen, s[k], f[k - 1])]
           step == [k \in 1 .. n |-> [q \in X |-> Trees!Meeting(chosen, s[k], q)]]
           c == CHOOSE f : f = rhs(f)
<1>1. n \in Nat /\ Untouched \in X /\ \A k \in 1 .. n : s[k] \in Path
  BY DEF Untouched, Outcome
<1>3. Trees!DeletedIf(chosen) = c[n]
  BY DEF Trees!DeletedIf, Untouched
<1> HIDE DEF n, s
<1>2. \A k \in 1 .. n, q \in X : Trees!Meeting(chosen, s[k], q) \in X
  BY <1>1, MeetingIs
<1> HIDE DEF X
<1>4. step \in [1 .. n -> [X -> X]] /\ \A k \in 1 .. n, q \in X : step[k][q] = Trees!Meeting(chosen, s[k], q)
  BY <1>2
<1> HIDE DEF step
<1>5. PICK g : Iterates(g, n, X, Untouched, step)
  <2> HIDE DEF rhs, c
  <2> QED BY <1>1, <1>4, Recursion
<1>6. g \in [0 .. n -> X] /\ g[0] = Untouched /\ \A k \in 1 .. n : g[k] = step[k][g[k - 1]]
  BY <1>5 DEF Iterates
<1>7. g = rhs(g)
  <2>1. \A k \in 1 .. n : g[k] = Trees!Meeting(chosen, s[k], g[k - 1])
    BY <1>1, <1>4, <1>6
  <2>2. g = [k \in 0 .. n |-> g[k]]
    BY <1>6
  <2>3. \A k \in 0 .. n : g[k] = IF k = 0 THEN Untouched ELSE Trees!Meeting(chosen, s[k], g[k - 1])
    BY <1>1, <1>6, <2>1
  <2> QED BY <2>2, <2>3
<1>8. c = rhs(c)
  <2> HIDE DEF rhs
  <2> QED BY <1>7
<1> HIDE DEF c
<1>9. c[0] = Untouched /\ \A k \in 1 .. n : c[k] = Trees!Meeting(chosen, s[k], c[k - 1])
  BY <1>1, <1>8
<1>10. \A k \in 0 .. n : c[k] \in X
  <2> DEFINE T == {k \in 0 .. n : c[k] \in X}
  <2>1. 0 \in T
    BY <1>1, <1>9
  <2>2. \A k \in 0 .. n - 1 : k \in T => k + 1 \in T
    <3> TAKE k \in 0 .. n - 1
    <3> HAVE k \in T
    <3>1. k + 1 \in 1 .. n /\ (k + 1) - 1 = k
      BY <1>1
    <3> QED BY <1>1, <1>2, <1>9, <3>1
  <2> HIDE DEF T
  <2>3. \A k \in 0 .. n : k \in T
    BY <1>1, <2>1, <2>2, UpTo
  <2> QED BY <2>3 DEF T
<1>11. c \in [0 .. n -> X]
  <2>1. c = [k \in 0 .. n |-> c[k]]
    BY <1>8
  <2> QED BY <1>10, <2>1
<1> QED BY <1>3, <1>9, <1>11 DEF n, s, X, MeetsBy

\* A node goes after its children.
LEMMA DeletedIfIs ==
  ASSUME TreeGood(treeBuckets), NEW chosen
  PROVE  /\ Trees!DeletedIf(chosen).gone \subseteq NodesIn(treeBuckets)
         /\ Trees!DeletedIf(chosen).emptied \subseteq NodesIn(treeBuckets)
         /\ \A p \in Trees!DeletedIf(chosen).gone : PathsIn(children[p]) \subseteq Trees!DeletedIf(chosen).gone
<1> DEFINE s == Trees!AllNodes  n == Len(s)
<1>1. s \in Seq(Path) /\ n \in Nat /\ \A k \in 1 .. n : s[k] \in Path /\ s[k] \in NodesIn(treeBuckets)
  BY AllNodesIs, PathChainFacts
<1>2. PICK g : MeetsBy(g, chosen)
  BY <1>1, DeletedByPrefix
<1>3. /\ g \in [0 .. n -> Outcome] /\ Trees!DeletedIf(chosen) = g[n] /\ g[0] = Untouched
      /\ \A k \in 1 .. n : g[k] = Trees!Meeting(chosen, s[k], g[k - 1])
  BY <1>2 DEF MeetsBy
<1> HIDE DEF s, n
<1> DEFINE Fine(done) == /\ done.gone \subseteq NodesIn(treeBuckets) /\ done.emptied \subseteq NodesIn(treeBuckets)
                         /\ \A p \in done.gone : PathsIn(children[p]) \subseteq done.gone
           T == {k \in 0 .. n : Fine(g[k])}
<1>4. 0 \in T
  BY <1>1, <1>3 DEF Untouched
<1>5. \A k \in 0 .. n - 1 : k \in T => k + 1 \in T
  <2> TAKE k \in 0 .. n - 1
  <2> HAVE k \in T
  <2> DEFINE done == g[k]  more == g[k + 1]  p == s[k + 1]
  <2>1. k + 1 \in 1 .. n /\ (k + 1) - 1 = k /\ k \in 0 .. n /\ k + 1 \in 0 .. n
    BY <1>1
  <2>2. done \in Outcome /\ more = Trees!Meeting(chosen, p, done) /\ p \in Path /\ p \in NodesIn(treeBuckets)
    BY <1>1, <1>3, <2>1
  <2>3. Fine(done)
    OBVIOUS
  <2> HIDE DEF done, more, p
  <2>4. \/ more = done
        \/ more = [done EXCEPT !.gone = @ \cup {p}] /\ PathsIn(children[p]) \subseteq done.gone
        \/ more = [done EXCEPT !.emptied = @ \cup {p}]
    <3> HIDE DEF Fine
    <3> QED BY <2>2, MeetingIs
  <2>5. Fine(more)
    BY <2>2, <2>3, <2>4 DEF Outcome
  <2> QED BY <2>1, <2>5 DEF more
<1> HIDE DEF T
<1>6. n \in T
  <2>1. \A k \in 0 .. n : k \in T
    BY <1>1, <1>4, <1>5, UpTo
  <2> QED BY <1>1, <2>1
<1> QED BY <1>3, <1>6 DEF T
=============================================================================
