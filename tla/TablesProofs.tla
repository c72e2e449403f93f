---------------------------- MODULE TablesProofs ----------------------------
(***************************************************************************)
(* Theorems about HASH_TABLE, of PartSpec, in which the other structures   *)
(* stand still: its chains stay in order while insertions run side by      *)
(* side, its counts are right, Apply meets every record, and it implements *)
(* RecordTable.                                                            *)
(***************************************************************************)
EXTENDS MCStructures, FiniteSetTheorems, FunctionTheorems, SequenceTheorems,
        WellFoundedInduction, TLAPS

-----------------------------------------------------------------------------
(* Induction, and functions defined by recursion                           *)

LEMMA NatMin ==
  ASSUME NEW S \in SUBSET Nat, S # {}
  PROVE  \E x \in S : \A y \in S : x <= y
<1>1. PICK x \in S : \A y \in S : <<y, x>> \notin OpToRel(<, Nat)
  BY NatLessThanWellFounded, WFMin
<1>2. \A y \in S : ~(y < x)
  BY <1>1 DEF OpToRel
<1> QED BY <1>2

LEMMA UpTo ==
  ASSUME NEW n \in Nat, NEW S, 0 \in S, \A k \in 0 .. n - 1 : k \in S => k + 1 \in S
  PROVE  \A k \in 0 .. n : k \in S
<1> SUFFICES ASSUME NEW m \in 0 .. n, m \notin S PROVE FALSE
  OBVIOUS
<1> DEFINE T == {k \in 0 .. n : k \notin S}
<1>1. PICK x \in T : \A y \in T : x <= y
  <2>1. T \in SUBSET Nat /\ T # {}
    OBVIOUS
  <2> QED BY <2>1, NatMin
<1>2. x # 0 /\ x - 1 \in 0 .. n - 1 /\ x - 1 \notin T
  BY <1>1
<1> QED BY <1>1, <1>2

\* g has the values that a base and a step function give.
Iterates(g, n, X, base, step) ==
  g \in [0 .. n -> X] /\ g[0] = base /\ \A k \in 1 .. n : g[k] = step[k][g[k - 1]]

LEMMA Recursion ==
  ASSUME NEW n \in Nat, NEW X, NEW base \in X, NEW step \in [1 .. n -> [X -> X]]
  PROVE  \E g : Iterates(g, n, X, base, step)
<1> DEFINE S == {m \in 0 .. n : \E g \in [0 .. m -> X] :
                   g[0] = base /\ \A k \in 1 .. m : g[k] = step[k][g[k - 1]]}
<1>1. 0 \in S
  <2> DEFINE g == [k \in 0 .. 0 |-> base]
  <2>1. g \in [0 .. 0 -> X] /\ g[0] = base /\ \A k \in 1 .. 0 : g[k] = step[k][g[k - 1]]
    OBVIOUS
  <2> HIDE DEF g
  <2> QED BY <2>1
<1>2. ASSUME NEW m \in 0 .. n - 1, m \in S PROVE m + 1 \in S
  <2>1. PICK g \in [0 .. m -> X] : g[0] = base /\ \A k \in 1 .. m : g[k] = step[k][g[k - 1]]
    BY <1>2
  <2> DEFINE h == [k \in 0 .. m + 1 |-> IF k = m + 1 THEN step[m + 1][g[m]] ELSE g[k]]
  <2>2. step[m + 1][g[m]] \in X
    OBVIOUS
  <2>3. h \in [0 .. m + 1 -> X]
    BY <2>2
  <2>4. h[0] = base /\ \A k \in 1 .. m + 1 : h[k] = step[k][h[k - 1]]
    BY <2>1
  <2>5. m + 1 \in 0 .. n
    OBVIOUS
  <2> HIDE DEF h
  <2> QED BY <2>3, <2>4, <2>5
<1> HIDE DEF S
<1>3. \A k \in 0 .. n - 1 : k \in S => k + 1 \in S
  BY <1>2
<1>4. n \in S
  <2>1. \A k \in 0 .. n : k \in S
    BY <1>1, <1>3, UpTo, Zenon
  <2> QED BY <2>1
<1> QED BY <1>4 DEF S, Iterates

Nothing == <<>>

-----------------------------------------------------------------------------
(* Chains: sequences of records in ascending order of their hashes         *)

LEMMA HashConstants ==
  /\ NoRecord \notin Record /\ \A r \in Record : HashTables!HashOf(r) \in Nat
  /\ KeyOf \in [Record -> Key] /\ Hash \in [Key -> Nat]
  /\ InitialBuckets \in Nat \ {0} /\ Primes \subseteq Nat \ {0}
  /\ OpNames \subseteq {"Insert", "FindKey", "Apply", "DeleteKey", "DeleteIf", "Clear"}
  /\ InitialTable \subseteq Record
  /\ \A r, s \in InitialTable : KeyOf[r] = KeyOf[s] => r = s
BY StructuresAssumption DEF HashTables!HashTableAssumption, HashTables!HashOf

\* An instance has its own copies of these operators.
LEMMA SameSizes ==
  \A S : HashTables!Cardinality(S) = Cardinality(S) /\ (HashTables!IsFiniteSet(S) <=> IsFiniteSet(S))
<1>1. \A S : HashTables!IsFiniteSet(S) <=> IsFiniteSet(S)
  BY DEF HashTables!IsFiniteSet, IsFiniteSet
<1>2. \A S : HashTables!Cardinality(S) = Cardinality(S)
  BY <1>1 DEF HashTables!Cardinality, Cardinality
<1> QED BY <1>1, <1>2

Records(c) == HashTables!ToSet(c)
HashAt(c, i) == HashTables!HashOf(c[i])

Ordered(c) ==
  \A j, k \in DOMAIN c : j < k =>
    HashAt(c, j) <= HashAt(c, k) /\ KeyOf[c[j]] # KeyOf[c[k]]

\* s is in the chain behind p, or anywhere if p is the bucket itself.
Follows(c, p, s) ==
  \E j \in DOMAIN c : c[j] = s /\ (p = NoRecord \/ \E i \in DOMAIN c : i < j /\ c[i] = p)

LEMMA ChainFacts ==
  ASSUME NEW c \in Seq(Record)
  PROVE  /\ Len(c) \in Nat /\ DOMAIN c = 1 .. Len(c)
         /\ \A i \in DOMAIN c : c[i] \in Record /\ HashAt(c, i) \in Nat
         /\ Records(c) = {c[i] : i \in DOMAIN c} /\ Records(c) \subseteq Record
<1>1. Len(c) \in Nat /\ DOMAIN c = 1 .. Len(c) /\ \A i \in DOMAIN c : c[i] \in Record
  OBVIOUS
<1>2. Records(c) = {c[i] : i \in DOMAIN c}
  BY DEF Records, HashTables!ToSet
<1> QED BY <1>1, <1>2, HashConstants DEF HashAt

\* A record has one place.
LEMMA OnePlace ==
  ASSUME NEW c \in Seq(Record), Ordered(c)
  PROVE  \A i, j \in DOMAIN c : KeyOf[c[i]] = KeyOf[c[j]] => i = j
BY ChainFacts DEF Ordered

LEMMA PassedWithin ==
  ASSUME NEW c \in Seq(Record), NEW h \in Nat
  PROVE  LET p == HashTables!Passed(c, h)
         IN  /\ p \in 0 .. Len(c) /\ \A i \in 1 .. p : HashAt(c, i) <= h
             /\ p < Len(c) => HashAt(c, p + 1) > h
<1> DEFINE K == {k \in 0 .. Len(c) : k < Len(c) => HashAt(c, k + 1) > h}
           Right(k) == /\ \A i \in 1 .. k : HashAt(c, i) <= h
                       /\ k < Len(c) => HashAt(c, k + 1) > h
<1>1. PICK m \in K : \A y \in K : m <= y
  <2>1. Len(c) \in K /\ K \in SUBSET Nat
    BY ChainFacts
  <2> HIDE DEF K
  <2> QED BY <2>1, NatMin
<1>2. Right(m)
  <2>1. ASSUME NEW i \in 1 .. m PROVE HashAt(c, i) <= h
    <3>1. m \in 0 .. Len(c) /\ Len(c) \in Nat /\ DOMAIN c = 1 .. Len(c)
      BY <1>1, ChainFacts
    <3>2. i - 1 \notin K
      <4> HIDE DEF K
      <4> QED BY <1>1, <3>1
    <3>3. i - 1 \in 0 .. Len(c) /\ i \in DOMAIN c /\ (i - 1) + 1 = i
      BY <3>1
    <3> QED BY <3>2, <3>3, ChainFacts
  <2> QED BY <1>1, <2>1
<1>3. HashTables!Passed(c, h) = CHOOSE k \in 0 .. Len(c) : Right(k)
  BY DEF HashTables!Passed, HashAt, HashTables!HashOf
<1> DEFINE p == HashTables!Passed(c, h)
<1>4. p \in 0 .. Len(c) /\ Right(p)
  <2> HIDE DEF Right
  <2> QED BY <1>1, <1>2, <1>3
<1> QED BY <1>4

LEMMA PassedIs ==
  ASSUME NEW c \in Seq(Record), Ordered(c), NEW h \in Nat
  PROVE  LET p == HashTables!Passed(c, h)
         IN  p \in 0 .. Len(c) /\ \A i \in DOMAIN c : i <= p <=> HashAt(c, i) <= h
<1> DEFINE p == HashTables!Passed(c, h)
<1>1. /\ p \in 0 .. Len(c) /\ \A i \in 1 .. p : HashAt(c, i) <= h
      /\ p < Len(c) => HashAt(c, p + 1) > h
  BY PassedWithin
<1> HIDE DEF p
<1>2. ASSUME NEW i \in DOMAIN c, i > p PROVE HashAt(c, i) > h
  <2>1. p + 1 \in DOMAIN c /\ HashAt(c, p + 1) > h /\ p + 1 <= i
    BY <1>1, <1>2, ChainFacts
  <2>2. HashAt(c, p + 1) <= HashAt(c, i)
    BY <2>1, ChainFacts DEF Ordered
  <2> QED BY <2>1, <2>2, ChainFacts
<1>3. \A i \in DOMAIN c : i <= p => HashAt(c, i) <= h
  BY <1>1, ChainFacts
<1> QED BY <1>1, <1>2, <1>3, ChainFacts DEF p

\* What InsertAt does.
LEMMA InsertAtIs ==
  ASSUME NEW s \in Seq(Record), NEW r \in Record, NEW k \in 1 .. Len(s) + 1
  PROVE  /\ HashTables!InsertAt(s, k, r) \in Seq(Record)
         /\ Len(HashTables!InsertAt(s, k, r)) = Len(s) + 1
         /\ \A i \in 1 .. Len(s) + 1 :
              HashTables!InsertAt(s, k, r)[i] = IF i < k THEN s[i] ELSE IF i = k THEN r ELSE s[i - 1]
<1> DEFINE a == SubSeq(s, 1, k - 1)  b == SubSeq(s, k, Len(s))  c == <<r>>
<1>1. a \in Seq(Record) /\ Len(a) = k - 1 /\ \A i \in 1 .. k - 1 : a[i] = s[i]
  BY SubSeqProperties
<1>2. b \in Seq(Record) /\ Len(b) = Len(s) + 1 - k /\ \A i \in 1 .. Len(s) + 1 - k : b[i] = s[k + i - 1]
  BY SubSeqProperties
<1>3. c \in Seq(Record) /\ Len(c) = 1 /\ c[1] = r
  OBVIOUS
<1>4. HashTables!InsertAt(s, k, r) = a \o c \o b
  BY DEF HashTables!InsertAt
<1> HIDE DEF a, b, c
<1> DEFINE d == a \o c
<1>5. d \in Seq(Record) /\ Len(d) = k /\ (\A i \in 1 .. k - 1 : d[i] = s[i]) /\ d[k] = r
  <2>1. d \in Seq(Record) /\ Len(d) = Len(a) + Len(c)
        /\ \A i \in 1 .. Len(a) + Len(c) : d[i] = IF i <= Len(a) THEN a[i] ELSE c[i - Len(a)]
    BY <1>1, <1>3, ConcatProperties
  <2> HIDE DEF d
  <2> QED BY <1>1, <1>3, <2>1
<1>6. HashTables!InsertAt(s, k, r) = d \o b
  BY <1>4
<1> HIDE DEF d
<1> DEFINE e == d \o b
<1>7. /\ e \in Seq(Record) /\ Len(e) = Len(d) + Len(b)
      /\ \A i \in 1 .. Len(d) + Len(b) : e[i] = IF i <= Len(d) THEN d[i] ELSE b[i - Len(d)]
  BY <1>5, <1>2, ConcatProperties
<1> HIDE DEF e
<1>8. Len(e) = Len(s) + 1
  BY <1>7, <1>5, <1>2
<1>9. ASSUME NEW i \in 1 .. Len(s) + 1
      PROVE  e[i] = IF i < k THEN s[i] ELSE IF i = k THEN r ELSE s[i - 1]
  <2>1. CASE i <= k
    BY <1>5, <1>2, <1>7, <2>1
  <2>2. CASE i > k
    <3>1. e[i] = b[i - k] /\ i - k \in 1 .. Len(s) + 1 - k
      BY <1>5, <1>2, <1>7, <2>2
    <3> QED BY <3>1, <1>2, <2>2
  <2> QED BY <2>1, <2>2
<1> QED BY <1>6, <1>7, <1>8, <1>9 DEF e

LEMMA WithoutByPrefix ==
  ASSUME NEW S, NEW s \in Seq(S), NEW gone
  PROVE  \E g \in [0 .. Len(s) -> Seq(S)] :
           /\ HashTables!Without(s, gone) = g[Len(s)] /\ g[0] = <<>>
           /\ \A k \in 1 .. Len(s) : g[k] = HashTables!Keeping(s, gone, k, g[k - 1])
<1> DEFINE n == Len(s)  X == Seq(S)
           rhs(f) == [k \in 0 .. n |-> IF k = 0 THEN Nothing ELSE HashTables!Keeping(s, gone, k, f[k - 1])]
           step == [k \in 1 .. n |-> [q \in X |-> HashTables!Keeping(s, gone, k, q)]]
           c == CHOOSE f : f = rhs(f)
<1>1. n \in Nat /\ Nothing \in X
  BY DEF Nothing
<1>2. \A k \in 1 .. n, q \in X : HashTables!Keeping(s, gone, k, q) \in X
  BY DEF HashTables!Keeping
<1>3. HashTables!Without(s, gone) = c[n]
  BY DEF HashTables!Without, Nothing
<1> HIDE DEF n, X
<1>4. step \in [1 .. n -> [X -> X]] /\ \A k \in 1 .. n, q \in X : step[k][q] = HashTables!Keeping(s, gone, k, q)
  BY <1>2
<1> HIDE DEF step
<1>5. \E g \in [0 .. n -> X] : g[0] = Nothing /\ \A k \in 1 .. n : g[k] = step[k][g[k - 1]]
  <2>1. n \in Nat
    BY <1>1
  <2>2. Nothing \in X
    BY <1>1
  <2>3. step \in [1 .. n -> [X -> X]]
    BY <1>4
  <2> HIDE DEF rhs, c
  <2>4. \E g : Iterates(g, n, X, Nothing, step)
    BY <2>1, <2>2, <2>3, Recursion
  <2> QED BY <2>4 DEF Iterates
<1>6. PICK g \in [0 .. n -> X] : g[0] = Nothing /\ \A k \in 1 .. n : g[k] = step[k][g[k - 1]]
  BY <1>5
<1>7. g = rhs(g)
  <2>1. \A k \in 1 .. n : g[k] = HashTables!Keeping(s, gone, k, g[k - 1])
    BY <1>1, <1>4, <1>6
  <2>2. g = [k \in 0 .. n |-> g[k]]
    OBVIOUS
  <2>3. \A k \in 0 .. n : g[k] = IF k = 0 THEN Nothing ELSE HashTables!Keeping(s, gone, k, g[k - 1])
    BY <1>1, <1>6, <2>1
  <2> QED BY <2>2, <2>3
<1>8. c = rhs(c)
  <2> HIDE DEF rhs
  <2> QED BY <1>7
<1> HIDE DEF c
<1>9. c[0] = Nothing /\ \A k \in 1 .. n : c[k] = HashTables!Keeping(s, gone, k, c[k - 1])
  BY <1>1, <1>8
<1>10. \A k \in 0 .. n : c[k] \in X
  <2> DEFINE T == {k \in 0 .. n : c[k] \in X}
  <2>1. 0 \in T
    BY <1>1, <1>9
  <2>2. \A k \in 0 .. n - 1 : k \in T => k + 1 \in T
    <3> TAKE k \in 0 .. n - 1
    <3> HAVE k \in T
    <3>1. k + 1 \in 1 .. n /\ (k + 1) - 1 = k
      BY <1>1
    <3> QED BY <1>1, <1>2, <1>9, <3>1
  <2> HIDE DEF T
  <2>3. \A k \in 0 .. n : k \in T
    BY <1>1, <2>1, <2>2, UpTo
  <2> QED BY <2>3 DEF T
<1>11. c \in [0 .. n -> X]
  <2>1. c = [k \in 0 .. n |-> c[k]]
    BY <1>8
  <2> QED BY <1>10, <2>1
<1> QED BY <1>3, <1>9, <1>11 DEF Nothing, n, X

\* A record among those of a lower or equal hash and those of a higher one.
LEMMA RecordPlaced ==
  ASSUME NEW c \in Seq(Record), Ordered(c), NEW r \in Record, NEW k \in 1 .. Len(c) + 1,
         \A i \in DOMAIN c : i < k <=> HashAt(c, i) <= HashTables!HashOf(r),
         \A s \in Records(c) : KeyOf[s] # KeyOf[r]
  PROVE  LET d == HashTables!InsertAt(c, k, r)
         IN  /\ d \in Seq(Record) /\ Records(d) = Records(c) \cup {r} /\ Ordered(d)
             /\ \A p, s \in Record \cup {NoRecord} : Follows(c, p, s) => Follows(d, p, s)
             /\ \A s \in Records(c) : HashTables!HashOf(s) <= HashTables!HashOf(r) => Follows(d, s, r)
<1> DEFINE d == HashTables!InsertAt(c, k, r)
           To(i) == IF i < k THEN i ELSE i + 1
<1>1. /\ d \in Seq(Record) /\ Len(d) = Len(c) + 1 /\ DOMAIN d = 1 .. Len(c) + 1
      /\ \A i \in DOMAIN d : d[i] = IF i < k THEN c[i] ELSE IF i = k THEN r ELSE c[i - 1]
  <2>1. /\ d \in Seq(Record) /\ Len(d) = Len(c) + 1
        /\ \A i \in 1 .. Len(c) + 1 : d[i] = IF i < k THEN c[i] ELSE IF i = k THEN r ELSE c[i - 1]
    <3>1. r \in Record /\ c \in Seq(Record) /\ k \in 1 .. Len(c) + 1
      OBVIOUS
    <3> QED BY <3>1, InsertAtIs
  <2> HIDE DEF d
  <2>2. DOMAIN d = 1 .. Len(d)
    BY <2>1, LenProperties
  <2> QED BY <2>1, <2>2
<1> HIDE DEF d
<1>2. Len(c) \in Nat /\ DOMAIN c = 1 .. Len(c) /\ k \in Nat /\ k \in DOMAIN d /\ d[k] = r
  BY <1>1, ChainFacts
<1>3. \A i \in DOMAIN c : To(i) \in DOMAIN d /\ d[To(i)] = c[i] /\ To(i) # k
  BY <1>1, <1>2
<1>4. \A j \in DOMAIN d : j # k => \E i \in DOMAIN c : j = To(i)
  <2> TAKE j \in DOMAIN d
  <2> HAVE j # k
  <2> DEFINE i == IF j < k THEN j ELSE j - 1
  <2>1. i \in DOMAIN c /\ j = To(i)
    BY <1>1, <1>2
  <2> QED BY <2>1
<1>5. \A i, j \in DOMAIN c : i < j <=> To(i) < To(j)
  BY <1>2
<1>6. \A i \in DOMAIN c : To(i) < k <=> i < k
  BY <1>2
<1> HIDE DEF To
<1>7. Records(d) = Records(c) \cup {r}
  <2>1. Records(d) = {d[i] : i \in DOMAIN d} /\ Records(c) = {c[i] : i \in DOMAIN c}
    BY <1>1, ChainFacts
  <2> QED BY <1>2, <1>3, <1>4, <2>1
<1>8. Ordered(d)
  <2> SUFFICES ASSUME NEW i \in DOMAIN d, NEW j \in DOMAIN d, i < j
               PROVE  HashAt(d, i) <= HashAt(d, j) /\ KeyOf[d[i]] # KeyOf[d[j]]
    BY DEF Ordered
  <2>0. i \in Nat /\ j \in Nat
    BY <1>1, <1>2
  <2>1. CASE i # k /\ j # k
    <3>1. PICK x \in DOMAIN c, y \in DOMAIN c : i = To(x) /\ j = To(y)
      BY <1>4, <2>1
    <3> QED BY <1>3, <1>5, <3>1 DEF Ordered, HashAt
  <2>2. CASE i = k
    <3>1. PICK y \in DOMAIN c : j = To(y)
      BY <1>4, <2>0, <2>2
    <3>2. ~(y < k)
      BY <1>6, <2>0, <2>2, <3>1, <1>2
    <3>3. HashAt(c, y) > HashTables!HashOf(r) /\ c[y] \in Records(c)
      BY <3>2, ChainFacts, HashConstants
    <3> QED BY <1>2, <1>3, <2>2, <3>1, <3>3, ChainFacts, HashConstants DEF HashAt
  <2>3. CASE j = k
    <3>1. PICK x \in DOMAIN c : i = To(x)
      BY <1>4, <2>0, <2>3
    <3>2. x < k
      BY <1>6, <2>0, <2>3, <3>1, <1>2
    <3>3. HashAt(c, x) <= HashTables!HashOf(r) /\ c[x] \in Records(c)
      BY <3>2, ChainFacts
    <3> QED BY <1>2, <1>3, <2>3, <3>1, <3>3 DEF HashAt
  <2> QED BY <2>1, <2>2, <2>3
<1>9. \A p, s \in Record \cup {NoRecord} : Follows(c, p, s) => Follows(d, p, s)
  <2> SUFFICES ASSUME NEW p, NEW s, Follows(c, p, s) PROVE Follows(d, p, s)
    OBVIOUS
  <2>1. PICK j \in DOMAIN c : c[j] = s /\ (p = NoRecord \/ \E i \in DOMAIN c : i < j /\ c[i] = p)
    BY DEF Follows
  <2>2. To(j) \in DOMAIN d /\ d[To(j)] = s
    BY <1>3, <2>1
  <2>3. CASE p = NoRecord
    BY <2>2, <2>3 DEF Follows
  <2>4. CASE p # NoRecord
    <3>1. PICK i \in DOMAIN c : i < j /\ c[i] = p
      BY <2>1, <2>4
    <3>2. To(i) \in DOMAIN d /\ d[To(i)] = p /\ To(i) < To(j)
      BY <1>3, <1>5, <3>1
    <3> QED BY <2>2, <3>2 DEF Follows
  <2> QED BY <2>3, <2>4
<1>10. ASSUME NEW s \in Records(c), HashTables!HashOf(s) <= HashTables!HashOf(r)
       PROVE  Follows(d, s, r)
  <2>1. PICK i \in DOMAIN c : c[i] = s
    BY ChainFacts
  <2>2. To(i) \in DOMAIN d /\ d[To(i)] = s /\ To(i) < k
    BY <1>3, <1>6, <1>10, <2>1 DEF HashAt
  <2> QED BY <1>2, <2>2 DEF Follows
<1> QED BY <1>1, <1>7, <1>8, <1>9, <1>10 DEF d

LEMMA WithNodeIs ==
  ASSUME NEW c \in Seq(Record), Ordered(c), NEW r \in Record,
         \A s \in Records(c) : KeyOf[s] # KeyOf[r]
  PROVE  LET d == HashTables!WithNode(c, r)
         IN  d \in Seq(Record) /\ Records(d) = Records(c) \cup {r} /\ Ordered(d)
<1> DEFINE h == HashTables!HashOf(r)  k == HashTables!Passed(c, h) + 1
<1>1. h \in Nat /\ Len(c) \in Nat
  BY HashConstants, ChainFacts
<1>2. HashTables!Passed(c, h) \in 0 .. Len(c) /\ \A i \in DOMAIN c : i <= HashTables!Passed(c, h) <=> HashAt(c, i) <= h
  <2> HIDE DEF h
  <2> QED BY <1>1, PassedIs
<1>3. k \in 1 .. Len(c) + 1 /\ \A i \in DOMAIN c : i < k <=> HashAt(c, i) <= h
  BY <1>1, <1>2, ChainFacts
<1>4. HashTables!WithNode(c, r) = HashTables!InsertAt(c, k, r)
  BY DEF HashTables!WithNode
<1> QED
  <2> HIDE DEF k
  <2> QED BY <1>3, <1>4, RecordPlaced

\* The place behind p, or the first one if p is the bucket itself.
Spot(c, p) == IF p = NoRecord THEN 1 ELSE 1 + CHOOSE k \in DOMAIN c : c[k] = p

LEMMA SpotIs ==
  ASSUME NEW c \in Seq(Record), Ordered(c), NEW p \in Records(c) \cup {NoRecord}
  PROVE  /\ Spot(c, p) \in 1 .. Len(c) + 1
         /\ \A j \in DOMAIN c : j >= Spot(c, p) <=> Follows(c, p, c[j])
         /\ p # NoRecord => \A j \in DOMAIN c : j < Spot(c, p) => HashAt(c, j) <= HashTables!HashOf(p)
<1> DEFINE i == Spot(c, p)
<1>1. /\ Len(c) \in Nat /\ DOMAIN c = 1 .. Len(c) /\ NoRecord \notin Records(c)
      /\ Records(c) = {c[j] : j \in DOMAIN c} /\ \A j \in DOMAIN c : c[j] \in Record /\ HashAt(c, j) \in Nat
  BY ChainFacts, HashConstants
<1>2. CASE p = NoRecord
  BY <1>1, <1>2 DEF Follows, Spot
<1>3. CASE p # NoRecord
  <2> DEFINE k == CHOOSE x \in DOMAIN c : c[x] = p
  <2>1. k \in DOMAIN c /\ c[k] = p
    BY <1>1, <1>3
  <2>2. i = 1 + k
    BY <1>3 DEF Spot
  <2> HIDE DEF k, i
  <2>3. \A x, y \in DOMAIN c : c[x] = c[y] => x = y
    BY OnePlace
  <2>4. \A j \in DOMAIN c : j > k <=> Follows(c, p, c[j])
    <3> TAKE j \in DOMAIN c
    <3>1. ASSUME j > k PROVE Follows(c, p, c[j])
      BY <2>1, <3>1 DEF Follows
    <3>2. ASSUME Follows(c, p, c[j]) PROVE j > k
      <4>0. PICK x \in DOMAIN c : c[x] = c[j] /\ (p = NoRecord \/ \E y \in DOMAIN c : y < x /\ c[y] = p)
        BY <3>2, Zenon DEF Follows
      <4>1. PICK y \in DOMAIN c : y < x /\ c[y] = p
        BY <1>3, <4>0
      <4>2. x = j /\ y = k
        BY <2>1, <2>3, <4>0, <4>1
      <4> QED BY <4>1, <4>2
    <3> QED BY <3>1, <3>2
  <2>5. ASSUME NEW j \in DOMAIN c, j <= k PROVE HashAt(c, j) <= HashTables!HashOf(p)
    <3>1. HashTables!HashOf(p) = HashAt(c, k)
      BY <2>1 DEF HashAt
    <3>2. CASE j = k
      BY <1>1, <3>1, <3>2
    <3>3. CASE j < k
      BY <2>1, <3>1, <3>3 DEF Ordered
    <3> QED BY <1>1, <2>1, <2>5, <3>2, <3>3
  <2>6. i \in 1 .. Len(c) + 1 /\ \A j \in DOMAIN c : j >= i <=> j > k
    BY <1>1, <2>1, <2>2
  <2>7. \A j \in DOMAIN c : j < i => j <= k
    BY <1>1, <2>1, <2>2
  <2> QED BY <2>4, <2>5, <2>6, <2>7 DEF i
<1> QED BY <1>2, <1>3

\* Behind is the first node that follows p, if one does.
LEMMA BehindIs ==
  ASSUME NEW c \in Seq(Record), Ordered(c), NEW p \in Records(c) \cup {NoRecord}
  PROVE  LET q == HashTables!Behind(c, p)
         IN  \/ q = NoRecord /\ \A s \in Record : ~Follows(c, p, s)
             \/ /\ q \in Records(c) /\ Follows(c, p, q)
                /\ \A s \in Record : Follows(c, p, s) => s = q \/ Follows(c, q, s)
<1> DEFINE i == Spot(c, p)
           q == HashTables!Behind(c, p)
<1>1. /\ Len(c) \in Nat /\ DOMAIN c = 1 .. Len(c) /\ NoRecord \notin Records(c)
      /\ Records(c) = {c[j] : j \in DOMAIN c} /\ Records(c) \subseteq Record
      /\ \A j \in DOMAIN c : c[j] \in Record /\ c[j] # NoRecord
  BY ChainFacts, HashConstants
<1>2. q = IF i \in DOMAIN c THEN c[i] ELSE NoRecord
  BY DEF HashTables!Behind, Spot
<1>3. i \in 1 .. Len(c) + 1 /\ \A j \in DOMAIN c : j >= i <=> Follows(c, p, c[j])
  BY SpotIs
<1> HIDE DEF i, q
<1>4. CASE i \in DOMAIN c
  <2>1. q = c[i] /\ q \in Records(c) /\ Follows(c, p, q) /\ q # NoRecord
    BY <1>1, <1>2, <1>3, <1>4
  <2>2. ASSUME NEW s \in Record, Follows(c, p, s) PROVE s = q \/ Follows(c, q, s)
    <3>1. PICK j \in DOMAIN c : c[j] = s
      BY <2>2 DEF Follows
    <3>2. j >= i
      BY <1>3, <2>2, <3>1
    <3>3. CASE j = i
      BY <2>1, <3>1, <3>3
    <3>4. CASE j > i
      BY <1>4, <2>1, <3>1, <3>4 DEF Follows
    <3> QED BY <1>1, <1>4, <3>2, <3>3, <3>4
  <2> QED BY <2>1, <2>2 DEF q
<1>5. CASE i \notin DOMAIN c
  <2>1. q = NoRecord
    BY <1>2, <1>5
  <2>2. ASSUME NEW s \in Record, Follows(c, p, s) PROVE FALSE
    <3>1. PICK j \in DOMAIN c : c[j] = s
      BY <2>2 DEF Follows
    <3>2. j >= i
      BY <1>3, <2>2, <3>1
    <3> QED BY <1>1, <1>3, <1>5, <3>2
  <2> QED BY <2>1, <2>2 DEF q
<1> QED BY <1>4, <1>5

LEMMA AppendIs ==
  ASSUME NEW c \in Seq(Record), NEW r \in Record
  PROVE  LET d == Append(c, r)
         IN  /\ d \in Seq(Record) /\ Len(d) = Len(c) + 1 /\ d[Len(c) + 1] = r
             /\ \A i \in 1 .. Len(c) : d[i] = c[i]
             /\ Records(d) = Records(c) \cup {r}
<1> DEFINE d == Append(c, r)
<1>1. d \in Seq(Record) /\ Len(d) = Len(c) + 1 /\ d[Len(c) + 1] = r /\ \A i \in 1 .. Len(c) : d[i] = c[i]
  OBVIOUS
<1> HIDE DEF d
<1>2. DOMAIN d = 1 .. Len(c) + 1 /\ DOMAIN c = 1 .. Len(c) /\ Len(c) \in Nat
  BY <1>1, ChainFacts
<1>3. Records(d) = {d[i] : i \in DOMAIN d} /\ Records(c) = {c[i] : i \in DOMAIN c}
  BY <1>1, ChainFacts
<1>4. Records(d) = Records(c) \cup {r}
  <2>1. ASSUME NEW x \in Records(d) PROVE x \in Records(c) \cup {r}
    BY <1>1, <1>2, <1>3
  <2>2. ASSUME NEW x \in Records(c) PROVE x \in Records(d)
    BY <1>1, <1>2, <1>3
  <2>3. r \in Records(d)
    BY <1>1, <1>2, <1>3
  <2> QED BY <2>1, <2>2, <2>3
<1> QED BY <1>1, <1>4 DEF d

\* The records that stay, in their order.
LEMMA WithoutIs ==
  ASSUME NEW c \in Seq(Record), Ordered(c), NEW gone
  PROVE  LET d == HashTables!Without(c, gone)
         IN  d \in Seq(Record) /\ Records(d) = Records(c) \ gone /\ Ordered(d)
<1>1. PICK g \in [0 .. Len(c) -> Seq(Record)] :
        /\ HashTables!Without(c, gone) = g[Len(c)] /\ g[0] = <<>>
        /\ \A k \in 1 .. Len(c) : g[k] = HashTables!Keeping(c, gone, k, g[k - 1])
  BY WithoutByPrefix
<1> DEFINE Before(k) == {c[i] : i \in 1 .. k}
           T == {k \in 0 .. Len(c) : Records(g[k]) = Before(k) \ gone /\ Ordered(g[k])}
<1>2. Len(c) \in Nat /\ DOMAIN c = 1 .. Len(c) /\ Records(c) = Before(Len(c)) /\ \A i \in 1 .. Len(c) : c[i] \in Record
  BY ChainFacts
<1>3. 0 \in T
  <2>1. Records(g[0]) = {} /\ Ordered(g[0])
    BY <1>1 DEF Records, Ordered, HashTables!ToSet
  <2> QED BY <1>2, <2>1
<1>4. \A k \in 0 .. Len(c) - 1 : k \in T => k + 1 \in T
  <2> TAKE k \in 0 .. Len(c) - 1
  <2> HAVE k \in T
  <2> DEFINE q == g[k]  r == c[k + 1]
  <2>1. q \in Seq(Record) /\ r \in Record /\ k + 1 \in 1 .. Len(c) /\ (k + 1) - 1 = k
    BY <1>1, <1>2
  <2>2. g[k + 1] = IF r \in gone THEN q ELSE Append(q, r)
    <3>1. g[k + 1] = HashTables!Keeping(c, gone, k + 1, g[k])
      BY <1>1, <2>1
    <3> QED BY <3>1 DEF HashTables!Keeping
  <2>3. Records(q) = Before(k) \ gone /\ Ordered(q)
    OBVIOUS
  <2>4. Before(k + 1) = Before(k) \cup {r}
    BY <1>2, <2>1
  <2>5. \A s \in Before(k) : HashTables!HashOf(s) <= HashTables!HashOf(r) /\ KeyOf[s] # KeyOf[r]
    <3> TAKE s \in Before(k)
    <3>1. PICK i \in 1 .. k : s = c[i]
      OBVIOUS
    <3>2. i \in DOMAIN c /\ k + 1 \in DOMAIN c /\ i < k + 1
      BY <1>2, <2>1
    <3>3. HashAt(c, i) <= HashAt(c, k + 1) /\ KeyOf[c[i]] # KeyOf[c[k + 1]]
      BY <3>2 DEF Ordered
    <3> QED BY <3>1, <3>3 DEF HashAt
  <2> HIDE DEF q, r, Before
  <2>6. CASE r \in gone
    BY <2>1, <2>2, <2>3, <2>4, <2>6
  <2>7. CASE r \notin gone
    <3> DEFINE d == Append(q, r)
    <3>1. /\ d \in Seq(Record) /\ Len(d) = Len(q) + 1 /\ d[Len(q) + 1] = r
          /\ (\A i \in 1 .. Len(q) : d[i] = q[i]) /\ Records(d) = Records(q) \cup {r}
      BY <2>1, AppendIs
    <3>2. g[k + 1] = d
      BY <2>2, <2>7
    <3> HIDE DEF d
    <3>3. Records(d) = Before(k + 1) \ gone
      BY <2>3, <2>4, <2>7, <3>1
    <3>4. Ordered(d)
      <4> SUFFICES ASSUME NEW i \in DOMAIN d, NEW j \in DOMAIN d, i < j
                   PROVE  HashAt(d, i) <= HashAt(d, j) /\ KeyOf[d[i]] # KeyOf[d[j]]
        BY DEF Ordered
      <4>1. /\ DOMAIN d = 1 .. Len(q) + 1 /\ DOMAIN q = 1 .. Len(q) /\ Len(q) \in Nat
            /\ Records(q) = {q[x] : x \in DOMAIN q}
        BY <2>1, <3>1, ChainFacts
      <4>2. CASE j \in DOMAIN q
        BY <2>3, <3>1, <4>1, <4>2 DEF Ordered, HashAt
      <4>3. CASE j = Len(q) + 1
        <5>1. i \in DOMAIN q /\ d[i] = q[i] /\ q[i] \in Before(k) /\ d[j] = r
          BY <2>3, <3>1, <4>1, <4>3
        <5> QED BY <2>5, <5>1 DEF HashAt
      <4> QED BY <4>1, <4>2, <4>3
    <3> QED BY <2>1, <3>2, <3>3, <3>4
  <2> QED BY <2>6, <2>7
<1>5. Len(c) \in T
  <2> HIDE DEF T
  <2>1. \A k \in 0 .. Len(c) : k \in T
    BY <1>2, <1>3, <1>4, UpTo
  <2> QED BY <1>2, <2>1
<1> QED BY <1>1, <1>2, <1>5

LEMMA WithNodeInSeq ==
  ASSUME NEW c \in Seq(Record), NEW r \in Record
  PROVE  HashTables!WithNode(c, r) \in Seq(Record)
<1> DEFINE h == HashTables!HashOf(r)  k == HashTables!Passed(c, h) + 1
<1>1. h \in Nat /\ Len(c) \in Nat
  BY HashConstants, ChainFacts
<1>2. k \in 1 .. Len(c) + 1
  <2>1. HashTables!Passed(c, h) \in 0 .. Len(c)
    <3> HIDE DEF h
    <3> QED BY <1>1, PassedWithin
  <2> QED BY <1>1, <2>1
<1>3. HashTables!WithNode(c, r) = HashTables!InsertAt(c, k, r)
  BY DEF HashTables!WithNode
<1> HIDE DEF k
<1> QED BY <1>2, <1>3, InsertAtIs

FillsBy(g, s, m, i) ==
  /\ g \in [0 .. Len(s) -> Seq(Record)]
  /\ HashTables!Filled(s, m, i) = g[Len(s)] /\ g[0] = <<>>
  /\ \A k \in 1 .. Len(s) : g[k] = HashTables!Adding(s, m, i, k, g[k - 1])

LEMMA FilledByPrefix ==
  ASSUME NEW s \in Seq(Record), NEW m, NEW i
  PROVE  \E g : FillsBy(g, s, m, i)
<1> DEFINE n == Len(s)  X == Seq(Record)
           rhs(f) == [k \in 0 .. n |-> IF k = 0 THEN Nothing ELSE HashTables!Adding(s, m, i, k, f[k - 1])]
           step == [k \in 1 .. n |-> [q \in X |-> HashTables!Adding(s, m, i, k, q)]]
           c == CHOOSE f : f = rhs(f)
<1>1. n \in Nat /\ Nothing \in X
  BY DEF Nothing
<1>2. \A k \in 1 .. n, q \in X : HashTables!Adding(s, m, i, k, q) \in X
  <2> TAKE k \in 1 .. n, q \in X
  <2>1. s[k] \in Record
    OBVIOUS
  <2> HIDE DEF n, X
  <2>2. HashTables!WithNode(q, s[k]) \in X
    BY <2>1, WithNodeInSeq DEF X
  <2> QED BY <2>2 DEF HashTables!Adding
<1>3. HashTables!Filled(s, m, i) = c[n]
  BY DEF HashTables!Filled, Nothing
<1> HIDE DEF n, X
<1>4. step \in [1 .. n -> [X -> X]] /\ \A k \in 1 .. n, q \in X : step[k][q] = HashTables!Adding(s, m, i, k, q)
  BY <1>2
<1> HIDE DEF step
<1>5. \E g \in [0 .. n -> X] : g[0] = Nothing /\ \A k \in 1 .. n : g[k] = step[k][g[k - 1]]
  <2>1. n \in Nat
    BY <1>1
  <2>2. Nothing \in X
    BY <1>1
  <2>3. step \in [1 .. n -> [X -> X]]
    BY <1>4
  <2> HIDE DEF rhs, c
  <2>4. \E g : Iterates(g, n, X, Nothing, step)
    BY <2>1, <2>2, <2>3, Recursion
  <2> QED BY <2>4 DEF Iterates
<1>6. PICK g \in [0 .. n -> X] : g[0] = Nothing /\ \A k \in 1 .. n : g[k] = step[k][g[k - 1]]
  BY <1>5
<1>7. g = rhs(g)
  <2>1. \A k \in 1 .. n : g[k] = HashTables!Adding(s, m, i, k, g[k - 1])
    BY <1>1, <1>4, <1>6
  <2>2. g = [k \in 0 .. n |-> g[k]]
    OBVIOUS
  <2>3. \A k \in 0 .. n : g[k] = IF k = 0 THEN Nothing ELSE HashTables!Adding(s, m, i, k, g[k - 1])
    BY <1>1, <1>6, <2>1
  <2> QED BY <2>2, <2>3
<1>8. c = rhs(c)
  <2> HIDE DEF rhs
  <2> QED BY <1>7
<1> HIDE DEF c
<1>9. c[0] = Nothing /\ \A k \in 1 .. n : c[k] = HashTables!Adding(s, m, i, k, c[k - 1])
  BY <1>1, <1>8
<1>10. \A k \in 0 .. n : c[k] \in X
  <2> DEFINE T == {k \in 0 .. n : c[k] \in X}
  <2>1. 0 \in T
    BY <1>1, <1>9
  <2>2. \A k \in 0 .. n - 1 : k \in T => k + 1 \in T
    <3> TAKE k \in 0 .. n - 1
    <3> HAVE k \in T
    <3>1. k + 1 \in 1 .. n /\ (k + 1) - 1 = k
      BY <1>1
    <3> QED BY <1>1, <1>2, <1>9, <3>1
  <2> HIDE DEF T
  <2>3. \A k \in 0 .. n : k \in T
    BY <1>1, <2>1, <2>2, UpTo
  <2> QED BY <2>3 DEF T
<1>11. c \in [0 .. n -> X]
  <2>1. c = [k \in 0 .. n |-> c[k]]
    BY <1>8
  <2> QED BY <1>10, <2>1
<1> QED BY <1>3, <1>9, <1>11 DEF Nothing, n, X, FillsBy

\* The records of one residue, of those with distinct keys.
DistinctKeys(s) == \A i, j \in DOMAIN s : i # j => KeyOf[s[i]] # KeyOf[s[j]]

LEMMA FilledIs ==
  ASSUME NEW s \in Seq(Record), DistinctKeys(s), NEW m, NEW i
  PROVE  LET d == HashTables!Filled(s, m, i)
         IN  /\ d \in Seq(Record) /\ Ordered(d)
             /\ Records(d) = {r \in Records(s) : HashTables!HashOf(r) % m = i}
<1>1. PICK g \in [0 .. Len(s) -> Seq(Record)] :
        /\ HashTables!Filled(s, m, i) = g[Len(s)] /\ g[0] = <<>>
        /\ \A k \in 1 .. Len(s) : g[k] = HashTables!Adding(s, m, i, k, g[k - 1])
  <2>1. \E g : FillsBy(g, s, m, i)
    BY FilledByPrefix
  <2> QED BY <2>1 DEF FillsBy
<1> DEFINE Before(k) == {s[j] : j \in 1 .. k}
           Wanted(r) == HashTables!HashOf(r) % m = i
           T == {k \in 0 .. Len(s) : Records(g[k]) = {r \in Before(k) : Wanted(r)} /\ Ordered(g[k])}
<1>2. Len(s) \in Nat /\ DOMAIN s = 1 .. Len(s) /\ Records(s) = Before(Len(s)) /\ \A j \in 1 .. Len(s) : s[j] \in Record
  BY ChainFacts
<1>3. 0 \in T
  <2>1. Records(g[0]) = {} /\ Ordered(g[0])
    BY <1>1 DEF Records, Ordered, HashTables!ToSet
  <2> QED BY <1>2, <2>1
<1>4. \A k \in 0 .. Len(s) - 1 : k \in T => k + 1 \in T
  <2> TAKE k \in 0 .. Len(s) - 1
  <2> HAVE k \in T
  <2> DEFINE q == g[k]  r == s[k + 1]
  <2>1. q \in Seq(Record) /\ r \in Record /\ k + 1 \in 1 .. Len(s) /\ (k + 1) - 1 = k
    BY <1>1, <1>2, SMTT(40)
  <2>2. g[k + 1] = IF Wanted(r) THEN HashTables!WithNode(q, r) ELSE q
    <3>1. g[k + 1] = HashTables!Adding(s, m, i, k + 1, g[k])
      BY <1>1, <2>1
    <3> QED BY <3>1 DEF HashTables!Adding
  <2>3. Records(q) = {x \in Before(k) : Wanted(x)} /\ Ordered(q)
    OBVIOUS
  <2>4. Before(k + 1) = Before(k) \cup {r}
    BY <1>2, <2>1
  <2>5. \A x \in Before(k) : KeyOf[x] # KeyOf[r]
    <3> TAKE x \in Before(k)
    <3>1. PICK j \in 1 .. k : x = s[j]
      OBVIOUS
    <3>2. j \in DOMAIN s /\ k + 1 \in DOMAIN s /\ j # k + 1
      BY <1>2, <2>1
    <3> QED BY <3>1, <3>2 DEF DistinctKeys
  <2>6. k + 1 \in 0 .. Len(s)
    BY <2>1
  <2> HIDE DEF q, r, Before, Wanted
  <2>7. CASE ~Wanted(r)
    BY <2>2, <2>3, <2>4, <2>6, <2>7
  <2>8. CASE Wanted(r)
    <3>1. \A x \in Records(q) : KeyOf[x] # KeyOf[r]
      BY <2>3, <2>5
    <3> DEFINE d == HashTables!WithNode(q, r)
    <3>2. Records(d) = Records(q) \cup {r} /\ Ordered(d)
      BY <2>1, <2>3, <3>1, WithNodeIs
    <3> HIDE DEF d
    <3>3. g[k + 1] = d
      BY <2>2, <2>8 DEF d
    <3> QED BY <2>3, <2>4, <2>6, <2>8, <3>2, <3>3
  <2> QED BY <2>7, <2>8
<1>5. Len(s) \in T
  <2> HIDE DEF T
  <2>1. \A k \in 0 .. Len(s) : k \in T
    BY <1>2, <1>3, <1>4, UpTo
  <2> QED BY <1>2, <2>1
<1> QED BY <1>1, <1>2, <1>5

Joining(seqs, k, q) == q \o seqs[k]
JoinsBy(g, seqs) ==
  /\ g \in [0 .. Len(seqs) -> Seq(Record)]
  /\ HashTables!FlattenSeq(seqs) = g[Len(seqs)] /\ g[0] = <<>>
  /\ \A k \in 1 .. Len(seqs) : g[k] = Joining(seqs, k, g[k - 1])

LEMMA JoinedByPrefix ==
  ASSUME NEW seqs \in Seq(Seq(Record)), Len(seqs) # 0
  PROVE  \E g : JoinsBy(g, seqs)
<1> DEFINE n == Len(seqs)  X == Seq(Record)
           rhs(f) == [k \in 1 .. n |-> IF k = 1 THEN seqs[k] ELSE Joining(seqs, k, f[k - 1])]
           step == [k \in 1 .. n |-> [q \in X |-> Joining(seqs, k, q)]]
           c == CHOOSE f : f = rhs(f)
<1>1. n \in Nat \ {0} /\ Nothing \in X
  BY DEF Nothing
<1>2. \A k \in 1 .. n, q \in X : seqs[k] \in X /\ Joining(seqs, k, q) \in X
  BY DEF Joining
<1>3. HashTables!FlattenSeq(seqs) = c[n]
  BY DEF HashTables!FlattenSeq, Joining
<1>a. 1 \in 1 .. n /\ 1 - 1 = 0 /\ Joining(seqs, 1, Nothing) = seqs[1]
  <2>1. 1 \in 1 .. n /\ 1 - 1 = 0
    BY <1>1
  <2> HIDE DEF n
  <2> QED BY <1>2, <2>1, ConcatEmptySeq DEF Joining, Nothing
<1> HIDE DEF n, X
<1>4. step \in [1 .. n -> [X -> X]] /\ \A k \in 1 .. n, q \in X : step[k][q] = Joining(seqs, k, q)
  BY <1>2
<1> HIDE DEF step
<1>5. \E g \in [0 .. n -> X] : g[0] = Nothing /\ \A k \in 1 .. n : g[k] = step[k][g[k - 1]]
  <2>1. n \in Nat
    BY <1>1
  <2>2. Nothing \in X
    BY <1>1
  <2>3. step \in [1 .. n -> [X -> X]]
    BY <1>4
  <2> HIDE DEF rhs, c
  <2>4. \E g : Iterates(g, n, X, Nothing, step)
    BY <2>1, <2>2, <2>3, Recursion
  <2> QED BY <2>4 DEF Iterates
<1>6. PICK g \in [0 .. n -> X] : g[0] = Nothing /\ \A k \in 1 .. n : g[k] = step[k][g[k - 1]]
  BY <1>5
<1>7. [k \in 1 .. n |-> g[k]] = rhs([k \in 1 .. n |-> g[k]])
  <2> DEFINE f == [k \in 1 .. n |-> g[k]]
  <2>1. \A k \in 1 .. n : g[k] = Joining(seqs, k, g[k - 1])
    BY <1>1, <1>4, <1>6
  <2>2. \A k \in 1 .. n : k # 1 => k - 1 \in 1 .. n
    BY <1>1
  <2>3. g[1] = seqs[1]
    BY <1>1, <1>6, <1>a, <2>1
  <2>4. \A k \in 1 .. n : f[k] = IF k = 1 THEN seqs[k] ELSE Joining(seqs, k, f[k - 1])
    BY <2>1, <2>2, <2>3
  <2> QED BY <2>4
<1>8. c = rhs(c)
  <2> HIDE DEF rhs
  <2> QED BY <1>7
<1> HIDE DEF c
<1>9. c[1] = seqs[1] /\ \A k \in 2 .. n : c[k] = Joining(seqs, k, c[k - 1])
  BY <1>1, <1>8
<1>10. \A k \in 1 .. n : c[k] \in X
  <2> DEFINE T == {k \in 0 .. n : k = 0 \/ c[k] \in X}
  <2>1. 0 \in T
    BY <1>1
  <2>2. \A k \in 0 .. n - 1 : k \in T => k + 1 \in T
    <3> TAKE k \in 0 .. n - 1
    <3> HAVE k \in T
    <3>1. k + 1 \in 1 .. n /\ (k + 1) - 1 = k /\ (k # 0 => k + 1 \in 2 .. n)
      BY <1>1
    <3>2. CASE k = 0
      BY <1>1, <1>2, <1>9, <1>a, <3>1, <3>2
    <3>3. CASE k # 0
      BY <1>1, <1>2, <1>9, <3>1, <3>3
    <3> QED BY <3>2, <3>3
  <2> HIDE DEF T
  <2>3. \A k \in 0 .. n : k \in T
    BY <1>1, <2>1, <2>2, UpTo
  <2> QED BY <1>1, <2>3 DEF T
<1> DEFINE h == [k \in 0 .. n |-> IF k = 0 THEN Nothing ELSE c[k]]
<1>11. h \in [0 .. n -> X] /\ h[0] = Nothing /\ h[n] = c[n]
  BY <1>1, <1>10
<1>12. \A k \in 1 .. n : h[k] = Joining(seqs, k, h[k - 1])
  <2> TAKE k \in 1 .. n
  <2>1. CASE k = 1
    <3>1. h[1] = seqs[1] /\ h[0] = Nothing
      BY <1>1, <1>9
    <3> HIDE DEF h
    <3> QED BY <1>1, <1>a, <2>1, <3>1
  <2>2. CASE k # 1
    <3>1. k \in 2 .. n /\ k - 1 \in 0 .. n /\ k - 1 # 0 /\ k \in 0 .. n /\ k # 0
      BY <1>1, <2>2
    <3> QED BY <1>9, <3>1
  <2> QED BY <2>1, <2>2
<1> HIDE DEF h
<1> QED BY <1>3, <1>11, <1>12 DEF Nothing, n, X, JoinsBy

\* All records of the buckets, in one sequence.
LEMMA FlattenIs ==
  ASSUME NEW n \in Nat \ {0}, NEW bs \in [0 .. n - 1 -> Seq(Record)],
         \A i \in 0 .. n - 1 : Ordered(bs[i]),
         \A i, j \in 0 .. n - 1 : i # j =>
           \A r \in Records(bs[i]), s \in Records(bs[j]) : KeyOf[r] # KeyOf[s]
  PROVE  LET f == HashTables!FlattenSeq([i \in 1 .. n |-> bs[i - 1]])
         IN  /\ f \in Seq(Record) /\ DistinctKeys(f)
             /\ Records(f) = UNION {Records(bs[i]) : i \in 0 .. n - 1}
<1> DEFINE seqs == [i \in 1 .. n |-> bs[i - 1]]
<1>1. seqs \in Seq(Seq(Record)) /\ Len(seqs) = n /\ n # 0 /\ \A i \in 1 .. n : seqs[i] = bs[i - 1]
  OBVIOUS
<1> HIDE DEF seqs
<1>2. PICK g : JoinsBy(g, seqs)
  BY <1>1, JoinedByPrefix
<1>3. /\ g \in [0 .. n -> Seq(Record)] /\ HashTables!FlattenSeq(seqs) = g[n] /\ g[0] = <<>>
      /\ \A k \in 1 .. n : g[k] = g[k - 1] \o bs[k - 1]
  BY <1>1, <1>2 DEF JoinsBy, Joining
<1> DEFINE All(k) == UNION {Records(bs[i]) : i \in 0 .. k - 1}
           T == {k \in 0 .. n : Records(g[k]) = All(k) /\ DistinctKeys(g[k])}
<1>4. 0 \in T
  <2>1. Records(g[0]) = {} /\ DistinctKeys(g[0])
    BY <1>3 DEF Records, DistinctKeys, HashTables!ToSet
  <2>2. All(0) = {}
    OBVIOUS
  <2> QED BY <2>1, <2>2
<1>5. \A k \in 0 .. n - 1 : k \in T => k + 1 \in T
  <2> TAKE k \in 0 .. n - 1
  <2> HAVE k \in T
  <2> DEFINE a == g[k]  b == bs[k]  d == a \o b
  <2>1. a \in Seq(Record) /\ b \in Seq(Record) /\ Ordered(b) /\ k + 1 \in 0 .. n
    BY <1>3
  <2>2. g[k + 1] = d
    <3>1. k + 1 \in 1 .. n /\ (k + 1) - 1 = k
      OBVIOUS
    <3> QED BY <1>3, <3>1
  <2>3. Records(a) = All(k) /\ DistinctKeys(a)
    OBVIOUS
  <2>4. All(k + 1) = All(k) \cup Records(b)
    <3>1. 0 .. (k + 1) - 1 = (0 .. k - 1) \cup {k}
      OBVIOUS
    <3> QED BY <3>1
  <2>5. \A r \in All(k), s \in Records(b) : KeyOf[r] # KeyOf[s]
    <3> TAKE r \in All(k), s \in Records(b)
    <3>1. PICK i \in 0 .. k - 1 : r \in Records(bs[i])
      OBVIOUS
    <3>2. i \in 0 .. n - 1 /\ i # k
      BY <3>1
    <3> QED BY <3>1, <3>2
  <2>6. /\ d \in Seq(Record) /\ Len(d) = Len(a) + Len(b)
        /\ \A i \in 1 .. Len(a) + Len(b) : d[i] = IF i <= Len(a) THEN a[i] ELSE b[i - Len(a)]
    BY <2>1, ConcatProperties
  <2> HIDE DEF a, b, d, All
  <2>7. /\ Len(a) \in Nat /\ DOMAIN a = 1 .. Len(a) /\ Records(a) = {a[i] : i \in DOMAIN a}
        /\ Len(b) \in Nat /\ DOMAIN b = 1 .. Len(b) /\ Records(b) = {b[i] : i \in DOMAIN b}
        /\ DOMAIN d = 1 .. Len(a) + Len(b) /\ Records(d) = {d[i] : i \in DOMAIN d}
    BY <2>1, <2>6, ChainFacts
  <2>8. \A i \in DOMAIN d : (i \in DOMAIN a /\ d[i] = a[i])
                        \/ (i \notin DOMAIN a /\ i - Len(a) \in DOMAIN b /\ d[i] = b[i - Len(a)])
    <3> TAKE i \in DOMAIN d
    <3>1. i \in 1 .. Len(a) + Len(b) /\ d[i] = IF i <= Len(a) THEN a[i] ELSE b[i - Len(a)]
      BY <2>6, <2>7
    <3> QED BY <2>7, <3>1
  <2>9. Records(d) = Records(a) \cup Records(b)
    <3>1. ASSUME NEW x \in Records(a) PROVE x \in Records(d)
      <4>1. PICK i \in DOMAIN a : x = a[i]
        BY <2>7
      <4>2. i \in 1 .. Len(a) + Len(b) /\ i <= Len(a)
        BY <2>7, <4>1
      <4>3. i \in DOMAIN d /\ d[i] = a[i]
        BY <2>6, <2>7, <4>2
      <4> QED BY <2>7, <4>1, <4>3
    <3>2. ASSUME NEW x \in Records(b) PROVE x \in Records(d)
      <4>1. PICK i \in DOMAIN b : x = b[i]
        BY <2>7
      <4>2. Len(a) + i \in 1 .. Len(a) + Len(b) /\ ~(Len(a) + i <= Len(a)) /\ (Len(a) + i) - Len(a) = i
        BY <2>7, <4>1
      <4>3. Len(a) + i \in DOMAIN d /\ d[Len(a) + i] = b[i]
        BY <2>6, <2>7, <4>2
      <4> QED BY <2>7, <4>1, <4>3
    <3>3. ASSUME NEW x \in Records(d) PROVE x \in Records(a) \cup Records(b)
      <4>1. PICK i \in DOMAIN d : x = d[i]
        BY <2>7
      <4>2. (i \in DOMAIN a /\ d[i] = a[i]) \/ (i - Len(a) \in DOMAIN b /\ d[i] = b[i - Len(a)])
        BY <2>8
      <4> QED BY <2>7, <4>1, <4>2
    <3> QED BY <3>1, <3>2, <3>3
  <2>10. DistinctKeys(d)
    <3> SUFFICES ASSUME NEW i \in DOMAIN d, NEW j \in DOMAIN d, i # j, KeyOf[d[i]] = KeyOf[d[j]]
                 PROVE  FALSE
      BY DEF DistinctKeys
    <3>1. CASE i \in DOMAIN a /\ j \in DOMAIN a
      BY <2>3, <2>6, <2>7, <3>1 DEF DistinctKeys
    <3>2. CASE i \notin DOMAIN a /\ j \notin DOMAIN a
      <4>1. /\ i - Len(a) \in DOMAIN b /\ j - Len(a) \in DOMAIN b /\ i - Len(a) # j - Len(a)
            /\ d[i] = b[i - Len(a)] /\ d[j] = b[j - Len(a)]
        BY <2>7, <2>8, <3>2
      <4> QED BY <2>1, <4>1, OnePlace
    <3>3. CASE i \in DOMAIN a /\ j \notin DOMAIN a
      <4>1. d[i] \in Records(a) /\ d[j] \in Records(b)
        BY <2>6, <2>7, <2>8, <3>3
      <4> QED BY <2>3, <2>5, <4>1
    <3>4. CASE i \notin DOMAIN a /\ j \in DOMAIN a
      <4>1. d[j] \in Records(a) /\ d[i] \in Records(b)
        BY <2>6, <2>7, <2>8, <3>4
      <4> QED BY <2>3, <2>5, <4>1
    <3> QED BY <3>1, <3>2, <3>3, <3>4
  <2> QED BY <2>1, <2>2, <2>3, <2>4, <2>9, <2>10
<1>6. n \in T
  <2> HIDE DEF T
  <2>1. \A k \in 0 .. n : k \in T
    BY <1>4, <1>5, UpTo
  <2> QED BY <2>1
<1> QED BY <1>3, <1>6 DEF seqs

LEMMA SetToSeqIs ==
  ASSUME NEW S \in SUBSET Record, IsFiniteSet(S), \A r, s \in S : KeyOf[r] = KeyOf[s] => r = s
  PROVE  LET q == HashTables!SetToSeq(S)
         IN  q \in Seq(Record) /\ DistinctKeys(q) /\ Records(q) = S
<1> DEFINE n == Cardinality(S)  q == HashTables!SetToSeq(S)
<1>1. n \in Nat /\ ExistsBijection(1 .. n, S)
  BY FS_CardinalityType
<1>2. q = CHOOSE f \in [1 .. n -> S] : HashTables!IsInjective(f)
  BY SameSizes DEF HashTables!SetToSeq
<1> HIDE DEF n, q
<1>3. \E f \in [1 .. n -> S] : HashTables!IsInjective(f)
  BY <1>1 DEF ExistsBijection, Bijection, Injection, IsInjective, HashTables!IsInjective
<1>4. q \in [1 .. n -> S] /\ HashTables!IsInjective(q)
  BY <1>2, <1>3
<1>5. q \in Injection(1 .. n, S)
  BY <1>4 DEF Injection, IsInjective, HashTables!IsInjective
<1>6. IsFiniteSet(1 .. n) /\ Cardinality(1 .. n) = n
  BY <1>1, FS_Interval
<1>7. q \in Surjection(1 .. n, S)
  BY <1>5, <1>6, FS_Injection DEF n
<1>8. q \in Seq(Record) /\ DOMAIN q = 1 .. n
  BY <1>1, <1>4
<1>9. Records(q) = S
  <2>1. Records(q) = {q[i] : i \in 1 .. n}
    BY <1>8, ChainFacts
  <2>2. \A r \in S : \E i \in 1 .. n : q[i] = r
    BY <1>7 DEF Surjection
  <2> QED BY <1>4, <2>1, <2>2
<1>10. DistinctKeys(q)
  BY <1>4, <1>8 DEF DistinctKeys, HashTables!IsInjective
<1> QED BY <1>8, <1>9, <1>10 DEF q

-----------------------------------------------------------------------------
(* Buckets: a chain in order for each residue                              *)

In(bs) == UNION {Records(bs[i]) : i \in DOMAIN bs}
Size(bs) == Cardinality(DOMAIN bs)
Home(bs, r) == HashTables!HashOf(r) % Size(bs)

BucketsGood(bs) ==
  /\ Size(bs) \in Nat \ {0} /\ bs \in [0 .. Size(bs) - 1 -> Seq(Record)]
  /\ \A i \in DOMAIN bs : Ordered(bs[i]) /\ \A r \in Records(bs[i]) : Home(bs, r) = i

LEMMA SizeIs ==
  ASSUME NEW n \in Nat \ {0}, NEW bs, DOMAIN bs = 0 .. n - 1
  PROVE  Size(bs) = n
<1>1. Cardinality(0 .. n - 1) = n
  BY FS_Interval
<1> QED BY <1>1 DEF Size

LEMMA TableIs == HashTables!Table = In(buckets) /\ HashTables!nBuckets = Size(buckets)
BY SameSizes DEF HashTables!Table, In, Records, HashTables!nBuckets, Size

LEMMA TableThen == HashTables!Table' = In(buckets') /\ HashTables!nBuckets' = Size(buckets')
BY SameSizes DEF HashTables!Table, In, Records, HashTables!nBuckets, Size

LEMMA RecordsFinite ==
  ASSUME NEW c \in Seq(Record)
  PROVE  IsFiniteSet(Records(c))
<1>1. Len(c) \in Nat /\ DOMAIN c = 1 .. Len(c) /\ Records(c) = {c[i] : i \in DOMAIN c}
  BY ChainFacts
<1> DEFINE f == [i \in 1 .. Len(c) |-> c[i]]
<1>2. f \in Surjection(1 .. Len(c), Records(c))
  BY <1>1 DEF Surjection
<1>3. IsFiniteSet(1 .. Len(c))
  BY <1>1, FS_Interval
<1> QED BY <1>2, <1>3, FS_Surjection

LEMMA BucketFacts ==
  ASSUME NEW bs, BucketsGood(bs)
  PROVE  /\ DOMAIN bs = 0 .. Size(bs) - 1 /\ In(bs) \subseteq Record /\ IsFiniteSet(In(bs))
         /\ \A r \in Record : Home(bs, r) \in DOMAIN bs /\ bs[Home(bs, r)] \in Seq(Record)
                             /\ Ordered(bs[Home(bs, r)])
         /\ \A r \in In(bs) : r \in Records(bs[Home(bs, r)])
         /\ \A i \in DOMAIN bs : Records(bs[i]) \subseteq In(bs)
         /\ \A r, s \in In(bs) : KeyOf[r] = KeyOf[s] => r = s
<1>1. Size(bs) \in Nat \ {0} /\ DOMAIN bs = 0 .. Size(bs) - 1 /\ \A i \in DOMAIN bs : bs[i] \in Seq(Record)
  BY DEF BucketsGood
<1>2. \A r \in Record : Home(bs, r) \in DOMAIN bs
  BY <1>1, HashConstants DEF Home
<1>3. \A i \in DOMAIN bs : Records(bs[i]) \subseteq In(bs) /\ Records(bs[i]) \subseteq Record
  BY <1>1, ChainFacts DEF In
<1>4. \A r \in In(bs) : r \in Record /\ r \in Records(bs[Home(bs, r)])
  BY <1>3 DEF In, BucketsGood
<1>5. IsFiniteSet(In(bs))
  <2> DEFINE R == {Records(bs[i]) : i \in DOMAIN bs}  f == [i \in DOMAIN bs |-> Records(bs[i])]
  <2>1. f \in Surjection(DOMAIN bs, R)
    BY DEF Surjection
  <2>2. IsFiniteSet(DOMAIN bs)
    BY <1>1, FS_Interval
  <2>3. IsFiniteSet(R)
    <3> HIDE DEF f, R
    <3> QED BY <2>1, <2>2, FS_Surjection
  <2>4. \A T \in R : IsFiniteSet(T)
    BY <1>1, RecordsFinite
  <2>5. In(bs) = UNION R
    BY DEF In
  <2> HIDE DEF R
  <2> QED BY <2>3, <2>4, <2>5, FS_UNION
<1>6. ASSUME NEW r \in In(bs), NEW s \in In(bs), KeyOf[r] = KeyOf[s] PROVE r = s
  <2>1. Home(bs, r) = Home(bs, s)
    BY <1>6 DEF Home, HashTables!HashOf
  <2> DEFINE c == bs[Home(bs, r)]
  <2>2. r \in Records(c) /\ s \in Records(c) /\ c \in Seq(Record) /\ Ordered(c)
    BY <1>1, <1>2, <1>4, <2>1 DEF BucketsGood
  <2> HIDE DEF c
  <2>3. PICK i \in DOMAIN c, j \in DOMAIN c : r = c[i] /\ s = c[j]
    BY <2>2, ChainFacts
  <2> QED BY <1>6, <2>2, <2>3, OnePlace
<1> QED BY <1>1, <1>2, <1>3, <1>4, <1>5, <1>6 DEF BucketsGood

LEMMA DistributeIs ==
  ASSUME NEW s \in Seq(Record), DistinctKeys(s), NEW n \in Nat \ {0}
  PROVE  LET bs == HashTables!Distribute(s, n)
         IN  BucketsGood(bs) /\ In(bs) = Records(s)
<1> DEFINE bs == HashTables!Distribute(s, n)
<1>1. bs = [i \in 0 .. n - 1 |-> HashTables!Filled(s, n, i)]
  BY DEF HashTables!Distribute
<1>2. \A i \in 0 .. n - 1 :
        /\ bs[i] \in Seq(Record) /\ Ordered(bs[i])
        /\ Records(bs[i]) = {r \in Records(s) : HashTables!HashOf(r) % n = i}
  <2> TAKE i \in 0 .. n - 1
  <2>1. bs[i] = HashTables!Filled(s, n, i)
    BY <1>1
  <2> HIDE DEF bs
  <2> QED BY <2>1, FilledIs
<1> HIDE DEF bs
<1>3. DOMAIN bs = 0 .. n - 1 /\ Size(bs) = n
  BY <1>1, SizeIs
<1>4. bs \in [0 .. n - 1 -> Seq(Record)]
  <2>1. bs = [i \in 0 .. n - 1 |-> bs[i]]
    BY <1>1
  <2> QED BY <1>2, <2>1
<1>5. BucketsGood(bs)
  BY <1>2, <1>3, <1>4 DEF BucketsGood, Home
<1>6. \A r \in Records(s) : HashTables!HashOf(r) % n \in 0 .. n - 1
  BY HashConstants, ChainFacts
<1>7. In(bs) = Records(s)
  BY <1>2, <1>3, <1>6 DEF In
<1> QED BY <1>5, <1>7 DEF bs

LEMMA ThinnedIs ==
  ASSUME NEW bs, BucketsGood(bs), NEW gone
  PROVE  LET ts == [i \in DOMAIN bs |-> HashTables!Without(bs[i], gone)]
         IN  BucketsGood(ts) /\ In(ts) = In(bs) \ gone /\ Size(ts) = Size(bs)
<1> DEFINE ts == [i \in DOMAIN bs |-> HashTables!Without(bs[i], gone)]
<1>1. \A i \in DOMAIN bs :
        ts[i] \in Seq(Record) /\ Ordered(ts[i]) /\ Records(ts[i]) = Records(bs[i]) \ gone
  <2> TAKE i \in DOMAIN bs
  <2>1. ts[i] = HashTables!Without(bs[i], gone) /\ bs[i] \in Seq(Record) /\ Ordered(bs[i])
    BY DEF BucketsGood
  <2> HIDE DEF ts
  <2> QED BY <2>1, WithoutIs
<1>2. DOMAIN ts = DOMAIN bs /\ Size(ts) = Size(bs)
  BY DEF Size
<1>3. ts = [i \in DOMAIN bs |-> ts[i]]
  OBVIOUS
<1> HIDE DEF ts
<1>4. BucketsGood(ts)
  BY <1>1, <1>2, <1>3 DEF BucketsGood, Home
<1>5. In(ts) = In(bs) \ gone
  BY <1>1, <1>2 DEF In
<1> QED BY <1>2, <1>4, <1>5 DEF ts

\* What a thread that is about to link knows of its chain: the pointer that it
\* holds is behind every lower hash and in front of every record of its key.
SearchKnows(c, p, q, r) ==
  /\ p \in Records(c) \cup {NoRecord} /\ q \in Records(c) \cup {NoRecord}
  /\ p # NoRecord => HashTables!HashOf(p) <= HashTables!HashOf(r)
  /\ q # NoRecord => HashTables!HashOf(q) > HashTables!HashOf(r)
  /\ \A s \in Records(c) : KeyOf[s] = KeyOf[r] => Follows(c, p, s)

\* A record was put into its chain.
Grown(bs, ds, r) ==
  /\ In(ds) = In(bs) \cup {r} /\ Size(ds) = Size(bs) /\ DOMAIN ds = DOMAIN bs
  /\ \A s \in In(bs) : KeyOf[s] # KeyOf[r]
  /\ \A i \in DOMAIN bs : Records(bs[i]) \subseteq Records(ds[i])
  /\ \A i \in DOMAIN bs : \A x, y \in Record \cup {NoRecord} :
       Follows(bs[i], x, y) => Follows(ds[i], x, y)
  /\ \A i \in DOMAIN bs : i # Home(bs, r) => ds[i] = bs[i]
  /\ Records(ds[Home(bs, r)]) = Records(bs[Home(bs, r)]) \cup {r}
  /\ \A s \in Records(bs[Home(bs, r)]) :
       HashTables!HashOf(s) <= HashTables!HashOf(r) => Follows(ds[Home(bs, r)], s, r)

\* A record put behind p, where nothing of its hash or its key follows.
LEMMA PlacedIs ==
  ASSUME NEW bs, BucketsGood(bs), NEW r \in Record, NEW p, NEW q,
         SearchKnows(bs[Home(bs, r)], p, q, r), q = HashTables!Behind(bs[Home(bs, r)], p),
         NEW ds, ds = [bs EXCEPT ![Home(bs, r)] = HashTables!InsertAt(@, Spot(@, p), r)]
  PROVE  BucketsGood(ds) /\ Grown(bs, ds, r)
<1> DEFINE c == bs[Home(bs, r)]
<1>0. /\ p \in Records(c) \cup {NoRecord} /\ (p # NoRecord => HashTables!HashOf(p) <= HashTables!HashOf(r))
      /\ (q # NoRecord => HashTables!HashOf(q) > HashTables!HashOf(r)) /\ q = HashTables!Behind(c, p)
      /\ \A s \in Records(c) : KeyOf[s] = KeyOf[r] => Follows(c, p, s)
      /\ ds = [bs EXCEPT ![Home(bs, r)] = HashTables!InsertAt(c, Spot(c, p), r)]
      /\ c = bs[Home(bs, r)]
  BY DEF SearchKnows
<1> HIDE DEF c
<1> DEFINE h == Home(bs, r)  k == Spot(c, p)  d == HashTables!InsertAt(c, k, r)
<1>1. /\ h \in DOMAIN bs /\ c \in Seq(Record) /\ Ordered(c) /\ HashTables!HashOf(r) \in Nat
      /\ In(bs) \subseteq Record /\ Len(c) \in Nat /\ DOMAIN c = 1 .. Len(c)
      /\ Records(c) = {c[j] : j \in DOMAIN c} /\ \A j \in DOMAIN c : c[j] \in Record /\ HashAt(c, j) \in Nat
  BY <1>0, BucketFacts, ChainFacts, HashConstants
<1>2. /\ k \in 1 .. Len(c) + 1 /\ \A j \in DOMAIN c : j >= k <=> Follows(c, p, c[j])
      /\ p # NoRecord => \A j \in DOMAIN c : j < k => HashAt(c, j) <= HashTables!HashOf(p)
  BY <1>0, <1>1, SpotIs
<1>3. ASSUME NEW j \in DOMAIN c, j >= k PROVE HashAt(c, j) > HashTables!HashOf(r)
  <2>1. Follows(c, p, c[j]) /\ c[j] \in Record
    BY <1>1, <1>2, <1>3
  <2>2. q \in Records(c) /\ (c[j] = q \/ Follows(c, q, c[j])) /\ q # NoRecord
    <3>1. \/ q = NoRecord /\ \A s \in Record : ~Follows(c, p, s)
          \/ /\ q \in Records(c) /\ Follows(c, p, q)
             /\ \A s \in Record : Follows(c, p, s) => s = q \/ Follows(c, q, s)
      BY <1>0, <1>1, BehindIs
    <3> QED BY <1>1, <2>1, <3>1, HashConstants
  <2>3. CASE c[j] = q
    BY <1>0, <2>2, <2>3 DEF HashAt
  <2>4. CASE Follows(c, q, c[j])
    <3>1. PICK x \in DOMAIN c : c[x] = c[j] /\ (q = NoRecord \/ \E i \in DOMAIN c : i < x /\ c[i] = q)
      BY <2>4, Zenon DEF Follows
    <3>2. PICK i \in DOMAIN c : i < x /\ c[i] = q
      BY <2>2, <3>1
    <3>3. HashAt(c, i) <= HashAt(c, x)
      BY <1>1, <3>2 DEF Ordered
    <3>4. HashAt(c, x) = HashAt(c, j) /\ HashAt(c, i) = HashTables!HashOf(q)
      BY <3>1, <3>2 DEF HashAt
    <3>5. HashAt(c, i) \in Nat /\ HashAt(c, j) \in Nat
      BY <1>1
    <3> QED BY <1>0, <1>1, <2>2, <3>3, <3>4, <3>5
  <2> QED BY <2>2, <2>3, <2>4
<1>4. ASSUME NEW j \in DOMAIN c, j < k PROVE HashAt(c, j) <= HashTables!HashOf(r)
  <2>1. p # NoRecord
    BY <1>0, <1>1, <1>4 DEF Spot
  <2>2. p \in Record
    BY <1>0, <1>1, <2>1
  <2> QED BY <1>0, <1>1, <1>2, <1>4, <2>1, <2>2, HashConstants
<1>5. \A j \in DOMAIN c : j < k <=> HashAt(c, j) <= HashTables!HashOf(r)
  BY <1>1, <1>2, <1>3, <1>4
<1>6. ASSUME NEW s \in Records(c), KeyOf[s] = KeyOf[r] PROVE FALSE
  <2>1. PICK j \in DOMAIN c : c[j] = s
    BY <1>1
  <2>2. j >= k
    BY <1>0, <1>2, <1>6, <2>1
  <2>3. HashAt(c, j) = HashTables!HashOf(r)
    BY <1>6, <2>1 DEF HashAt, HashTables!HashOf
  <2> QED BY <1>1, <1>3, <2>2, <2>3
<1>7. /\ d \in Seq(Record) /\ Records(d) = Records(c) \cup {r} /\ Ordered(d)
      /\ \A x, y \in Record \cup {NoRecord} : Follows(c, x, y) => Follows(d, x, y)
      /\ \A s \in Records(c) : HashTables!HashOf(s) <= HashTables!HashOf(r) => Follows(d, s, r)
  <2>1. \A s \in Records(c) : KeyOf[s] # KeyOf[r]
    BY <1>6
  <2> HIDE DEF k
  <2> QED BY <1>1, <1>2, <1>5, <2>1, RecordPlaced
<1> HIDE DEF k, d
<1>8. /\ DOMAIN ds = DOMAIN bs /\ Size(ds) = Size(bs) /\ ds[h] = d
      /\ \A i \in DOMAIN bs : i # h => ds[i] = bs[i]
  BY <1>0, <1>1 DEF Size, d, k
<1>9. ds \in [DOMAIN bs -> Seq(Record)]
  BY <1>0, <1>1, <1>7 DEF BucketsGood, d, k
<1>10. BucketsGood(ds)
  <2>1. \A x \in Record : Home(ds, x) = Home(bs, x)
    BY <1>8 DEF Home
  <2>2. \A x \in Records(c) : x \in Record /\ Home(bs, x) = h
    BY <1>0, <1>1 DEF BucketsGood
  <2>3. \A i \in DOMAIN ds : Ordered(ds[i]) /\ \A x \in Records(ds[i]) : x \in Record /\ Home(bs, x) = i
    <3> TAKE i \in DOMAIN ds
    <3>1. CASE i = h
      BY <1>7, <1>8, <2>2, <3>1
    <3>2. CASE i # h
      BY <1>8, <3>2, ChainFacts DEF BucketsGood
    <3> QED BY <3>1, <3>2
  <2>4. Size(bs) \in Nat \ {0} /\ DOMAIN bs = 0 .. Size(bs) - 1
    BY BucketFacts DEF BucketsGood
  <2>5. Size(ds) \in Nat \ {0} /\ ds \in [0 .. Size(ds) - 1 -> Seq(Record)]
    BY <1>8, <1>9, <2>4
  <2>6. \A i \in DOMAIN ds : Ordered(ds[i]) /\ \A x \in Records(ds[i]) : Home(ds, x) = i
    BY <2>1, <2>3
  <2> QED BY <2>5, <2>6 DEF BucketsGood
<1>11. In(ds) = In(bs) \cup {r}
  BY <1>0, <1>1, <1>7, <1>8 DEF In
<1>12. \A s \in In(bs) : KeyOf[s] # KeyOf[r]
  <2> TAKE s \in In(bs)
  <2>1. s \in Records(bs[Home(bs, s)])
    BY BucketFacts
  <2>2. KeyOf[s] = KeyOf[r] => Home(bs, s) = h
    BY DEF Home, HashTables!HashOf
  <2> QED BY <1>0, <1>6, <2>1, <2>2
<1>13. Grown(bs, ds, r)
  BY <1>0, <1>1, <1>7, <1>8, <1>11, <1>12 DEF Grown
<1> QED BY <1>10, <1>13

-----------------------------------------------------------------------------
(* The inductive invariant of HASH_TABLE                                   *)

SharedPcs == {"Insert", "link", "reference", "count", "FindKey", "take", "Apply", "unlockShared"}
ExclusiveOps == {"DeleteKey", "DeleteIf", "Clear", "Rehash"}
ExclusivePcs == ExclusiveOps \cup {"unlockExclusive"}
HashPcs == SharedPcs \cup ExclusivePcs \cup {"idle", "lockShared", "lockExclusive", "checkSize"}

\* Where a thread is goes with its operation.
CallTypes ==
  /\ pc \in [Thread -> HashPcs]
  /\ op \in [Thread -> HashTables!Shared \cup ExclusiveOps \cup {"NONE"}]
  /\ rec \in [Thread -> Record \cup {CHOOSE r \in Record : TRUE}]
  /\ result \in [Thread -> {"NONE", "ALLOC_FAIL", "KEY_EXISTS", "NO_SUCH_KEY", "SUCCESS"}]
  /\ prev \in [Thread -> Record \cup {NoRecord} \cup Nat]
  /\ next \in [Thread -> Record \cup {NoRecord}] /\ toApply \in [Thread -> SUBSET Record]

CallPlaces ==
  \A t \in Thread :
    /\ pc[t] # "idle" => rec[t] \in Record
    /\ pc[t] \in {"Insert", "link", "reference", "count", "checkSize"} => op[t] = "Insert"
    /\ pc[t] \in {"FindKey", "take"} => op[t] = "FindKey"
    /\ pc[t] \in ExclusiveOps \cup {"Apply"} => op[t] = pc[t]
    /\ pc[t] \in {"lockShared", "unlockShared"} => op[t] \in HashTables!Shared
    /\ pc[t] \in {"lockExclusive", "unlockExclusive"} => op[t] \in ExclusiveOps

CallInv == CallTypes /\ CallPlaces

\* The lock is held by those who are inside.
HashLockInv ==
  /\ sharers = {t \in Thread : pc[t] \in SharedPcs}
  /\ writer = {t \in Thread : pc[t] \in ExclusivePcs}
  /\ writer # {} => sharers = {} /\ \A t, u \in writer : t = u

\* An insertion owns its record, which is not in the table before its node is
\* linked; nobody takes that node, or one that was found, out of the table.
OwnInv ==
  \A t \in Thread :
    /\ pc[t] # "idle" /\ op[t] = "Insert" =>
         \A u \in Thread : pc[u] # "idle" /\ op[u] = "Insert" /\ rec[u] = rec[t] => u = t
    /\ op[t] = "Insert" /\ pc[t] \in {"lockShared", "Insert", "link"} => rec[t] \notin In(buckets)
    /\ pc[t] \in {"reference", "count", "take"} => rec[t] \in In(buckets)

SearchInv ==
  \A t \in Thread : pc[t] = "link" =>
    SearchKnows(buckets[Home(buckets, rec[t])], prev[t], next[t], rec[t])

\* Whatever Apply has still to meet is ahead of it.
Ahead(bs, i, q, r) ==
  \/ Home(bs, r) > i
  \/ Home(bs, r) = i /\ q # NoRecord /\ (r = q \/ Follows(bs[i], q, r))

ApplyInv ==
  \A t \in Thread :
    /\ pc[t] = "Apply" =>
         /\ prev[t] \in DOMAIN buckets
         /\ next[t] \in Records(buckets[prev[t]]) \cup {NoRecord}
         /\ \A r \in toApply[t] : r \in In(buckets) /\ Ahead(buckets, prev[t], next[t], r)
    /\ pc[t] = "unlockShared" /\ op[t] = "Apply" => toApply[t] = {}

\* One reference for the table, which the insertion that linked the node takes.
Referring(r) == \E t \in Thread : pc[t] = "reference" /\ rec[t] = r
ReferenceInv ==
  /\ held \in [Record -> Nat] /\ references \in [Record -> Int]
  /\ \A r \in Record :
       references[r] = held[r] + (IF r \in In(buckets) /\ ~Referring(r) THEN 1 ELSE 0)

\* Those that have linked a node and not yet counted it.
Counting == {t \in Thread : pc[t] \in {"reference", "count"}}
ItemsInv == nItems = Cardinality(In(buckets)) - Cardinality(Counting)

HashInv ==
  /\ BucketsGood(buckets) /\ CallInv /\ HashLockInv /\ OwnInv
  /\ SearchInv /\ ApplyInv /\ ReferenceInv /\ ItemsInv

-----------------------------------------------------------------------------
(* What the searches find                                                  *)

LEMMA FoundIs ==
  ASSUME BucketsGood(buckets), NEW r \in Record
  PROVE  /\ HashTables!Chain(r) = buckets[Home(buckets, r)]
         /\ HashTables!Found(r) = {s \in In(buckets) : KeyOf[s] = KeyOf[r]}
<1> DEFINE c == HashTables!Chain(r)  h == HashTables!HashOf(r)  k == HashTables!Passed(c, h)
<1>1. c = buckets[Home(buckets, r)]
  BY TableIs DEF HashTables!Chain, Home
<1>2. c \in Seq(Record) /\ Ordered(c) /\ h \in Nat /\ Len(c) \in Nat /\ DOMAIN c = 1 .. Len(c)
      /\ Records(c) = {c[i] : i \in DOMAIN c} /\ Records(c) \subseteq In(buckets) /\ \A i \in DOMAIN c : c[i] \in Record
  BY <1>1, BucketFacts, HashConstants, ChainFacts
<1> HIDE DEF c, h
<1>3. k \in 0 .. Len(c) /\ \A i \in DOMAIN c : i <= k <=> HashAt(c, i) <= h
  BY <1>2, PassedIs
<1> HIDE DEF k
<1>4. HashTables!Found(r) = {s \in Records(SubSeq(c, 1, k)) : KeyOf[s] = KeyOf[r]}
  BY DEF HashTables!Found, Records, c, h, k
<1> DEFINE a == SubSeq(c, 1, k)
<1>5. a \in Seq(Record) /\ Len(a) = k /\ \A i \in 1 .. k : a[i] = c[i]
  BY <1>2, <1>3, SubSeqProperties
<1> HIDE DEF a
<1>6. Records(a) = {c[i] : i \in 1 .. k}
  BY <1>3, <1>5, ChainFacts
<1>7. ASSUME NEW s \in In(buckets), KeyOf[s] = KeyOf[r] PROVE s \in Records(a)
  <2>1. HashTables!HashOf(s) = h /\ Home(buckets, s) = Home(buckets, r)
    BY <1>7 DEF h, Home, HashTables!HashOf
  <2>2. s \in Records(c)
    BY <1>1, <2>1, BucketFacts
  <2>3. PICK i \in DOMAIN c : c[i] = s
    BY <1>2, <2>2
  <2>4. i <= k
    BY <1>2, <1>3, <2>1, <2>3 DEF HashAt
  <2> QED BY <1>2, <1>3, <1>6, <2>3, <2>4
<1>8. Records(a) \subseteq In(buckets)
  BY <1>2, <1>3, <1>6
<1>9. HashTables!Found(r) = {s \in In(buckets) : KeyOf[s] = KeyOf[r]}
  BY <1>4, <1>7, <1>8 DEF a
<1> QED BY <1>1, <1>9 DEF c

\* Where a search for an insertion stops.
LEMMA SearchEnds ==
  ASSUME BucketsGood(buckets), NEW r \in Record, HashTables!Found(r) = {},
         NEW k, k = HashTables!Passed(HashTables!Chain(r), HashTables!HashOf(r)),
         NEW p, p = IF k = 0 THEN NoRecord ELSE HashTables!Chain(r)[k]
  PROVE  SearchKnows(buckets[Home(buckets, r)], p, HashTables!Behind(HashTables!Chain(r), p), r)
<1> DEFINE c == buckets[Home(buckets, r)]  h == HashTables!HashOf(r)  q == HashTables!Behind(c, p)
<1>1. HashTables!Chain(r) = c /\ \A s \in In(buckets) : KeyOf[s] # KeyOf[r]
  BY FoundIs
<1>2. /\ c \in Seq(Record) /\ Ordered(c) /\ h \in Nat /\ Len(c) \in Nat /\ DOMAIN c = 1 .. Len(c)
      /\ Records(c) = {c[i] : i \in DOMAIN c} /\ Records(c) \subseteq In(buckets)
      /\ NoRecord \notin Records(c) /\ \A i \in DOMAIN c : c[i] \in Record /\ HashAt(c, i) \in Nat
  BY BucketFacts, HashConstants, ChainFacts
<1>3. k \in 0 .. Len(c) /\ \A i \in DOMAIN c : i <= k <=> HashAt(c, i) <= h
  <2> HIDE DEF c, h
  <2>1. k = HashTables!Passed(c, h)
    BY <1>1 DEF h
  <2> QED BY <1>2, <2>1, PassedIs
<1> HIDE DEF c
<1>4. p \in Records(c) \cup {NoRecord} /\ (p # NoRecord => HashTables!HashOf(p) <= h)
  BY <1>1, <1>2, <1>3 DEF HashAt
<1>5. \A j \in DOMAIN c : Follows(c, p, c[j]) => HashAt(c, j) > h
  <2> TAKE j \in DOMAIN c
  <2> HAVE Follows(c, p, c[j])
  <2>1. j >= Spot(c, p)
    BY <1>2, <1>4, SpotIs
  <2>2. Spot(c, p) = k + 1
    <3>1. CASE k = 0
      BY <3>1 DEF Spot
    <3>2. CASE k # 0
      <4>1. k \in DOMAIN c /\ c[k] = p /\ p # NoRecord
        BY <1>1, <1>2, <1>3, <3>2
      <4>2. \A x \in DOMAIN c : c[x] = p => x = k
        BY <1>2, <4>1, OnePlace
      <4>3. k = CHOOSE x \in DOMAIN c : c[x] = p
        BY <4>1, <4>2
      <4>4. Spot(c, p) = 1 + k
        BY <4>1, <4>3, Zenon DEF Spot
      <4> QED BY <1>3, <4>4
    <3> QED BY <3>1, <3>2
  <2> QED BY <1>2, <1>3, <2>1, <2>2
<1>6. q \in Records(c) \cup {NoRecord} /\ (q # NoRecord => HashTables!HashOf(q) > h)
  <2>1. CASE q = NoRecord
    BY <2>1
  <2>2. CASE q # NoRecord
    <3>1. q \in Records(c) /\ Follows(c, p, q)
      BY <1>2, <1>4, <2>2, BehindIs
    <3>2. PICK j \in DOMAIN c : c[j] = q
      BY <1>2, <3>1
    <3> HIDE DEF q
    <3> QED BY <1>5, <3>1, <3>2 DEF HashAt
  <2> QED BY <2>1, <2>2
<1>7. \A s \in Records(c) : KeyOf[s] # KeyOf[r]
  BY <1>1, <1>2
<1> QED BY <1>1, <1>4, <1>6, <1>7 DEF SearchKnows, c

\* Apply enters a bucket, and leaves it or goes on in it.
LEMMA ApplyGoesOn ==
  ASSUME BucketsGood(buckets), NEW i \in DOMAIN buckets,
         NEW p \in Records(buckets[i]) \cup {NoRecord}, NEW q, q = HashTables!Behind(buckets[i], p)
  PROVE  /\ q \in Records(buckets[i]) \cup {NoRecord} /\ q \in Record \cup {NoRecord}
         /\ \A r \in In(buckets) :
              (IF p = NoRecord THEN Home(buckets, r) >= i ELSE r # p /\ Ahead(buckets, i, p, r))
              => Ahead(buckets, i, q, r)
<1> DEFINE c == buckets[i]
<1>1. /\ c \in Seq(Record) /\ Ordered(c) /\ Records(c) \subseteq Record /\ NoRecord \notin Record
      /\ Records(c) = {c[j] : j \in DOMAIN c}
  BY BucketFacts, HashConstants, ChainFacts DEF BucketsGood
<1>2. \/ q = NoRecord /\ \A s \in Record : ~Follows(c, p, s)
      \/ /\ q \in Records(c) /\ Follows(c, p, q)
         /\ \A s \in Record : Follows(c, p, s) => s = q \/ Follows(c, q, s)
  <2> HIDE DEF c
  <2>1. q = HashTables!Behind(c, p) /\ p \in Records(c) \cup {NoRecord}
    BY DEF c
  <2> QED BY <1>1, <2>1, BehindIs
<1>3. ASSUME NEW r \in In(buckets),
             IF p = NoRecord THEN Home(buckets, r) >= i ELSE r # p /\ Ahead(buckets, i, p, r)
      PROVE  Ahead(buckets, i, q, r)
  <2>1. /\ r \in Record /\ r \in Records(buckets[Home(buckets, r)])
        /\ Home(buckets, r) \in Int /\ i \in Int
    <3>1. /\ In(buckets) \subseteq Record /\ DOMAIN buckets = 0 .. Size(buckets) - 1
          /\ \A x \in Record : Home(buckets, x) \in DOMAIN buckets
          /\ \A x \in In(buckets) : x \in Records(buckets[Home(buckets, x)])
      BY BucketFacts
    <3>2. Size(buckets) \in Nat
      BY DEF BucketsGood
    <3> QED BY <3>1, <3>2
  <2>2. CASE Home(buckets, r) = i
    <3>1. Follows(c, p, r)
      <4>1. CASE p = NoRecord
        <5>1. PICK j \in DOMAIN c : c[j] = r
          BY <1>1, <2>1, <2>2
        <5> QED BY <4>1, <5>1 DEF Follows
      <4>2. CASE p # NoRecord
        BY <1>3, <2>1, <2>2, <4>2 DEF Ahead
      <4> QED BY <4>1, <4>2
    <3> QED BY <1>1, <1>2, <2>1, <2>2, <3>1 DEF Ahead
  <2>3. CASE Home(buckets, r) # i
    BY <1>3, <2>1, <2>3 DEF Ahead
  <2> QED BY <2>2, <2>3
<1> QED BY <1>1, <1>2, <1>3

-----------------------------------------------------------------------------
(* The steps of HASH_TABLE                                                 *)

HashAction(t) == (\E o \in OpNames, r \in Record : HashTables!Invoke(t, o, r)) \/ HashTables!Step(t)

\* What a thread has does not change when another one acts.
Others(t) ==
  \A u \in Thread \ {t} :
    /\ pc'[u] = pc[u] /\ op'[u] = op[u] /\ rec'[u] = rec[u] /\ result'[u] = result[u]
    /\ prev'[u] = prev[u] /\ next'[u] = next[u] /\ toApply'[u] = toApply[u]

LEMMA CallStep ==
  ASSUME HashInv, NEW t \in Thread, HashAction(t)
  PROVE  CallInv' /\ Others(t)
<1>1. CallTypes /\ CallPlaces /\ BucketsGood(buckets) /\ HashTables!Table = In(buckets)
  BY TableIs DEF HashInv, CallInv
<1>2. In(buckets) \subseteq Record /\ 0 \in DOMAIN buckets
  BY <1>1, BucketFacts, SMTT(40) DEF BucketsGood
<1>3. CASE \E o \in OpNames, r \in Record : HashTables!Invoke(t, o, r)
  <2>1. PICK o \in OpNames, r \in Record : HashTables!Invoke(t, o, r)
    BY <1>3
  <2>2. o \in {"Insert", "FindKey", "Apply", "DeleteKey", "DeleteIf", "Clear"}
    BY HashConstants
  <2> QED BY <1>1, <2>1, <2>2 DEF CallInv, CallTypes, CallPlaces, Others, HashPcs, SharedPcs, ExclusivePcs,
       ExclusiveOps, HashTables!Shared, HashTables!Invoke, HashTables!Goto, HashTables!Return, HashTables!locals
<1>4. CASE HashTables!NoNode(t)
  BY <1>1, <1>2, <1>4 DEF CallInv, CallTypes, CallPlaces, Others, HashPcs, SharedPcs, ExclusivePcs,
     ExclusiveOps, HashTables!Shared, HashTables!NoNode, HashTables!Goto, HashTables!Return, HashTables!locals,
     HashTables!call
<1>5. CASE HashTables!LockShared(t)
  <2>1. HashTables!Behind(buckets[0], NoRecord) \in Record \cup {NoRecord}
    BY <1>1, <1>2, ApplyGoesOn
  <2> QED BY <1>1, <1>2, <1>5, <2>1 DEF CallInv, CallTypes, CallPlaces, Others, HashPcs, SharedPcs, ExclusivePcs,
       ExclusiveOps, HashTables!Shared, HashTables!LockShared, HashTables!Goto, HashTables!Return, HashTables!locals,
       HashTables!call
<1>6. CASE HashTables!UnlockShared(t)
  BY <1>1, <1>2, <1>6 DEF CallInv, CallTypes, CallPlaces, Others, HashPcs, SharedPcs, ExclusivePcs,
     ExclusiveOps, HashTables!Shared, HashTables!UnlockShared, HashTables!Goto, HashTables!Return, HashTables!locals,
     HashTables!call
<1>7. CASE HashTables!LockExclusive(t)
  BY <1>1, <1>2, <1>7 DEF CallInv, CallTypes, CallPlaces, Others, HashPcs, SharedPcs, ExclusivePcs,
     ExclusiveOps, HashTables!Shared, HashTables!LockExclusive, HashTables!Goto, HashTables!Return, HashTables!locals,
     HashTables!call
<1>8. CASE HashTables!UnlockExclusive(t)
  BY <1>1, <1>2, <1>8 DEF CallInv, CallTypes, CallPlaces, Others, HashPcs, SharedPcs, ExclusivePcs,
     ExclusiveOps, HashTables!Shared, HashTables!UnlockExclusive, HashTables!Goto, HashTables!Return, HashTables!locals,
     HashTables!call
<1>9. CASE HashTables!SearchToInsert(t)
  <2> DEFINE r == rec[t]  k == HashTables!Passed(HashTables!Chain(r), HashTables!HashOf(r))
             p == IF k = 0 THEN NoRecord ELSE HashTables!Chain(r)[k]
             q == HashTables!Behind(HashTables!Chain(r), p)
  <2>1. HashTables!Found(r) = {} => p \in Record \cup {NoRecord} /\ q \in Record \cup {NoRecord}
    <3> SUFFICES ASSUME HashTables!Found(r) = {} PROVE p \in Record \cup {NoRecord} /\ q \in Record \cup {NoRecord}
      OBVIOUS
    <3>1. r \in Record
      BY <1>1, <1>9 DEF CallPlaces, HashTables!SearchToInsert, HashTables!Goto
    <3>2. SearchKnows(buckets[Home(buckets, r)], p, q, r)
      BY <1>1, <3>1, SearchEnds
    <3> QED BY <1>1, <3>1, <3>2, BucketFacts DEF SearchKnows
  <2> HIDE DEF q
  <2>2. /\ HashTables!SearchToInsert(t) <=>
             /\ \/ /\ HashTables!Goto(t, "Insert", "unlockShared")
                   /\ HashTables!Found(r) # {} /\ HashTables!Return(t, "KEY_EXISTS")
                   /\ UNCHANGED HashTables!locals
                \/ /\ HashTables!Goto(t, "Insert", "link") /\ HashTables!Found(r) = {}
                   /\ prev' = [prev EXCEPT ![t] = p] /\ next' = [next EXCEPT ![t] = q]
                   /\ UNCHANGED <<result, toApply>>
             /\ UNCHANGED <<buckets, nItems, HashTables!lock, references, held, op, rec, calls>>
    BY DEF HashTables!SearchToInsert, q
  <2> HIDE DEF p
  <2> QED BY <1>1, <1>2, <1>9, <2>1, <2>2 DEF CallInv, CallTypes, CallPlaces, Others, HashPcs, SharedPcs, ExclusivePcs,
       ExclusiveOps, HashTables!Shared, HashTables!Goto, HashTables!Return, HashTables!locals,
       HashTables!call
<1>10. CASE HashTables!Link(t)
  BY <1>1, <1>2, <1>10 DEF CallInv, CallTypes, CallPlaces, Others, HashPcs, SharedPcs, ExclusivePcs,
     ExclusiveOps, HashTables!Shared, HashTables!Link, HashTables!Goto, HashTables!Return, HashTables!locals,
     HashTables!call
<1>11. CASE HashTables!Reference(t)
  BY <1>1, <1>2, <1>11 DEF CallInv, CallTypes, CallPlaces, Others, HashPcs, SharedPcs, ExclusivePcs,
     ExclusiveOps, HashTables!Shared, HashTables!Reference, HashTables!Goto, HashTables!Return, HashTables!locals,
     HashTables!call
<1>12. CASE HashTables!IncrementItems(t)
  BY <1>1, <1>2, <1>12 DEF CallInv, CallTypes, CallPlaces, Others, HashPcs, SharedPcs, ExclusivePcs,
     ExclusiveOps, HashTables!Shared, HashTables!IncrementItems, HashTables!Goto, HashTables!Return, HashTables!locals,
     HashTables!call
<1>13. CASE HashTables!SearchToFind(t)
  <2>1. HashTables!Found(rec[t]) \subseteq Record
    <3>1. rec[t] \in Record
      BY <1>1, <1>13 DEF CallPlaces, HashTables!SearchToFind, HashTables!Goto
    <3> QED BY <1>1, <1>2, <3>1, FoundIs
  <2> QED BY <1>1, <1>2, <1>13, <2>1 DEF CallInv, CallTypes, CallPlaces, Others, HashPcs, SharedPcs, ExclusivePcs,
       ExclusiveOps, HashTables!Shared, HashTables!SearchToFind, HashTables!Goto, HashTables!Return, HashTables!locals,
       HashTables!call
<1>14. CASE HashTables!Take(t)
  BY <1>1, <1>2, <1>14 DEF CallInv, CallTypes, CallPlaces, Others, HashPcs, SharedPcs, ExclusivePcs,
     ExclusiveOps, HashTables!Shared, HashTables!Take, HashTables!Goto, HashTables!Return, HashTables!locals,
     HashTables!call
<1>15. CASE HashTables!ApplyNode(t)
  <2>1. HashTables!Behind(buckets[prev[t]], next[t]) \in Record \cup {NoRecord}
    <3>1. prev[t] \in DOMAIN buckets /\ next[t] \in Records(buckets[prev[t]]) \cup {NoRecord}
      BY <1>15 DEF HashInv, ApplyInv, HashTables!ApplyNode
    <3> QED BY <1>1, <3>1, ApplyGoesOn
  <2> QED BY <1>1, <1>2, <1>15, <2>1 DEF CallInv, CallTypes, CallPlaces, Others, HashPcs, SharedPcs, ExclusivePcs,
       ExclusiveOps, HashTables!Shared, HashTables!ApplyNode, HashTables!Goto, HashTables!Return, HashTables!locals,
       HashTables!call
<1>16. CASE HashTables!ApplyBucket(t)
  <2>1. prev[t] \in DOMAIN buckets /\ HashTables!nBuckets = Size(buckets) /\ DOMAIN buckets = 0 .. Size(buckets) - 1
        /\ Size(buckets) \in Nat
    BY <1>1, <1>16, TableIs, BucketFacts DEF HashInv, ApplyInv, HashTables!ApplyBucket, BucketsGood
  <2>2. prev[t] + 1 < HashTables!nBuckets =>
          HashTables!Behind(buckets[prev[t] + 1], NoRecord) \in Record \cup {NoRecord}
    <3>1. prev[t] + 1 < HashTables!nBuckets => prev[t] + 1 \in DOMAIN buckets
      BY <2>1
    <3> QED BY <1>1, <3>1, ApplyGoesOn
  <2> QED BY <1>1, <1>2, <1>16, <2>1, <2>2 DEF CallInv, CallTypes, CallPlaces, Others, HashPcs, SharedPcs, ExclusivePcs,
       ExclusiveOps, HashTables!Shared, HashTables!ApplyBucket, HashTables!Goto, HashTables!Return, HashTables!locals,
       HashTables!call
<1>17. CASE HashTables!DeleteKey(t)
  BY <1>1, <1>2, <1>17 DEF CallInv, CallTypes, CallPlaces, Others, HashPcs, SharedPcs, ExclusivePcs,
     ExclusiveOps, HashTables!Shared, HashTables!DeleteKey, HashTables!Goto, HashTables!Return, HashTables!locals,
     HashTables!call
<1>18. CASE HashTables!DeleteIf(t)
  BY <1>1, <1>2, <1>18 DEF CallInv, CallTypes, CallPlaces, Others, HashPcs, SharedPcs, ExclusivePcs,
     ExclusiveOps, HashTables!Shared, HashTables!DeleteIf, HashTables!Goto, HashTables!Return, HashTables!locals,
     HashTables!call
<1>19. CASE HashTables!Clear(t)
  BY <1>1, <1>2, <1>19 DEF CallInv, CallTypes, CallPlaces, Others, HashPcs, SharedPcs, ExclusivePcs,
     ExclusiveOps, HashTables!Shared, HashTables!Clear, HashTables!Goto, HashTables!Return, HashTables!locals,
     HashTables!call
<1>20. CASE HashTables!CheckSize(t)
  BY <1>1, <1>2, <1>20 DEF CallInv, CallTypes, CallPlaces, Others, HashPcs, SharedPcs, ExclusivePcs,
     ExclusiveOps, HashTables!Shared, HashTables!CheckSize, HashTables!Goto, HashTables!Return, HashTables!locals,
     HashTables!call
<1>21. CASE HashTables!Rehash(t)
  BY <1>1, <1>2, <1>21 DEF CallInv, CallTypes, CallPlaces, Others, HashPcs, SharedPcs, ExclusivePcs,
     ExclusiveOps, HashTables!Shared, HashTables!Rehash, HashTables!Goto, HashTables!Return, HashTables!locals,
     HashTables!call
<1> QED BY <1>3, <1>4, <1>5, <1>6, <1>7, <1>8, <1>9, <1>10, <1>11, <1>12, <1>13, <1>14, <1>15, <1>16, <1>17, <1>18, <1>19, <1>20, <1>21 DEF HashAction, HashTables!Step

LEMMA LinkGrows ==
  ASSUME HashInv, NEW t \in Thread, pc[t] = "link", HashTables!Place(t),
         HashTables!Behind(HashTables!Chain(rec[t]), prev[t]) = next[t]
  PROVE  BucketsGood(buckets') /\ Grown(buckets, buckets', rec[t])
<1> DEFINE r == rec[t]  c == buckets[Home(buckets, r)]
<1>1. r \in Record /\ BucketsGood(buckets) /\ SearchKnows(c, prev[t], next[t], r)
  BY DEF HashInv, CallInv, CallPlaces, SearchInv
<1>2. HashTables!Chain(r) = c /\ HashTables!nBuckets = Size(buckets)
  BY <1>1, FoundIs, TableIs
<1>3. buckets' = [buckets EXCEPT ![Home(buckets, r)] = HashTables!InsertAt(@, Spot(@, prev[t]), r)]
  <2>1. Spot(c, prev[t]) = IF prev[t] = NoRecord THEN 1 ELSE 1 + CHOOSE i \in DOMAIN c : c[i] = prev[t]
    BY DEF Spot
  <2>2. Home(buckets, r) = HashTables!HashOf(r) % HashTables!nBuckets
    BY <1>2 DEF Home
  <2> QED BY <1>2, <2>1, <2>2 DEF HashTables!Place
<1> QED BY <1>1, <1>2, <1>3, PlacedIs

LEMMA PrimeIs ==
  ASSUME NEW n \in Nat \ {0}
  PROVE  HashTables!GetPrime(n) \in Nat \ {0}
<1> DEFINE E == {p \in Primes : p >= n}
<1>1. E = {} => HashTables!GetPrime(n) = n
  BY DEF HashTables!GetPrime
<1>2. E # {} => HashTables!GetPrime(n) = CHOOSE p \in E : \A q \in E : q >= p
  BY DEF HashTables!GetPrime
<1>3. E # {} => \E p \in E : \A q \in E : q >= p
  <2> HAVE E # {}
  <2>1. E \in SUBSET Nat
    BY HashConstants
  <2> HIDE DEF E
  <2>2. PICK p \in E : \A q \in E : p <= q
    BY <2>1, NatMin
  <2> QED BY <2>1, <2>2
<1>4. E \subseteq Nat \ {0}
  BY HashConstants
<1> HIDE DEF E
<1> QED BY <1>1, <1>2, <1>3, <1>4

LEMMA RehashIs ==
  ASSUME BucketsGood(buckets), NEW t \in Thread, HashTables!Rehash(t)
  PROVE  BucketsGood(buckets') /\ In(buckets') = In(buckets)
<1> DEFINE n == Size(buckets)  s == HashTables!FlattenSeq([i \in 1 .. n |-> buckets[i - 1]])
           m == HashTables!GetPrime(2 * n)
<1>1. n \in Nat \ {0} /\ HashTables!nBuckets = n /\ buckets \in [0 .. n - 1 -> Seq(Record)]
  BY TableIs DEF BucketsGood
<1>2. buckets' = buckets \/ buckets' = HashTables!Distribute(s, m)
  BY <1>1, Zenon DEF HashTables!Rehash
<1> HIDE DEF n
<1>3. s \in Seq(Record) /\ DistinctKeys(s) /\ Records(s) = In(buckets)
  <2>1. DOMAIN buckets = 0 .. n - 1 /\ \A i \in 0 .. n - 1 : Ordered(buckets[i])
    BY <1>1 DEF BucketsGood
  <2>2. \A i, j \in 0 .. n - 1 : i # j =>
           \A x \in Records(buckets[i]), y \in Records(buckets[j]) : KeyOf[x] # KeyOf[y]
    <3> TAKE i, j \in 0 .. n - 1
    <3> HAVE i # j
    <3> TAKE x \in Records(buckets[i]), y \in Records(buckets[j])
    <3>1. Home(buckets, x) = i /\ Home(buckets, y) = j
      BY <2>1 DEF BucketsGood
    <3>2. x \in In(buckets) /\ y \in In(buckets)
      BY <2>1, BucketFacts
    <3> QED BY <3>1, <3>2, BucketFacts
  <2>3. s \in Seq(Record) /\ DistinctKeys(s) /\ Records(s) = UNION {Records(buckets[i]) : i \in 0 .. n - 1}
    BY <1>1, <2>1, <2>2, FlattenIs
  <2> QED BY <2>1, <2>3 DEF In
<1> HIDE DEF s
<1>4. m \in Nat \ {0}
  BY <1>1, PrimeIs
<1> HIDE DEF m
<1>5. BucketsGood(HashTables!Distribute(s, m)) /\ In(HashTables!Distribute(s, m)) = Records(s)
  BY <1>3, <1>4, DistributeIs
<1> QED BY <1>2, <1>3, <1>5

\* Records were taken out, with the references of the table.
Thinned(gone) ==
  /\ gone \subseteq In(buckets) /\ In(buckets') = In(buckets) \ gone
  /\ references' = [r \in Record |-> references[r] - (IF r \in gone THEN 1 ELSE 0)]

LEMMA TakeOutIs ==
  ASSUME BucketsGood(buckets), NEW t \in Thread, NEW gone, gone \subseteq In(buckets), HashTables!TakeOut(t, gone)
  PROVE  BucketsGood(buckets') /\ Thinned(gone)
<1> DEFINE ts == [i \in DOMAIN buckets |-> HashTables!Without(buckets[i], gone)]
<1>1. buckets' = ts /\ references' = [r \in Record |-> references[r] - (IF r \in gone THEN 1 ELSE 0)]
  BY DEF HashTables!TakeOut
<1>2. BucketsGood(ts) /\ In(ts) = In(buckets) \ gone
  BY ThinnedIs
<1> HIDE DEF ts
<1> QED BY <1>1, <1>2 DEF Thinned

\* What a step does to the buckets.
LEMMA BucketsStep ==
  ASSUME HashInv, NEW t \in Thread, HashAction(t)
  PROVE  /\ BucketsGood(buckets')
         /\ \/ buckets' = buckets
            \/ /\ pc[t] = "link" /\ pc'[t] = "reference" /\ rec' = rec /\ op' = op
               /\ Grown(buckets, buckets', rec[t])
            \/ /\ pc[t] \in ExclusiveOps /\ pc'[t] = "unlockExclusive" /\ rec' = rec /\ op' = op
               /\ In(buckets') \subseteq In(buckets)
<1>1. BucketsGood(buckets) /\ HashTables!Table = In(buckets) /\ CallTypes /\ CallPlaces
  BY TableIs DEF HashInv, CallInv
<1>2. CASE HashTables!Link(t)
  <2>1. CASE HashTables!Behind(HashTables!Chain(rec[t]), prev[t]) = next[t]
    <3>1. /\ pc[t] = "link" /\ pc'[t] = "reference" /\ rec' = rec /\ op' = op /\ HashTables!Place(t)
      BY <1>1, <1>2, <2>1 DEF HashTables!Link, HashTables!Goto, CallTypes
    <3> QED BY <2>1, <3>1, LinkGrows
  <2>2. CASE HashTables!Behind(HashTables!Chain(rec[t]), prev[t]) # next[t]
    BY <1>1, <1>2, <2>2 DEF HashTables!Link
  <2> QED BY <2>1, <2>2
<1>3. CASE HashTables!DeleteKey(t)
  <2>1. /\ pc[t] = "DeleteKey" /\ pc'[t] = "unlockExclusive" /\ rec' = rec /\ op' = op
        /\ HashTables!TakeOut(t, HashTables!Found(rec[t]))
    BY <1>1, <1>3 DEF HashTables!DeleteKey, HashTables!Goto, CallTypes
  <2>2. HashTables!Found(rec[t]) \subseteq In(buckets)
    BY <1>1, <2>1, FoundIs DEF CallPlaces
  <2> QED BY <1>1, <2>1, <2>2, TakeOutIs DEF Thinned, ExclusiveOps
<1>4. CASE HashTables!DeleteIf(t)
  <2>1. /\ pc[t] = "DeleteIf" /\ pc'[t] = "unlockExclusive" /\ rec' = rec /\ op' = op
        /\ \E gone \in SUBSET In(buckets) : HashTables!TakeOut(t, gone)
    BY <1>1, <1>4 DEF HashTables!DeleteIf, HashTables!Goto, CallTypes
  <2> QED BY <1>1, <2>1, TakeOutIs DEF Thinned, ExclusiveOps
<1>5. CASE HashTables!Clear(t)
  <2>1. /\ pc[t] = "Clear" /\ pc'[t] = "unlockExclusive" /\ rec' = rec /\ op' = op
        /\ HashTables!TakeOut(t, In(buckets))
    BY <1>1, <1>5 DEF HashTables!Clear, HashTables!Goto, CallTypes
  <2> QED BY <1>1, <2>1, TakeOutIs DEF Thinned, ExclusiveOps
<1>6. CASE HashTables!Rehash(t)
  <2>1. /\ pc[t] = "Rehash" /\ pc'[t] = "unlockExclusive" /\ rec' = rec /\ op' = op
    BY <1>1, <1>6 DEF HashTables!Rehash, HashTables!Goto, HashTables!call, CallTypes
  <2> QED BY <1>1, <1>6, <2>1, RehashIs DEF ExclusiveOps
<1>7. ASSUME ~(HashTables!Link(t) \/ HashTables!DeleteKey(t) \/ HashTables!DeleteIf(t)
               \/ HashTables!Clear(t) \/ HashTables!Rehash(t))
      PROVE  buckets' = buckets
  BY <1>7, Zenon DEF HashAction, HashTables!Step, HashTables!Invoke, HashTables!NoNode, HashTables!LockShared,
     HashTables!UnlockShared, HashTables!LockExclusive, HashTables!UnlockExclusive, HashTables!SearchToInsert,
     HashTables!Reference, HashTables!IncrementItems, HashTables!SearchToFind, HashTables!Take,
     HashTables!ApplyNode, HashTables!ApplyBucket, HashTables!CheckSize
<1> QED BY <1>1, <1>2, <1>3, <1>4, <1>5, <1>6, <1>7

LEMMA LockStep ==
  ASSUME HashInv, NEW t \in Thread, HashAction(t)
  PROVE  HashLockInv'
<1>1. CallTypes /\ CallPlaces /\ HashLockInv /\ CallTypes' /\ CallPlaces' /\ \A u \in Thread \ {t} : pc'[u] = pc[u]
  BY CallStep DEF HashInv, CallInv, Others
<1>2. ASSUME UNCHANGED HashTables!lock, pc'[t] \in SharedPcs <=> pc[t] \in SharedPcs,
             pc'[t] \in ExclusivePcs <=> pc[t] \in ExclusivePcs
      PROVE  HashLockInv'
  BY <1>1, <1>2 DEF HashLockInv, HashTables!lock
<1>3. CASE \E o \in OpNames, r \in Record : HashTables!Invoke(t, o, r)
  <2>1. UNCHANGED HashTables!lock /\ pc[t] = "idle" /\ pc'[t] \in {"lockShared", "lockExclusive"}
    BY <1>1, <1>3 DEF HashTables!Invoke, HashTables!Goto, CallTypes
  <2> QED BY <1>2, <2>1 DEF SharedPcs, ExclusivePcs, ExclusiveOps
<1>4. CASE HashTables!NoNode(t)
  <2>1. /\ UNCHANGED HashTables!lock
        /\ pc'[t] \in SharedPcs <=> pc[t] \in SharedPcs
        /\ pc'[t] \in ExclusivePcs <=> pc[t] \in ExclusivePcs
    BY <1>1, <1>4 DEF HashTables!NoNode, HashTables!Goto, CallTypes, SharedPcs, ExclusivePcs, ExclusiveOps
  <2> QED BY <1>2, <2>1
<1>5. CASE HashTables!LockShared(t)
  BY <1>1, <1>5 DEF HashTables!LockShared, HashTables!Goto, CallTypes, CallPlaces, HashTables!Shared, HashLockInv,
     SharedPcs, ExclusivePcs, ExclusiveOps
<1>6. CASE HashTables!UnlockShared(t)
  BY <1>1, <1>6 DEF HashTables!UnlockShared, HashTables!Goto, CallTypes, CallPlaces, HashTables!Shared, HashLockInv,
     SharedPcs, ExclusivePcs, ExclusiveOps
<1>7. CASE HashTables!LockExclusive(t)
  BY <1>1, <1>7 DEF HashTables!LockExclusive, HashTables!Goto, CallTypes, CallPlaces, HashTables!Shared, HashLockInv,
     SharedPcs, ExclusivePcs, ExclusiveOps
<1>8. CASE HashTables!UnlockExclusive(t)
  BY <1>1, <1>8 DEF HashTables!UnlockExclusive, HashTables!Goto, CallTypes, CallPlaces, HashTables!Shared, HashLockInv,
     SharedPcs, ExclusivePcs, ExclusiveOps
<1>9. CASE HashTables!SearchToInsert(t)
  <2>1. /\ UNCHANGED HashTables!lock
        /\ pc'[t] \in SharedPcs <=> pc[t] \in SharedPcs
        /\ pc'[t] \in ExclusivePcs <=> pc[t] \in ExclusivePcs
    BY <1>1, <1>9 DEF HashTables!SearchToInsert, HashTables!Goto, CallTypes, SharedPcs, ExclusivePcs, ExclusiveOps
  <2> QED BY <1>2, <2>1
<1>10. CASE HashTables!Link(t)
  <2>1. /\ UNCHANGED HashTables!lock
        /\ pc'[t] \in SharedPcs <=> pc[t] \in SharedPcs
        /\ pc'[t] \in ExclusivePcs <=> pc[t] \in ExclusivePcs
    BY <1>1, <1>10 DEF HashTables!Link, HashTables!Goto, CallTypes, SharedPcs, ExclusivePcs, ExclusiveOps
  <2> QED BY <1>2, <2>1
<1>11. CASE HashTables!Reference(t)
  <2>1. /\ UNCHANGED HashTables!lock
        /\ pc'[t] \in SharedPcs <=> pc[t] \in SharedPcs
        /\ pc'[t] \in ExclusivePcs <=> pc[t] \in ExclusivePcs
    BY <1>1, <1>11 DEF HashTables!Reference, HashTables!Goto, CallTypes, SharedPcs, ExclusivePcs, ExclusiveOps
  <2> QED BY <1>2, <2>1
<1>12. CASE HashTables!IncrementItems(t)
  <2>1. /\ UNCHANGED HashTables!lock
        /\ pc'[t] \in SharedPcs <=> pc[t] \in SharedPcs
        /\ pc'[t] \in ExclusivePcs <=> pc[t] \in ExclusivePcs
    BY <1>1, <1>12 DEF HashTables!IncrementItems, HashTables!Goto, CallTypes, SharedPcs, ExclusivePcs, ExclusiveOps
  <2> QED BY <1>2, <2>1
<1>13. CASE HashTables!SearchToFind(t)
  <2>1. /\ UNCHANGED HashTables!lock
        /\ pc'[t] \in SharedPcs <=> pc[t] \in SharedPcs
        /\ pc'[t] \in ExclusivePcs <=> pc[t] \in ExclusivePcs
    BY <1>1, <1>13 DEF HashTables!SearchToFind, HashTables!Goto, CallTypes, SharedPcs, ExclusivePcs, ExclusiveOps
  <2> QED BY <1>2, <2>1
<1>14. CASE HashTables!Take(t)
  <2>1. /\ UNCHANGED HashTables!lock
        /\ pc'[t] \in SharedPcs <=> pc[t] \in SharedPcs
        /\ pc'[t] \in ExclusivePcs <=> pc[t] \in ExclusivePcs
    BY <1>1, <1>14 DEF HashTables!Take, HashTables!Goto, CallTypes, SharedPcs, ExclusivePcs, ExclusiveOps
  <2> QED BY <1>2, <2>1
<1>15. CASE HashTables!ApplyNode(t)
  <2>1. /\ UNCHANGED HashTables!lock
        /\ pc'[t] \in SharedPcs <=> pc[t] \in SharedPcs
        /\ pc'[t] \in ExclusivePcs <=> pc[t] \in ExclusivePcs
    BY <1>1, <1>15 DEF HashTables!ApplyNode, HashTables!Goto, CallTypes, SharedPcs, ExclusivePcs, ExclusiveOps
  <2> QED BY <1>2, <2>1
<1>16. CASE HashTables!ApplyBucket(t)
  <2>1. /\ UNCHANGED HashTables!lock
        /\ pc'[t] \in SharedPcs <=> pc[t] \in SharedPcs
        /\ pc'[t] \in ExclusivePcs <=> pc[t] \in ExclusivePcs
    BY <1>1, <1>16 DEF HashTables!ApplyBucket, HashTables!Goto, CallTypes, SharedPcs, ExclusivePcs, ExclusiveOps
  <2> QED BY <1>2, <2>1
<1>17. CASE HashTables!DeleteKey(t)
  <2>1. /\ UNCHANGED HashTables!lock
        /\ pc'[t] \in SharedPcs <=> pc[t] \in SharedPcs
        /\ pc'[t] \in ExclusivePcs <=> pc[t] \in ExclusivePcs
    BY <1>1, <1>17 DEF HashTables!DeleteKey, HashTables!Goto, CallTypes, SharedPcs, ExclusivePcs, ExclusiveOps
  <2> QED BY <1>2, <2>1
<1>18. CASE HashTables!DeleteIf(t)
  <2>1. /\ UNCHANGED HashTables!lock
        /\ pc'[t] \in SharedPcs <=> pc[t] \in SharedPcs
        /\ pc'[t] \in ExclusivePcs <=> pc[t] \in ExclusivePcs
    BY <1>1, <1>18 DEF HashTables!DeleteIf, HashTables!Goto, CallTypes, SharedPcs, ExclusivePcs, ExclusiveOps
  <2> QED BY <1>2, <2>1
<1>19. CASE HashTables!Clear(t)
  <2>1. /\ UNCHANGED HashTables!lock
        /\ pc'[t] \in SharedPcs <=> pc[t] \in SharedPcs
        /\ pc'[t] \in ExclusivePcs <=> pc[t] \in ExclusivePcs
    BY <1>1, <1>19 DEF HashTables!Clear, HashTables!Goto, CallTypes, SharedPcs, ExclusivePcs, ExclusiveOps
  <2> QED BY <1>2, <2>1
<1>20. CASE HashTables!CheckSize(t)
  <2>1. /\ UNCHANGED HashTables!lock
        /\ pc'[t] \in SharedPcs <=> pc[t] \in SharedPcs
        /\ pc'[t] \in ExclusivePcs <=> pc[t] \in ExclusivePcs
    BY <1>1, <1>20 DEF HashTables!CheckSize, HashTables!Goto, CallTypes, SharedPcs, ExclusivePcs, ExclusiveOps
  <2> QED BY <1>2, <2>1
<1>21. CASE HashTables!Rehash(t)
  <2>1. /\ UNCHANGED HashTables!lock
        /\ pc'[t] \in SharedPcs <=> pc[t] \in SharedPcs
        /\ pc'[t] \in ExclusivePcs <=> pc[t] \in ExclusivePcs
    BY <1>1, <1>21 DEF HashTables!Rehash, HashTables!Goto, CallTypes, SharedPcs, ExclusivePcs, ExclusiveOps
  <2> QED BY <1>2, <2>1
<1> QED BY <1>3, <1>4, <1>5, <1>6, <1>7, <1>8, <1>9, <1>10, <1>11, <1>12, <1>13, <1>14, <1>15, <1>16, <1>17, <1>18, <1>19, <1>20, <1>21 DEF HashAction, HashTables!Step

\* Nobody is in the table beside one that takes nodes out.
LEMMA AloneInside ==
  ASSUME HashInv, NEW t \in Thread, pc[t] \in ExclusivePcs
  PROVE  \A u \in Thread : pc[u] \notin SharedPcs /\ (pc[u] \in ExclusivePcs => u = t)
BY DEF HashInv, HashLockInv

LEMMA OwnStep ==
  ASSUME HashInv, NEW t \in Thread, HashAction(t)
  PROVE  OwnInv'
<1>1. /\ CallTypes /\ CallPlaces /\ OwnInv /\ CallTypes' /\ CallPlaces' /\ Others(t) /\ BucketsGood(buckets)
      /\ HashTables!Table = In(buckets)
  BY CallStep, TableIs DEF HashInv, CallInv
\* The thread itself.
<1> DEFINE Own(u, v) == pc[u] # "idle" /\ op[u] = "Insert" /\ pc[v] # "idle" /\ op[v] = "Insert" /\ rec[v] = rec[u] => v = u
           Outside(u) == op[u] = "Insert" /\ pc[u] \in {"lockShared", "Insert", "link"} => rec[u] \notin In(buckets)
           Inside(u) == pc[u] \in {"reference", "count", "take"} => rec[u] \in In(buckets)
<1>2. \A u, v \in Thread : Own(u, v)
  BY <1>1 DEF OwnInv
<1>3. \A u \in Thread : Outside(u) /\ Inside(u)
  BY <1>1 DEF OwnInv
<1>4. CASE \E o \in OpNames, r \in Record : HashTables!Invoke(t, o, r)
  <2>1. PICK o \in OpNames, r \in Record : HashTables!Invoke(t, o, r)
    BY <1>4
  <2>2. /\ buckets' = buckets /\ pc[t] = "idle" /\ pc'[t] \in {"lockShared", "lockExclusive"} /\ op'[t] = o /\ rec'[t] = r
        /\ o = "Insert" => r \notin In(buckets) /\ \A u \in Thread : ~(pc[u] # "idle" /\ op[u] = "Insert" /\ rec[u] = r)
    BY <1>1, <2>1 DEF HashTables!Invoke, HashTables!Goto, CallTypes
  <2>3. \A u, v \in Thread : Own(u, v)'
    BY <1>1, <1>2, <2>2 DEF Others
  <2>4. \A u \in Thread : Outside(u)' /\ Inside(u)'
    BY <1>1, <1>3, <2>2 DEF Others
  <2> QED BY <2>3, <2>4 DEF OwnInv
<1>5. ASSUME HashTables!Step(t)
      PROVE  /\ pc[t] # "idle"
             /\ op'[t] = "Insert" => op[t] = "Insert" /\ rec'[t] = rec[t]
             /\ op'[t] = "Insert" /\ pc'[t] \in {"lockShared", "Insert", "link"} =>
                  buckets' = buckets /\ pc[t] \in {"lockShared", "Insert", "link"}
             /\ pc'[t] \in {"reference", "count", "take"} =>
                  \/ rec'[t] \in In(buckets')
                  \/ pc[t] = "reference" /\ rec'[t] = rec[t] /\ buckets' = buckets
                  \/ rec'[t] \in In(buckets) /\ buckets' = buckets
  <2>1. CASE HashTables!NoNode(t)
    BY <1>1, <2>1 DEF HashTables!NoNode, HashTables!Goto, HashTables!call, CallTypes, CallPlaces,
       HashTables!Shared, ExclusiveOps
  <2>2. CASE HashTables!LockShared(t)
    BY <1>1, <2>2 DEF HashTables!LockShared, HashTables!Goto, HashTables!call, CallTypes, CallPlaces,
       HashTables!Shared, ExclusiveOps
  <2>3. CASE HashTables!UnlockShared(t)
    BY <1>1, <2>3 DEF HashTables!UnlockShared, HashTables!Goto, HashTables!call, CallTypes, CallPlaces,
       HashTables!Shared, ExclusiveOps
  <2>4. CASE HashTables!LockExclusive(t)
    BY <1>1, <2>4 DEF HashTables!LockExclusive, HashTables!Goto, HashTables!call, CallTypes, CallPlaces,
       HashTables!Shared, ExclusiveOps
  <2>5. CASE HashTables!UnlockExclusive(t)
    BY <1>1, <2>5 DEF HashTables!UnlockExclusive, HashTables!Goto, HashTables!call, CallTypes, CallPlaces,
       HashTables!Shared, ExclusiveOps
  <2>6. CASE HashTables!SearchToInsert(t)
    BY <1>1, <2>6 DEF HashTables!SearchToInsert, HashTables!Goto, HashTables!call, CallTypes, CallPlaces,
       HashTables!Shared, ExclusiveOps
  <2>7. CASE HashTables!Link(t)
    <3>1. CASE HashTables!Behind(HashTables!Chain(rec[t]), prev[t]) = next[t]
      <4>1. pc[t] = "link" /\ pc'[t] = "reference" /\ rec' = rec /\ op' = op /\ HashTables!Place(t)
        BY <1>1, <2>7, <3>1 DEF HashTables!Link, HashTables!Goto, CallTypes
      <4>2. rec[t] \in In(buckets')
        BY <3>1, <4>1, LinkGrows DEF Grown
      <4> QED BY <4>1, <4>2
    <3>2. CASE HashTables!Behind(HashTables!Chain(rec[t]), prev[t]) # next[t]
      BY <1>1, <2>7, <3>2 DEF HashTables!Link, HashTables!Goto, CallTypes
    <3> QED BY <3>1, <3>2
  <2>8. CASE HashTables!Reference(t)
    BY <1>1, <2>8 DEF HashTables!Reference, HashTables!Goto, HashTables!call, CallTypes, CallPlaces,
       HashTables!Shared, ExclusiveOps
  <2>9. CASE HashTables!IncrementItems(t)
    BY <1>1, <2>9 DEF HashTables!IncrementItems, HashTables!Goto, HashTables!call, CallTypes, CallPlaces,
       HashTables!Shared, ExclusiveOps
  <2>10. CASE HashTables!SearchToFind(t)
    <3>1. HashTables!Found(rec[t]) \subseteq In(buckets)
      BY <1>1, <2>10, FoundIs DEF HashTables!SearchToFind, HashTables!Goto, CallPlaces
    <3> QED BY <1>1, <2>10, <3>1 DEF HashTables!SearchToFind, HashTables!Goto, HashTables!call, CallTypes, CallPlaces,
         HashTables!Shared, ExclusiveOps
  <2>11. CASE HashTables!Take(t)
    BY <1>1, <2>11 DEF HashTables!Take, HashTables!Goto, HashTables!call, CallTypes, CallPlaces,
       HashTables!Shared, ExclusiveOps
  <2>12. CASE HashTables!ApplyNode(t)
    BY <1>1, <2>12 DEF HashTables!ApplyNode, HashTables!Goto, HashTables!call, CallTypes, CallPlaces,
       HashTables!Shared, ExclusiveOps
  <2>13. CASE HashTables!ApplyBucket(t)
    BY <1>1, <2>13 DEF HashTables!ApplyBucket, HashTables!Goto, HashTables!call, CallTypes, CallPlaces,
       HashTables!Shared, ExclusiveOps
  <2>14. CASE HashTables!DeleteKey(t)
    BY <1>1, <2>14 DEF HashTables!DeleteKey, HashTables!Goto, HashTables!call, CallTypes, CallPlaces,
       HashTables!Shared, ExclusiveOps
  <2>15. CASE HashTables!DeleteIf(t)
    BY <1>1, <2>15 DEF HashTables!DeleteIf, HashTables!Goto, HashTables!call, CallTypes, CallPlaces,
       HashTables!Shared, ExclusiveOps
  <2>16. CASE HashTables!Clear(t)
    BY <1>1, <2>16 DEF HashTables!Clear, HashTables!Goto, HashTables!call, CallTypes, CallPlaces,
       HashTables!Shared, ExclusiveOps
  <2>17. CASE HashTables!CheckSize(t)
    BY <1>1, <2>17 DEF HashTables!CheckSize, HashTables!Goto, HashTables!call, CallTypes, CallPlaces,
       HashTables!Shared, ExclusiveOps
  <2>18. CASE HashTables!Rehash(t)
    BY <1>1, <2>18 DEF HashTables!Rehash, HashTables!Goto, HashTables!call, CallTypes, CallPlaces,
       HashTables!Shared, ExclusiveOps
  <2> QED BY <1>5, <2>1, <2>2, <2>3, <2>4, <2>5, <2>6, <2>7, <2>8, <2>9, <2>10, <2>11, <2>12, <2>13, <2>14, <2>15, <2>16, <2>17, <2>18 DEF HashTables!Step
<1>6. CASE HashTables!Step(t)
  <2>1. \A u, v \in Thread : Own(u, v)'
    BY <1>1, <1>2, <1>5, <1>6 DEF Others
  <2>2. BucketsGood(buckets') /\
        \/ buckets' = buckets
        \/ pc[t] = "link" /\ pc'[t] = "reference" /\ rec'[t] = rec[t] /\ In(buckets') = In(buckets) \cup {rec[t]}
        \/ pc[t] \in ExclusiveOps /\ pc'[t] = "unlockExclusive" /\ In(buckets') \subseteq In(buckets)
    BY BucketsStep DEF Grown
  <2>3. \A u \in Thread \ {t} : Outside(u)'
    <3> SUFFICES ASSUME NEW u \in Thread \ {t}, op[u] = "Insert", pc[u] \in {"lockShared", "Insert", "link"}
                 PROVE  rec[u] \notin In(buckets')
      BY <1>1 DEF Others
    <3>1. rec[u] \notin In(buckets)
      BY <1>3
    <3>2. pc[t] = "link" => rec[u] # rec[t]
      BY <1>1, <1>2 DEF CallPlaces
    <3> QED BY <2>2, <3>1, <3>2
  <2>4. \A u \in Thread \ {t} : Inside(u)'
    <3> SUFFICES ASSUME NEW u \in Thread \ {t}, pc[u] \in {"reference", "count", "take"}
                 PROVE  rec[u] \in In(buckets')
      BY <1>1 DEF Others
    <3>1. rec[u] \in In(buckets)
      BY <1>3
    <3>2. pc[t] \notin ExclusiveOps
      BY AloneInside DEF SharedPcs, ExclusivePcs
    <3> QED BY <2>2, <3>1, <3>2
  <2>5. Outside(t)' /\ Inside(t)'
    <3>1. ASSUME op'[t] = "Insert", pc'[t] \in {"lockShared", "Insert", "link"} PROVE rec'[t] \notin In(buckets')
      <4>1. /\ op[t] = "Insert" /\ rec'[t] = rec[t] /\ buckets' = buckets
            /\ pc[t] \in {"lockShared", "Insert", "link"}
        BY <1>5, <1>6, <3>1
      <4> QED BY <1>3, <4>1
    <3>2. ASSUME pc'[t] \in {"reference", "count", "take"} PROVE rec'[t] \in In(buckets')
      BY <1>3, <1>5, <1>6, <3>2
    <3> QED BY <3>1, <3>2
  <2> HIDE DEF Outside, Inside, Own
  <2>6. \A u \in Thread : Outside(u)' /\ Inside(u)'
    BY <2>3, <2>4, <2>5
  <2> USE DEF Outside, Inside, Own
  <2> QED BY <2>1, <2>6 DEF OwnInv
<1> QED BY <1>4, <1>6 DEF HashAction

LEMMA SearchStep ==
  ASSUME HashInv, NEW t \in Thread, HashAction(t)
  PROVE  SearchInv'
<1>1. /\ CallTypes /\ CallPlaces /\ SearchInv /\ CallTypes' /\ CallPlaces' /\ Others(t) /\ BucketsGood(buckets)
  BY CallStep DEF HashInv, CallInv
<1>2. ASSUME NEW u \in Thread \ {t}, pc[u] = "link"
      PROVE  SearchKnows(buckets'[Home(buckets', rec[u])], prev[u], next[u], rec[u])
  <2>1. rec[u] \in Record /\ SearchKnows(buckets[Home(buckets, rec[u])], prev[u], next[u], rec[u])
    BY <1>1, <1>2 DEF CallPlaces, SearchInv
  <2>2. pc[t] \notin ExclusiveOps
    BY <1>2, AloneInside DEF SharedPcs, ExclusivePcs
  <2>3. CASE buckets' = buckets
    BY <2>1, <2>3
  <2>4. CASE pc[t] = "link" /\ Grown(buckets, buckets', rec[t])
    <3> DEFINE h == Home(buckets, rec[u])  c == buckets[h]  d == buckets'[h]  p == prev[u]  r == rec[u]
    <3>1. h \in DOMAIN buckets /\ Home(buckets', rec[u]) = h /\ rec[t] \in Record
      BY <1>1, <2>1, <2>4, BucketFacts DEF Home, Grown, CallPlaces
    <3>2. Records(c) \subseteq Records(d) /\ \A x, y \in Record \cup {NoRecord} : Follows(c, x, y) => Follows(d, x, y)
      BY <2>4, <3>1 DEF Grown
    <3>3. Records(c) \subseteq Record /\ p \in Record \cup {NoRecord}
      BY <1>1, <2>1, <3>1, BucketFacts DEF SearchKnows
    <3>4. ASSUME NEW s \in Records(d), KeyOf[s] = KeyOf[r] PROVE Follows(d, p, s)
      <4>1. CASE s \in Records(c)
        <5>1. Follows(c, p, s)
          BY <2>1, <3>4, <4>1 DEF SearchKnows
        <5> QED BY <3>2, <3>3, <4>1, <5>1
      <4>2. CASE s \notin Records(c)
        <5>1. s = rec[t] /\ h = Home(buckets, rec[t])
          <6>1. Home(buckets, rec[t]) # h => d = c
            BY <2>4, <3>1 DEF Grown
          <6> QED BY <2>4, <3>4, <4>2, <6>1 DEF Grown
        <5>2. CASE p = NoRecord
          <6>1. d \in Seq(Record)
            <7>1. h \in DOMAIN buckets'
              BY <2>4, <3>1 DEF Grown
            <7>2. BucketsGood(buckets')
              BY BucketsStep
            <7> QED BY <7>1, <7>2 DEF BucketsGood
          <6>2. PICK j \in DOMAIN d : d[j] = s
            BY <3>4, <6>1, ChainFacts
          <6> QED BY <5>2, <6>2 DEF Follows
        <5>3. CASE p # NoRecord
          <6>1. p \in Records(c) /\ HashTables!HashOf(p) <= HashTables!HashOf(r)
            BY <2>1, <5>3 DEF SearchKnows
          <6>2. HashTables!HashOf(r) = HashTables!HashOf(rec[t])
            BY <3>4, <5>1 DEF HashTables!HashOf
          <6> QED BY <2>4, <5>1, <6>1, <6>2 DEF Grown
        <5> QED BY <5>2, <5>3
      <4> QED BY <4>1, <4>2
    <3> QED BY <2>1, <3>1, <3>2, <3>4 DEF SearchKnows
  <2> QED BY <2>2, <2>3, <2>4, BucketsStep
<1>3. ASSUME pc'[t] = "link"
      PROVE  SearchKnows(buckets'[Home(buckets', rec'[t])], prev'[t], next'[t], rec'[t])
  <2>1. HashTables!SearchToInsert(t)
    <3>0. CASE \E o \in OpNames, r \in Record : HashTables!Invoke(t, o, r)
      BY <1>1, <1>3, <3>0 DEF HashTables!Invoke, HashTables!Goto, CallTypes
    <3>1. CASE HashTables!NoNode(t)
      BY <1>1, <1>3, <3>1 DEF HashTables!NoNode, HashTables!Goto, CallTypes, CallPlaces, HashTables!Shared, ExclusiveOps
    <3>2. CASE HashTables!LockShared(t)
      BY <1>1, <1>3, <3>2 DEF HashTables!LockShared, HashTables!Goto, CallTypes, CallPlaces, HashTables!Shared, ExclusiveOps
    <3>3. CASE HashTables!UnlockShared(t)
      BY <1>1, <1>3, <3>3 DEF HashTables!UnlockShared, HashTables!Goto, CallTypes, CallPlaces, HashTables!Shared, ExclusiveOps
    <3>4. CASE HashTables!LockExclusive(t)
      BY <1>1, <1>3, <3>4 DEF HashTables!LockExclusive, HashTables!Goto, CallTypes, CallPlaces, HashTables!Shared, ExclusiveOps
    <3>5. CASE HashTables!UnlockExclusive(t)
      BY <1>1, <1>3, <3>5 DEF HashTables!UnlockExclusive, HashTables!Goto, CallTypes, CallPlaces, HashTables!Shared, ExclusiveOps
    <3>6. CASE HashTables!Link(t)
      BY <1>1, <1>3, <3>6 DEF HashTables!Link, HashTables!Goto, CallTypes, CallPlaces, HashTables!Shared, ExclusiveOps
    <3>7. CASE HashTables!Reference(t)
      BY <1>1, <1>3, <3>7 DEF HashTables!Reference, HashTables!Goto, CallTypes, CallPlaces, HashTables!Shared, ExclusiveOps
    <3>8. CASE HashTables!IncrementItems(t)
      BY <1>1, <1>3, <3>8 DEF HashTables!IncrementItems, HashTables!Goto, CallTypes, CallPlaces, HashTables!Shared, ExclusiveOps
    <3>9. CASE HashTables!SearchToFind(t)
      BY <1>1, <1>3, <3>9 DEF HashTables!SearchToFind, HashTables!Goto, CallTypes, CallPlaces, HashTables!Shared, ExclusiveOps
    <3>10. CASE HashTables!Take(t)
      BY <1>1, <1>3, <3>10 DEF HashTables!Take, HashTables!Goto, CallTypes, CallPlaces, HashTables!Shared, ExclusiveOps
    <3>11. CASE HashTables!ApplyNode(t)
      BY <1>1, <1>3, <3>11 DEF HashTables!ApplyNode, HashTables!Goto, CallTypes, CallPlaces, HashTables!Shared, ExclusiveOps
    <3>12. CASE HashTables!ApplyBucket(t)
      BY <1>1, <1>3, <3>12 DEF HashTables!ApplyBucket, HashTables!Goto, CallTypes, CallPlaces, HashTables!Shared, ExclusiveOps
    <3>13. CASE HashTables!DeleteKey(t)
      BY <1>1, <1>3, <3>13 DEF HashTables!DeleteKey, HashTables!Goto, CallTypes, CallPlaces, HashTables!Shared, ExclusiveOps
    <3>14. CASE HashTables!DeleteIf(t)
      BY <1>1, <1>3, <3>14 DEF HashTables!DeleteIf, HashTables!Goto, CallTypes, CallPlaces, HashTables!Shared, ExclusiveOps
    <3>15. CASE HashTables!Clear(t)
      BY <1>1, <1>3, <3>15 DEF HashTables!Clear, HashTables!Goto, CallTypes, CallPlaces, HashTables!Shared, ExclusiveOps
    <3>16. CASE HashTables!CheckSize(t)
      BY <1>1, <1>3, <3>16 DEF HashTables!CheckSize, HashTables!Goto, CallTypes, CallPlaces, HashTables!Shared, ExclusiveOps
    <3>17. CASE HashTables!Rehash(t)
      BY <1>1, <1>3, <3>17 DEF HashTables!Rehash, HashTables!Goto, CallTypes, CallPlaces, HashTables!Shared, ExclusiveOps
    <3> QED BY <3>0, <3>1, <3>2, <3>3, <3>4, <3>5, <3>6, <3>7, <3>8, <3>9, <3>10, <3>11, <3>12, <3>13, <3>14, <3>15, <3>16, <3>17 DEF HashAction, HashTables!Step
  <2> DEFINE r == rec[t]  k == HashTables!Passed(HashTables!Chain(r), HashTables!HashOf(r))
             p == IF k = 0 THEN NoRecord ELSE HashTables!Chain(r)[k]
  <2>2. /\ HashTables!Found(r) = {} /\ pc[t] = "Insert" /\ buckets' = buckets /\ rec' = rec
        /\ prev'[t] = p /\ next'[t] = HashTables!Behind(HashTables!Chain(r), p)
    BY <1>1, <1>3, <2>1 DEF HashTables!SearchToInsert, HashTables!Goto, CallTypes
  <2>3. r \in Record
    BY <1>1, <2>2 DEF CallPlaces
  <2>4. SearchKnows(buckets[Home(buckets, r)], p, HashTables!Behind(HashTables!Chain(r), p), r)
    <3> HIDE DEF r
    <3> QED BY <1>1, <2>2, <2>3, SearchEnds
  <2> QED BY <2>2, <2>4
<1> QED BY <1>1, <1>2, <1>3 DEF SearchInv, Others

LEMMA ApplyStep ==
  ASSUME HashInv, NEW t \in Thread, HashAction(t)
  PROVE  ApplyInv'
<1>1. /\ CallTypes /\ CallPlaces /\ ApplyInv /\ CallTypes' /\ CallPlaces' /\ Others(t) /\ BucketsGood(buckets)
      /\ HashTables!Table = In(buckets) /\ HashTables!nBuckets = Size(buckets)
  BY CallStep, TableIs DEF HashInv, CallInv
<1>2. /\ In(buckets) \subseteq Record /\ Size(buckets) \in Nat \ {0} /\ DOMAIN buckets = 0 .. Size(buckets) - 1
      /\ \A r \in Record : Home(buckets, r) \in 0 .. Size(buckets) - 1
      /\ NoRecord \notin Record /\ \A i \in DOMAIN buckets : Records(buckets[i]) \subseteq In(buckets)
  <2>1. /\ In(buckets) \subseteq Record /\ Size(buckets) \in Nat \ {0} /\ DOMAIN buckets = 0 .. Size(buckets) - 1
        /\ \A r \in Record : Home(buckets, r) \in 0 .. Size(buckets) - 1
    BY <1>1, BucketFacts DEF BucketsGood
  <2>2. \A i \in DOMAIN buckets : Records(buckets[i]) \subseteq In(buckets)
    BY <1>1, BucketFacts DEF BucketsGood
  <2> QED BY <2>1, <2>2, HashConstants
<1> DEFINE Walks(u) ==
             /\ prev[u] \in DOMAIN buckets
             /\ next[u] \in Records(buckets[prev[u]]) \cup {NoRecord}
             /\ \A r \in toApply[u] : r \in In(buckets) /\ Ahead(buckets, prev[u], next[u], r)
<1>3. \A u \in Thread : pc[u] = "Apply" => Walks(u)
  BY <1>1 DEF ApplyInv
<1>4. ASSUME NEW u \in Thread \ {t}, pc[u] = "Apply" PROVE Walks(u)'
  <2>1. pc[t] \notin ExclusiveOps
    BY <1>4, AloneInside DEF SharedPcs, ExclusivePcs
  <2>2. prev'[u] = prev[u] /\ next'[u] = next[u] /\ toApply'[u] = toApply[u] /\ Walks(u)
    BY <1>1, <1>3, <1>4 DEF Others
  <2>3. CASE buckets' = buckets
    BY <2>2, <2>3
  <2>4. CASE Grown(buckets, buckets', rec[t])
    <3>1. prev[u] \in DOMAIN buckets' /\ next[u] \in Records(buckets'[prev[u]]) \cup {NoRecord}
      BY <2>2, <2>4 DEF Grown
    <3>2. ASSUME NEW r \in toApply[u] PROVE r \in In(buckets') /\ Ahead(buckets', prev[u], next[u], r)
      <4>1. r \in In(buckets) /\ Ahead(buckets, prev[u], next[u], r) /\ r \in Record
        BY <1>2, <2>2, <3>2
      <4>2. r \in In(buckets') /\ Home(buckets', r) = Home(buckets, r)
        BY <2>4, <4>1 DEF Grown, Home
      <4>3. next[u] \in Record \cup {NoRecord}
        BY <1>1 DEF CallTypes
      <4>4. Follows(buckets[prev[u]], next[u], r) => Follows(buckets'[prev[u]], next[u], r)
        BY <2>2, <2>4, <4>1, <4>3 DEF Grown
      <4> QED BY <4>1, <4>2, <4>4 DEF Ahead
    <3> QED BY <2>2, <3>1, <3>2
  <2> QED BY <2>1, <2>3, <2>4, BucketsStep
<1>5. ASSUME NEW u \in Thread \ {t}
      PROVE  /\ pc'[u] = "Apply" => Walks(u)'
             /\ pc'[u] = "unlockShared" /\ op'[u] = "Apply" => toApply'[u] = {}
  <2>1. pc'[u] = pc[u] /\ op'[u] = op[u] /\ toApply'[u] = toApply[u]
    BY <1>1 DEF Others
  <2> HIDE DEF Walks
  <2> QED BY <1>1, <1>4, <2>1 DEF ApplyInv
<1>6. /\ pc'[t] = "Apply" => Walks(t)'
      /\ pc'[t] = "unlockShared" /\ op'[t] = "Apply" => toApply'[t] = {}
  <2>1. CASE HashTables!LockShared(t)
    <3>1. SUFFICES ASSUME op[t] = "Apply" PROVE pc'[t] = "Apply" /\ Walks(t)'
      BY <1>1, <2>1 DEF HashTables!LockShared, HashTables!Goto, HashTables!Shared, CallTypes, CallPlaces
    <3>2. /\ pc'[t] = "Apply" /\ prev'[t] = 0 /\ next'[t] = HashTables!Behind(buckets[0], NoRecord)
          /\ toApply'[t] = In(buckets) /\ buckets' = buckets
      BY <1>1, <2>1, <3>1 DEF HashTables!LockShared, HashTables!Goto, CallTypes
    <3>3. 0 \in DOMAIN buckets
      BY <1>2
    <3>4. /\ next'[t] \in Records(buckets[0]) \cup {NoRecord}
          /\ \A r \in In(buckets) : Home(buckets, r) >= 0 => Ahead(buckets, 0, next'[t], r)
      BY <1>1, <3>2, <3>3, ApplyGoesOn
    <3>5. \A r \in In(buckets) : Home(buckets, r) >= 0
      BY <1>2
    <3> QED BY <3>2, <3>3, <3>4, <3>5
  <2>2. CASE HashTables!ApplyNode(t)
    <3>1. /\ pc[t] = "Apply" /\ pc' = pc /\ next[t] # NoRecord /\ prev' = prev /\ buckets' = buckets
          /\ toApply'[t] = toApply[t] \ {next[t]} /\ next'[t] = HashTables!Behind(buckets[prev[t]], next[t])
      BY <1>1, <2>2 DEF HashTables!ApplyNode, CallTypes
    <3>2. Walks(t)
      BY <1>3, <3>1
    <3>3. /\ next'[t] \in Records(buckets[prev[t]]) \cup {NoRecord}
          /\ \A r \in In(buckets) : r # next[t] /\ Ahead(buckets, prev[t], next[t], r) =>
               Ahead(buckets, prev[t], next'[t], r)
      BY <1>1, <3>1, <3>2, ApplyGoesOn
    <3> QED BY <3>1, <3>2, <3>3
  <2>3. CASE HashTables!ApplyBucket(t)
    <3>1. pc[t] = "Apply" /\ next[t] = NoRecord /\ toApply' = toApply /\ buckets' = buckets /\ op' = op
      BY <2>3 DEF HashTables!ApplyBucket
    <3>2. Walks(t)
      BY <1>3, <3>1
    <3>3. \A r \in toApply[t] : r \in In(buckets) /\ r \in Record /\ Home(buckets, r) > prev[t]
      BY <1>2, <3>1, <3>2 DEF Ahead
    <3>4. CASE prev[t] + 1 < HashTables!nBuckets
      <4> DEFINE i == prev[t] + 1
      <4>1. /\ pc'[t] = "Apply" /\ prev'[t] = i /\ next'[t] = HashTables!Behind(buckets[i], NoRecord)
        BY <1>1, <1>2, <2>3, <3>1, <3>2, <3>4 DEF HashTables!ApplyBucket, CallTypes
      <4>2. i \in DOMAIN buckets
        BY <1>1, <1>2, <3>2, <3>4
      <4> HIDE DEF i
      <4>3. /\ next'[t] \in Records(buckets[i]) \cup {NoRecord}
            /\ \A r \in In(buckets) : Home(buckets, r) >= i => Ahead(buckets, i, next'[t], r)
        BY <1>1, <4>1, <4>2, ApplyGoesOn
      <4>4. \A r \in toApply[t] : Home(buckets, r) >= i
        BY <1>2, <3>2, <3>3 DEF i
      <4> QED BY <3>1, <3>3, <4>1, <4>2, <4>3, <4>4
    <3>5. CASE prev[t] + 1 = HashTables!nBuckets
      <4>1. pc'[t] = "unlockShared"
        BY <1>1, <1>2, <2>3, <3>1, <3>2, <3>5 DEF HashTables!ApplyBucket, HashTables!Goto, CallTypes
      <4>2. toApply[t] = {}
        BY <1>1, <1>2, <3>2, <3>3, <3>5
      <4> QED BY <3>1, <4>1, <4>2
    <3> QED BY <2>3, <3>4, <3>5 DEF HashTables!ApplyBucket
  <2>4. CASE HashTables!NoNode(t)
    <3>1. pc'[t] # "Apply" /\ ~(pc'[t] = "unlockShared" /\ op'[t] = "Apply")
      BY <1>1, <2>4 DEF HashTables!NoNode, HashTables!Goto, HashTables!call, CallTypes, CallPlaces, ExclusiveOps
    <3> QED BY <3>1
  <2>5. CASE HashTables!UnlockShared(t)
    <3>1. pc'[t] # "Apply" /\ ~(pc'[t] = "unlockShared" /\ op'[t] = "Apply")
      BY <1>1, <2>5 DEF HashTables!UnlockShared, HashTables!Goto, HashTables!call, CallTypes, CallPlaces, ExclusiveOps
    <3> QED BY <3>1
  <2>6. CASE HashTables!LockExclusive(t)
    <3>1. pc'[t] # "Apply" /\ ~(pc'[t] = "unlockShared" /\ op'[t] = "Apply")
      BY <1>1, <2>6 DEF HashTables!LockExclusive, HashTables!Goto, HashTables!call, CallTypes, CallPlaces, ExclusiveOps
    <3> QED BY <3>1
  <2>7. CASE HashTables!UnlockExclusive(t)
    <3>1. pc'[t] # "Apply" /\ ~(pc'[t] = "unlockShared" /\ op'[t] = "Apply")
      BY <1>1, <2>7 DEF HashTables!UnlockExclusive, HashTables!Goto, HashTables!call, CallTypes, CallPlaces, ExclusiveOps
    <3> QED BY <3>1
  <2>8. CASE HashTables!SearchToInsert(t)
    <3>1. pc'[t] # "Apply" /\ ~(pc'[t] = "unlockShared" /\ op'[t] = "Apply")
      BY <1>1, <2>8 DEF HashTables!SearchToInsert, HashTables!Goto, HashTables!call, CallTypes, CallPlaces, ExclusiveOps
    <3> QED BY <3>1
  <2>9. CASE HashTables!Link(t)
    <3>1. pc'[t] # "Apply" /\ ~(pc'[t] = "unlockShared" /\ op'[t] = "Apply")
      BY <1>1, <2>9 DEF HashTables!Link, HashTables!Goto, HashTables!call, CallTypes, CallPlaces, ExclusiveOps
    <3> QED BY <3>1
  <2>10. CASE HashTables!Reference(t)
    <3>1. pc'[t] # "Apply" /\ ~(pc'[t] = "unlockShared" /\ op'[t] = "Apply")
      BY <1>1, <2>10 DEF HashTables!Reference, HashTables!Goto, HashTables!call, CallTypes, CallPlaces, ExclusiveOps
    <3> QED BY <3>1
  <2>11. CASE HashTables!IncrementItems(t)
    <3>1. pc'[t] # "Apply" /\ ~(pc'[t] = "unlockShared" /\ op'[t] = "Apply")
      BY <1>1, <2>11 DEF HashTables!IncrementItems, HashTables!Goto, HashTables!call, CallTypes, CallPlaces, ExclusiveOps
    <3> QED BY <3>1
  <2>12. CASE HashTables!SearchToFind(t)
    <3>1. pc'[t] # "Apply" /\ ~(pc'[t] = "unlockShared" /\ op'[t] = "Apply")
      BY <1>1, <2>12 DEF HashTables!SearchToFind, HashTables!Goto, HashTables!call, CallTypes, CallPlaces, ExclusiveOps
    <3> QED BY <3>1
  <2>13. CASE HashTables!Take(t)
    <3>1. pc'[t] # "Apply" /\ ~(pc'[t] = "unlockShared" /\ op'[t] = "Apply")
      BY <1>1, <2>13 DEF HashTables!Take, HashTables!Goto, HashTables!call, CallTypes, CallPlaces, ExclusiveOps
    <3> QED BY <3>1
  <2>14. CASE HashTables!DeleteKey(t)
    <3>1. pc'[t] # "Apply" /\ ~(pc'[t] = "unlockShared" /\ op'[t] = "Apply")
      BY <1>1, <2>14 DEF HashTables!DeleteKey, HashTables!Goto, HashTables!call, CallTypes, CallPlaces, ExclusiveOps
    <3> QED BY <3>1
  <2>15. CASE HashTables!DeleteIf(t)
    <3>1. pc'[t] # "Apply" /\ ~(pc'[t] = "unlockShared" /\ op'[t] = "Apply")
      BY <1>1, <2>15 DEF HashTables!DeleteIf, HashTables!Goto, HashTables!call, CallTypes, CallPlaces, ExclusiveOps
    <3> QED BY <3>1
  <2>16. CASE HashTables!Clear(t)
    <3>1. pc'[t] # "Apply" /\ ~(pc'[t] = "unlockShared" /\ op'[t] = "Apply")
      BY <1>1, <2>16 DEF HashTables!Clear, HashTables!Goto, HashTables!call, CallTypes, CallPlaces, ExclusiveOps
    <3> QED BY <3>1
  <2>17. CASE HashTables!CheckSize(t)
    <3>1. pc'[t] # "Apply" /\ ~(pc'[t] = "unlockShared" /\ op'[t] = "Apply")
      BY <1>1, <2>17 DEF HashTables!CheckSize, HashTables!Goto, HashTables!call, CallTypes, CallPlaces, ExclusiveOps
    <3> QED BY <3>1
  <2>18. CASE HashTables!Rehash(t)
    <3>1. pc'[t] # "Apply" /\ ~(pc'[t] = "unlockShared" /\ op'[t] = "Apply")
      BY <1>1, <2>18 DEF HashTables!Rehash, HashTables!Goto, HashTables!call, CallTypes, CallPlaces, ExclusiveOps
    <3> QED BY <3>1
  <2>19. CASE \E o \in OpNames, r \in Record : HashTables!Invoke(t, o, r)
    <3>1. pc'[t] # "Apply" /\ ~(pc'[t] = "unlockShared" /\ op'[t] = "Apply")
      BY <1>1, <2>19 DEF HashTables!Invoke, HashTables!Goto, CallTypes
    <3> QED BY <3>1
  <2> HIDE DEF Walks
  <2> QED BY <2>1, <2>2, <2>3, <2>4, <2>5, <2>6, <2>7, <2>8, <2>9, <2>10, <2>11, <2>12, <2>13, <2>14, <2>15, <2>16, <2>17, <2>18, <2>19 DEF HashAction, HashTables!Step
<1> HIDE DEF Walks
<1>7. \A u \in Thread : /\ pc'[u] = "Apply" => Walks(u)'
                        /\ pc'[u] = "unlockShared" /\ op'[u] = "Apply" => toApply'[u] = {}
  BY <1>5, <1>6
<1> QED BY <1>7 DEF ApplyInv, Walks

\* What a step changes of the counts, if it does.
Quiet(t) ==
  /\ references' = references /\ held' = held /\ nItems' = nItems /\ In(buckets') = In(buckets)
  /\ pc[t] \notin {"reference", "count"} /\ pc'[t] \notin {"reference", "count"}
Linked(t) ==
  /\ references' = references /\ held' = held /\ nItems' = nItems
  /\ In(buckets') = In(buckets) \cup {rec[t]} /\ rec[t] \notin In(buckets)
  /\ pc[t] = "link" /\ pc'[t] = "reference" /\ rec'[t] = rec[t]
TakenOut(t) ==
  \E gone \in SUBSET In(buckets) :
    /\ In(buckets') = In(buckets) \ gone /\ held' = held
    /\ references' = [r \in Record |-> references[r] - (IF r \in gone THEN 1 ELSE 0)]
    /\ nItems' = nItems - Cardinality(gone) \/ (nItems' = 0 /\ gone = In(buckets))
    /\ pc[t] \in ExclusiveOps /\ pc'[t] = "unlockExclusive"

LEMMA CountingSteps ==
  ASSUME HashInv, NEW t \in Thread, HashAction(t)
  PROVE  \/ Quiet(t) \/ Linked(t) \/ TakenOut(t)
         \/ HashTables!Reference(t) \/ HashTables!IncrementItems(t) \/ HashTables!Take(t)
<1>1. /\ CallTypes /\ CallPlaces /\ OwnInv /\ CallTypes' /\ CallPlaces' /\ BucketsGood(buckets)
      /\ HashTables!Table = In(buckets)
  BY CallStep, TableIs DEF HashInv, CallInv
<1>2. CASE HashTables!Link(t)
  <2>1. CASE HashTables!Behind(HashTables!Chain(rec[t]), prev[t]) = next[t]
    <3>1. /\ pc[t] = "link" /\ pc'[t] = "reference" /\ rec' = rec /\ HashTables!Place(t)
          /\ references' = references /\ held' = held /\ nItems' = nItems
      BY <1>1, <1>2, <2>1 DEF HashTables!Link, HashTables!Goto, CallTypes
    <3>2. In(buckets') = In(buckets) \cup {rec[t]}
      BY <2>1, <3>1, LinkGrows DEF Grown
    <3>3. rec[t] \notin In(buckets)
      BY <1>1, <3>1 DEF OwnInv, CallPlaces
    <3> QED BY <3>1, <3>2, <3>3 DEF Linked
  <2>2. CASE HashTables!Behind(HashTables!Chain(rec[t]), prev[t]) # next[t]
    BY <1>1, <1>2, <2>2 DEF HashTables!Link, HashTables!Goto, CallTypes, Quiet
  <2> QED BY <2>1, <2>2
<1>3. CASE HashTables!DeleteKey(t)
  <2> DEFINE gone == HashTables!Found(rec[t])
  <2>1. /\ pc[t] = "DeleteKey" /\ pc'[t] = "unlockExclusive" /\ held' = held
        /\ HashTables!TakeOut(t, gone) /\ nItems' = nItems - Cardinality(gone)
    BY <1>1, <1>3, SameSizes DEF HashTables!DeleteKey, HashTables!Goto, CallTypes
  <2>2. gone \subseteq In(buckets)
    BY <1>1, <2>1, FoundIs DEF CallPlaces
  <2> HIDE DEF gone
  <2>3. Thinned(gone)
    BY <1>1, <2>1, <2>2, TakeOutIs
  <2>4. /\ In(buckets') = In(buckets) \ gone /\ gone \in SUBSET In(buckets)
        /\ references' = [r \in Record |-> references[r] - (IF r \in gone THEN 1 ELSE 0)]
        /\ pc[t] \in ExclusiveOps
    BY <2>1, <2>2, <2>3 DEF Thinned, ExclusiveOps
  <2> QED BY <2>1, <2>2, <2>4, Zenon DEF TakenOut
<1>4. CASE HashTables!DeleteIf(t)
  <2>1. PICK gone \in SUBSET In(buckets) : HashTables!TakeOut(t, gone) /\ nItems' = nItems - Cardinality(gone)
    BY <1>1, <1>4, SameSizes DEF HashTables!DeleteIf
  <2>2. pc[t] = "DeleteIf" /\ pc'[t] = "unlockExclusive" /\ held' = held
    BY <1>1, <1>4 DEF HashTables!DeleteIf, HashTables!Goto, CallTypes
  <2>3. Thinned(gone)
    BY <1>1, <2>1, TakeOutIs
  <2>4. /\ In(buckets') = In(buckets) \ gone /\ gone \in SUBSET In(buckets)
        /\ references' = [r \in Record |-> references[r] - (IF r \in gone THEN 1 ELSE 0)]
        /\ pc[t] \in ExclusiveOps
    BY <2>1, <2>2, <2>3 DEF Thinned, ExclusiveOps
  <2> QED BY <2>1, <2>2, <2>4, Zenon DEF TakenOut
<1>5. CASE HashTables!Clear(t)
  <2>1. /\ pc[t] = "Clear" /\ pc'[t] = "unlockExclusive" /\ held' = held /\ nItems' = 0
        /\ HashTables!TakeOut(t, In(buckets))
    BY <1>1, <1>5 DEF HashTables!Clear, HashTables!Goto, CallTypes
  <2>2. Thinned(In(buckets))
    BY <1>1, <2>1, TakeOutIs
  <2> QED BY <2>1, <2>2 DEF Thinned, TakenOut, ExclusiveOps
<1>6. CASE HashTables!Rehash(t)
  <2>1. In(buckets') = In(buckets)
    BY <1>1, <1>6, RehashIs
  <2> QED BY <1>1, <1>6, <2>1 DEF HashTables!Rehash, HashTables!Goto, CallTypes, Quiet
<1>7. CASE \E o \in OpNames, r \in Record : HashTables!Invoke(t, o, r)
  BY <1>1, <1>7 DEF HashTables!Invoke, HashTables!Goto, CallTypes, Quiet
<1>8. CASE HashTables!NoNode(t)
  BY <1>1, <1>8 DEF HashTables!NoNode, HashTables!Goto, HashTables!Shared, CallTypes, CallPlaces, ExclusiveOps, Quiet
<1>9. CASE HashTables!LockShared(t)
  BY <1>1, <1>9 DEF HashTables!LockShared, HashTables!Goto, HashTables!Shared, CallTypes, CallPlaces, ExclusiveOps, Quiet
<1>10. CASE HashTables!UnlockShared(t)
  BY <1>1, <1>10 DEF HashTables!UnlockShared, HashTables!Goto, HashTables!Shared, CallTypes, CallPlaces, ExclusiveOps, Quiet
<1>11. CASE HashTables!LockExclusive(t)
  BY <1>1, <1>11 DEF HashTables!LockExclusive, HashTables!Goto, HashTables!Shared, CallTypes, CallPlaces, ExclusiveOps, Quiet
<1>12. CASE HashTables!UnlockExclusive(t)
  BY <1>1, <1>12 DEF HashTables!UnlockExclusive, HashTables!Goto, HashTables!Shared, CallTypes, CallPlaces, ExclusiveOps, Quiet
<1>13. CASE HashTables!SearchToInsert(t)
  BY <1>1, <1>13 DEF HashTables!SearchToInsert, HashTables!Goto, HashTables!Shared, CallTypes, CallPlaces, ExclusiveOps, Quiet
<1>14. CASE HashTables!SearchToFind(t)
  BY <1>1, <1>14 DEF HashTables!SearchToFind, HashTables!Goto, HashTables!Shared, CallTypes, CallPlaces, ExclusiveOps, Quiet
<1>15. CASE HashTables!ApplyNode(t)
  BY <1>1, <1>15 DEF HashTables!ApplyNode, HashTables!Goto, HashTables!Shared, CallTypes, CallPlaces, ExclusiveOps, Quiet
<1>16. CASE HashTables!ApplyBucket(t)
  BY <1>1, <1>16 DEF HashTables!ApplyBucket, HashTables!Goto, HashTables!Shared, CallTypes, CallPlaces, ExclusiveOps, Quiet
<1>17. CASE HashTables!CheckSize(t)
  BY <1>1, <1>17 DEF HashTables!CheckSize, HashTables!Goto, HashTables!Shared, CallTypes, CallPlaces, ExclusiveOps, Quiet
<1> QED BY <1>2, <1>3, <1>4, <1>5, <1>6, <1>7, <1>8, <1>9, <1>10, <1>11, <1>12, <1>13, <1>14, <1>15, <1>16, <1>17 DEF HashAction, HashTables!Step

LEMMA ReferenceStep ==
  ASSUME HashInv, NEW t \in Thread, HashAction(t)
  PROVE  ReferenceInv'
<1>1. /\ CallTypes /\ CallPlaces /\ OwnInv /\ ReferenceInv /\ Others(t) /\ CallTypes' /\ CallPlaces'
  BY CallStep DEF HashInv, CallInv
<1> DEFINE At(u, r) == pc[u] = "reference" /\ rec[u] = r
           Right(r) == references[r] = held[r] + (IF r \in In(buckets) /\ ~Referring(r) THEN 1 ELSE 0)
<1>2. /\ held \in [Record -> Nat] /\ references \in [Record -> Int] /\ \A r \in Record : Right(r)
  BY <1>1 DEF ReferenceInv
<1>3. /\ \A u \in Thread \ {t}, r \in Record : At(u, r)' <=> At(u, r)
      /\ \A r : Referring(r) <=> \E u \in Thread : At(u, r)
      /\ \A r : Referring(r)' <=> \E u \in Thread : At(u, r)'
  BY <1>1 DEF Others, Referring
<1>4. SUFFICES /\ held' \in [Record -> Nat] /\ references' \in [Record -> Int]
               /\ \A r \in Record : Right(r)'
  BY DEF ReferenceInv
<1> HIDE DEF At
<1>5. CASE Quiet(t)
  <2>1. \A r \in Record : ~At(t, r) /\ ~At(t, r)'
    BY <1>5 DEF Quiet, At
  <2>2. \A r \in Record : Referring(r)' <=> Referring(r)
    BY <1>3, <2>1
  <2> QED BY <1>2, <1>5, <2>2 DEF Quiet
<1>6. CASE Linked(t)
  <2>1. \A r \in Record : ~At(t, r) /\ (At(t, r)' <=> r = rec[t])
    BY <1>6 DEF Linked, At
  <2>2. \A r \in Record : Referring(r)' <=> Referring(r) \/ r = rec[t]
    BY <1>3, <2>1
  <2> QED BY <1>2, <1>6, <2>2 DEF Linked
<1>7. CASE TakenOut(t)
  <2>1. PICK gone \in SUBSET In(buckets) :
          /\ In(buckets') = In(buckets) \ gone /\ held' = held
          /\ references' = [r \in Record |-> references[r] - (IF r \in gone THEN 1 ELSE 0)]
    BY <1>7 DEF TakenOut
  <2>2. pc[t] \in ExclusivePcs /\ pc'[t] = "unlockExclusive"
    BY <1>7 DEF TakenOut, ExclusivePcs
  <2>3. \A r \in Record : ~Referring(r)
    BY <2>2, AloneInside DEF Referring, SharedPcs
  <2>4. \A r \in Record : ~At(t, r)'
    BY <2>2 DEF At
  <2>5. \A r \in Record : ~Referring(r)'
    BY <1>3, <2>3, <2>4
  <2> QED BY <1>2, <2>1, <2>3, <2>5
<1>8. CASE HashTables!Reference(t)
  <2>1. /\ pc[t] = "reference" /\ pc'[t] = "count" /\ rec[t] \in Record /\ held' = held /\ buckets' = buckets
        /\ references' = [references EXCEPT ![rec[t]] = @ + 1]
    BY <1>1, <1>8 DEF HashTables!Reference, HashTables!Goto, CallTypes, CallPlaces
  <2>2. rec[t] \in In(buckets) /\ op[t] = "Insert"
    BY <1>1, <2>1 DEF OwnInv, CallPlaces
  <2>0. PICK x \in Record : x = rec[t]
    BY <2>1
  <2>3. \A u \in Thread : At(u, x) => u = t
    BY <1>1, <2>0, <2>1, <2>2 DEF OwnInv, CallPlaces, At
  <2>4. \A r \in Record : ~At(t, r)' /\ (At(t, r) <=> r = x)
    BY <2>0, <2>1 DEF At
  <2>5. Referring(x)
    BY <1>3, <2>4
  <2>6. ~Referring(x)'
    BY <1>3, <2>3, <2>4
  <2>7. \A r \in Record : r # x => (Referring(r)' <=> Referring(r))
    BY <1>3, <2>4
  <2> QED BY <1>2, <2>0, <2>1, <2>2, <2>5, <2>6, <2>7
<1>9. CASE HashTables!IncrementItems(t)
  <2>1. /\ pc[t] = "count" /\ pc'[t] = "unlockShared" /\ references' = references /\ held' = held /\ buckets' = buckets
    BY <1>1, <1>9 DEF HashTables!IncrementItems, HashTables!Goto, CallTypes
  <2>2. \A r \in Record : ~At(t, r) /\ ~At(t, r)'
    BY <2>1 DEF At
  <2>3. \A r \in Record : Referring(r)' <=> Referring(r)
    BY <1>3, <2>2
  <2> QED BY <1>2, <2>1, <2>3
<1>10. CASE HashTables!Take(t)
  <2>1. /\ pc[t] = "take" /\ pc'[t] = "unlockShared" /\ rec[t] \in Record /\ buckets' = buckets
        /\ references' = [references EXCEPT ![rec[t]] = @ + 1] /\ held' = [held EXCEPT ![rec[t]] = @ + 1]
    BY <1>1, <1>10 DEF HashTables!Take, HashTables!Goto, CallTypes, CallPlaces
  <2>2. \A r \in Record : ~At(t, r) /\ ~At(t, r)'
    BY <2>1 DEF At
  <2>3. \A r \in Record : Referring(r)' <=> Referring(r)
    BY <1>3, <2>2
  <2> QED BY <1>2, <2>1, <2>3
<1> QED BY <1>5, <1>6, <1>7, <1>8, <1>9, <1>10, CountingSteps

LEMMA ItemsStep ==
  ASSUME HashInv, NEW t \in Thread, HashAction(t)
  PROVE  ItemsInv'
<1>1. /\ CallTypes /\ CallPlaces /\ ItemsInv /\ Others(t) /\ CallTypes' /\ CallPlaces'
      /\ BucketsGood(buckets) /\ BucketsGood(buckets')
  BY CallStep, BucketsStep DEF HashInv, CallInv
<1>2. /\ IsFiniteSet(In(buckets)) /\ Cardinality(In(buckets)) \in Nat
      /\ IsFiniteSet(Counting) /\ Cardinality(Counting) \in Nat
  <2>1. IsFiniteSet(Counting)
    BY CacheAssumption, FS_Subset DEF Counting
  <2> QED BY <1>1, <2>1, BucketFacts, FS_CardinalityType
<1> DEFINE Counts(u) == pc[u] \in {"reference", "count"}
<1>3. /\ \A u \in Thread \ {t} : Counts(u)' <=> Counts(u)
      /\ Counting = {u \in Thread : Counts(u)} /\ Counting' = {u \in Thread : Counts(u)'}
      /\ Counting \subseteq Thread /\ Counting' \subseteq Thread
  BY <1>1 DEF Others, Counting
<1> HIDE DEF Counts
<1>4. nItems = Cardinality(In(buckets)) - Cardinality(Counting)
  BY <1>1 DEF ItemsInv
<1>5. CASE Quiet(t)
  <2>1. ~Counts(t) /\ ~Counts(t)'
    BY <1>5 DEF Quiet, Counts
  <2>2. Counting' = Counting
    BY <1>3, <2>1
  <2> QED BY <1>4, <1>5, <2>2 DEF Quiet, ItemsInv
<1>6. CASE Linked(t)
  <2>1. ~Counts(t) /\ Counts(t)'
    BY <1>6 DEF Linked, Counts
  <2>2. Counting' = Counting \cup {t} /\ t \notin Counting
    BY <1>3, <2>1
  <2>3. Cardinality(Counting') = Cardinality(Counting) + 1
    BY <1>2, <2>2, FS_AddElement
  <2>4. Cardinality(In(buckets')) = Cardinality(In(buckets)) + 1
    BY <1>2, <1>6, FS_AddElement DEF Linked
  <2> QED BY <1>2, <1>4, <1>6, <2>3, <2>4 DEF Linked, ItemsInv
<1>7. CASE TakenOut(t)
  <2>1. PICK gone \in SUBSET In(buckets) :
          /\ In(buckets') = In(buckets) \ gone
          /\ nItems' = nItems - Cardinality(gone) \/ (nItems' = 0 /\ gone = In(buckets))
    BY <1>7 DEF TakenOut
  <2>2. pc[t] \in ExclusivePcs /\ pc[t] \in ExclusiveOps /\ pc'[t] = "unlockExclusive"
    BY <1>7 DEF TakenOut, ExclusivePcs
  <2>3. Counting = {}
    BY <2>2, AloneInside DEF Counting, SharedPcs
  <2>4. ~Counts(t)'
    BY <2>2 DEF Counts
  <2>5. Counting' = {}
    BY <1>3, <2>3, <2>4
  <2>6. Cardinality(Counting) = 0 /\ Cardinality(Counting') = 0
    BY <2>3, <2>5, FS_EmptySet
  <2>7. Cardinality(In(buckets')) = Cardinality(In(buckets)) - Cardinality(gone) /\ Cardinality(gone) \in Nat
    <3>1. IsFiniteSet(gone)
      BY <1>2, FS_Subset
    <3>2. In(buckets) \cap gone = gone
      OBVIOUS
    <3>3. Cardinality(In(buckets) \ gone) = Cardinality(In(buckets)) - Cardinality(In(buckets) \cap gone)
      BY <1>2, FS_Difference
    <3>4. Cardinality(gone) \in Nat
      BY <3>1, FS_CardinalityType
    <3> QED BY <2>1, <3>2, <3>3, <3>4
  <2>8. CASE nItems' = nItems - Cardinality(gone)
    BY <1>2, <1>4, <2>6, <2>7, <2>8 DEF ItemsInv
  <2>9. CASE nItems' = 0 /\ gone = In(buckets)
    BY <1>2, <2>6, <2>7, <2>9 DEF ItemsInv
  <2> QED BY <2>1, <2>8, <2>9
<1>8. CASE HashTables!Reference(t)
  <2>1. /\ pc[t] = "reference" /\ pc'[t] = "count" /\ nItems' = nItems /\ buckets' = buckets
    BY <1>1, <1>8 DEF HashTables!Reference, HashTables!Goto, CallTypes
  <2>2. Counts(t) /\ Counts(t)'
    BY <2>1 DEF Counts
  <2>3. Counting' = Counting
    BY <1>3, <2>2
  <2> QED BY <1>4, <2>1, <2>3 DEF ItemsInv
<1>9. CASE HashTables!IncrementItems(t)
  <2>1. /\ pc[t] = "count" /\ pc'[t] = "unlockShared" /\ nItems' = nItems + 1 /\ buckets' = buckets
    BY <1>1, <1>9 DEF HashTables!IncrementItems, HashTables!Goto, CallTypes
  <2>2. Counts(t) /\ ~Counts(t)'
    BY <2>1 DEF Counts
  <2>3. Counting' = Counting \ {t} /\ t \in Counting
    BY <1>3, <2>2
  <2>4. Cardinality(Counting') = Cardinality(Counting) - 1
    BY <1>2, <2>3, FS_RemoveElement
  <2> QED BY <1>2, <1>4, <2>1, <2>4 DEF ItemsInv
<1>10. CASE HashTables!Take(t)
  <2>1. /\ pc[t] = "take" /\ pc'[t] = "unlockShared" /\ nItems' = nItems /\ buckets' = buckets
    BY <1>1, <1>10 DEF HashTables!Take, HashTables!Goto, CallTypes
  <2>2. ~Counts(t) /\ ~Counts(t)'
    BY <2>1 DEF Counts
  <2>3. Counting' = Counting
    BY <1>3, <2>2
  <2> QED BY <1>4, <2>1, <2>3 DEF ItemsInv
<1> QED BY <1>5, <1>6, <1>7, <1>8, <1>9, <1>10, CountingSteps

-----------------------------------------------------------------------------
(* The invariant holds, and what follows from it                           *)

LEMMA HashStart ==
  ASSUME HashTables!Init
  PROVE  HashInv
<1> DEFINE q == HashTables!SetToSeq(InitialTable)
<1>1. IsFiniteSet(InitialTable) /\ InitialTable \in SUBSET Record
  BY StructuresAssumption, SameSizes DEF HashTables!HashTableAssumption
<1>2. q \in Seq(Record) /\ DistinctKeys(q) /\ Records(q) = InitialTable
  BY <1>1, HashConstants, SetToSeqIs
<1> HIDE DEF q
<1>3. buckets = HashTables!Distribute(q, InitialBuckets)
  BY DEF HashTables!Init, q
<1>4. BucketsGood(buckets) /\ In(buckets) = InitialTable
  BY <1>2, <1>3, HashConstants, DistributeIs
<1>5. /\ nItems = Cardinality(InitialTable) /\ sharers = {} /\ writer = {}
      /\ references = [r \in Record |-> IF r \in InitialTable THEN 1 ELSE 0]
      /\ held = [r \in Record |-> 0]
      /\ op = [t \in Thread |-> "NONE"] /\ result = [t \in Thread |-> "NONE"]
      /\ rec = [t \in Thread |-> CHOOSE r \in Record : TRUE]
      /\ pc = [t \in Thread |-> "idle"]
      /\ prev = [t \in Thread |-> NoRecord] /\ next = [t \in Thread |-> NoRecord]
      /\ toApply = [t \in Thread |-> {}]
  BY SameSizes DEF HashTables!Init
<1>6. CallTypes
  BY <1>5 DEF CallTypes, HashPcs
<1>7. CallPlaces /\ HashLockInv /\ OwnInv /\ SearchInv /\ ApplyInv
  BY <1>5 DEF CallPlaces, HashLockInv, OwnInv, SearchInv, ApplyInv, SharedPcs, ExclusivePcs, ExclusiveOps
<1>8. ReferenceInv
  <2>1. \A r \in Record : ~Referring(r)
    BY <1>5 DEF Referring
  <2> QED BY <1>4, <1>5, <2>1 DEF ReferenceInv
<1>9. ItemsInv
  <2>1. Counting = {}
    BY <1>5 DEF Counting
  <2>2. Cardinality(Counting) = 0 /\ Cardinality(InitialTable) \in Nat
    BY <1>1, <2>1, FS_EmptySet, FS_CardinalityType
  <2> QED BY <1>4, <1>5, <2>2 DEF ItemsInv
<1> QED BY <1>4, <1>6, <1>7, <1>8, <1>9 DEF HashInv, CallInv

LEMMA HashKept ==
  ASSUME HashInv, [HashTables!Next]_(HashTables!vars)
  PROVE  HashInv'
<1>1. CASE HashTables!Next
  <2>1. PICK t \in Thread : HashAction(t)
    BY <1>1 DEF HashTables!Next, HashAction
  <2> QED BY <2>1, CallStep, BucketsStep, LockStep, OwnStep, SearchStep, ApplyStep, ReferenceStep,
             ItemsStep DEF HashInv
<1>2. CASE UNCHANGED HashTables!vars
  <2>1. /\ buckets' = buckets /\ nItems' = nItems /\ sharers' = sharers /\ writer' = writer
        /\ references' = references /\ held' = held /\ op' = op /\ rec' = rec /\ result' = result
        /\ pc' = pc /\ prev' = prev /\ next' = next /\ toApply' = toApply
    BY <1>2 DEF HashTables!vars, HashTables!lock, HashTables!call, HashTables!locals
  <2>2. CallInv' /\ HashLockInv' /\ OwnInv' /\ SearchInv' /\ ApplyInv'
    BY <2>1 DEF HashInv, CallInv, CallTypes, CallPlaces, HashLockInv, OwnInv, SearchInv, ApplyInv
  <2>3. ReferenceInv' /\ ItemsInv' /\ BucketsGood(buckets')
    BY <2>1 DEF HashInv, ReferenceInv, Referring, ItemsInv, Counting
  <2> QED BY <2>2, <2>3 DEF HashInv
<1> QED BY <1>1, <1>2

LEMMA HashSteps ==
  ASSUME [PartNext]_partVars
  PROVE  [HashTables!Next]_(HashTables!vars)
BY Zenon DEF PartNext, partVars, hashVars, HashTables!vars, HashTables!lock, HashTables!call,
   HashTables!locals

\* HASH_TABLE's invariant holds always.
THEOREM HashInvAlways == PartSpec => []HashInv
<1>1. PartInit => HashInv
  BY HashStart DEF PartInit
<1>2. HashInv /\ [PartNext]_partVars => HashInv'
  BY HashSteps, HashKept
<1> QED BY <1>1, <1>2, PTL DEF PartSpec

\* Whichever insertions run side by side, the chains of HASH_TABLE
\* (hashtable.h, InsertRecord and DeleteKey) ascend, no key is there twice, and
\* the nodes that threads go on from stay in the table.
THEOREM ChainsAlwaysInOrder == PartSpec => []HashChainsInOrder
<1>1. ASSUME HashInv PROVE HashTables!ChainsInOrder
  <2>1. BucketsGood(buckets) /\ HashTables!nBuckets = Size(buckets)
    BY <1>1, TableIs DEF HashInv
  <2> SUFFICES ASSUME NEW i \in DOMAIN buckets, NEW j \in DOMAIN buckets[i], NEW k \in DOMAIN buckets[i]
               PROVE  /\ HashTables!HashOf(buckets[i][j]) % HashTables!nBuckets = i
                      /\ j < k => /\ HashTables!HashOf(buckets[i][j]) <= HashTables!HashOf(buckets[i][k])
                                  /\ KeyOf[buckets[i][j]] # KeyOf[buckets[i][k]]
    BY DEF HashTables!ChainsInOrder
  <2>2. buckets[i] \in Seq(Record) /\ Ordered(buckets[i])
    BY <2>1 DEF BucketsGood
  <2>3. buckets[i][j] \in Records(buckets[i])
    BY <2>2, ChainFacts
  <2>4. Home(buckets, buckets[i][j]) = i
    BY <2>1, <2>3 DEF BucketsGood
  <2> QED BY <2>1, <2>2, <2>4 DEF Home, Ordered, HashAt
<1>2. ASSUME HashInv PROVE HashTables!NodesInUseRemain
  <2>1. /\ BucketsGood(buckets) /\ HashTables!Table = In(buckets) /\ CallPlaces
        /\ SearchInv /\ OwnInv /\ ApplyInv
    BY <1>2, TableIs DEF HashInv, CallInv
  <2>2. ASSUME NEW t \in Thread, pc[t] = "link" PROVE prev[t] \in In(buckets) \cup {NoRecord}
    <3>1. rec[t] \in Record /\ prev[t] \in Records(buckets[Home(buckets, rec[t])]) \cup {NoRecord}
      BY <2>1, <2>2 DEF CallPlaces, SearchInv, SearchKnows
    <3> QED BY <2>1, <3>1, BucketFacts
  <2>3. ASSUME NEW t \in Thread, pc[t] = "take" PROVE rec[t] \in In(buckets)
    BY <2>1, <2>3 DEF OwnInv
  <2>4. ASSUME NEW t \in Thread, pc[t] = "Apply" PROVE next[t] \in In(buckets) \cup {NoRecord}
    <3>1. prev[t] \in DOMAIN buckets /\ next[t] \in Records(buckets[prev[t]]) \cup {NoRecord}
      BY <2>1, <2>4 DEF ApplyInv
    <3> QED BY <2>1, <3>1, BucketFacts
  <2> QED BY <2>1, <2>2, <2>3, <2>4 DEF HashTables!NodesInUseRemain
<1>3. HashInv => HashChainsInOrder
  BY <1>1, <1>2 DEF HashChainsInOrder
<1> QED BY <1>3, HashInvAlways, PTL

\* The references that the table and its clients hold, and nItems, are those of
\* the records in it, up to insertions that have linked their node and not yet
\* referenced or counted it (hashtable.h, InsertRecord and FindKey).
THEOREM CountsAlwaysRight == PartSpec => []HashCountsRight
<1>1. ASSUME HashInv PROVE HashTables!TableReferences
  <2>1. /\ HashTables!Table = In(buckets) /\ OwnInv /\ CallPlaces /\ ReferenceInv
    BY <1>1, TableIs DEF HashInv, CallInv
  <2> SUFFICES ASSUME NEW r \in Record
               PROVE  references[r] = held[r] + (IF r \in In(buckets) THEN 1 ELSE 0)
                        - Cardinality({t \in Thread : pc[t] = "reference" /\ rec[t] = r})
    BY <2>1, SameSizes DEF HashTables!TableReferences
  <2> DEFINE T == {t \in Thread : pc[t] = "reference" /\ rec[t] = r}
  <2>2. references[r] = held[r] + (IF r \in In(buckets) /\ ~Referring(r) THEN 1 ELSE 0) /\ held[r] \in Nat
    BY <2>1 DEF ReferenceInv
  <2>3. CASE ~Referring(r)
    <3>1. T = {}
      BY <2>3 DEF Referring
    <3>2. Cardinality(T) = 0
      BY <3>1, FS_EmptySet
    <3> HIDE DEF T
    <3>3. references[r] = held[r] + (IF r \in In(buckets) THEN 1 ELSE 0) - Cardinality(T)
      BY <2>2, <2>3, <3>2
    <3> QED BY <3>3 DEF T
  <2>4. CASE Referring(r)
    <3>1. PICK t \in Thread : pc[t] = "reference" /\ rec[t] = r
      BY <2>4 DEF Referring
    <3>2. r \in In(buckets)
      BY <2>1, <3>1 DEF OwnInv
    <3>3. \A u \in Thread : pc[u] = "reference" /\ rec[u] = r => u = t
      BY <2>1, <3>1 DEF OwnInv, CallPlaces
    <3>4. T = {t}
      BY <3>1, <3>3
    <3>5. Cardinality(T) = 1
      BY <3>4, FS_Singleton
    <3> HIDE DEF T
    <3>6. references[r] = held[r] + (IF r \in In(buckets) THEN 1 ELSE 0) - Cardinality(T)
      BY <2>2, <2>4, <3>2, <3>5
    <3> QED BY <3>6 DEF T
  <2> QED BY <2>3, <2>4
<1>2. ASSUME HashInv PROVE HashTables!ItemsCounted
  BY <1>2, TableIs, SameSizes DEF HashInv, ItemsInv, Counting, HashTables!ItemsCounted
<1>3. HashInv => HashCountsRight
  BY <1>1, <1>2 DEF HashCountsRight
<1> QED BY <1>3, HashInvAlways, PTL

\* Apply (hashtable.h, Apply) meets every record that was in the table when it
\* took the lock, while insertions go on around it.
THEOREM HashAppliesMeetRecords == PartSpec => []HashTables!ApplyMeetsRecords
<1>1. HashInv => HashTables!ApplyMeetsRecords
  BY DEF HashInv, ApplyInv, HashTables!ApplyMeetsRecords
<1> QED BY <1>1, HashInvAlways, PTL

\* The table and the counts have their types: no count runs below zero.
THEOREM HashTypesOK == PartSpec => []HashTables!TypeOK
<1>1. ASSUME HashInv PROVE HashTables!TypeOK
  <2>1. /\ BucketsGood(buckets) /\ HashTables!nBuckets = Size(buckets) /\ HashLockInv /\ ReferenceInv
        /\ OwnInv /\ CallPlaces /\ ItemsInv
    BY <1>1, TableIs DEF HashInv, CallInv
  <2>2. nItems \in Nat
    <3> DEFINE f == [t \in Counting |-> rec[t]]
    <3>1. f \in Injection(Counting, In(buckets))
      <4>1. \A t \in Counting : rec[t] \in In(buckets) /\ t \in Thread
        BY <2>1 DEF OwnInv, Counting
      <4>2. \A t, u \in Counting : rec[t] = rec[u] => t = u
        BY <2>1 DEF OwnInv, CallPlaces, Counting
      <4> QED BY <4>1, <4>2 DEF Injection, IsInjective
    <3>2. IsFiniteSet(In(buckets))
      BY <2>1, BucketFacts
    <3> HIDE DEF f
    <3>3. IsFiniteSet(Counting) /\ Cardinality(Counting) <= Cardinality(In(buckets))
      BY <3>1, <3>2, FS_Injection
    <3>4. Cardinality(Counting) \in Nat /\ Cardinality(In(buckets)) \in Nat
      BY <3>2, <3>3, FS_CardinalityType
    <3> QED BY <2>1, <3>3, <3>4 DEF ItemsInv
  <2>3. sharers \subseteq Thread /\ writer \subseteq Thread
    BY <2>1 DEF HashLockInv
  <2>4. references \in [Record -> Nat] /\ held \in [Record -> Nat]
    BY <2>1 DEF ReferenceInv
  <2>5. DOMAIN buckets = 0 .. Size(buckets) - 1 /\ \A i \in DOMAIN buckets : buckets[i] \in Seq(Record)
    BY <2>1 DEF BucketsGood
  <2> QED BY <2>1, <2>2, <2>3, <2>4, <2>5 DEF HashTables!TypeOK
<1>2. HashInv => HashTables!TypeOK
  BY <1>1
<1> QED BY <1>2, HashInvAlways, PTL

-----------------------------------------------------------------------------
(* HASH_TABLE implements RecordTable                                       *)

HashPhase(p, o) ==
  CASE p = "idle" -> "idle"
    [] p \in HashTables!Before \/ (p = "lockExclusive" /\ o # "Rehash") -> "called"
    [] OTHER -> "done"
HashOperation(o) == IF o = "Rehash" THEN "Insert" ELSE o

LEMMA HashPhases ==
  /\ \A o : HashPhase("idle", o) = "idle"
  /\ \A o, p : p \in HashTables!Before => HashPhase(p, o) = "called"
  /\ \A o : o # "Rehash" => HashPhase("lockExclusive", o) = "called"
  /\ HashPhase("lockExclusive", "Rehash") = "done"
  /\ \A o, p : p \in {"reference", "count", "take", "unlockShared", "unlockExclusive", "checkSize", "Rehash"}
               => HashPhase(p, o) = "done"
BY DEF HashPhase, HashTables!Before

LEMMA HashPhaseNow ==
  ASSUME HashInv, NEW t \in Thread, HashAction(t)
  PROVE  /\ HashTables!Phase[t] = HashPhase(pc[t], op[t])
         /\ HashTables!Phase' = [HashTables!Phase EXCEPT ![t] = HashPhase(pc'[t], op'[t])]
         /\ HashTables!Operation[t] = HashOperation(op[t])
         /\ HashTables!Operation' = [HashTables!Operation EXCEPT ![t] = HashOperation(op'[t])]
<1>1. Others(t)
  BY CallStep
<1>2. /\ HashTables!Phase = [u \in Thread |-> HashPhase(pc[u], op[u])]
      /\ HashTables!Phase' = [u \in Thread |-> HashPhase(pc'[u], op'[u])]
      /\ HashTables!Operation = [u \in Thread |-> HashOperation(op[u])]
      /\ HashTables!Operation' = [u \in Thread |-> HashOperation(op'[u])]
  BY DEF HashTables!Phase, HashPhase, HashTables!Operation, HashOperation
<1> HIDE DEF HashPhase, HashOperation
<1>3. \A u \in Thread \ {t} : pc'[u] = pc[u] /\ op'[u] = op[u]
  BY <1>1 DEF Others
<1> QED BY <1>2, <1>3

\* The steps that RecordTable does not see.
LEMMA HashStutters ==
  ASSUME HashInv, NEW t \in Thread, HashAction(t), HashPhase(pc'[t], op'[t]) = HashPhase(pc[t], op[t]),
         HashOperation(op'[t]) = HashOperation(op[t]), UNCHANGED <<rec, result>>, In(buckets') = In(buckets)
  PROVE  UNCHANGED HashTables!Abstract!vars
<1>1. HashTables!Phase' = [HashTables!Phase EXCEPT ![t] = HashTables!Phase[t]]
      /\ HashTables!Operation' = [HashTables!Operation EXCEPT ![t] = HashTables!Operation[t]]
  BY HashPhaseNow
<1>2. UNCHANGED HashTables!Phase /\ UNCHANGED HashTables!Operation
  BY <1>1 DEF HashTables!Phase, HashTables!Operation
<1>3. UNCHANGED HashTables!Table
  BY TableIs, TableThen
<1> QED BY <1>2, <1>3 DEF HashTables!Abstract!vars

\* The steps with which an operation ends that has taken effect already.
LEMMA HashReturns ==
  ASSUME HashInv, NEW t \in Thread, HashAction(t), HashPhase(pc[t], op[t]) = "done",
         pc'[t] = "idle", op'[t] = op[t], UNCHANGED <<rec, result>>, In(buckets') = In(buckets)
  PROVE  HashTables!Abstract!Return(t)
<1>1. HashTables!Operation' = [HashTables!Operation EXCEPT ![t] = HashTables!Operation[t]]
  BY HashPhaseNow
<1>2. UNCHANGED HashTables!Operation
  BY <1>1 DEF HashTables!Operation
<1>3. UNCHANGED HashTables!Table
  BY TableIs, TableThen
<1> QED BY <1>2, <1>3, HashPhaseNow, HashPhases DEF HashTables!Abstract!Return

\* The steps in which an operation takes effect.
LEMMA HashEffects ==
  ASSUME HashInv, NEW t \in Thread, HashAction(t), NEW res,
         HashPhase(pc[t], op[t]) = "called", HashPhase(pc'[t], op'[t]) \in {"idle", "done"}, op'[t] = op[t],
         result' = [result EXCEPT ![t] = res]
  PROVE  HashTables!Abstract!Effect(t, res)
<1>1. HashTables!Operation' = [HashTables!Operation EXCEPT ![t] = HashTables!Operation[t]]
  BY HashPhaseNow
<1>2. UNCHANGED HashTables!Operation
  BY <1>1 DEF HashTables!Operation
<1> QED BY <1>2, HashPhaseNow DEF HashTables!Abstract!Effect

\* What a search finds in its chain is what RecordTable finds in the table.
LEMMA HashSeesAll ==
  ASSUME HashInv, NEW t \in Thread, pc[t] # "idle"
  PROVE  /\ HashTables!Abstract!SameKey(t) = {r \in In(buckets) : KeyOf[r] = KeyOf[rec[t]]}
         /\ HashTables!Found(rec[t]) = {r \in In(buckets) : KeyOf[r] = KeyOf[rec[t]]}
<1>1. BucketsGood(buckets) /\ rec[t] \in Record /\ HashTables!Table = In(buckets)
  BY TableIs DEF HashInv, CallInv, CallPlaces
<1>2. HashTables!Found(rec[t]) = {r \in In(buckets) : KeyOf[r] = KeyOf[rec[t]]}
  BY <1>1, FoundIs
<1> QED BY <1>1, <1>2 DEF HashTables!Abstract!SameKey

\* Every step is a step of RecordTable, or one that it does not see.
LEMMA HashStepImplements ==
  ASSUME HashInv, NEW t \in Thread, HashAction(t)
  PROVE  HashTables!Abstract!Next \/ UNCHANGED HashTables!Abstract!vars
<1>1. /\ CallTypes /\ CallPlaces /\ BucketsGood(buckets)
      /\ HashTables!Table = In(buckets) /\ HashTables!Table' = In(buckets')
  BY TableIs, TableThen DEF HashInv, CallInv
<1>n. /\ HashTables!Abstract!Invoke(t) \/ HashTables!Abstract!Return(t) \/ HashTables!Abstract!Refuse(t)
           => HashTables!Abstract!Next
      /\ HashTables!Abstract!Insert(t) \/ HashTables!Abstract!Delete(t) \/ HashTables!Abstract!Find(t)
           => HashTables!Abstract!Next
      /\ HashTables!Abstract!Apply(t) \/ HashTables!Abstract!DeleteIf(t) \/ HashTables!Abstract!Clear(t)
           => HashTables!Abstract!Next
  BY DEF HashTables!Abstract!Next
<1>2. CASE \E o \in OpNames, r \in Record : HashTables!Invoke(t, o, r)
  <2>1. PICK o \in OpNames, r \in Record : HashTables!Invoke(t, o, r)
    BY <1>2
  <2>2. /\ pc[t] = "idle" /\ pc'[t] \in {"lockShared", "lockExclusive"} /\ op'[t] = o /\ o # "Rehash"
        /\ rec' = [rec EXCEPT ![t] = r] /\ result' = [result EXCEPT ![t] = "NONE"] /\ buckets' = buckets
    BY <1>1, <2>1, HashConstants DEF HashTables!Invoke, HashTables!Goto, HashTables!Return, CallTypes
  <2>3. /\ HashTables!Phase[t] = "idle" /\ HashTables!Phase' = [HashTables!Phase EXCEPT ![t] = "called"]
        /\ HashTables!Operation' = [HashTables!Operation EXCEPT ![t] = o]
    <3>1. HashPhase(pc[t], op[t]) = "idle" /\ HashPhase(pc'[t], op'[t]) = "called" /\ HashOperation(op'[t]) = o
      BY <2>2, HashPhases DEF HashTables!Before, HashOperation
    <3> QED BY <3>1, HashPhaseNow
  <2> QED BY <1>1, <1>n, <2>2, <2>3 DEF HashTables!Abstract!Invoke
<1>3. CASE HashTables!NoNode(t)
  <2>1. /\ pc[t] = "lockShared" /\ pc'[t] = "idle" /\ op' = op /\ rec' = rec /\ buckets' = buckets
        /\ result' = [result EXCEPT ![t] = "ALLOC_FAIL"]
    BY <1>1, <1>3 DEF HashTables!NoNode, HashTables!Goto, HashTables!Return, CallTypes
  <2>2. HashTables!Abstract!Effect(t, "ALLOC_FAIL")
    <3>1. HashPhase(pc[t], op[t]) = "called" /\ HashPhase(pc'[t], op'[t]) \in {"idle", "done"}
      BY <2>1, HashPhases DEF HashTables!Before
    <3> QED BY <2>1, <3>1, HashEffects
  <2> QED BY <1>1, <1>n, <2>1, <2>2 DEF HashTables!Abstract!Refuse, HashTables!Abstract!Refusal
<1>4. CASE HashTables!LockShared(t) \/ HashTables!LockExclusive(t)
  <2>1. /\ rec' = rec /\ op' = op /\ result' = result /\ buckets' = buckets /\ pc'[t] = op[t]
        /\ \/ pc[t] = "lockShared" /\ op[t] \in HashTables!Shared
           \/ pc[t] = "lockExclusive" /\ op[t] \in ExclusiveOps
    BY <1>1, <1>4 DEF HashTables!LockShared, HashTables!LockExclusive, HashTables!Goto, HashTables!call,
       CallTypes, CallPlaces
  <2>2. HashPhase(pc'[t], op'[t]) = HashPhase(pc[t], op[t])
    BY <2>1, HashPhases DEF HashTables!Before, HashTables!Shared, ExclusiveOps
  <2> QED BY <1>1, <2>1, <2>2, HashStutters
<1>5. CASE HashTables!UnlockShared(t) \/ HashTables!UnlockExclusive(t)
  <2>1. /\ rec' = rec /\ op' = op /\ result' = result /\ buckets' = buckets /\ pc'[t] \in {"checkSize", "idle"}
        /\ pc[t] \in {"unlockShared", "unlockExclusive"}
    BY <1>1, <1>5 DEF HashTables!UnlockShared, HashTables!UnlockExclusive, HashTables!Goto, HashTables!call,
       CallTypes
  <2>2. HashPhase(pc[t], op[t]) = "done" /\ HashPhase("checkSize", op[t]) = "done"
    BY <2>1, HashPhases
  <2>3. CASE pc'[t] = "checkSize"
    BY <1>1, <2>1, <2>2, <2>3, HashStutters
  <2>4. CASE pc'[t] = "idle"
    BY <1>1, <1>n, <2>1, <2>2, <2>4, HashReturns
  <2> QED BY <2>1, <2>3, <2>4
<1>6. CASE HashTables!SearchToInsert(t)
  <2>1. /\ pc[t] = "Insert" /\ op[t] = "Insert" /\ op' = op /\ rec' = rec /\ buckets' = buckets
        /\ \/ /\ pc'[t] = "unlockShared" /\ HashTables!Found(rec[t]) # {}
              /\ result' = [result EXCEPT ![t] = "KEY_EXISTS"]
           \/ pc'[t] = "link" /\ result' = result
    BY <1>1, <1>6 DEF HashTables!SearchToInsert, HashTables!Goto, HashTables!Return, CallTypes, CallPlaces
  <2>2. CASE pc'[t] = "unlockShared" /\ HashTables!Found(rec[t]) # {} /\ result' = [result EXCEPT ![t] = "KEY_EXISTS"]
    <3>1. HashTables!Abstract!Effect(t, "KEY_EXISTS")
      <4>1. HashPhase(pc[t], op[t]) = "called" /\ HashPhase(pc'[t], op'[t]) \in {"idle", "done"}
        BY <2>1, <2>2, HashPhases DEF HashTables!Before
      <4> QED BY <2>1, <2>2, <4>1, HashEffects
    <3>2. HashTables!Abstract!SameKey(t) # {} /\ HashTables!Operation[t] = "Insert"
      BY <2>1, <2>2, HashSeesAll, HashPhaseNow DEF HashOperation
    <3> QED BY <1>1, <1>n, <2>1, <3>1, <3>2 DEF HashTables!Abstract!Insert
  <2>3. CASE pc'[t] = "link" /\ result' = result
    <3>1. HashPhase(pc'[t], op'[t]) = HashPhase(pc[t], op[t])
      BY <2>1, <2>3, HashPhases DEF HashTables!Before
    <3> QED BY <1>1, <2>1, <2>3, <3>1, HashStutters
  <2> QED BY <2>1, <2>2, <2>3
<1>7. CASE HashTables!Link(t)
  <2>0. pc[t] = "link" /\ op[t] = "Insert" /\ op' = op /\ rec' = rec
    BY <1>1, <1>7 DEF HashTables!Link, HashTables!Goto, CallPlaces
  <2>1. CASE HashTables!Behind(HashTables!Chain(rec[t]), prev[t]) = next[t]
    <3>1. /\ pc'[t] = "reference" /\ result' = [result EXCEPT ![t] = "SUCCESS"] /\ HashTables!Place(t)
      BY <1>1, <1>7, <2>1 DEF HashTables!Link, HashTables!Goto, HashTables!Return, CallTypes
    <3>2. In(buckets') = In(buckets) \cup {rec[t]} /\ \A s \in In(buckets) : KeyOf[s] # KeyOf[rec[t]]
      BY <2>0, <2>1, <3>1, LinkGrows DEF Grown
    <3>3. HashTables!Abstract!SameKey(t) = {} /\ HashTables!Operation[t] = "Insert"
      BY <2>0, <3>2, HashSeesAll, HashPhaseNow DEF HashOperation
    <3>4. HashTables!Abstract!Effect(t, "SUCCESS")
      <4>1. HashPhase(pc[t], op[t]) = "called" /\ HashPhase(pc'[t], op'[t]) \in {"idle", "done"}
        BY <2>0, <3>1, HashPhases DEF HashTables!Before
      <4> QED BY <2>0, <3>1, <4>1, HashEffects
    <3> QED BY <1>1, <1>n, <2>0, <3>2, <3>3, <3>4 DEF HashTables!Abstract!Insert
  <2>2. CASE HashTables!Behind(HashTables!Chain(rec[t]), prev[t]) # next[t]
    <3>1. pc'[t] = "Insert" /\ result' = result /\ buckets' = buckets
      BY <1>1, <1>7, <2>2 DEF HashTables!Link, HashTables!Goto, CallTypes
    <3>2. HashPhase(pc'[t], op'[t]) = HashPhase(pc[t], op[t])
      BY <2>0, <3>1, HashPhases DEF HashTables!Before
    <3> QED BY <1>1, <2>0, <3>1, <3>2, HashStutters
  <2> QED BY <2>1, <2>2
<1>8. CASE HashTables!Reference(t) \/ HashTables!IncrementItems(t) \/ HashTables!Take(t)
  <2>1. /\ rec' = rec /\ op' = op /\ result' = result /\ buckets' = buckets
        /\ pc[t] \in {"reference", "count", "take"} /\ pc'[t] \in {"count", "unlockShared"}
    BY <1>1, <1>8 DEF HashTables!Reference, HashTables!IncrementItems, HashTables!Take, HashTables!Goto,
       HashTables!call, CallTypes
  <2>2. HashPhase(pc'[t], op'[t]) = HashPhase(pc[t], op[t])
    BY <2>1, HashPhases
  <2> QED BY <1>1, <2>1, <2>2, HashStutters
<1>9. CASE HashTables!SearchToFind(t)
  <2>1. /\ pc[t] = "FindKey" /\ op[t] = "FindKey" /\ op' = op /\ buckets' = buckets
        /\ pc'[t] \in {"unlockShared", "take"}
        /\ \/ /\ HashTables!Found(rec[t]) = {} /\ rec' = rec
              /\ result' = [result EXCEPT ![t] = "NO_SUCH_KEY"]
           \/ /\ \E r \in HashTables!Found(rec[t]) : rec' = [rec EXCEPT ![t] = r]
              /\ result' = [result EXCEPT ![t] = "SUCCESS"]
    BY <1>1, <1>9 DEF HashTables!SearchToFind, HashTables!Goto, HashTables!Return, CallTypes, CallPlaces
  <2>2. HashTables!Abstract!SameKey(t) = HashTables!Found(rec[t]) /\ HashTables!Operation[t] = "FindKey"
    BY <2>1, HashSeesAll, HashPhaseNow DEF HashOperation
  <2>3. HashPhase(pc[t], op[t]) = "called" /\ HashPhase(pc'[t], op'[t]) = "done"
    BY <2>1, HashPhases DEF HashTables!Before
  <2>4. \A res : result' = [result EXCEPT ![t] = res] => HashTables!Abstract!Effect(t, res)
    BY <2>1, <2>3, HashEffects
  <2> QED BY <1>1, <1>n, <2>1, <2>2, <2>4 DEF HashTables!Abstract!Find
<1>10. CASE HashTables!ApplyNode(t)
  <2>1. pc' = pc /\ op' = op /\ rec' = rec /\ result' = result /\ buckets' = buckets
    BY <1>10 DEF HashTables!ApplyNode
  <2> QED BY <1>1, <2>1, HashStutters
<1>11. CASE HashTables!ApplyBucket(t)
  <2>1. /\ pc[t] = "Apply" /\ op[t] = "Apply" /\ op' = op /\ rec' = rec /\ buckets' = buckets
        /\ \/ pc' = pc /\ result' = result
           \/ pc'[t] = "unlockShared" /\ result' = [result EXCEPT ![t] = "SUCCESS"]
    BY <1>1, <1>11 DEF HashTables!ApplyBucket, HashTables!Goto, HashTables!Return, CallTypes, CallPlaces,
       ExclusiveOps
  <2>2. CASE pc' = pc /\ result' = result
    BY <1>1, <2>1, <2>2, HashStutters
  <2>3. CASE pc'[t] = "unlockShared" /\ result' = [result EXCEPT ![t] = "SUCCESS"]
    <3>1. HashTables!Abstract!Effect(t, "SUCCESS")
      <4>1. HashPhase(pc[t], op[t]) = "called" /\ HashPhase(pc'[t], op'[t]) \in {"idle", "done"}
        BY <2>1, <2>3, HashPhases DEF HashTables!Before
      <4> QED BY <2>1, <2>3, <4>1, HashEffects
    <3>2. HashTables!Operation[t] = "Apply"
      BY <2>1, HashPhaseNow DEF HashOperation
    <3> QED BY <1>1, <1>n, <2>1, <3>1, <3>2 DEF HashTables!Abstract!Apply
  <2> QED BY <2>1, <2>2, <2>3
<1>12. CASE HashTables!DeleteKey(t)
  <2> DEFINE gone == HashTables!Found(rec[t])
  <2>1. /\ pc[t] = "DeleteKey" /\ op[t] = "DeleteKey" /\ pc'[t] = "unlockExclusive" /\ op' = op /\ rec' = rec
        /\ HashTables!TakeOut(t, gone)
        /\ result' = [result EXCEPT ![t] = IF gone = {} THEN "NO_SUCH_KEY" ELSE "SUCCESS"]
    BY <1>1, <1>12 DEF HashTables!DeleteKey, HashTables!Goto, HashTables!Return, CallTypes, CallPlaces,
       ExclusiveOps
  <2>2. /\ HashTables!Abstract!SameKey(t) = gone /\ HashTables!Operation[t] = "DeleteKey"
        /\ gone \subseteq In(buckets)
    BY <2>1, HashSeesAll, HashPhaseNow DEF HashOperation
  <2> HIDE DEF gone
  <2>3. In(buckets') = In(buckets) \ gone
    BY <1>1, <2>1, <2>2, TakeOutIs DEF Thinned
  <2>4. HashTables!Abstract!Effect(t, IF gone = {} THEN "NO_SUCH_KEY" ELSE "SUCCESS")
    <3>1. HashPhase(pc[t], op[t]) = "called" /\ HashPhase(pc'[t], op'[t]) \in {"idle", "done"}
      BY <2>1, HashPhases DEF HashTables!Before
    <3> QED BY <2>1, <3>1, HashEffects
  <2> QED BY <1>1, <1>n, <2>1, <2>2, <2>3, <2>4 DEF HashTables!Abstract!Delete, HashTables!Abstract!Victims
<1>13. CASE HashTables!DeleteIf(t)
  <2>1. /\ pc[t] = "DeleteIf" /\ op[t] = "DeleteIf" /\ pc'[t] = "unlockExclusive" /\ op' = op /\ rec' = rec
        /\ \E gone \in SUBSET In(buckets) : HashTables!TakeOut(t, gone)
        /\ result' = [result EXCEPT ![t] = "SUCCESS"]
    BY <1>1, <1>13 DEF HashTables!DeleteIf, HashTables!Goto, HashTables!Return, CallTypes, CallPlaces,
       ExclusiveOps
  <2>2. PICK gone \in SUBSET In(buckets) : HashTables!TakeOut(t, gone)
    BY <2>1
  <2>3. In(buckets') = In(buckets) \ gone
    BY <1>1, <2>2, TakeOutIs DEF Thinned
  <2>4. HashTables!Abstract!Effect(t, "SUCCESS") /\ HashTables!Operation[t] = "DeleteIf"
    <3>1. HashPhase(pc[t], op[t]) = "called" /\ HashPhase(pc'[t], op'[t]) \in {"idle", "done"}
      BY <2>1, HashPhases DEF HashTables!Before
    <3>2. HashTables!Operation[t] = "DeleteIf"
      BY <2>1, HashPhaseNow DEF HashOperation
    <3> QED BY <2>1, <3>1, <3>2, HashEffects
  <2> QED BY <1>1, <1>n, <2>1, <2>3, <2>4 DEF HashTables!Abstract!DeleteIf
<1>14. CASE HashTables!Clear(t)
  <2>1. /\ pc[t] = "Clear" /\ op[t] = "Clear" /\ pc'[t] = "unlockExclusive" /\ op' = op /\ rec' = rec
        /\ HashTables!TakeOut(t, In(buckets)) /\ result' = [result EXCEPT ![t] = "SUCCESS"]
    BY <1>1, <1>14 DEF HashTables!Clear, HashTables!Goto, HashTables!Return, CallTypes, CallPlaces,
       ExclusiveOps
  <2>2. In(buckets') = {}
    BY <1>1, <2>1, TakeOutIs DEF Thinned
  <2>3. HashTables!Abstract!Effect(t, "SUCCESS") /\ HashTables!Operation[t] = "Clear"
    <3>1. HashPhase(pc[t], op[t]) = "called" /\ HashPhase(pc'[t], op'[t]) \in {"idle", "done"}
      BY <2>1, HashPhases DEF HashTables!Before
    <3>2. HashTables!Operation[t] = "Clear"
      BY <2>1, HashPhaseNow DEF HashOperation
    <3> QED BY <2>1, <3>1, <3>2, HashEffects
  <2> QED BY <1>1, <1>n, <2>1, <2>2, <2>3 DEF HashTables!Abstract!Clear
<1>15. CASE HashTables!CheckSize(t)
  <2>1. /\ pc[t] = "checkSize" /\ op[t] = "Insert" /\ rec' = rec /\ result' = result /\ buckets' = buckets
        /\ \/ pc'[t] = "idle" /\ op' = op
           \/ pc'[t] = "lockExclusive" /\ op'[t] = "Rehash"
    BY <1>1, <1>15 DEF HashTables!CheckSize, HashTables!Goto, CallTypes, CallPlaces
  <2>2. HashPhase(pc[t], op[t]) = "done" /\ HashPhase("lockExclusive", "Rehash") = "done"
        /\ HashOperation("Rehash") = HashOperation("Insert")
    BY <2>1, HashPhases DEF HashOperation
  <2>3. CASE pc'[t] = "idle" /\ op' = op
    BY <1>1, <1>n, <2>1, <2>2, <2>3, HashReturns
  <2>4. CASE pc'[t] = "lockExclusive" /\ op'[t] = "Rehash"
    BY <1>1, <2>1, <2>2, <2>4, HashStutters
  <2> QED BY <2>1, <2>3, <2>4
<1>16. CASE HashTables!Rehash(t)
  <2>1. /\ pc[t] = "Rehash" /\ pc'[t] = "unlockExclusive" /\ op' = op /\ rec' = rec /\ result' = result
    BY <1>1, <1>16 DEF HashTables!Rehash, HashTables!Goto, HashTables!call, CallTypes
  <2>2. In(buckets') = In(buckets)
    BY <1>1, <1>16, RehashIs
  <2>3. HashPhase(pc'[t], op'[t]) = HashPhase(pc[t], op[t])
    BY <2>1, HashPhases
  <2> QED BY <2>1, <2>2, <2>3, HashStutters
<1> QED BY <1>2, <1>3, <1>4, <1>5, <1>6, <1>7, <1>8, <1>9, <1>10, <1>11, <1>12, <1>13, <1>14, <1>15, <1>16,
           Zenon DEF HashAction, HashTables!Step

\* HASH_TABLE (hashtable.h) implements an atomic set of records with distinct
\* keys, whatever the number of threads, records and buckets.
THEOREM HashAlwaysImplements == PartSpec => HashImplements
<1>1. PartInit => HashInv /\ HashTables!Abstract!Init
  <2> SUFFICES ASSUME HashTables!Init PROVE HashTables!Abstract!Init
    BY HashStart DEF PartInit
  <2>1. BucketsGood(buckets) /\ HashTables!Table = In(buckets)
    BY HashStart, TableIs DEF HashInv
  <2>2. \A u \in Thread : pc[u] = "idle"
    BY DEF HashTables!Init
  <2>3. HashTables!Phase = [u \in Thread |-> "idle"]
    <3>1. HashTables!Phase = [u \in Thread |-> HashPhase(pc[u], op[u])]
      BY DEF HashTables!Phase, HashPhase
    <3> HIDE DEF HashPhase
    <3> QED BY <2>2, <3>1, HashPhases
  <2>4. result = [u \in Thread |-> "NONE"]
    BY DEF HashTables!Init
  <2>5. \A r, s \in In(buckets) : KeyOf[r] = KeyOf[s] => r = s
    BY <2>1, BucketFacts
  <2> QED BY <2>1, <2>3, <2>4, <2>5 DEF HashTables!Abstract!Init
<1>2. HashInv /\ [PartNext]_partVars => HashInv'
  BY HashSteps, HashKept
<1>3. HashInv /\ [PartNext]_partVars =>
        [part = "hash" => HashTables!Abstract!Next]_(HashTables!Abstract!vars)
  <2> SUFFICES ASSUME HashInv, [PartNext]_partVars
               PROVE  HashTables!Abstract!Next \/ UNCHANGED HashTables!Abstract!vars
    BY Zenon
  <2>1. [HashTables!Next]_(HashTables!vars)
    BY HashSteps
  <2>2. CASE HashTables!Next
    BY <2>2, HashStepImplements DEF HashTables!Next, HashAction
  <2>3. CASE UNCHANGED HashTables!vars
    BY <2>3 DEF HashTables!vars, HashTables!lock, HashTables!call, HashTables!locals, HashTables!Abstract!vars,
       HashTables!Phase, HashTables!Operation, HashTables!Table
  <2> QED BY <2>1, <2>2, <2>3
<1> QED BY <1>1, <1>2, <1>3, PTL DEF PartSpec, HashImplements

=============================================================================
