---------------------------- MODULE ClumpsProofs ----------------------------
(***************************************************************************)
(* Theorems about the bucket chains of NodeClumps, in the suite's          *)
(* PartSpec, for any records and any number of nodes per clump: chains     *)
(* stay compact, the clumps allocated beforehand are enough for a split or *)
(* a merge, and loops that remove records meet every record once.          *)
(***************************************************************************)
EXTENDS MCStructures, FiniteSetTheorems, TLAPS

LEMMA ClumpConstants ==
  /\ NODES_PER_CLUMP \in Nat \ {0} /\ NullRecord \notin ClumpRecord
  /\ SplitHomes \subseteq SUBSET ClumpRecord
  /\ Clumps!Slots = 0 .. NODES_PER_CLUMP - 1
BY StructuresAssumption DEF Clumps!ClumpAssumption, Clumps!Slots

\* An instance has its own copies of these operators.
LEMMA ClumpSizes ==
  \A S : Clumps!Cardinality(S) = Cardinality(S) /\ (Clumps!IsFiniteSet(S) <=> IsFiniteSet(S))
<1>1. \A S : Clumps!IsFiniteSet(S) <=> IsFiniteSet(S)
  BY DEF Clumps!IsFiniteSet, IsFiniteSet
<1>2. \A S : Clumps!Cardinality(S) = Cardinality(S)
  BY <1>1 DEF Clumps!Cardinality, Cardinality
<1> QED BY <1>1, <1>2

\* What the clumps do in a step of the suite is a step of NodeClumps.
LEMMA ClumpSteps ==
  ASSUME [PartNext]_partVars
  PROVE  [Clumps!Next]_(Clumps!clumpVars)
BY Zenon DEF PartNext, partVars, clumpVars, Clumps!clumpVars, Clumps!chainVars, Clumps!splitVars

-----------------------------------------------------------------------------
(* Chains                                                                  *)

Chain == Seq(Clumps!Clump)

\* A compact chain: the first k slots of the last clump are used, and all
\* those of the others.
Packed(chain, k) ==
  /\ chain \in Chain /\ Len(chain) >= 1 /\ k \in 0 .. NODES_PER_CLUMP
  /\ Len(chain) > 1 => k >= 1
  /\ \A j \in 1 .. Len(chain), i \in Clumps!Slots :
       chain[j][i] # NullRecord <=> j < Len(chain) \/ i < k

\* The same of an old chain, but for the records before slot <<c, s>>, which
\* have been moved.
PackedFrom(old, k, c, s) ==
  /\ old \in Chain /\ Len(old) >= 1 /\ k \in 0 .. NODES_PER_CLUMP
  /\ Len(old) > 1 => k >= 1
  /\ c \in 1 .. Len(old) /\ s \in 0 .. NODES_PER_CLUMP
  /\ \A j \in 1 .. Len(old), i \in Clumps!Slots :
       old[j][i] # NullRecord <=> (j < Len(old) \/ i < k) /\ (c < j \/ (c = j /\ s <= i))

\* No record is twice in a chain.
Single(chain) ==
  \A p, q \in Clumps!UsedSlots(chain) : chain[p[1]][p[2]] = chain[q[1]][q[2]] => p = q

\* The records in slot <<c, s>> and behind it.
From(chain, c, s) ==
  {chain[q[1]][q[2]] : q \in {q \in Clumps!UsedSlots(chain) : ~Clumps!Before(q, <<c, s>>)}}

LEMMA ClumpChainFacts ==
  ASSUME NEW chain \in Chain
  PROVE  /\ Len(chain) \in Nat /\ DOMAIN chain = 1 .. Len(chain)
         /\ \A j \in 1 .. Len(chain) : chain[j] \in Clumps!Clump
         /\ \A j \in 1 .. Len(chain), i \in Clumps!Slots : chain[j][i] \in ClumpRecord \cup {NullRecord}
BY DEF Chain, Clumps!Clump

LEMMA UsedMeans ==
  ASSUME NEW chain \in Chain
  PROVE  \A p : p \in Clumps!UsedSlots(chain) <=>
                  /\ p \in (1 .. Len(chain)) \X Clumps!Slots
                  /\ chain[p[1]][p[2]] # NullRecord
BY ClumpChainFacts DEF Clumps!UsedSlots

\* The same of a slot given by its two numbers.
LEMMA UsedAt ==
  ASSUME NEW chain \in Chain, NEW c, NEW s
  PROVE  <<c, s>> \in Clumps!UsedSlots(chain) <=>
           c \in 1 .. Len(chain) /\ s \in Clumps!Slots /\ chain[c][s] # NullRecord
BY UsedMeans

LEMMA InRecords ==
  ASSUME NEW chain \in Chain, NEW r
  PROVE  r \in Clumps!RecordsIn(chain) <=>
           \E p \in Clumps!UsedSlots(chain) : r = chain[p[1]][p[2]]
BY DEF Clumps!RecordsIn

LEMMA InFrom ==
  ASSUME NEW chain \in Chain, NEW c, NEW s, NEW r
  PROVE  r \in From(chain, c, s) <=>
           \E p \in Clumps!UsedSlots(chain) :
             ~Clumps!Before(p, <<c, s>>) /\ r = chain[p[1]][p[2]]
BY DEF From

LEMMA RecordsAreRecords ==
  ASSUME NEW chain \in Chain
  PROVE  Clumps!RecordsIn(chain) \subseteq ClumpRecord
BY ClumpChainFacts, UsedMeans, InRecords

LEMMA EmptyChainFacts ==
  /\ Packed(Clumps!EmptyChain, 0) /\ Clumps!EmptyChain \in Chain /\ Len(Clumps!EmptyChain) = 1
  /\ Clumps!UsedSlots(Clumps!EmptyChain) = {} /\ Clumps!RecordsIn(Clumps!EmptyChain) = {}
  /\ Single(Clumps!EmptyChain)
<1>1. Clumps!EmptyClump \in Clumps!Clump
  BY DEF Clumps!EmptyClump, Clumps!Clump
<1>2. Clumps!EmptyChain \in Chain /\ Len(Clumps!EmptyChain) = 1
  BY <1>1 DEF Clumps!EmptyChain, Chain
<1>3. \A i \in Clumps!Slots : Clumps!EmptyChain[1][i] = NullRecord
  BY DEF Clumps!EmptyClump, Clumps!EmptyChain
<1>4. Clumps!UsedSlots(Clumps!EmptyChain) = {}
  BY <1>2, <1>3, UsedMeans
<1>5. Packed(Clumps!EmptyChain, 0)
  BY <1>2, <1>3, ClumpConstants DEF Packed
<1> QED BY <1>2, <1>4, <1>5 DEF Single, Clumps!RecordsIn

\* The old list when nothing is moved.
LEMMA NoChainFacts ==
  /\ <<>> \in Chain /\ Len(<<>>) = 0
  /\ Clumps!UsedSlots(<<>>) = {} /\ Clumps!RecordsIn(<<>>) = {} /\ Single(<<>>)
<1>1. <<>> \in Chain /\ Len(<<>>) = 0
  BY DEF Chain
<1>2. Clumps!UsedSlots(<<>>) = {}
  BY <1>1, UsedMeans
<1> QED BY <1>1, <1>2 DEF Single, Clumps!RecordsIn

\* What becomes of a chain, in one slot, with one clump more or one less.
PutAt(chain, j, i, r) == [chain EXCEPT ![j][i] = r]
WithClump(chain, r) == Append(chain, [Clumps!EmptyClump EXCEPT ![0] = r])
WithoutClump(chain) == SubSeq(chain, 1, Len(chain) - 1)

LEMMA Put ==
  ASSUME NEW chain \in Chain, NEW j \in 1 .. Len(chain), NEW i \in Clumps!Slots,
         NEW r \in ClumpRecord \cup {NullRecord}
  PROVE  /\ PutAt(chain, j, i, r) \in Chain /\ Len(PutAt(chain, j, i, r)) = Len(chain)
         /\ \A c \in 1 .. Len(chain), s \in Clumps!Slots :
              PutAt(chain, j, i, r)[c][s] = IF c = j /\ s = i THEN r ELSE chain[c][s]
<1> DEFINE new == PutAt(chain, j, i, r)
<1>1. chain[j] \in Clumps!Clump /\ Len(chain) \in Nat /\ DOMAIN chain = 1 .. Len(chain)
  BY ClumpChainFacts
<1>2. [chain[j] EXCEPT ![i] = r] \in Clumps!Clump
  BY <1>1 DEF Clumps!Clump
<1>3. new \in Chain /\ Len(new) = Len(chain)
  BY <1>1, <1>2 DEF Chain, PutAt
<1>4. \A c \in 1 .. Len(chain) : new[c] = IF c = j THEN [chain[j] EXCEPT ![i] = r] ELSE chain[c]
  BY <1>1 DEF PutAt
<1>5. \A s \in Clumps!Slots : [chain[j] EXCEPT ![i] = r][s] = IF s = i THEN r ELSE chain[j][s]
  BY <1>1 DEF Clumps!Clump
<1> QED BY <1>3, <1>4, <1>5

LEMMA Added ==
  ASSUME NEW chain \in Chain, NEW r \in ClumpRecord
  PROVE  /\ WithClump(chain, r) \in Chain /\ Len(WithClump(chain, r)) = Len(chain) + 1
         /\ \A c \in 1 .. Len(chain) : WithClump(chain, r)[c] = chain[c]
         /\ \A s \in Clumps!Slots :
              WithClump(chain, r)[Len(chain) + 1][s] = IF s = 0 THEN r ELSE NullRecord
<1> DEFINE new == WithClump(chain, r)
<1>1. [Clumps!EmptyClump EXCEPT ![0] = r] \in Clumps!Clump
  BY ClumpConstants DEF Clumps!EmptyClump, Clumps!Clump
<1>2. Len(chain) \in Nat /\ DOMAIN chain = 1 .. Len(chain)
  BY ClumpChainFacts
<1>3. /\ new \in Chain /\ Len(new) = Len(chain) + 1
      /\ \A c \in 1 .. Len(chain) : new[c] = chain[c]
      /\ new[Len(chain) + 1] = [Clumps!EmptyClump EXCEPT ![0] = r]
  BY <1>1, <1>2 DEF Chain, WithClump
<1> QED BY <1>3, ClumpConstants DEF Clumps!EmptyClump

LEMMA Shortened ==
  ASSUME NEW chain \in Chain, Len(chain) > 1
  PROVE  /\ WithoutClump(chain) \in Chain /\ Len(WithoutClump(chain)) = Len(chain) - 1
         /\ \A c \in 1 .. Len(chain) - 1 : WithoutClump(chain)[c] = chain[c]
<1>1. Len(chain) \in Nat /\ DOMAIN chain = 1 .. Len(chain)
  BY ClumpChainFacts
<1> QED BY <1>1 DEF Chain, WithoutClump

-----------------------------------------------------------------------------
(* What a record that comes or goes does to the chain as a whole           *)

\* r is in one slot more, behind the others.
ChainGrown(chain, new, r) ==
  \E q \in Clumps!UsedSlots(new) :
    /\ q \notin Clumps!UsedSlots(chain) /\ new[q[1]][q[2]] = r
    /\ Clumps!UsedSlots(new) = Clumps!UsedSlots(chain) \cup {q}
    /\ \A p \in Clumps!UsedSlots(chain) : new[p[1]][p[2]] = chain[p[1]][p[2]] /\ Clumps!Before(p, q)

\* The record at p is replaced by that in the last slot, which is empty then.
Shrunk(chain, new, p) ==
  \E z \in Clumps!UsedSlots(chain) :
    /\ p \in Clumps!UsedSlots(chain)
    /\ Clumps!UsedSlots(new) = Clumps!UsedSlots(chain) \ {z}
    /\ \A q \in Clumps!UsedSlots(chain) \ {z} : Clumps!Before(q, z)
    /\ \A q \in Clumps!UsedSlots(new) :
         new[q[1]][q[2]] = IF q = p THEN chain[z[1]][z[2]] ELSE chain[q[1]][q[2]]

\* The slot p is empty then.
Emptied(chain, new, p) ==
  /\ p \in Clumps!UsedSlots(chain)
  /\ Clumps!UsedSlots(new) = Clumps!UsedSlots(chain) \ {p}
  /\ \A q \in Clumps!UsedSlots(new) : new[q[1]][q[2]] = chain[q[1]][q[2]]

LEMMA GrownRecords ==
  ASSUME NEW chain \in Chain, NEW new \in Chain, NEW r, ChainGrown(chain, new, r)
  PROVE  /\ Clumps!RecordsIn(new) = Clumps!RecordsIn(chain) \cup {r}
         /\ Single(chain) /\ r \notin Clumps!RecordsIn(chain) => Single(new)
         /\ \A c, s : <<c, s>> \in Clumps!UsedSlots(chain) =>
              From(new, c, s) = From(chain, c, s) \cup {r}
<1>1. PICK q \in Clumps!UsedSlots(new) :
        /\ q \notin Clumps!UsedSlots(chain) /\ new[q[1]][q[2]] = r
        /\ Clumps!UsedSlots(new) = Clumps!UsedSlots(chain) \cup {q}
        /\ \A p \in Clumps!UsedSlots(chain) :
             new[p[1]][p[2]] = chain[p[1]][p[2]] /\ Clumps!Before(p, q)
  BY Zenon DEF ChainGrown
<1>2. \A x : x \in Clumps!RecordsIn(new) <=> x \in Clumps!RecordsIn(chain) \cup {r}
  BY <1>1, InRecords
<1>3. ASSUME Single(chain), r \notin Clumps!RecordsIn(chain) PROVE Single(new)
  <2> SUFFICES ASSUME NEW p1 \in Clumps!UsedSlots(new), NEW p2 \in Clumps!UsedSlots(new),
                      new[p1[1]][p1[2]] = new[p2[1]][p2[2]]
               PROVE  p1 = p2
    BY DEF Single
  <2>1. \A p \in Clumps!UsedSlots(chain) : new[p[1]][p[2]] # r
    BY <1>1, <1>3, InRecords
  <2> QED BY <1>1, <1>3, <2>1 DEF Single
<1>4. ASSUME NEW c, NEW s, <<c, s>> \in Clumps!UsedSlots(chain)
      PROVE  From(new, c, s) = From(chain, c, s) \cup {r}
  <2>1. ~Clumps!Before(q, <<c, s>>)
    <3>1. Clumps!Before(<<c, s>>, q) /\ q \in (1 .. Len(new)) \X Clumps!Slots
          /\ <<c, s>> \in (1 .. Len(chain)) \X Clumps!Slots
      BY <1>1, <1>4, UsedMeans
    <3> QED BY <3>1, ClumpConstants, ClumpChainFacts DEF Clumps!Before
  <2>2. \A x : x \in From(new, c, s) <=> x \in From(chain, c, s) \cup {r}
    BY <1>1, <2>1, InFrom
  <2> QED BY <2>2
<1> QED BY <1>2, <1>3, <1>4

LEMMA EmptiedRecords ==
  ASSUME NEW chain \in Chain, NEW new \in Chain, NEW p, Emptied(chain, new, p), Single(chain)
  PROVE  /\ Clumps!RecordsIn(new) = Clumps!RecordsIn(chain) \ {chain[p[1]][p[2]]}
         /\ Single(new)
<1>1. \A x : x \in Clumps!RecordsIn(new) <=>
               x \in Clumps!RecordsIn(chain) /\ x # chain[p[1]][p[2]]
  BY InRecords DEF Emptied, Single
<1>2. Single(new)
  BY DEF Emptied, Single
<1> QED BY <1>1, <1>2

LEMMA ShrunkRecords ==
  ASSUME NEW chain \in Chain, NEW new \in Chain, NEW c, NEW s, Shrunk(chain, new, <<c, s>>),
         Single(chain)
  PROVE  /\ Clumps!RecordsIn(new) = Clumps!RecordsIn(chain) \ {chain[c][s]}
         /\ Single(new)
         /\ From(new, c, s) = From(chain, c, s) \ {chain[c][s]}
<1>1. PICK z \in Clumps!UsedSlots(chain) :
        /\ <<c, s>> \in Clumps!UsedSlots(chain)
        /\ Clumps!UsedSlots(new) = Clumps!UsedSlots(chain) \ {z}
        /\ \A q \in Clumps!UsedSlots(chain) \ {z} : Clumps!Before(q, z)
        /\ \A q \in Clumps!UsedSlots(new) :
             new[q[1]][q[2]] = IF q = <<c, s>> THEN chain[z[1]][z[2]] ELSE chain[q[1]][q[2]]
  BY Zenon DEF Shrunk
<1>2. \A p, q \in Clumps!UsedSlots(chain) : chain[p[1]][p[2]] = chain[q[1]][q[2]] => p = q
  BY DEF Single
<1>3. <<c, s>>[1] = c /\ <<c, s>>[2] = s
  OBVIOUS
<1>4. \A x : x \in Clumps!RecordsIn(new) <=> x \in Clumps!RecordsIn(chain) /\ x # chain[c][s]
  <2> TAKE x
  <2>1. ASSUME x \in Clumps!RecordsIn(new) PROVE x \in Clumps!RecordsIn(chain) /\ x # chain[c][s]
    <3>1. PICK q \in Clumps!UsedSlots(new) : x = new[q[1]][q[2]]
      BY <2>1, InRecords
    <3>2. CASE q = <<c, s>>
      BY <1>1, <1>2, <1>3, <3>1, <3>2, InRecords
    <3>3. CASE q # <<c, s>>
      BY <1>1, <1>2, <1>3, <3>1, <3>3, InRecords
    <3> QED BY <3>2, <3>3
  <2>2. ASSUME x \in Clumps!RecordsIn(chain), x # chain[c][s] PROVE x \in Clumps!RecordsIn(new)
    <3>1. PICK q \in Clumps!UsedSlots(chain) : x = chain[q[1]][q[2]]
      BY <2>2, InRecords
    <3>2. CASE q = z
      <4>1. <<c, s>> # z
        BY <1>3, <2>2, <3>1, <3>2
      <4>2. <<c, s>> \in Clumps!UsedSlots(new) /\ new[c][s] = x
        BY <1>1, <1>3, <3>1, <3>2, <4>1
      <4> QED BY <1>3, <4>2, InRecords
    <3>3. CASE q # z
      BY <1>1, <1>3, <2>2, <3>1, <3>3, InRecords
    <3> QED BY <3>2, <3>3
  <2> QED BY <2>1, <2>2
<1>5. Single(new)
  <2> SUFFICES ASSUME NEW p1 \in Clumps!UsedSlots(new), NEW p2 \in Clumps!UsedSlots(new),
                      new[p1[1]][p1[2]] = new[p2[1]][p2[2]]
               PROVE  p1 = p2
    BY DEF Single
  <2>1. p1 # z /\ p2 # z /\ p1 \in Clumps!UsedSlots(chain) /\ p2 \in Clumps!UsedSlots(chain)
    BY <1>1
  <2>2. new[p1[1]][p1[2]] = IF p1 = <<c, s>> THEN chain[z[1]][z[2]] ELSE chain[p1[1]][p1[2]]
    BY <1>1
  <2>3. new[p2[1]][p2[2]] = IF p2 = <<c, s>> THEN chain[z[1]][z[2]] ELSE chain[p2[1]][p2[2]]
    BY <1>1
  <2> QED BY <1>2, <2>1, <2>2, <2>3
<1>6. \A q \in Clumps!UsedSlots(chain) : q \in (1 .. Len(chain)) \X Clumps!Slots
  BY UsedMeans
<1>7. ~Clumps!Before(<<c, s>>, <<c, s>>)
  BY <1>1, <1>6, ClumpConstants, ClumpChainFacts DEF Clumps!Before
<1>8. ~Clumps!Before(z, <<c, s>>)
  <2>1. CASE z = <<c, s>>
    BY <1>7, <2>1
  <2>2. CASE z # <<c, s>>
    <3>1. Clumps!Before(<<c, s>>, z)
      BY <1>1, <2>2
    <3> QED BY <1>1, <1>6, <3>1, ClumpConstants, ClumpChainFacts DEF Clumps!Before
  <2> QED BY <2>1, <2>2
<1>9. \A x : x \in From(new, c, s) <=> x \in From(chain, c, s) /\ x # chain[c][s]
  <2> TAKE x
  <2>1. ASSUME x \in From(new, c, s) PROVE x \in From(chain, c, s) /\ x # chain[c][s]
    <3>1. PICK q \in Clumps!UsedSlots(new) : ~Clumps!Before(q, <<c, s>>) /\ x = new[q[1]][q[2]]
      BY <2>1, InFrom
    <3>2. CASE q = <<c, s>>
      BY <1>1, <1>2, <1>3, <1>8, <3>1, <3>2, InFrom
    <3>3. CASE q # <<c, s>>
      BY <1>1, <1>2, <1>3, <3>1, <3>3, InFrom
    <3> QED BY <3>2, <3>3
  <2>2. ASSUME x \in From(chain, c, s), x # chain[c][s] PROVE x \in From(new, c, s)
    <3>1. PICK q \in Clumps!UsedSlots(chain) : ~Clumps!Before(q, <<c, s>>) /\ x = chain[q[1]][q[2]]
      BY <2>2, InFrom
    <3>2. CASE q = z
      <4>1. <<c, s>> # z
        BY <1>3, <2>2, <3>1, <3>2
      <4>2. <<c, s>> \in Clumps!UsedSlots(new) /\ new[c][s] = x
        BY <1>1, <1>3, <3>1, <3>2, <4>1
      <4> QED BY <1>3, <1>7, <4>2, InFrom
    <3>3. CASE q # z
      BY <1>1, <1>3, <2>2, <3>1, <3>3, InFrom
    <3> QED BY <3>2, <3>3
  <2> QED BY <2>1, <2>2
<1> QED BY <1>4, <1>5, <1>9

-----------------------------------------------------------------------------
(* What the code does to a compact chain                                   *)

\* The slots in use, and the empty ones.
LEMMA PackedSlots ==
  ASSUME NEW chain, NEW k, Packed(chain, k)
  PROVE  /\ chain \in Chain /\ Len(chain) \in Nat \ {0}
         /\ \A p : p \in Clumps!UsedSlots(chain) <=>
              p \in (1 .. Len(chain)) \X Clumps!Slots /\ (p[1] < Len(chain) \/ p[2] < k)
         /\ \A p : p \in Clumps!EmptySlots(chain) <=>
              p \in {Len(chain)} \X Clumps!Slots /\ p[2] >= k
<1>1. chain \in Chain /\ Len(chain) \in Nat \ {0} /\ k \in 0 .. NODES_PER_CLUMP
  BY ClumpChainFacts DEF Packed
<1>2. \A p : p \in Clumps!UsedSlots(chain) <=>
         p \in (1 .. Len(chain)) \X Clumps!Slots /\ (p[1] < Len(chain) \/ p[2] < k)
  BY <1>1, UsedMeans DEF Packed
<1>3. \A p : p \in Clumps!EmptySlots(chain) <=>
         p \in (1 .. Len(chain)) \X Clumps!Slots /\ p \notin Clumps!UsedSlots(chain)
  BY <1>1, ClumpChainFacts DEF Clumps!EmptySlots
<1>4. \A p : p \in (1 .. Len(chain)) \X Clumps!Slots =>
         ((~(p[1] < Len(chain) \/ p[2] < k)) <=> p[1] = Len(chain) /\ p[2] >= k)
  BY <1>1, ClumpConstants
<1>5. \A p : p \in {Len(chain)} \X Clumps!Slots <=>
         p \in (1 .. Len(chain)) \X Clumps!Slots /\ p[1] = Len(chain)
  BY <1>1
<1> QED BY <1>1, <1>2, <1>3, <1>4, <1>5

\* A record is put into the first empty slot.
LEMMA PutGrows ==
  ASSUME NEW chain, NEW k, Packed(chain, k), k < NODES_PER_CLUMP, NEW r \in ClumpRecord,
         NEW new, new = PutAt(chain, Len(chain), k, r)
  PROVE  /\ Packed(new, k + 1) /\ Len(new) = Len(chain) /\ ChainGrown(chain, new, r)
<1>1. /\ chain \in Chain /\ Len(chain) \in Nat \ {0} /\ k \in Clumps!Slots /\ r # NullRecord
      /\ Len(chain) \in 1 .. Len(chain) /\ r \in ClumpRecord \cup {NullRecord}
  BY PackedSlots, ClumpConstants DEF Packed
<1>2. /\ new \in Chain /\ Len(new) = Len(chain)
      /\ \A c \in 1 .. Len(chain), s \in Clumps!Slots :
           new[c][s] = IF c = Len(chain) /\ s = k THEN r ELSE chain[c][s]
  <2> DEFINE j == Len(chain)
  <2>1. j \in 1 .. Len(chain)
    BY <1>1
  <2> HIDE DEF j
  <2>2. /\ PutAt(chain, j, k, r) \in Chain /\ Len(PutAt(chain, j, k, r)) = Len(chain)
        /\ \A c \in 1 .. Len(chain), s \in Clumps!Slots :
             PutAt(chain, j, k, r)[c][s] = IF c = j /\ s = k THEN r ELSE chain[c][s]
    BY <1>1, <2>1, Put
  <2> QED BY <2>2 DEF j
<1>3. Packed(new, k + 1)
  <2>1. \A j \in 1 .. Len(chain), i \in Clumps!Slots :
          new[j][i] # NullRecord <=> j < Len(chain) \/ i < k + 1
    BY <1>1, <1>2, ClumpConstants DEF Packed
  <2> QED BY <1>1, <1>2, <2>1, ClumpConstants DEF Packed
<1>4. ChainGrown(chain, new, r)
  <2>1. <<Len(chain), k>> \in Clumps!UsedSlots(new) /\ <<Len(chain), k>> \notin Clumps!UsedSlots(chain)
    BY <1>1, <1>2, UsedAt DEF Packed
  <2>2. new[Len(chain)][k] = r
    BY <1>1, <1>2
  <2>3. \A p : p \in Clumps!UsedSlots(new) <=>
               p \in Clumps!UsedSlots(chain) \cup {<<Len(chain), k>>}
    BY <1>1, <1>2, UsedMeans
  <2>4. \A p \in Clumps!UsedSlots(chain) : new[p[1]][p[2]] = chain[p[1]][p[2]]
    BY <1>1, <1>2, <2>1, UsedMeans
  <2>5. \A p \in Clumps!UsedSlots(chain) : Clumps!Before(p, <<Len(chain), k>>)
    BY <1>1, PackedSlots, ClumpConstants DEF Clumps!Before
  <2> QED BY <2>1, <2>2, <2>3, <2>4, <2>5 DEF ChainGrown
<1> QED BY <1>2, <1>3, <1>4

\* All slots are used: a record comes with a clump.
LEMMA AddGrows ==
  ASSUME NEW chain, Packed(chain, NODES_PER_CLUMP), NEW r \in ClumpRecord,
         NEW new, new = WithClump(chain, r)
  PROVE  /\ Packed(new, 1) /\ Len(new) = Len(chain) + 1 /\ ChainGrown(chain, new, r)
<1>1. chain \in Chain /\ Len(chain) \in Nat \ {0} /\ 0 \in Clumps!Slots /\ r # NullRecord
  BY PackedSlots, ClumpConstants DEF Packed
<1>2. /\ new \in Chain /\ Len(new) = Len(chain) + 1
      /\ \A c \in 1 .. Len(chain) : new[c] = chain[c]
      /\ \A s \in Clumps!Slots : new[Len(chain) + 1][s] = IF s = 0 THEN r ELSE NullRecord
  BY <1>1, Added
<1>3. \A j \in 1 .. Len(chain), i \in Clumps!Slots : chain[j][i] # NullRecord
  BY ClumpConstants DEF Packed
<1>4. Packed(new, 1)
  <2>1. \A j \in 1 .. Len(chain) + 1, i \in Clumps!Slots :
          new[j][i] # NullRecord <=> j < Len(chain) + 1 \/ i < 1
    BY <1>1, <1>2, <1>3, ClumpConstants
  <2> QED BY <1>1, <1>2, <2>1, ClumpConstants DEF Packed
<1>5. ChainGrown(chain, new, r)
  <2>1. <<Len(chain) + 1, 0>> \in Clumps!UsedSlots(new)
        /\ <<Len(chain) + 1, 0>> \notin Clumps!UsedSlots(chain)
    BY <1>1, <1>2, UsedAt
  <2>2. new[Len(chain) + 1][0] = r
    BY <1>1, <1>2
  <2>3. \A p : p \in Clumps!UsedSlots(new) <=>
               p \in Clumps!UsedSlots(chain) \cup {<<Len(chain) + 1, 0>>}
    <3> TAKE p
    <3>1. p \in Clumps!UsedSlots(new) <=>
            p \in (1 .. Len(chain) + 1) \X Clumps!Slots /\ new[p[1]][p[2]] # NullRecord
      BY <1>2, UsedMeans
    <3>2. p \in Clumps!UsedSlots(chain) <=>
            p \in (1 .. Len(chain)) \X Clumps!Slots /\ chain[p[1]][p[2]] # NullRecord
      BY <1>1, UsedMeans
    <3>3. CASE p \in (1 .. Len(chain)) \X Clumps!Slots
      BY <1>1, <1>2, <3>1, <3>2, <3>3
    <3>4. CASE p \in {Len(chain) + 1} \X Clumps!Slots
      BY <1>1, <1>2, <3>1, <3>2, <3>4
    <3> QED BY <1>1, <2>1, <3>1, <3>2, <3>3, <3>4
  <2>4. \A p \in Clumps!UsedSlots(chain) : new[p[1]][p[2]] = chain[p[1]][p[2]]
    BY <1>1, <1>2, UsedMeans
  <2>5. \A p \in Clumps!UsedSlots(chain) : Clumps!Before(p, <<Len(chain) + 1, 0>>)
    BY <1>1, PackedSlots, ClumpConstants DEF Clumps!Before
  <2> QED BY <2>1, <2>2, <2>3, <2>4, <2>5 DEF ChainGrown
<1> QED BY <1>2, <1>4, <1>5

LEMMA LastUsedIs ==
  ASSUME NEW chain, NEW k, Packed(chain, k), k >= 1
  PROVE  Clumps!LastUsed(chain[Len(chain)]) = k - 1 /\ k - 1 \in Clumps!Slots
<1>1. chain \in Chain /\ Len(chain) \in Nat \ {0} /\ k - 1 \in Clumps!Slots /\ k \in 1 .. NODES_PER_CLUMP
      /\ \A i \in Clumps!Slots : chain[Len(chain)][i] # NullRecord <=> i < k
  BY PackedSlots, ClumpConstants DEF Packed
<1> DEFINE Last(i) == /\ \A n \in 0 .. i : chain[Len(chain)][n] # NullRecord
                      /\ i + 1 \in Clumps!Slots => chain[Len(chain)][i + 1] = NullRecord
<1>2. Last(k - 1)
  BY <1>1, ClumpConstants
<1>3. \A i \in Clumps!Slots : Last(i) => i = k - 1
  BY <1>1, ClumpConstants
<1>4. Clumps!LastUsed(chain[Len(chain)]) = CHOOSE i \in Clumps!Slots : Last(i)
  BY DEF Clumps!LastUsed
<1> HIDE DEF Last
<1> QED BY <1>1, <1>2, <1>3, <1>4

\* _DeleteNode
LEMMA WithoutShrinks ==
  ASSUME NEW chain, NEW k, Packed(chain, k), NEW j, NEW i, <<j, i>> \in Clumps!UsedSlots(chain),
         NEW new, new = Clumps!WithoutNode(chain, j, i)
  PROVE  /\ Shrunk(chain, new, <<j, i>>)
         /\ \E n \in 0 .. NODES_PER_CLUMP : Packed(new, n)
         /\ Len(new) \in Nat \ {0} /\ Len(new) \in {Len(chain), Len(chain) - 1}
         /\ j <= Len(new) \/ (j - 1 = Len(new) /\ i = 0)
<1> DEFINE last == Len(chain)
           z == k - 1
           filled == Clumps!Filled(chain, j, i)
<1>1. /\ chain \in Chain /\ last \in Nat \ {0} /\ k \in 0 .. NODES_PER_CLUMP
      /\ \A c \in 1 .. last, s \in Clumps!Slots : chain[c][s] # NullRecord <=> c < last \/ s < k
      /\ last > 1 => k >= 1
  BY PackedSlots DEF Packed
<1>2. j \in 1 .. last /\ i \in Clumps!Slots /\ chain[j][i] # NullRecord
  BY <1>1, UsedAt
<1>3. k >= 1
  BY <1>1, <1>2, ClumpConstants
<1>4. Clumps!LastUsed(chain[last]) = z /\ z \in Clumps!Slots /\ last \in 1 .. last
  BY <1>1, <1>3, LastUsedIs
<1>5. /\ filled \in Chain /\ Len(filled) = last
      /\ \A c \in 1 .. last, s \in Clumps!Slots :
           filled[c][s] = IF c = last /\ s = z THEN NullRecord
                          ELSE IF c = j /\ s = i THEN chain[last][z] ELSE chain[c][s]
  <2> DEFINE half == PutAt(chain, j, i, chain[last][z])
  <2>1. chain[last][z] \in ClumpRecord \cup {NullRecord}
    BY <1>1, <1>4, ClumpChainFacts
  <2>2. /\ half \in Chain /\ Len(half) = last
        /\ \A c \in 1 .. last, s \in Clumps!Slots :
             half[c][s] = IF c = j /\ s = i THEN chain[last][z] ELSE chain[c][s]
    BY <1>1, <1>2, <2>1, Put
  <2>3. filled = PutAt(half, last, z, NullRecord)
    BY <1>4 DEF Clumps!Filled, PutAt
  <2> HIDE DEF half, filled
  <2>4. /\ filled \in Chain /\ Len(filled) = last
        /\ \A c \in 1 .. last, s \in Clumps!Slots :
             filled[c][s] = IF c = last /\ s = z THEN NullRecord ELSE half[c][s]
    BY <1>4, <2>2, <2>3, Put
  <2> QED BY <2>2, <2>4
<1>6. <<last, z>> \in Clumps!UsedSlots(chain)
  BY <1>1, <1>4, UsedAt
<1>7. \A q \in Clumps!UsedSlots(chain) \ {<<last, z>>} : Clumps!Before(q, <<last, z>>)
  <2> TAKE q \in Clumps!UsedSlots(chain) \ {<<last, z>>}
  <2>1. q \in (1 .. last) \X Clumps!Slots /\ (q[1] < last \/ q[2] < k) /\ q # <<last, z>>
    BY PackedSlots
  <2> QED BY <1>1, <1>4, <2>1, ClumpConstants DEF Clumps!Before
<1> HIDE DEF filled
<1>8. ASSUME new \in Chain,
             \A p : p \in Clumps!UsedSlots(new) <=> p \in Clumps!UsedSlots(chain) \ {<<last, z>>},
             \A p \in Clumps!UsedSlots(new) : new[p[1]][p[2]] = filled[p[1]][p[2]]
      PROVE  Shrunk(chain, new, <<j, i>>)
  <2>1. Clumps!UsedSlots(new) = Clumps!UsedSlots(chain) \ {<<last, z>>}
    BY <1>8
  <2>2. \A q \in Clumps!UsedSlots(new) :
           new[q[1]][q[2]] = IF q = <<j, i>> THEN chain[last][z] ELSE chain[q[1]][q[2]]
    <3> TAKE q \in Clumps!UsedSlots(new)
    <3>1. q \in (1 .. last) \X Clumps!Slots /\ q # <<last, z>>
      BY <1>1, <2>1, UsedMeans
    <3> QED BY <1>2, <1>5, <1>8, <3>1
  <2> QED BY <1>6, <1>7, <2>1, <2>2 DEF Shrunk
<1>9. \A p : p \in Clumps!UsedSlots(filled) <=> p \in Clumps!UsedSlots(chain) \ {<<last, z>>}
  <2> TAKE p
  <2>1. p \in Clumps!UsedSlots(filled) <=> p \in (1 .. last) \X Clumps!Slots /\ filled[p[1]][p[2]] # NullRecord
    BY <1>5, UsedMeans
  <2>2. p \in Clumps!UsedSlots(chain) <=> p \in (1 .. last) \X Clumps!Slots /\ chain[p[1]][p[2]] # NullRecord
    BY <1>1, UsedMeans
  <2> QED BY <1>1, <1>2, <1>4, <1>5, <2>1, <2>2
<1>10. CASE z = 0 /\ last # 1
  <2>1. new = WithoutClump(filled)
    BY <1>4, <1>5, <1>10 DEF Clumps!WithoutNode, filled, WithoutClump
  <2>2. /\ new \in Chain /\ Len(new) = last - 1 /\ \A c \in 1 .. last - 1 : new[c] = filled[c]
    BY <1>1, <1>5, <1>10, <2>1, Shortened
  <2>3. \A p : p \in Clumps!UsedSlots(new) <=> p \in Clumps!UsedSlots(filled)
    <3> TAKE p
    <3>1. p \in Clumps!UsedSlots(filled) <=> p \in (1 .. last) \X Clumps!Slots /\ filled[p[1]][p[2]] # NullRecord
      BY <1>5, UsedMeans
    <3>2. p \in Clumps!UsedSlots(new) <=> p \in (1 .. last - 1) \X Clumps!Slots /\ new[p[1]][p[2]] # NullRecord
      BY <2>2, UsedMeans
    <3>3. \A s \in Clumps!Slots : filled[last][s] = NullRecord
      BY <1>1, <1>2, <1>4, <1>5, <1>10, ClumpConstants
    <3> QED BY <1>1, <2>2, <3>1, <3>2, <3>3
  <2>4. \A p \in Clumps!UsedSlots(new) : new[p[1]][p[2]] = filled[p[1]][p[2]]
    BY <2>2, UsedMeans
  <2>5. Packed(new, NODES_PER_CLUMP)
    <3>1. \A c \in 1 .. last - 1, s \in Clumps!Slots : new[c][s] # NullRecord
      <4>1. chain[last][z] # NullRecord /\ \A c \in 1 .. last - 1, s \in Clumps!Slots : chain[c][s] # NullRecord
        BY <1>1, <1>4
      <4>2. \A c \in 1 .. last - 1, s \in Clumps!Slots :
              filled[c][s] = chain[last][z] \/ filled[c][s] = chain[c][s]
        BY <1>1, <1>5
      <4> QED BY <2>2, <4>1, <4>2
    <3>2. last - 1 >= 1
      <4>1. \A n \in Nat \ {0} : n # 1 => n - 1 >= 1
        OBVIOUS
      <4>2. last \in Nat \ {0} /\ last # 1
        BY <1>1, <1>10
      <4> HIDE DEF last
      <4> QED BY <4>1, <4>2
    <3>3. \A c \in 1 .. Len(new), s \in Clumps!Slots :
            new[c][s] # NullRecord <=> c < Len(new) \/ s < NODES_PER_CLUMP
      BY <2>2, <3>1, ClumpConstants
    <3> QED BY <2>2, <3>2, <3>3, ClumpConstants DEF Packed
  <2>6. j <= last - 1 \/ (j = last /\ i = 0)
    BY <1>1, <1>2, <1>4, <1>10, ClumpConstants
  <2>7. Len(new) \in Nat \ {0} /\ (j <= Len(new) \/ (j - 1 = Len(new) /\ i = 0))
    BY <1>1, <1>2, <1>10, <2>2, <2>6
  <2>8. Shrunk(chain, new, <<j, i>>)
    BY <1>8, <1>9, <2>2, <2>3, <2>4
  <2> QED BY <2>2, <2>5, <2>7, <2>8, ClumpConstants
<1>11. CASE ~(z = 0 /\ last # 1)
  <2>1. new = filled
    BY <1>4, <1>11 DEF Clumps!WithoutNode, filled
  <2>2. Packed(new, z)
    <3>1. \A c \in 1 .. last, s \in Clumps!Slots : new[c][s] # NullRecord <=> c < last \/ s < z
      BY <1>1, <1>2, <1>4, <1>5, <2>1, ClumpConstants, SMTT(40)
    <3> QED BY <1>1, <1>3, <1>5, <1>11, <2>1, <3>1, ClumpConstants DEF Packed
  <2>3. Shrunk(chain, new, <<j, i>>)
    BY <1>5, <1>8, <1>9, <2>1
  <2>4. z \in 0 .. NODES_PER_CLUMP /\ Len(new) = last
    BY <1>4, <1>5, <2>1, ClumpConstants
  <2> QED BY <1>1, <1>2, <2>2, <2>3, <2>4
<1> QED BY <1>10, <1>11

\* What a scan finds
LEMMA FirstIs ==
  ASSUME NEW S, NEW m \in S, \A q \in S : q[1] \in Int /\ q[2] \in Int,
         \A q \in S \ {m} : Clumps!Before(m, q)
  PROVE  Clumps!First(S) = m
<1> DEFINE Least(p) == \A q \in S \ {p} : Clumps!Before(p, q)
<1>1. Least(m)
  OBVIOUS
<1>2. \A p \in S : Least(p) => p = m
  <2> SUFFICES ASSUME NEW p \in S, Least(p), p # m PROVE FALSE
    OBVIOUS
  <2>1. Clumps!Before(p, m) /\ Clumps!Before(m, p)
    OBVIOUS
  <2> QED BY <2>1 DEF Clumps!Before
<1>3. Clumps!First(S) = CHOOSE p \in S : Least(p)
  BY DEF Clumps!First
<1> HIDE DEF Least
<1> QED BY <1>1, <1>2, <1>3

LEMMA FirstEmptyIs ==
  ASSUME NEW chain, NEW k, Packed(chain, k)
  PROVE  /\ Clumps!EmptySlots(chain) # {} <=> k < NODES_PER_CLUMP
         /\ k < NODES_PER_CLUMP => Clumps!First(Clumps!EmptySlots(chain)) = <<Len(chain), k>>
<1>1. /\ Len(chain) \in Nat \ {0} /\ k \in 0 .. NODES_PER_CLUMP
      /\ \A p : p \in Clumps!EmptySlots(chain) <=>
              p \in {Len(chain)} \X Clumps!Slots /\ p[2] >= k
  BY PackedSlots DEF Packed
<1>2. ASSUME k < NODES_PER_CLUMP
      PROVE  /\ <<Len(chain), k>> \in Clumps!EmptySlots(chain)
             /\ Clumps!First(Clumps!EmptySlots(chain)) = <<Len(chain), k>>
  <2>1. <<Len(chain), k>> \in Clumps!EmptySlots(chain)
    BY <1>1, <1>2, ClumpConstants
  <2>2. \A q \in Clumps!EmptySlots(chain) : q[1] \in Int /\ q[2] \in Int
    BY <1>1, ClumpConstants
  <2>3. \A q \in Clumps!EmptySlots(chain) \ {<<Len(chain), k>>} :
          Clumps!Before(<<Len(chain), k>>, q)
    <3> TAKE q \in Clumps!EmptySlots(chain) \ {<<Len(chain), k>>}
    <3>1. q \in {Len(chain)} \X Clumps!Slots /\ q[2] >= k /\ q # <<Len(chain), k>>
      BY <1>1
    <3> QED BY <1>1, <3>1, ClumpConstants DEF Clumps!Before
  <2> QED BY <2>1, <2>2, <2>3, FirstIs
<1>3. k = NODES_PER_CLUMP => Clumps!EmptySlots(chain) = {}
  BY <1>1, ClumpConstants
<1> QED BY <1>1, <1>2, <1>3, ClumpConstants

LEMMA NextEmptyIs ==
  ASSUME NEW chain, NEW k, Packed(chain, k), NEW i \in 0 .. k
  PROVE  Clumps!NextEmpty(chain[Len(chain)], i) = k
<1>1. chain \in Chain /\ Len(chain) \in Nat \ {0} /\ k \in 0 .. NODES_PER_CLUMP
      /\ \A s \in Clumps!Slots : chain[Len(chain)][s] # NullRecord <=> s < k
  BY PackedSlots DEF Packed
<1> DEFINE Empty(n) == /\ \A m \in i .. n - 1 : chain[Len(chain)][m] # NullRecord
                       /\ n # NODES_PER_CLUMP => chain[Len(chain)][n] = NullRecord
<1>2. k \in i .. NODES_PER_CLUMP /\ Empty(k)
  BY <1>1, ClumpConstants
<1>3. \A n \in i .. NODES_PER_CLUMP : Empty(n) => n = k
  BY <1>1, ClumpConstants
<1>4. Clumps!NextEmpty(chain[Len(chain)], i) = CHOOSE n \in i .. NODES_PER_CLUMP : Empty(n)
  BY DEF Clumps!NextEmpty, Clumps!NODE_END
<1> HIDE DEF Empty
<1> QED BY <1>2, <1>3, <1>4

LEMMA FullClump ==
  ASSUME NEW chain, NEW k, Packed(chain, k), NEW j \in 1 .. Len(chain) - 1
  PROVE  Clumps!NextEmpty(chain[j], 0) = NODES_PER_CLUMP
<1>1. Len(chain) \in Nat \ {0} /\ \A s \in Clumps!Slots : chain[j][s] # NullRecord
  BY PackedSlots DEF Packed
<1> DEFINE Empty(n) == /\ \A m \in 0 .. n - 1 : chain[j][m] # NullRecord
                       /\ n # NODES_PER_CLUMP => chain[j][n] = NullRecord
<1>2. NODES_PER_CLUMP \in 0 .. NODES_PER_CLUMP /\ Empty(NODES_PER_CLUMP)
  BY <1>1, ClumpConstants
<1>3. \A n \in 0 .. NODES_PER_CLUMP : Empty(n) => n = NODES_PER_CLUMP
  BY <1>1, ClumpConstants
<1>4. Clumps!NextEmpty(chain[j], 0) = CHOOSE n \in 0 .. NODES_PER_CLUMP : Empty(n)
  BY DEF Clumps!NextEmpty, Clumps!NODE_END
<1> HIDE DEF Empty
<1> QED BY <1>2, <1>3, <1>4

LEMMA TargetIs ==
  ASSUME NEW chain, NEW k, Packed(chain, k)
  PROVE  Clumps!TargetClump(chain, 1) = Len(chain)
<1> DEFINE Goal(j) == /\ \A m \in 1 .. j - 1 : Clumps!NextEmpty(chain[m], 0) = Clumps!NODE_END
                      /\ j < Len(chain) => Clumps!NextEmpty(chain[j], 0) # Clumps!NODE_END
<1>1. Len(chain) \in Nat \ {0} /\ Clumps!NODE_END = NODES_PER_CLUMP
  BY PackedSlots DEF Clumps!NODE_END
<1>2. Goal(Len(chain)) /\ Len(chain) \in 1 .. Len(chain)
  BY <1>1, FullClump
<1>3. \A j \in 1 .. Len(chain) : Goal(j) => j = Len(chain)
  <2> SUFFICES ASSUME NEW j \in 1 .. Len(chain), Goal(j), j < Len(chain) PROVE FALSE
    BY <1>1
  <2>1. j \in 1 .. Len(chain) - 1
    BY <1>1
  <2> QED BY <1>1, <2>1, FullClump
<1>4. Clumps!TargetClump(chain, 1) = CHOOSE j \in 1 .. Len(chain) : Goal(j)
  BY DEF Clumps!TargetClump
<1> HIDE DEF Goal
<1> QED BY <1>2, <1>3, <1>4

-----------------------------------------------------------------------------
(* How many slots a chain uses                                             *)

LEMMA SlotsFinite ==
  /\ IsFiniteSet(Clumps!Slots) /\ Cardinality(Clumps!Slots) = NODES_PER_CLUMP
  /\ \A chain \in Chain : IsFiniteSet((1 .. Len(chain)) \X Clumps!Slots)
  /\ \A chain \in Chain : IsFiniteSet(Clumps!UsedSlots(chain))
<1>1. IsFiniteSet(Clumps!Slots) /\ Cardinality(Clumps!Slots) = NODES_PER_CLUMP
  BY ClumpConstants, FS_Interval
<1>2. ASSUME NEW chain \in Chain
      PROVE  IsFiniteSet((1 .. Len(chain)) \X Clumps!Slots) /\ IsFiniteSet(Clumps!UsedSlots(chain))
  <2>1. IsFiniteSet(1 .. Len(chain))
    BY ClumpChainFacts, FS_Interval
  <2>2. IsFiniteSet((1 .. Len(chain)) \X Clumps!Slots)
    BY <1>1, <2>1, FS_Product
  <2>3. Clumps!UsedSlots(chain) \in SUBSET ((1 .. Len(chain)) \X Clumps!Slots)
    BY UsedMeans
  <2> QED BY <2>2, <2>3, FS_Subset
<1> QED BY <1>1, <1>2

\* The first m slots of a clump.
Row(c, m) == {c} \X (0 .. m - 1)

LEMMA RowCount ==
  ASSUME NEW c, NEW m \in 0 .. NODES_PER_CLUMP
  PROVE  IsFiniteSet(Row(c, m)) /\ Cardinality(Row(c, m)) = m
<1>1. IsFiniteSet({c}) /\ Cardinality({c}) = 1
  BY FS_Singleton
<1>2. IsFiniteSet(0 .. m - 1) /\ Cardinality(0 .. m - 1) = m
  <2>1. m - 1 \in Int /\ m \in Nat /\ 0 \in Int
    BY ClumpConstants
  <2>2. /\ IsFiniteSet(0 .. m - 1)
        /\ Cardinality(0 .. m - 1) = IF 0 > m - 1 THEN 0 ELSE (m - 1) - 0 + 1
    BY <2>1, FS_Interval
  <2> QED BY <2>1, <2>2
<1>3. Cardinality({c} \X (0 .. m - 1)) = 1 * m /\ IsFiniteSet({c} \X (0 .. m - 1))
  BY <1>1, <1>2, FS_Product
<1> QED BY <1>3, ClumpConstants DEF Row

LEMMA RowsCount ==
  ASSUME NEW a, NEW b, a # b, NEW m \in 0 .. NODES_PER_CLUMP
  PROVE  /\ IsFiniteSet(Row(a, NODES_PER_CLUMP) \cup Row(b, m))
         /\ Cardinality(Row(a, NODES_PER_CLUMP) \cup Row(b, m)) = NODES_PER_CLUMP + m
<1>1. Row(a, NODES_PER_CLUMP) \cap Row(b, m) = {}
  BY DEF Row
<1>2. NODES_PER_CLUMP \in 0 .. NODES_PER_CLUMP /\ m \in Int
  BY ClumpConstants
<1>3. /\ IsFiniteSet(Row(a, NODES_PER_CLUMP)) /\ IsFiniteSet(Row(b, m))
      /\ Cardinality(Row(a, NODES_PER_CLUMP)) = NODES_PER_CLUMP /\ Cardinality(Row(b, m)) = m
  BY <1>2, RowCount
<1> DEFINE S == Row(a, NODES_PER_CLUMP)
           T == Row(b, m)
<1> HIDE DEF S, T
<1>4. IsFiniteSet(S) /\ IsFiniteSet(T) /\ S \cap T = {}
  BY <1>1, <1>3 DEF S, T
<1>5. IsFiniteSet(S \cup T) /\ Cardinality(S \cup T) = Cardinality(S) + Cardinality(T) - Cardinality({})
  BY <1>4, FS_Union
<1>6. Cardinality(S) = NODES_PER_CLUMP /\ Cardinality(T) = m
  BY <1>3 DEF S, T
<1>7. IsFiniteSet(S \cup T) /\ Cardinality(S \cup T) = NODES_PER_CLUMP + m
  BY <1>2, <1>5, <1>6, FS_EmptySet, ClumpConstants
<1> QED BY <1>7 DEF S, T

LEMMA UsedCount ==
  ASSUME NEW chain, NEW k, Packed(chain, k)
  PROVE  /\ Cardinality(Clumps!UsedSlots(chain)) \in Nat
         /\ Len(chain) = 1 => Cardinality(Clumps!UsedSlots(chain)) = k
         /\ Len(chain) = 2 => Cardinality(Clumps!UsedSlots(chain)) = NODES_PER_CLUMP + k
         /\ Len(chain) > 2 => Cardinality(Clumps!UsedSlots(chain)) > 2 * NODES_PER_CLUMP
<1>1. /\ chain \in Chain /\ Len(chain) \in Nat \ {0} /\ k \in 0 .. NODES_PER_CLUMP
      /\ Len(chain) > 1 => k >= 1
      /\ \A p : p \in Clumps!UsedSlots(chain) <=>
              p \in (1 .. Len(chain)) \X Clumps!Slots /\ (p[1] < Len(chain) \/ p[2] < k)
  BY PackedSlots DEF Packed
<1>2. IsFiniteSet(Clumps!UsedSlots(chain)) /\ Cardinality(Clumps!UsedSlots(chain)) \in Nat
  BY <1>1, SlotsFinite, FS_CardinalityType
<1>4. CASE Len(chain) = 1
  <2>1. \A p : p \in Clumps!UsedSlots(chain) <=> p \in Row(1, k)
    BY <1>1, <1>4, ClumpConstants DEF Row
  <2>2. Clumps!UsedSlots(chain) = Row(1, k)
    BY <2>1
  <2> QED BY <1>1, <1>2, <1>4, <2>2, RowCount
<1>6. CASE Len(chain) = 2
  <2>1. \A p : p \in Clumps!UsedSlots(chain) <=> p \in Row(1, NODES_PER_CLUMP) \cup Row(2, k)
    BY <1>1, <1>6, ClumpConstants DEF Row
  <2>2. Clumps!UsedSlots(chain) = Row(1, NODES_PER_CLUMP) \cup Row(2, k)
    BY <2>1
  <2>3. Cardinality(Row(1, NODES_PER_CLUMP) \cup Row(2, k)) = NODES_PER_CLUMP + k
    <3>1. k \in 0 .. NODES_PER_CLUMP /\ 1 # 2
      BY <1>1
    <3> QED BY <3>1, RowsCount, Zenon
  <2> QED BY <1>2, <1>6, <2>2, <2>3
<1>7. CASE Len(chain) > 2
  <2> DEFINE two == Row(1, NODES_PER_CLUMP) \cup Row(2, NODES_PER_CLUMP)
             extra == <<Len(chain), 0>>
  <2>1. IsFiniteSet(two) /\ Cardinality(two) = 2 * NODES_PER_CLUMP
    <3>1. NODES_PER_CLUMP \in 0 .. NODES_PER_CLUMP
      BY ClumpConstants
    <3>2. IsFiniteSet(two) /\ Cardinality(two) = NODES_PER_CLUMP + NODES_PER_CLUMP
      BY <3>1, RowsCount
    <3> QED BY <3>2, ClumpConstants
  <2>2. \A p \in two \cup {extra} : p \in Clumps!UsedSlots(chain)
    BY <1>1, <1>7, ClumpConstants DEF Row
  <2>3. extra \notin two
    BY <1>7, <1>1 DEF Row
  <2> HIDE DEF two, extra
  <2>4. IsFiniteSet(two \cup {extra}) /\ Cardinality(two \cup {extra}) = 2 * NODES_PER_CLUMP + 1
    BY <2>1, <2>3, FS_AddElement
  <2>5. Cardinality(two \cup {extra}) <= Cardinality(Clumps!UsedSlots(chain))
    BY <1>2, <2>2, FS_Subset
  <2>6. 2 * NODES_PER_CLUMP \in Nat
    BY ClumpConstants
  <2>7. Cardinality(Clumps!UsedSlots(chain)) >= 2 * NODES_PER_CLUMP + 1
    BY <2>4, <2>5, Zenon
  <2>8. Cardinality(Clumps!UsedSlots(chain)) > 2 * NODES_PER_CLUMP
    BY <1>2, <2>6, <2>7
  <2>9. Len(chain) # 1 /\ Len(chain) # 2
    <3> DEFINE L == Len(chain)
    <3>1. L \in Nat /\ L > 2
      BY <1>1, <1>7
    <3> HIDE DEF L
    <3>2. L # 1 /\ L # 2
      BY <3>1
    <3> QED BY <3>2 DEF L
  <2> QED BY <1>2, <2>8, <2>9, Zenon
<1> QED BY <1>1, <1>2, <1>4, <1>6, <1>7

LEMMA EmptyCount ==
  ASSUME NEW chain, NEW k, Packed(chain, k)
  PROVE  Cardinality(Clumps!EmptySlots(chain)) = NODES_PER_CLUMP - k
<1> DEFINE L == Len(chain)
<1>1. /\ L \in Nat \ {0} /\ k \in 0 .. NODES_PER_CLUMP
      /\ \A p : p \in Clumps!EmptySlots(chain) <=> p \in {L} \X Clumps!Slots /\ p[2] >= k
  BY PackedSlots DEF Packed
<1> HIDE DEF L
<1>2. \A p : p \in Clumps!EmptySlots(chain) <=> p \in {L} \X (k .. NODES_PER_CLUMP - 1)
  BY <1>1, ClumpConstants
<1>3. Clumps!EmptySlots(chain) = {L} \X (k .. NODES_PER_CLUMP - 1)
  BY <1>2
<1>4. IsFiniteSet(k .. NODES_PER_CLUMP - 1) /\ Cardinality(k .. NODES_PER_CLUMP - 1) = NODES_PER_CLUMP - k
  BY <1>1, ClumpConstants, FS_Interval
<1>5. IsFiniteSet({L}) /\ Cardinality({L}) = 1
  BY FS_Singleton
<1>6. Cardinality({L} \X (k .. NODES_PER_CLUMP - 1)) = 1 * (NODES_PER_CLUMP - k)
  <2>1. Cardinality({L} \X (k .. NODES_PER_CLUMP - 1)) = Cardinality({L}) * Cardinality(k .. NODES_PER_CLUMP - 1)
    BY <1>4, <1>5, FS_Product
  <2> QED BY <1>4, <1>5, <2>1
<1> QED BY <1>1, <1>3, <1>6, ClumpConstants

-----------------------------------------------------------------------------
(* Where a loop or an iterator goes on                                     *)

LEMMA FromStart ==
  ASSUME NEW chain \in Chain
  PROVE  From(chain, 1, 0) = Clumps!RecordsIn(chain)
<1>1. \A p \in Clumps!UsedSlots(chain) : ~Clumps!Before(p, <<1, 0>>)
  BY UsedMeans, ClumpChainFacts, ClumpConstants DEF Clumps!Before
<1>2. \A r : r \in From(chain, 1, 0) <=> r \in Clumps!RecordsIn(chain)
  BY <1>1, InFrom, InRecords
<1> QED BY <1>2

LEMMA FromNext ==
  ASSUME NEW chain \in Chain, NEW c \in Nat, NEW s \in Nat, s >= NODES_PER_CLUMP
  PROVE  From(chain, c, s) = From(chain, c + 1, 0)
<1>1. \A p \in Clumps!UsedSlots(chain) : Clumps!Before(p, <<c, s>>) <=> Clumps!Before(p, <<c + 1, 0>>)
  <2> TAKE p \in Clumps!UsedSlots(chain)
  <2>1. p \in (1 .. Len(chain)) \X Clumps!Slots
    BY UsedMeans
  <2> QED BY <2>1, ClumpChainFacts, ClumpConstants DEF Clumps!Before
<1>2. \A r : r \in From(chain, c, s) <=> r \in From(chain, c + 1, 0)
  BY <1>1, InFrom
<1> QED BY <1>2

LEMMA FromEnd ==
  ASSUME NEW chain, NEW k, Packed(chain, k), NEW s \in Nat, s >= k
  PROVE  From(chain, Len(chain), s) = {}
<1>1. \A p \in Clumps!UsedSlots(chain) : Clumps!Before(p, <<Len(chain), s>>)
  <2> TAKE p \in Clumps!UsedSlots(chain)
  <2>1. /\ p \in (1 .. Len(chain)) \X Clumps!Slots /\ (p[1] < Len(chain) \/ p[2] < k)
        /\ k \in Nat /\ Len(chain) \in Nat
    <3>1. k \in Nat
      BY ClumpConstants DEF Packed
    <3> QED BY <3>1, PackedSlots
  <2> QED BY <2>1, ClumpConstants DEF Clumps!Before
<1>2. \A r : r \notin From(chain, Len(chain), s)
  BY <1>1, InFrom, PackedSlots
<1> QED BY <1>2

LEMMA FromRest ==
  ASSUME NEW chain \in Chain, Single(chain), NEW c, NEW s, <<c, s>> \in Clumps!UsedSlots(chain)
  PROVE  /\ From(chain, c, s + 1) = From(chain, c, s) \ {chain[c][s]}
         /\ chain[c][s] \in From(chain, c, s)
<1>1. c \in 1 .. Len(chain) /\ s \in Clumps!Slots /\ c \in Nat /\ s \in Nat
  BY UsedAt, ClumpChainFacts, ClumpConstants
<1>2. \A p \in Clumps!UsedSlots(chain) :
        ~Clumps!Before(p, <<c, s + 1>>) <=> ~Clumps!Before(p, <<c, s>>) /\ p # <<c, s>>
  <2> TAKE p \in Clumps!UsedSlots(chain)
  <2>1. p \in (1 .. Len(chain)) \X Clumps!Slots
    BY UsedMeans
  <2> QED BY <1>1, <2>1, ClumpChainFacts, ClumpConstants DEF Clumps!Before
<1>3. \A p \in Clumps!UsedSlots(chain) : chain[p[1]][p[2]] = chain[c][s] => p = <<c, s>>
  BY DEF Single
<1>4. ~Clumps!Before(<<c, s>>, <<c, s>>)
  BY <1>1 DEF Clumps!Before
<1>5. <<c, s>>[1] = c /\ <<c, s>>[2] = s
  OBVIOUS
<1>6. \A r : r \in From(chain, c, s + 1) <=> r \in From(chain, c, s) /\ r # chain[c][s]
  <2> TAKE r
  <2>1. ASSUME r \in From(chain, c, s + 1) PROVE r \in From(chain, c, s) /\ r # chain[c][s]
    BY <1>2, <1>3, <2>1, InFrom
  <2>2. ASSUME r \in From(chain, c, s), r # chain[c][s] PROVE r \in From(chain, c, s + 1)
    BY <1>2, <1>5, <2>2, InFrom
  <2> QED BY <2>1, <2>2
<1>7. chain[c][s] \in From(chain, c, s)
  BY <1>4, <1>5, InFrom
<1> QED BY <1>6, <1>7

\* What is at q is what is behind slot <<c, s>> of bucket b, that slot included.
BehindBack(chain, b, c, s, q) ==
  /\ q = <<b, q[2], q[3]>> /\ q[2] \in {c, c - 1} \ {0}
  /\ (q[2] = c => q[3] = s - 1) /\ (q[2] # c => q[3] = NODES_PER_CLUMP)
  /\ From(chain, q[2], q[3] + 1) = From(chain, c, s)

LEMMA FromBack ==
  ASSUME NEW chain, NEW b, NEW c, NEW s, chain \in Chain, c \in Nat \ {0}, s \in Clumps!Slots
  PROVE  BehindBack(chain, b, c, s, Clumps!Back(<<b, c, s>>))
<1> USE DEF BehindBack
<1> DEFINE q == Clumps!Back(<<b, c, s>>)
<1>1. s \in Nat /\ c \in Nat \ {0} /\ NODES_PER_CLUMP \in Nat
  BY ClumpConstants
<1>2. CASE s # 0
  <2>1. q = <<b, c, s - 1>>
    BY <1>2 DEF Clumps!Back
  <2> QED BY <1>1, <2>1
<1>3. CASE s = 0 /\ c = 1
  <2>1. q = <<b, c, s - 1>>
    BY <1>3 DEF Clumps!Back
  <2> QED BY <1>1, <2>1
<1>4. CASE s = 0 /\ c # 1
  <2>1. q = <<b, c - 1, NODES_PER_CLUMP>>
    BY <1>4 DEF Clumps!Back, Clumps!NODE_END
  <2>2. From(chain, c - 1, NODES_PER_CLUMP + 1) = From(chain, (c - 1) + 1, 0)
    BY <1>1, <1>4, FromNext
  <2> QED BY <1>1, <1>4, <2>1, <2>2
<1> QED BY <1>2, <1>3, <1>4

\* The records that a loop at p has before it.
FromHere(chs, p) ==
  From(chs[p[1]], p[2], p[3]) \cup (IF p[1] = 0 THEN Clumps!RecordsIn(chs[1]) ELSE {})

\* p is a slot with a record.
Occupied(chs, p) ==
  \E b \in Clumps!Bkts : \E q \in Clumps!UsedSlots(chs[b]) : p = <<b, q[1], q[2]>>

Good(chs) ==
  /\ chs \in [Clumps!Bkts -> Chain]
  /\ \A b \in Clumps!Bkts : \E k \in 0 .. NODES_PER_CLUMP : Packed(chs[b], k)
  /\ activeBkts \in {1, 2}
  /\ activeBkts = 1 => chs[1] = Clumps!EmptyChain

Later(chs, p) ==
  {q \in UNION {{b} \X (DOMAIN chs[b]) : b \in 0 .. activeBkts - 1} :
     Clumps!Before(p, q) /\ chs[q[1]][q[2]][0] # NullRecord}

LEMMA InLater ==
  ASSUME NEW chs, Good(chs), NEW p
  PROVE  \A q : q \in Later(chs, p) <=>
           /\ q[1] \in 0 .. activeBkts - 1 /\ q[2] \in 1 .. Len(chs[q[1]]) /\ q = <<q[1], q[2]>>
           /\ Clumps!Before(p, q) /\ chs[q[1]][q[2]][0] # NullRecord
<1>1. 0 .. activeBkts - 1 \subseteq Clumps!Bkts
  BY DEF Good, Clumps!Bkts
<1>2. \A b \in 0 .. activeBkts - 1 : DOMAIN chs[b] = 1 .. Len(chs[b])
  BY <1>1, ClumpChainFacts DEF Good
<1>3. \A q : q \in UNION {{b} \X (DOMAIN chs[b]) : b \in 0 .. activeBkts - 1} <=>
           q[1] \in 0 .. activeBkts - 1 /\ q[2] \in 1 .. Len(chs[q[1]]) /\ q = <<q[1], q[2]>>
  BY <1>2
<1> QED BY <1>3 DEF Later

LEMMA EmptyBucket ==
  ASSUME NEW chain, NEW k, Packed(chain, k), chain[1][0] = NullRecord
  PROVE  Clumps!RecordsIn(chain) = {} /\ Len(chain) = 1 /\ k = 0
<1>1. /\ Len(chain) \in Nat \ {0} /\ k \in 0 .. NODES_PER_CLUMP /\ chain \in Chain
      /\ (Len(chain) > 1 => k >= 1) /\ 0 \in Clumps!Slots
      /\ (chain[1][0] # NullRecord <=> 1 < Len(chain) \/ 0 < k)
  BY PackedSlots, ClumpConstants DEF Packed
<1>2. Len(chain) = 1 /\ k = 0
  BY <1>1
<1>3. Clumps!UsedSlots(chain) = {}
  <2>1. \A p : p \in Clumps!UsedSlots(chain) <=>
          p \in (1 .. Len(chain)) \X Clumps!Slots /\ (p[1] < Len(chain) \/ p[2] < k)
    BY PackedSlots, Zenon
  <2>2. \A p \in (1 .. 1) \X Clumps!Slots : ~(p[1] < 1 \/ p[2] < 0)
    BY ClumpConstants
  <2> QED BY <1>2, <2>1, <2>2
<1> QED BY <1>2, <1>3 DEF Clumps!RecordsIn

\* _Increment finds the next record, if there is one.
LEMMA FollowingIs ==
  ASSUME NEW chs, Good(chs), NEW b \in 0 .. activeBkts - 1, NEW j \in 1 .. Len(chs[b]),
         NEW i \in -1 .. NODES_PER_CLUMP
  PROVE  LET q == Clumps!Following(chs, <<b, j, i>>)
         IN  \/ q = Clumps!End /\ FromHere(chs, <<b, j, i + 1>>) = {}
             \/ Occupied(chs, q) /\ FromHere(chs, <<b, j, i + 1>>) = FromHere(chs, q)
<1> DEFINE p == <<b, j, i>>
           q == Clumps!Following(chs, p)
<1>1. /\ b \in Clumps!Bkts /\ chs[b] \in Chain /\ activeBkts \in {1, 2} /\ b \in Int
      /\ Len(chs[b]) \in Nat \ {0}
  BY ClumpChainFacts DEF Good, Clumps!Bkts
<1>2. PICK k \in 0 .. NODES_PER_CLUMP : Packed(chs[b], k)
  BY <1>1 DEF Good
<1>3. /\ i + 1 \in Clumps!Slots /\ chs[b][j][i + 1] # NullRecord => q = <<b, j, i + 1>>
      /\ ~(i + 1 \in Clumps!Slots /\ chs[b][j][i + 1] # NullRecord) =>
           q = IF Later(chs, p) = {} THEN Clumps!End
               ELSE <<Clumps!First(Later(chs, p))[1], Clumps!First(Later(chs, p))[2], 0>>
  BY DEF Clumps!Following, Later
<1>4. FromHere(chs, <<b, j, i + 1>>) =
        From(chs[b], j, i + 1) \cup (IF b = 0 THEN Clumps!RecordsIn(chs[1]) ELSE {})
  BY DEF FromHere
<1>5. CASE i + 1 \in Clumps!Slots /\ chs[b][j][i + 1] # NullRecord
  <2>1. <<j, i + 1>> \in Clumps!UsedSlots(chs[b])
    BY <1>1, <1>5, UsedAt
  <2>2. Occupied(chs, <<b, j, i + 1>>)
    BY <1>1, <2>1 DEF Occupied
  <2> QED BY <1>3, <1>5, <2>2
<1> SUFFICES ASSUME ~(i + 1 \in Clumps!Slots /\ chs[b][j][i + 1] # NullRecord)
             PROVE  \/ q = Clumps!End /\ FromHere(chs, <<b, j, i + 1>>) = {}
                    \/ Occupied(chs, q) /\ FromHere(chs, <<b, j, i + 1>>) = FromHere(chs, q)
  BY <1>5
<1>6. \A x \in Later(chs, p) : x[1] \in Int /\ x[2] \in Int
  <2>1. \A x \in Later(chs, p) : x[1] \in 0 .. activeBkts - 1 /\ x[2] \in 1 .. Len(chs[x[1]])
    BY InLater
  <2>2. \A n \in 0 .. activeBkts - 1 : n \in Clumps!Bkts /\ Len(chs[n]) \in Int
    BY ClumpChainFacts DEF Good, Clumps!Bkts
  <2> QED BY <1>1, <2>1, <2>2
<1>7. CASE j < Len(chs[b])
  <2>1. i + 1 >= NODES_PER_CLUMP /\ i + 1 \in Nat
    BY <1>1, <1>2, <1>7, ClumpConstants DEF Packed
  <2>2. chs[b][j + 1][0] # NullRecord /\ j + 1 \in 1 .. Len(chs[b]) /\ 0 \in Clumps!Slots
    BY <1>1, <1>2, <1>7, ClumpConstants DEF Packed
  <2>3. <<b, j + 1>> \in Later(chs, p)
    <3>1. Clumps!Before(p, <<b, j + 1>>)
      BY <1>1 DEF Clumps!Before
    <3> QED BY <2>2, <3>1, InLater
  <2>4. \A x \in Later(chs, p) \ {<<b, j + 1>>} : Clumps!Before(<<b, j + 1>>, x)
    <3> TAKE x \in Later(chs, p) \ {<<b, j + 1>>}
    <3>1. x = <<x[1], x[2]>> /\ Clumps!Before(p, x) /\ x[1] \in Int /\ x[2] \in Int
      BY <1>6, InLater
    <3>2. x[1] # b \/ x[2] # j + 1
      BY <3>1
    <3>3. b < x[1] \/ (b = x[1] /\ j < x[2])
      BY <3>1 DEF Clumps!Before
    <3>4. b < x[1] \/ (b = x[1] /\ j + 1 < x[2])
      BY <1>1, <3>1, <3>2, <3>3
    <3> QED BY <3>4 DEF Clumps!Before
  <2>5. Clumps!First(Later(chs, p)) = <<b, j + 1>>
    BY <1>6, <2>3, <2>4, FirstIs
  <2>6. q = <<b, j + 1, 0>>
    BY <1>3, <2>3, <2>5
  <2>7. Occupied(chs, <<b, j + 1, 0>>)
    <3>1. <<j + 1, 0>> \in Clumps!UsedSlots(chs[b])
      BY <1>1, <2>2, UsedAt
    <3> QED BY <1>1, <3>1 DEF Occupied
  <2>8. From(chs[b], j, i + 1) = From(chs[b], j + 1, 0)
    BY <1>1, <2>1, FromNext
  <2>9. FromHere(chs, <<b, j + 1, 0>>) =
          From(chs[b], j + 1, 0) \cup (IF b = 0 THEN Clumps!RecordsIn(chs[1]) ELSE {})
    BY DEF FromHere
  <2> QED BY <1>4, <2>6, <2>7, <2>8, <2>9
<1>8. CASE j = Len(chs[b])
  <2>1. From(chs[b], j, i + 1) = {}
    <3>1. i + 1 \in Nat /\ i + 1 >= k
      BY <1>1, <1>2, <1>8, ClumpConstants DEF Packed
    <3> QED BY <1>2, <1>8, <3>1, FromEnd
  <2>2. CASE b = 0 /\ activeBkts = 2 /\ chs[1][1][0] # NullRecord
    <3>1. 1 \in Clumps!Bkts /\ chs[1] \in Chain /\ 1 \in 1 .. Len(chs[1]) /\ 0 \in Clumps!Slots
      <4>1. 1 \in Clumps!Bkts /\ chs[1] \in Chain
        BY DEF Good, Clumps!Bkts
      <4>2. PICK n \in 0 .. NODES_PER_CLUMP : Packed(chs[1], n)
        BY <4>1 DEF Good
      <4>3. Len(chs[1]) \in Nat \ {0}
        BY <4>2, PackedSlots
      <4> QED BY <4>1, <4>3, ClumpConstants
    <3>2. <<1, 1>> \in Later(chs, p)
      <4>1. Clumps!Before(p, <<1, 1>>)
        BY <2>2 DEF Clumps!Before
      <4>2. 1 \in 0 .. activeBkts - 1
        BY <2>2
      <4> QED BY <2>2, <3>1, <4>1, <4>2, InLater
    <3>3. \A x \in Later(chs, p) \ {<<1, 1>>} : Clumps!Before(<<1, 1>>, x)
      <4> TAKE x \in Later(chs, p) \ {<<1, 1>>}
      <4>1. /\ x = <<x[1], x[2]>> /\ Clumps!Before(p, x) /\ x[1] \in Int /\ x[2] \in Int
            /\ x[1] \in 0 .. 1 /\ x[2] \in 1 .. Len(chs[x[1]])
        BY <1>6, <2>2, InLater
      <4>2. x[1] # 1 \/ x[2] # 1
        BY <4>1
      <4>3. x[1] > 0 \/ (x[1] = 0 /\ j < x[2])
        BY <2>2, <4>1 DEF Clumps!Before
      <4>4. x[1] = 1 /\ x[2] > 1
        BY <1>1, <1>8, <2>2, <4>1, <4>2, <4>3
      <4> QED BY <4>4 DEF Clumps!Before
    <3>4. Clumps!First(Later(chs, p)) = <<1, 1>>
      BY <1>6, <3>2, <3>3, FirstIs
    <3>5. q = <<1, 1, 0>>
      BY <1>3, <3>2, <3>4
    <3>6. Occupied(chs, <<1, 1, 0>>)
      <4>1. <<1, 0>> \in Clumps!UsedSlots(chs[1])
        BY <2>2, <3>1, UsedAt
      <4> QED BY <3>1, <4>1 DEF Occupied
    <3>7. FromHere(chs, <<1, 1, 0>>) = Clumps!RecordsIn(chs[1])
      BY <3>1, FromStart DEF FromHere
    <3> QED BY <1>4, <2>1, <2>2, <3>5, <3>6, <3>7
  <2>3. CASE ~(b = 0 /\ activeBkts = 2 /\ chs[1][1][0] # NullRecord)
    <3>1. Later(chs, p) = {}
      <4> SUFFICES ASSUME NEW x \in Later(chs, p) PROVE FALSE
        OBVIOUS
      <4>1. /\ x = <<x[1], x[2]>> /\ Clumps!Before(p, x) /\ x[1] \in Int /\ x[2] \in Int
            /\ x[1] \in 0 .. activeBkts - 1 /\ x[2] \in 1 .. Len(chs[x[1]])
            /\ chs[x[1]][x[2]][0] # NullRecord
        BY <1>6, InLater
      <4>2. b < x[1] \/ (b = x[1] /\ j < x[2])
        BY <4>1 DEF Clumps!Before
      <4>3. b = 0 /\ x[1] = 1 /\ activeBkts = 2
        BY <1>1, <1>8, <4>1, <4>2
      <4>4. chs[1][1][0] = NullRecord /\ 1 \in Clumps!Bkts
        BY <2>3, <4>3 DEF Clumps!Bkts
      <4>5. Len(chs[1]) = 1
        BY <4>4, EmptyBucket DEF Good
      <4>6. x[2] = 1
        BY <4>1, <4>3, <4>5
      <4> QED BY <4>1, <4>3, <4>4, <4>6
    <3>2. b = 0 => Clumps!RecordsIn(chs[1]) = {}
      <4>1. CASE activeBkts = 1
        BY <4>1, EmptyChainFacts DEF Good
      <4>2. CASE activeBkts = 2 /\ b = 0
        <5>1. chs[1][1][0] = NullRecord /\ 1 \in Clumps!Bkts
          BY <2>3, <4>2 DEF Clumps!Bkts
        <5> QED BY <5>1, EmptyBucket DEF Good
      <4> QED BY <1>1, <4>1, <4>2
    <3> QED BY <1>3, <1>4, <2>1, <3>1, <3>2
  <2> QED BY <2>2, <2>3
<1> QED BY <1>1, <1>7, <1>8

-----------------------------------------------------------------------------
(* The inductive invariant                                                 *)

Moves == {"split", "merge"}
Iterations == {"iterate", "eraseRange"}

\* Outside of its chain no record is in a bucket, and each only once.
ChainsInv ==
  /\ Good(chains) /\ movers \in SplitHomes
  /\ \A b \in Clumps!Bkts :
       Single(chains[b]) /\ \A r \in Clumps!RecordsIn(chains[b]) : Clumps!Home(r) = b

\* What is still to be moved is in no bucket.
OldInv ==
  /\ clumpPc \in {"idle", "deleteIf"} \cup Iterations \cup Moves
  /\ freeList \in Nat /\ target \in Nat \ {0} /\ slot \in [Clumps!Bkts -> 0 .. NODES_PER_CLUMP]
  /\ oldList \in Chain /\ Single(oldList)
  /\ clumpPc \notin Moves =>
       oldList = <<>> /\ freeList = 0 /\ slot = [b \in Clumps!Bkts |-> 0] /\ target = 1
  /\ \A b \in Clumps!Bkts : Clumps!RecordsIn(oldList) \cap Clumps!RecordsIn(chains[b]) = {}

\* n slots are e clumps.
Clumpful(n, e) ==
  \/ e = -2 /\ n = -(2 * NODES_PER_CLUMP)
  \/ e = -1 /\ n = -NODES_PER_CLUMP
  \/ e = 0 /\ n = 0
  \/ e = 1 /\ n = NODES_PER_CLUMP
  \/ e = 2 /\ n = 2 * NODES_PER_CLUMP

\* The clumps that have gone to the free list when the c-th is emptied.
Freed(c) == IF c > 2 THEN c - 2 ELSE 0

\* As many slots have been filled in the new chains as have been left behind
\* in the old one, whose last clump had k records.
SplitRoom(k) ==
  LET new == Len(chains[0]) + Len(chains[1]) - 2
  IN  /\ activeBkts = 2
      /\ \A b \in Clumps!Bkts : Packed(chains[b], slot[b])
      /\ freeList = (IF Len(oldList) > 1 THEN 1 ELSE 0) + Freed(at[2]) - new
      /\ at[2] < Len(oldList) \/ at[3] <= k =>
           Clumpful(slot[0] + slot[1] - at[3], at[2] - 1 - new)

\* The clumps that are primed, when an old chain of l clumps, with k1 records in
\* the last, joins one that has k0 in its last.
Primed(prime, l, k1, k0) ==
  \/ prime = 0 /\ l = 1 /\ k1 + k0 <= NODES_PER_CLUMP
  \/ prime = 1 /\ l = 1 /\ k1 + k0 > NODES_PER_CLUMP
  \/ prime = 1 /\ l = 2 /\ k1 + k0 <= NODES_PER_CLUMP
  \/ prime = 2

\* The same, in the chain that had l0 clumps, and k0 records in the last.
MergeRoom(k, l0, k0, prime) ==
  LET new == Len(chains[0]) - l0
  IN  /\ activeBkts = 1 /\ target = Len(chains[0]) /\ Packed(chains[0], slot[0])
      /\ Primed(prime, Len(oldList), k, k0) /\ new >= 0
      /\ freeList = prime + Freed(at[2]) - new
      /\ at[2] < Len(oldList) \/ at[3] <= k =>
           Clumpful(slot[0] - k0 - at[3], at[2] - 1 - new)

Merging(k) ==
  \E l0 \in Nat, k0 \in 0 .. NODES_PER_CLUMP, prime \in 0 .. 2 : MergeRoom(k, l0, k0, prime)

Room(k) ==
  /\ PackedFrom(oldList, k, at[2], at[3])
  /\ clumpPc = "split" => SplitRoom(k)
  /\ clumpPc = "merge" => Merging(k)

RoomInv ==
  clumpPc \in Moves => at = <<0, at[2], at[3]>> /\ \E k \in 0 .. NODES_PER_CLUMP : Room(k)

\* Where loops are: _DeleteNode may back one up to behind the end of a clump.
InLoop(p) ==
  \E b \in 0 .. activeBkts - 1, i \in 0 .. NODES_PER_CLUMP + 1 :
    \E j \in 1 .. Len(chains[b]) : p = <<b, j, i>>

AtInv ==
  /\ at \in Int \X Nat \X Int /\ riterLast \in Int \X Nat \X Int
  /\ clumpPc \in Iterations => Occupied(chains, at)
  /\ clumpPc = "deleteIf" => InLoop(at)

\* A loop has still to meet the records that are before it.
DueInv ==
  /\ due \subseteq ClumpRecord
  /\ clumpPc \in {"iterate", "deleteIf"} => due = FromHere(chains, at)
  /\ clumpPc = "eraseRange" /\ riterLast = Clumps!End => due = FromHere(chains, at)
  /\ clumpPc \in {"idle"} \cup Moves => due = {}
  /\ clumpPc # "eraseRange" => riterLast = Clumps!End

RefInv == refCount \in [ClumpRecord -> Int] /\ Clumps!ReferencesBalanced

CountInv == cClumps \in Int /\ Clumps!ClumpsAccounted

ClumpInv == ChainsInv /\ OldInv /\ RoomInv /\ AtInv /\ DueInv /\ RefInv /\ CountInv

LEMMA ClumpsStart == Clumps!Init => ClumpInv
<1> SUFFICES ASSUME Clumps!Init PROVE ClumpInv
  OBVIOUS
<1> USE DEF Clumps!Init
<1>1. /\ chains[0] = Clumps!EmptyChain /\ chains[1] = Clumps!EmptyChain
      /\ chains \in [Clumps!Bkts -> Chain] /\ Clumps!Bkts = {0, 1}
  BY EmptyChainFacts DEF Clumps!Bkts
<1>2. ChainsInv
  <2>1. \A b \in Clumps!Bkts : Packed(chains[b], 0) /\ Single(chains[b]) /\ Clumps!RecordsIn(chains[b]) = {}
    BY <1>1, EmptyChainFacts
  <2>2. 0 \in 0 .. NODES_PER_CLUMP
    BY ClumpConstants
  <2> QED BY <1>1, <2>1, <2>2 DEF ChainsInv, Good
<1>3. OldInv
  BY NoChainFacts, ClumpConstants DEF OldInv, Moves
<1>4. RoomInv /\ AtInv /\ DueInv
  BY DEF RoomInv, AtInv, DueInv, Moves, Iterations, Clumps!End
<1>5. Clumps!Records = {}
  BY <1>1, EmptyChainFacts, NoChainFacts DEF Clumps!Records
<1>6. RefInv
  BY <1>5 DEF RefInv, Clumps!ReferencesBalanced
<1>7. CountInv
  BY <1>1, EmptyChainFacts, SMTT(40) DEF CountInv, Clumps!ClumpsAccounted
<1> QED BY <1>2, <1>3, <1>4, <1>6, <1>7 DEF ClumpInv

-----------------------------------------------------------------------------
(* What one record that comes or goes does to the invariant                *)

\* One chain is changed.
Becomes(b, new) == b \in Clumps!Bkts /\ new \in Chain /\ chains' = [chains EXCEPT ![b] = new]

Lengths == Len(chains[0]) + Len(chains[1])

LEMMA BecomesMeans ==
  ASSUME ChainsInv, NEW b, NEW new, Becomes(b, new)
  PROVE  /\ chains' \in [Clumps!Bkts -> Chain] /\ chains'[b] = new
         /\ \A c \in Clumps!Bkts : c # b => chains'[c] = chains[c]
         /\ Lengths' = Lengths - Len(chains[b]) + Len(new)
         /\ Lengths \in Int
<1>1. /\ chains' \in [Clumps!Bkts -> Chain] /\ chains'[b] = new /\ chains \in [Clumps!Bkts -> Chain]
      /\ \A c \in Clumps!Bkts : c # b => chains'[c] = chains[c]
      /\ b \in Clumps!Bkts /\ new \in Chain
  BY DEF Becomes, ChainsInv, Good
<1>2. Len(chains[0]) \in Nat /\ Len(chains[1]) \in Nat /\ Len(new) \in Nat /\ b \in {0, 1}
  BY <1>1, ClumpChainFacts DEF Clumps!Bkts
<1>3. Lengths' = Len(chains'[0]) + Len(chains'[1])
  BY DEF Lengths
<1>4. Lengths' = Lengths - Len(chains[b]) + Len(new) /\ Lengths \in Int
  <2>1. CASE b = 0
    <3>1. chains'[0] = new /\ chains'[1] = chains[1]
      BY <1>1, <2>1 DEF Clumps!Bkts
    <3> QED BY <1>2, <1>3, <2>1, <3>1 DEF Lengths
  <2>2. CASE b = 1
    <3>1. chains'[1] = new /\ chains'[0] = chains[0]
      BY <1>1, <2>2 DEF Clumps!Bkts
    <3> QED BY <1>2, <1>3, <2>2, <3>1 DEF Lengths
  <2> QED BY <1>2, <2>1, <2>2
<1> QED BY <1>1, <1>4

LEMMA ChainsGrow ==
  ASSUME ChainsInv, NEW b, NEW new, Becomes(b, new), NEW n \in 0 .. NODES_PER_CLUMP,
         Packed(new, n), NEW r, ChainGrown(chains[b], new, r), Clumps!Home(r) = b,
         r \notin Clumps!RecordsIn(chains[b]), UNCHANGED <<movers, activeBkts>>
  PROVE  /\ ChainsInv'
         /\ Clumps!RecordsIn(chains'[b]) = Clumps!RecordsIn(chains[b]) \cup {r}
<1>1. /\ chains' \in [Clumps!Bkts -> Chain] /\ chains'[b] = new /\ b \in Clumps!Bkts
      /\ \A c \in Clumps!Bkts : c # b => chains'[c] = chains[c]
      /\ chains \in [Clumps!Bkts -> Chain] /\ new \in Chain
  BY BecomesMeans DEF Becomes, ChainsInv, Good
<1>2. Clumps!RecordsIn(new) = Clumps!RecordsIn(chains[b]) \cup {r} /\ Single(new)
  BY <1>1, GrownRecords DEF ChainsInv
<1>3. \A s : Clumps!Home(s)' = Clumps!Home(s)
  BY DEF Clumps!Home
<1>4. \A c \in Clumps!Bkts :
        Single(chains'[c]) /\ \A s \in Clumps!RecordsIn(chains'[c]) : Clumps!Home(s) = c
  BY <1>1, <1>2 DEF ChainsInv
<1>5. \A c \in Clumps!Bkts : \E k \in 0 .. NODES_PER_CLUMP : Packed(chains'[c], k)
  BY <1>1 DEF ChainsInv, Good
<1>6. activeBkts = 1 => b = 0
  BY DEF Clumps!Home
<1>7. Good(chains)'
  BY <1>1, <1>5, <1>6 DEF ChainsInv, Good, Clumps!Bkts
<1>8. ChainsInv'
  BY <1>3, <1>4, <1>7 DEF ChainsInv
<1> QED BY <1>1, <1>2, <1>8

\* The record at <<c, s>> goes.
Goes(b, new, c, s) ==
  /\ Becomes(b, new) /\ Shrunk(chains[b], new, <<c, s>>)
  /\ \E n \in 0 .. NODES_PER_CLUMP : Packed(new, n)

Gone(b, c, s) ==
  /\ chains[b][c][s] \in Clumps!RecordsIn(chains[b])
  /\ Clumps!RecordsIn(chains'[b]) = Clumps!RecordsIn(chains[b]) \ {chains[b][c][s]}
  /\ From(chains'[b], c, s) = From(chains[b], c, s) \ {chains[b][c][s]}

LEMMA ChainsShrink ==
  ASSUME ChainsInv, NEW b, NEW new, NEW c, NEW s, Goes(b, new, c, s),
         UNCHANGED <<movers, activeBkts>>
  PROVE  ChainsInv' /\ Gone(b, c, s)
<1> USE DEF Goes, Gone
<1>1. /\ chains' \in [Clumps!Bkts -> Chain] /\ chains'[b] = new /\ b \in Clumps!Bkts
      /\ \A d \in Clumps!Bkts : d # b => chains'[d] = chains[d]
      /\ chains \in [Clumps!Bkts -> Chain] /\ new \in Chain
  BY BecomesMeans DEF Becomes, ChainsInv, Good
<1>2. /\ Clumps!RecordsIn(new) = Clumps!RecordsIn(chains[b]) \ {chains[b][c][s]} /\ Single(new)
      /\ From(new, c, s) = From(chains[b], c, s) \ {chains[b][c][s]}
  BY <1>1, ShrunkRecords DEF ChainsInv
<1>3. \A r : Clumps!Home(r)' = Clumps!Home(r)
  BY DEF Clumps!Home
<1>4. \A d \in Clumps!Bkts :
        Single(chains'[d]) /\ \A r \in Clumps!RecordsIn(chains'[d]) : Clumps!Home(r) = d
  BY <1>1, <1>2 DEF ChainsInv
<1>5. \A d \in Clumps!Bkts : \E k \in 0 .. NODES_PER_CLUMP : Packed(chains'[d], k)
  BY <1>1 DEF ChainsInv, Good
<1>6. <<c, s>> \in Clumps!UsedSlots(chains[b])
  BY DEF Shrunk
<1>7. chains[b][c][s] \in Clumps!RecordsIn(chains[b])
  BY <1>1, <1>6, InRecords
<1>8. activeBkts = 1 => b = 0
  <2>1. b = 1 /\ activeBkts = 1 => chains[b] = Clumps!EmptyChain
    BY DEF ChainsInv, Good
  <2> QED BY <1>1, <1>7, <2>1, EmptyChainFacts DEF Clumps!Bkts
<1>9. Good(chains)'
  BY <1>1, <1>5, <1>8 DEF ChainsInv, Good, Clumps!Bkts
<1>10. ChainsInv'
  BY <1>3, <1>4, <1>9 DEF ChainsInv
<1> QED BY <1>1, <1>2, <1>7, <1>10

HereIn(chs, p) == chs[p[1]][p[2]][p[3]]

\* An occupied slot has a record of the table.
LEMMA OccupiedMeans ==
  ASSUME ChainsInv, NEW p, Occupied(chains, p)
  PROVE  /\ p = <<p[1], p[2], p[3]>> /\ p[1] \in 0 .. activeBkts - 1 /\ p[1] \in Clumps!Bkts
         /\ <<p[2], p[3]>> \in Clumps!UsedSlots(chains[p[1]])
         /\ p[2] \in 1 .. Len(chains[p[1]]) /\ p[2] \in Nat \ {0} /\ p[3] \in Clumps!Slots
         /\ p # Clumps!End /\ p \in Int \X Nat \X Int
         /\ HereIn(chains, p) \in Clumps!RecordsIn(chains[p[1]])
         /\ HereIn(chains, p) \in ClumpRecord /\ HereIn(chains, p) \in Clumps!Records
<1>1. PICK b \in Clumps!Bkts : \E q \in Clumps!UsedSlots(chains[b]) : p = <<b, q[1], q[2]>>
  BY DEF Occupied
<1>2. PICK q \in Clumps!UsedSlots(chains[b]) : p = <<b, q[1], q[2]>>
  BY <1>1
<1>3. /\ chains[b] \in Chain /\ Len(chains[b]) \in Nat
      /\ q \in (1 .. Len(chains[b])) \X Clumps!Slots /\ q = <<q[1], q[2]>>
  BY <1>2, UsedMeans, ClumpChainFacts DEF ChainsInv, Good
<1>4. p[1] = b /\ p[2] = q[1] /\ p[3] = q[2] /\ q = <<p[2], p[3]>>
  BY <1>2, <1>3
<1>5. /\ p[2] \in Nat \ {0} /\ p[3] \in Clumps!Slots /\ p[3] \in Int /\ p[2] \in 1 .. Len(chains[p[1]])
      /\ b \in {0, 1}
  BY <1>3, <1>4, ClumpConstants DEF Clumps!Bkts
<1>6. HereIn(chains, p) \in Clumps!RecordsIn(chains[b])
  BY <1>2, <1>3, <1>4, InRecords DEF HereIn
<1>7. HereIn(chains, p) \in ClumpRecord
  BY <1>3, <1>6, RecordsAreRecords
<1>8. HereIn(chains, p) \in Clumps!Records
  BY <1>5, <1>6 DEF Clumps!Records
<1>9. b \in 0 .. activeBkts - 1
  <2>1. CASE activeBkts = 1
    <3>1. b = 0
      BY <1>5, <1>6, <2>1, EmptyChainFacts DEF ChainsInv, Good
    <3> QED BY <2>1, <3>1
  <2>2. CASE activeBkts = 2
    BY <1>5, <2>2
  <2> QED BY <2>1, <2>2 DEF ChainsInv, Good
<1>10. p # Clumps!End
  BY <1>4, <1>5 DEF Clumps!End
<1> QED BY <1>1, <1>2, <1>3, <1>4, <1>5, <1>6, <1>7, <1>8, <1>9, <1>10

\* A record is in the bucket it hashes to and in no other.
LEMMA WhereRecords ==
  ASSUME ChainsInv, OldInv, clumpPc \notin Moves
  PROVE  /\ Clumps!RecordsIn(oldList) = {}
         /\ \A r : r \in Clumps!Records <=>
              \E b \in Clumps!Bkts : r \in Clumps!RecordsIn(chains[b])
         /\ \A b, c \in Clumps!Bkts : b # c =>
              Clumps!RecordsIn(chains[b]) \cap Clumps!RecordsIn(chains[c]) = {}
         /\ Clumps!Records \subseteq ClumpRecord
<1>1. Clumps!RecordsIn(oldList) = {}
  BY NoChainFacts DEF OldInv
<1>2. \A r : r \in Clumps!Records <=> \E b \in Clumps!Bkts : r \in Clumps!RecordsIn(chains[b])
  BY <1>1 DEF Clumps!Records, Clumps!Bkts
<1>3. \A b, c \in Clumps!Bkts : b # c =>
         Clumps!RecordsIn(chains[b]) \cap Clumps!RecordsIn(chains[c]) = {}
  BY DEF ChainsInv
<1>4. \A b \in Clumps!Bkts : Clumps!RecordsIn(chains[b]) \subseteq ClumpRecord
  BY RecordsAreRecords DEF ChainsInv, Good
<1> QED BY <1>1, <1>2, <1>3, <1>4

LEMMA OldKept ==
  ASSUME OldInv, clumpPc \notin Moves, UNCHANGED <<oldList, freeList, slot, target>>,
         clumpPc' \in {"idle", "deleteIf"} \cup Iterations
  PROVE  OldInv' /\ RoomInv'
<1>1. clumpPc' \notin Moves /\ oldList = <<>>
  BY DEF OldInv, Moves, Iterations
<1>2. Clumps!RecordsIn(oldList) = {}
  BY <1>1, NoChainFacts
<1> QED BY <1>1, <1>2 DEF OldInv, RoomInv, Moves, Iterations

LEMMA LengthTypes ==
  ASSUME NEW chs \in [Clumps!Bkts -> Chain], \A b \in Clumps!Bkts : \E k : Packed(chs[b], k)
  PROVE  /\ Len(chs[0]) \in Nat \ {0} /\ Len(chs[1]) \in Nat \ {0}
         /\ \A b \in Clumps!Bkts : chs[b] \in Chain /\ Len(chs[b]) \in Nat \ {0}
<1>1. \A b \in Clumps!Bkts : chs[b] \in Chain /\ Len(chs[b]) \in Nat \ {0}
  BY PackedSlots
<1> QED BY <1>1 DEF Clumps!Bkts

LEMMA CountMeans ==
  ASSUME oldList = <<>>, freeList = 0, Len(chains[0]) \in Int, Len(chains[1]) \in Int,
         cClumps \in Int
  PROVE  Clumps!ClumpsAccounted <=> cClumps - Lengths = -2
<1> DEFINE l0 == Len(chains[0])
           l1 == Len(chains[1])
<1>1. Lengths = l0 + l1 /\ l0 \in Int /\ l1 \in Int
  BY DEF Lengths
<1>2. Clumps!ClumpsAccounted <=> cClumps = l0 - 1 + l1 - 1 + 0 + 0
  BY DEF Clumps!ClumpsAccounted
<1> HIDE DEF l0, l1
<1> QED BY <1>1, <1>2

LEMMA CountKept ==
  ASSUME ChainsInv, ChainsInv', CountInv, OldInv, clumpPc \notin Moves, UNCHANGED <<oldList, freeList>>,
         cClumps' - Lengths' = cClumps - Lengths, cClumps' \in Int
  PROVE  CountInv'
<1> DEFINE l0 == Len(chains[0])
           l1 == Len(chains[1])
           n0 == Len(chains'[0])
           n1 == Len(chains'[1])
<1>1. oldList = <<>> /\ freeList = 0 /\ cClumps \in Int
  BY DEF OldInv, CountInv
<1>2. l0 \in Int /\ l1 \in Int
  BY LengthTypes DEF ChainsInv, Good
<1>3. n0 \in Int /\ n1 \in Int
  BY LengthTypes DEF ChainsInv, Good
<1>4. cClumps - Lengths = -2
  BY <1>1, <1>2, CountMeans DEF CountInv
<1>5. Lengths' = n0 + n1
  BY DEF Lengths
<1>6. Clumps!ClumpsAccounted' <=> cClumps' = n0 - 1 + n1 - 1 + 0 + 0
  BY <1>1 DEF Clumps!ClumpsAccounted
<1> HIDE DEF n0, n1
<1>7. Clumps!ClumpsAccounted'
  BY <1>3, <1>4, <1>5, <1>6
<1> QED BY <1>7 DEF CountInv

\* A record comes, behind the others of its chain.
Comes(b, r, new) ==
  /\ Becomes(b, new) /\ ChainGrown(chains[b], new, r) /\ \E n \in 0 .. NODES_PER_CLUMP : Packed(new, n)
  /\ cClumps' = cClumps - Len(chains[b]) + Len(new)

LEMMA InsertStep ==
  ASSUME ClumpInv, NEW r \in ClumpRecord, Clumps!InsertRecord(r)
  PROVE  ClumpInv'
<1> DEFINE b == Clumps!Home(r)
           empty == Clumps!EmptySlots(chains[b])
<1>1. /\ ChainsInv /\ OldInv /\ AtInv /\ DueInv /\ RefInv /\ CountInv /\ clumpPc \in {"idle", "iterate"}
      /\ clumpPc \notin Moves /\ r \notin Clumps!Records /\ b \in Clumps!Bkts
      /\ refCount' = [refCount EXCEPT ![r] = @ + 1]
      /\ due' = IF clumpPc = "iterate" /\ b >= at[1] THEN due \cup {r} ELSE due
      /\ UNCHANGED <<movers, activeBkts, oldList, freeList, slot, target, at, riterLast, clumpPc>>
  BY DEF Clumps!InsertRecord, ClumpInv, Clumps!Home, Clumps!Bkts, Moves, Clumps!splitVars
<1>2. PICK k \in 0 .. NODES_PER_CLUMP : Packed(chains[b], k)
  BY <1>1 DEF ChainsInv, Good
<1>3. \E new : Comes(b, r, new)
  <2>1. CASE k < NODES_PER_CLUMP
    <3> DEFINE new == PutAt(chains[b], Len(chains[b]), k, r)
    <3>1. chains' = [chains EXCEPT ![b] = new] /\ cClumps' = cClumps
      <4>1. Clumps!First(empty) = <<Len(chains[b]), k>> /\ empty # {}
        BY <1>2, <2>1, FirstEmptyIs
      <4> QED BY <4>1 DEF Clumps!InsertRecord, PutAt
    <3>2. Packed(new, k + 1) /\ Len(new) = Len(chains[b]) /\ ChainGrown(chains[b], new, r)
      BY <1>2, <2>1, PutGrows
    <3>3. k + 1 \in 0 .. NODES_PER_CLUMP /\ Len(chains[b]) \in Int /\ cClumps \in Int
      BY <1>1, <1>2, <2>1, ClumpConstants, PackedSlots DEF CountInv
    <3>4. Becomes(b, new)
      BY <1>1, <3>1, <3>2, PackedSlots DEF Becomes
    <3> DEFINE l == Len(chains[b])
    <3> HIDE DEF new, l
    <3>5. cClumps' = cClumps - l + Len(new)
      <4>1. Len(new) = l /\ l \in Int
        BY <3>2, <3>3 DEF l
      <4> QED BY <3>1, <3>3, <4>1
    <3>6. \E n \in 0 .. NODES_PER_CLUMP : Packed(new, n)
      BY <3>2, <3>3
    <3> QED BY <3>2, <3>4, <3>5, <3>6 DEF Comes, l
  <2>2. CASE k = NODES_PER_CLUMP
    <3> DEFINE new == WithClump(chains[b], r)
    <3>1. chains' = [chains EXCEPT ![b] = new] /\ cClumps' = cClumps + 1
      <4>1. empty = {}
        BY <1>2, <2>2, FirstEmptyIs, ClumpConstants
      <4> QED BY <4>1 DEF Clumps!InsertRecord, WithClump
    <3>2. Packed(new, 1) /\ Len(new) = Len(chains[b]) + 1 /\ ChainGrown(chains[b], new, r)
      BY <1>2, <2>2, AddGrows
    <3>3. 1 \in 0 .. NODES_PER_CLUMP /\ Len(chains[b]) \in Int /\ cClumps \in Int
      BY <1>1, <1>2, <2>2, ClumpConstants, PackedSlots DEF CountInv
    <3>4. Becomes(b, new)
      BY <1>1, <3>1, <3>2, PackedSlots DEF Becomes
    <3> DEFINE l == Len(chains[b])
    <3> HIDE DEF new, l
    <3>5. cClumps' = cClumps - l + Len(new)
      <4>1. Len(new) = l + 1 /\ l \in Int
        BY <3>2, <3>3 DEF l
      <4> QED BY <3>1, <3>3, <4>1
    <3>6. \E n \in 0 .. NODES_PER_CLUMP : Packed(new, n)
      BY <3>2, <3>3
    <3> QED BY <3>2, <3>4, <3>5, <3>6 DEF Comes, l
  <2> QED BY <2>1, <2>2, ClumpConstants
<1>4. PICK new : Comes(b, r, new)
  BY <1>3
<1> HIDE DEF b
<1>5. r \notin Clumps!RecordsIn(chains[b])
  BY <1>1, WhereRecords
<1>6. ChainsInv' /\ Clumps!RecordsIn(chains'[b]) = Clumps!RecordsIn(chains[b]) \cup {r}
  BY <1>1, <1>4, <1>5, ChainsGrow DEF b, Comes
<1>7. OldInv' /\ RoomInv'
  <2>1. clumpPc' \in {"idle", "deleteIf"} \cup Iterations
    BY <1>1 DEF Iterations
  <2> QED BY <1>1, <2>1, OldKept
<1>8. /\ chains'[b] = new /\ \A c \in Clumps!Bkts : c # b => chains'[c] = chains[c]
      /\ Lengths' = Lengths - Len(chains[b]) + Len(new) /\ Lengths \in Int
      /\ cClumps' = cClumps - Len(chains[b]) + Len(new)
  BY <1>1, <1>4, BecomesMeans DEF Comes
<1>9. CountInv'
  <2>1. Len(chains[b]) \in Int /\ Len(new) \in Int /\ cClumps \in Int
    <3>1. new \in Chain /\ chains[b] \in Chain
      BY <1>1, <1>4 DEF Comes, Becomes, ChainsInv, Good
    <3> QED BY <1>1, <3>1, ClumpChainFacts DEF CountInv
  <2>2. cClumps' - Lengths' = cClumps - Lengths /\ cClumps' \in Int
    <3> DEFINE l == Len(chains[b])
               n == Len(new)
    <3> HIDE DEF l, n
    <3> QED BY <1>8, <2>1 DEF l, n
  <2> QED BY <1>1, <1>6, <2>2, CountKept
<1>10. Clumps!Records' = Clumps!Records \cup {r}
  <2>1. \A x : x \in Clumps!Records' <=>
               \E c \in Clumps!Bkts : x \in Clumps!RecordsIn(chains'[c])
    <3>1. Clumps!RecordsIn(oldList') = {}
      BY <1>1, WhereRecords
    <3> QED BY <3>1 DEF Clumps!Records, Clumps!Bkts
  <2> QED BY <1>1, <1>6, <1>8, <2>1, WhereRecords
<1>11. CASE clumpPc = "idle"
  <2>1. AtInv' /\ DueInv'
    BY <1>1, <1>11 DEF AtInv, DueInv, Iterations, Moves
  <2>2. RefInv'
    BY <1>1, <1>10, <1>11 DEF RefInv, Clumps!ReferencesBalanced
  <2> QED BY <1>6, <1>7, <1>9, <2>1, <2>2 DEF ClumpInv
<1>12. CASE clumpPc = "iterate"
  <2>1. Occupied(chains, at)
    BY <1>1, <1>12 DEF AtInv, Iterations
  <2>2. /\ at = <<at[1], at[2], at[3]>> /\ at[1] \in Clumps!Bkts
        /\ <<at[2], at[3]>> \in Clumps!UsedSlots(chains[at[1]])
        /\ Clumps!Here \in Clumps!Records
    BY <1>1, <2>1, OccupiedMeans DEF HereIn, Clumps!Here
  <2>3. /\ <<at[2], at[3]>> \in Clumps!UsedSlots(chains'[at[1]])
        /\ chains'[at[1]][at[2]][at[3]] = Clumps!Here
    <3>1. CASE at[1] = b
      BY <1>4, <1>8, <2>2, <3>1 DEF ChainGrown, Clumps!Here, Comes
    <3>2. CASE at[1] # b
      BY <1>8, <2>2, <3>2 DEF Clumps!Here
    <3> QED BY <3>1, <3>2
  <2>4. Occupied(chains, at)'
    BY <1>1, <2>2, <2>3 DEF Occupied
  <2>5. AtInv'
    BY <1>1, <1>12, <2>4 DEF AtInv, Iterations
  <2>6. Clumps!Here' = Clumps!Here
    BY <1>1, <2>3 DEF Clumps!Here
  <2>7. RefInv'
    BY <1>1, <1>10, <1>12, <2>2, <2>6 DEF RefInv, Clumps!ReferencesBalanced
  <2>8. due' = FromHere(chains', at)
    <3>1. due = FromHere(chains, at)
      BY <1>1, <1>12 DEF DueInv
    <3>2. From(chains'[b], at[2], at[3]) = From(chains[b], at[2], at[3]) \cup {r} \/ at[1] # b
      <4>1. chains[b] \in Chain /\ new \in Chain /\ ChainGrown(chains[b], new, r)
        BY <1>1, <1>4 DEF Comes, Becomes, ChainsInv, Good
      <4> QED BY <1>8, <2>2, <4>1, GrownRecords
    <3>3. FromHere(chains, at) = From(chains[at[1]], at[2], at[3])
             \cup (IF at[1] = 0 THEN Clumps!RecordsIn(chains[1]) ELSE {})
      BY DEF FromHere
    <3>4. FromHere(chains', at) = From(chains'[at[1]], at[2], at[3])
             \cup (IF at[1] = 0 THEN Clumps!RecordsIn(chains'[1]) ELSE {})
      BY DEF FromHere
    <3>5. at[1] \in {0, 1} /\ b \in {0, 1}
      BY <1>1, <2>2 DEF Clumps!Bkts
    <3>6. CASE at[1] = b
      <4>1. due' = due \cup {r}
        BY <1>1, <1>12, <3>5, <3>6
      <4>2. 1 # b => chains'[1] = chains[1]
        BY <1>8 DEF Clumps!Bkts
      <4> QED BY <3>1, <3>2, <3>3, <3>4, <3>5, <3>6, <4>1, <4>2
    <3>7. CASE at[1] = 0 /\ b = 1
      <4>1. due' = due \cup {r}
        BY <1>1, <1>12, <3>7
      <4>2. chains'[0] = chains[0]
        BY <1>8, <3>7 DEF Clumps!Bkts
      <4> QED BY <1>6, <3>1, <3>3, <3>4, <3>7, <4>1, <4>2
    <3>8. CASE at[1] = 1 /\ b = 0
      <4>1. due' = due
        BY <1>1, <1>12, <3>8
      <4>2. chains'[1] = chains[1]
        BY <1>8, <3>8 DEF Clumps!Bkts
      <4> QED BY <3>1, <3>3, <3>4, <3>8, <4>1, <4>2
    <3> QED BY <3>5, <3>6, <3>7, <3>8
  <2>9. DueInv'
    BY <1>1, <1>12, <2>8 DEF DueInv, Iterations, Moves
  <2> QED BY <1>6, <1>7, <1>9, <2>5, <2>7, <2>9 DEF ClumpInv
<1> QED BY <1>1, <1>11, <1>12

\* The place to which the removal at p backs its caller up: everything that
\* was before p, but its record, is before the slot behind.
BackAt(p) ==
  LET q == Clumps!Back(p)
  IN  /\ q = <<p[1], q[2], q[3]>> /\ q[2] \in 1 .. Len(chains'[p[1]]) /\ q[3] \in -1 .. NODES_PER_CLUMP
      /\ FromHere(chains', <<p[1], q[2], q[3] + 1>>) = FromHere(chains', p)

\* _DeleteNode takes the record at p away and backs its caller up to Back(p).
LEMMA DeleteEffect ==
  ASSUME ChainsInv, NEW p, Occupied(chains, p), Clumps!DeleteNode(p),
         UNCHANGED <<movers, activeBkts>>, cClumps \in Int
  PROVE  /\ ChainsInv' /\ cClumps' - Lengths' = cClumps - Lengths /\ cClumps' \in Int
         /\ \A c \in Clumps!Bkts :
              Clumps!RecordsIn(chains'[c]) = Clumps!RecordsIn(chains[c]) \ {HereIn(chains, p)}
         /\ FromHere(chains', p) = FromHere(chains, p) \ {HereIn(chains, p)}
         /\ BackAt(p)
<1> DEFINE b == p[1]
           j == p[2]
           i == p[3]
           old == chains[b]
           r == HereIn(chains, p)
<1>0. PICK new : new = Clumps!WithoutNode(old, j, i)
  OBVIOUS
<1>1. /\ p = <<b, j, i>> /\ b \in Clumps!Bkts /\ b \in {0, 1} /\ <<j, i>> \in Clumps!UsedSlots(old)
      /\ j \in 1 .. Len(old) /\ j \in Nat \ {0} /\ i \in Clumps!Slots /\ r = old[j][i]
  BY OccupiedMeans DEF HereIn, Clumps!Bkts
<1>2. PICK k \in 0 .. NODES_PER_CLUMP : Packed(old, k)
  BY <1>1 DEF ChainsInv, Good
<1>3. /\ Shrunk(old, new, <<j, i>>) /\ \E n \in 0 .. NODES_PER_CLUMP : Packed(new, n)
      /\ Len(new) \in Nat \ {0} /\ (j <= Len(new) \/ (j - 1 = Len(new) /\ i = 0))
  BY <1>0, <1>1, <1>2, WithoutShrinks
<1>4. Becomes(b, new)
  <2>1. new \in Chain
    BY <1>3, PackedSlots
  <2>2. chains' = [chains EXCEPT ![b] = new]
    BY <1>0 DEF Clumps!DeleteNode
  <2> QED BY <1>1, <2>1, <2>2 DEF Becomes
<1> HIDE DEF old, b, j, i, r
<1>5. /\ ChainsInv' /\ r \in Clumps!RecordsIn(old)
      /\ Clumps!RecordsIn(chains'[b]) = Clumps!RecordsIn(old) \ {r}
      /\ From(chains'[b], j, i) = From(old, j, i) \ {r}
  <2>1. Goes(b, new, j, i)
    BY <1>3, <1>4 DEF Goes, old
  <2>2. ChainsInv' /\ Gone(b, j, i)
    BY <2>1, ChainsShrink
  <2> QED BY <1>1, <2>2 DEF old, Gone
<1>6. /\ chains'[b] = new /\ \A c \in Clumps!Bkts : c # b => chains'[c] = chains[c]
      /\ Lengths' = Lengths - Len(old) + Len(new) /\ Lengths \in Int
  BY <1>4, BecomesMeans DEF old
<1>7. cClumps' - Lengths' = cClumps - Lengths /\ cClumps' \in Int
  <2> DEFINE l == Len(old)
             n == Len(new)
  <2>1. l \in Int /\ n \in Int
    BY <1>2, <1>3, PackedSlots
  <2>2. cClumps' = cClumps - (l - n)
    BY <1>6 DEF Clumps!DeleteNode, old, b
  <2> HIDE DEF l, n
  <2>3. Lengths' = Lengths - l + n
    BY <1>6 DEF l, n
  <2> QED BY <1>6, <2>1, <2>2, <2>3
<1>8. \A c \in Clumps!Bkts : Clumps!RecordsIn(chains'[c]) = Clumps!RecordsIn(chains[c]) \ {r}
  <2> TAKE c \in Clumps!Bkts
  <2>1. CASE c = b
    BY <1>5, <2>1 DEF old
  <2>2. CASE c # b
    <3>1. r \notin Clumps!RecordsIn(chains[c])
      BY <1>1, <1>5, <2>2, SMTT(40) DEF ChainsInv, old
    <3> QED BY <1>6, <2>2, <3>1
  <2> QED BY <2>1, <2>2
<1>9. FromHere(chains', p) = FromHere(chains, p) \ {r}
  <2>1. FromHere(chains, p) = From(old, j, i) \cup (IF b = 0 THEN Clumps!RecordsIn(chains[1]) ELSE {})
    BY DEF FromHere, old, b, j, i
  <2>2. FromHere(chains', p) = From(chains'[b], j, i) \cup (IF b = 0 THEN Clumps!RecordsIn(chains'[1]) ELSE {})
    BY DEF FromHere, b, j, i
  <2>3. Clumps!RecordsIn(chains'[1]) = Clumps!RecordsIn(chains[1]) \ {r}
    BY <1>8 DEF Clumps!Bkts
  <2> QED BY <1>5, <2>1, <2>2, <2>3
<1>10. BackAt(p)
  <2> DEFINE q == Clumps!Back(p)
  <2>1. /\ q = <<b, q[2], q[3]>> /\ q[2] \in {j, j - 1} \ {0}
        /\ (q[2] = j => q[3] = i - 1) /\ (q[2] # j => q[3] = NODES_PER_CLUMP)
        /\ From(new, q[2], q[3] + 1) = From(new, j, i)
    <3>1. new \in Chain
      BY <1>4 DEF Becomes
    <3>2. q = Clumps!Back(<<b, j, i>>)
      BY <1>1
    <3> HIDE DEF q
    <3>3. BehindBack(new, b, j, i, Clumps!Back(<<b, j, i>>))
      BY <1>1, <3>1, FromBack
    <3> QED BY <3>2, <3>3 DEF BehindBack
  <2>2. i = 0 /\ j # 1 => q[2] = j - 1
    BY <1>1 DEF Clumps!Back
  <2> HIDE DEF q
  <2>3. q[3] \in -1 .. NODES_PER_CLUMP
    BY <1>1, <2>1, ClumpConstants
  <2>4. q[2] \in 1 .. Len(new)
    BY <1>1, <1>3, <2>1, <2>2
  <2>5. FromHere(chains', <<b, q[2], q[3] + 1>>) = FromHere(chains', p)
    <3>1. FromHere(chains', <<b, q[2], q[3] + 1>>) =
            From(new, q[2], q[3] + 1) \cup (IF b = 0 THEN Clumps!RecordsIn(chains'[1]) ELSE {})
      BY <1>6 DEF FromHere
    <3>2. FromHere(chains', p) = From(new, j, i) \cup (IF b = 0 THEN Clumps!RecordsIn(chains'[1]) ELSE {})
      BY <1>6 DEF FromHere, b, j, i
    <3> QED BY <2>1, <3>1, <3>2
  <2> QED BY <1>1, <1>6, <2>1, <2>3, <2>4, <2>5 DEF BackAt, q, b
<1> QED BY <1>5, <1>7, <1>8, <1>9, <1>10 DEF r

\* The steps that leave the chains alone, when nothing is split or merged.
LEMMA Still ==
  ASSUME ChainsInv, OldInv, CountInv, clumpPc \notin Moves,
         UNCHANGED <<movers, activeBkts, Clumps!chainVars, Clumps!splitVars>>,
         clumpPc' \in {"idle", "deleteIf"} \cup Iterations
  PROVE  ChainsInv' /\ OldInv' /\ RoomInv' /\ CountInv' /\ Clumps!Records' = Clumps!Records
<1>1. UNCHANGED <<movers, activeBkts, chains, cClumps, oldList, freeList, slot, target>>
  BY DEF Clumps!chainVars, Clumps!splitVars
<1>2. ChainsInv'
  BY <1>1 DEF ChainsInv, Good, Clumps!Home
<1>3. OldInv' /\ RoomInv'
  BY <1>1, OldKept
<1>4. CountInv'
  <2>1. Lengths' = Lengths /\ cClumps' = cClumps /\ cClumps \in Int
    BY <1>1 DEF Lengths, CountInv
  <2> QED BY <1>1, <1>2, <2>1, CountKept
<1> QED BY <1>1, <1>2, <1>3, <1>4 DEF Clumps!Records

\* The steps of a removal, when nothing is split or merged.
LEMMA Removal ==
  ASSUME ChainsInv, OldInv, CountInv, clumpPc \notin Moves, NEW p, Occupied(chains, p),
         Clumps!DeleteNode(p), UNCHANGED <<movers, activeBkts, Clumps!splitVars>>,
         clumpPc' \in {"idle", "deleteIf"} \cup Iterations
  PROVE  /\ ChainsInv' /\ OldInv' /\ RoomInv' /\ CountInv'
         /\ Clumps!Records' = Clumps!Records \ {HereIn(chains, p)}
         /\ FromHere(chains', p) = FromHere(chains, p) \ {HereIn(chains, p)}
         /\ BackAt(p)
<1>1. UNCHANGED <<movers, activeBkts>> /\ UNCHANGED <<oldList, freeList, slot, target>>
  BY DEF Clumps!splitVars
<1>2. /\ ChainsInv' /\ cClumps' - Lengths' = cClumps - Lengths /\ cClumps' \in Int
      /\ \A c \in Clumps!Bkts :
           Clumps!RecordsIn(chains'[c]) = Clumps!RecordsIn(chains[c]) \ {HereIn(chains, p)}
      /\ FromHere(chains', p) = FromHere(chains, p) \ {HereIn(chains, p)}
      /\ BackAt(p)
  <2>1. cClumps \in Int
    BY DEF CountInv
  <2> QED BY <1>1, <2>1, DeleteEffect
<1>3. OldInv' /\ RoomInv'
  BY <1>1, OldKept
<1>4. CountInv'
  BY <1>1, <1>2, CountKept
<1>5. Clumps!Records' = Clumps!Records \ {HereIn(chains, p)}
  <2>1. Clumps!RecordsIn(oldList) = {} /\ Clumps!RecordsIn(oldList') = {}
    BY <1>1, NoChainFacts DEF OldInv
  <2> QED BY <1>2, <2>1 DEF Clumps!Records, Clumps!Bkts
<1> QED BY <1>2, <1>3, <1>4, <1>5

\* References to the records of S, and one more to h when a loop is there.
References(refs, S, where, h) ==
  /\ refs \in [ClumpRecord -> Int]
  /\ \A r \in ClumpRecord :
       refs[r] = (IF r \in S THEN 1 ELSE 0) + (IF where \in Iterations /\ h = r THEN 1 ELSE 0)

LEMMA DeleteKeyStep ==
  ASSUME ClumpInv, NEW r \in ClumpRecord, Clumps!DeleteKey(r)
  PROVE  ClumpInv'
<1>1. /\ ChainsInv /\ OldInv /\ AtInv /\ DueInv /\ RefInv /\ CountInv /\ clumpPc = "idle"
      /\ clumpPc \notin Moves /\ clumpPc' = "idle"
      /\ refCount' = [refCount EXCEPT ![r] = @ - 1]
      /\ UNCHANGED <<movers, activeBkts, Clumps!splitVars, at, riterLast, due>>
  BY DEF Clumps!DeleteKey, ClumpInv, Moves
<1> DEFINE b == Clumps!Home(r)
<1>2. PICK q \in Clumps!UsedSlots(chains[b]) :
        chains[b][q[1]][q[2]] = r /\ Clumps!DeleteNode(<<b, q[1], q[2]>>)
  BY DEF Clumps!DeleteKey
<1>3. PICK p : p = <<b, q[1], q[2]>>
  OBVIOUS
<1>4. Occupied(chains, p) /\ HereIn(chains, p) = r /\ Clumps!DeleteNode(p)
  BY <1>2, <1>3 DEF Occupied, HereIn, Clumps!Home, Clumps!Bkts
<1>5. clumpPc' \in {"idle", "deleteIf"} \cup Iterations
  BY <1>1
<1>6. /\ ChainsInv' /\ OldInv' /\ RoomInv' /\ CountInv'
      /\ Clumps!Records' = Clumps!Records \ {r} /\ r \in Clumps!Records
  BY <1>1, <1>4, <1>5, Removal, OccupiedMeans
<1>7. AtInv' /\ DueInv'
  BY <1>1 DEF AtInv, DueInv, Iterations, Moves
<1>8. RefInv'
  <2>1. References(refCount, Clumps!Records, "idle", r)
    BY <1>1 DEF RefInv, Clumps!ReferencesBalanced, References, Iterations
  <2>2. References(refCount', Clumps!Records', "idle", r)
    BY <1>1, <1>6, <2>1 DEF References, Iterations
  <2> QED BY <1>1, <2>2 DEF RefInv, Clumps!ReferencesBalanced, References, Iterations
<1> QED BY <1>6, <1>7, <1>8 DEF ClumpInv

LEMMA HereStart ==
  ASSUME ChainsInv, OldInv, clumpPc \notin Moves
  PROVE  FromHere(chains, <<0, 1, 0>>) = Clumps!Records
<1>1. chains[0] \in Chain
  BY DEF ChainsInv, Good, Clumps!Bkts
<1>2. FromHere(chains, <<0, 1, 0>>) = Clumps!RecordsIn(chains[0]) \cup Clumps!RecordsIn(chains[1])
  BY <1>1, FromStart DEF FromHere
<1> QED BY <1>2, WhereRecords DEF Clumps!Records

\* References when no iterator has one.
LEMMA NoIterator ==
  ASSUME RefInv, clumpPc \notin Iterations, clumpPc' \notin Iterations, UNCHANGED refCount,
         Clumps!Records' = Clumps!Records
  PROVE  RefInv'
BY DEF RefInv, Clumps!ReferencesBalanced, Iterations

LEMMA StartDeleteIfStep ==
  ASSUME ClumpInv, Clumps!StartDeleteIf
  PROVE  ClumpInv'
<1>1. /\ ChainsInv /\ OldInv /\ AtInv /\ DueInv /\ RefInv /\ CountInv /\ clumpPc = "idle"
      /\ clumpPc \notin Moves /\ clumpPc' = "deleteIf" /\ at' = <<0, 1, 0>> /\ due' = Clumps!Records
      /\ UNCHANGED <<movers, activeBkts, Clumps!chainVars, Clumps!splitVars>>
      /\ UNCHANGED <<refCount, riterLast, activeBkts, chains>>
      /\ clumpPc' \in {"idle", "deleteIf"} \cup Iterations
  BY DEF Clumps!StartDeleteIf, ClumpInv, Moves, Clumps!chainVars
<1>2. ChainsInv' /\ OldInv' /\ RoomInv' /\ CountInv' /\ Clumps!Records' = Clumps!Records
  BY <1>1, Still
<1>3. AtInv'
  <2>1. 0 \in 0 .. activeBkts - 1 /\ 0 \in 0 .. NODES_PER_CLUMP + 1 /\ 1 \in 1 .. Len(chains[0])
    <3>1. activeBkts \in {1, 2} /\ Len(chains[0]) \in Nat \ {0}
      BY <1>1, LengthTypes DEF ChainsInv, Good
    <3> QED BY <3>1, ClumpConstants
  <2>2. InLoop(<<0, 1, 0>>)
    BY <2>1 DEF InLoop
  <2>3. InLoop(at)'
    BY <1>1, <2>2 DEF InLoop
  <2> QED BY <1>1, <2>3 DEF AtInv, Iterations
<1>4. DueInv'
  <2>1. due' = FromHere(chains, <<0, 1, 0>>) /\ due' \subseteq ClumpRecord
    BY <1>1, HereStart, WhereRecords
  <2>2. due' = FromHere(chains', at')
    BY <1>1, <2>1
  <2> QED BY <1>1, <2>1, <2>2 DEF DueInv, Moves
<1>5. RefInv'
  BY <1>1, <1>2, NoIterator DEF Iterations
<1> QED BY <1>2, <1>3, <1>4, <1>5 DEF ClumpInv

\* Where _DeleteIf's loop is.
LEMMA InLoopMeans ==
  ASSUME ChainsInv, NEW p, InLoop(p)
  PROVE  /\ p = <<p[1], p[2], p[3]>> /\ p[1] \in 0 .. activeBkts - 1 /\ p[1] \in Clumps!Bkts
         /\ p[1] \in {0, 1} /\ p[2] \in 1 .. Len(chains[p[1]]) /\ p[2] \in Nat \ {0}
         /\ p[3] \in 0 .. NODES_PER_CLUMP + 1 /\ p[3] \in Nat
         /\ chains[p[1]] \in Chain /\ Len(chains[p[1]]) \in Nat \ {0}
<1>1. PICK b \in 0 .. activeBkts - 1, i \in 0 .. NODES_PER_CLUMP + 1 :
        \E j \in 1 .. Len(chains[b]) : p = <<b, j, i>>
  BY DEF InLoop
<1>2. PICK j \in 1 .. Len(chains[b]) : p = <<b, j, i>>
  BY <1>1
<1>3. b \in Clumps!Bkts /\ b \in {0, 1}
  BY DEF ChainsInv, Good, Clumps!Bkts
<1>4. chains[b] \in Chain /\ Len(chains[b]) \in Nat \ {0}
  BY <1>3, LengthTypes DEF ChainsInv, Good
<1>5. p[1] = b /\ p[2] = j /\ p[3] = i /\ j \in Nat \ {0} /\ i \in Nat
  BY <1>2, <1>4, ClumpConstants
<1> QED BY <1>2, <1>3, <1>4, <1>5

\* A loop at a record has still to meet this one and those behind it.
LEMMA HereRest ==
  ASSUME ChainsInv, NEW b, NEW j, NEW i, b \in Clumps!Bkts, <<j, i>> \in Clumps!UsedSlots(chains[b])
  PROVE  /\ FromHere(chains, <<b, j, i + 1>>) = FromHere(chains, <<b, j, i>>) \ {chains[b][j][i]}
         /\ chains[b][j][i] \in FromHere(chains, <<b, j, i>>)
         /\ Occupied(chains, <<b, j, i>>)
<1>1. chains[b] \in Chain /\ Single(chains[b]) /\ b \in {0, 1} /\ 1 \in Clumps!Bkts
  BY DEF ChainsInv, Good, Clumps!Bkts
<1>2. /\ From(chains[b], j, i + 1) = From(chains[b], j, i) \ {chains[b][j][i]}
      /\ chains[b][j][i] \in From(chains[b], j, i)
  BY <1>1, FromRest
<1>3. chains[b][j][i] \in Clumps!RecordsIn(chains[b])
  BY <1>1, InRecords
<1>4. b = 0 => chains[b][j][i] \notin Clumps!RecordsIn(chains[1])
  BY <1>1, <1>3 DEF ChainsInv
<1>5. /\ FromHere(chains, <<b, j, i>>) =
           From(chains[b], j, i) \cup (IF b = 0 THEN Clumps!RecordsIn(chains[1]) ELSE {})
      /\ FromHere(chains, <<b, j, i + 1>>) =
           From(chains[b], j, i + 1) \cup (IF b = 0 THEN Clumps!RecordsIn(chains[1]) ELSE {})
  BY DEF FromHere
<1>6. Occupied(chains, <<b, j, i>>)
  BY DEF Occupied
<1> QED BY <1>1, <1>2, <1>4, <1>5, <1>6

LEMMA AskPredicateStep ==
  ASSUME ClumpInv, NEW answer \in Clumps!Answers, Clumps!AskPredicate(answer)
  PROVE  ClumpInv'
<1> DEFINE b == at[1]
           j == at[2]
           i == at[3]
           h == Clumps!Here
<1>1. /\ ChainsInv /\ OldInv /\ AtInv /\ DueInv /\ RefInv /\ CountInv /\ clumpPc = "deleteIf"
      /\ clumpPc \notin Moves /\ h # NullRecord /\ i < NODES_PER_CLUMP /\ InLoop(at)
      /\ UNCHANGED <<movers, activeBkts, Clumps!splitVars>> /\ UNCHANGED <<activeBkts, riterLast>>
      /\ due = FromHere(chains, at) /\ due \subseteq ClumpRecord /\ riterLast = Clumps!End
      /\ riterLast \in Int \X Nat \X Int
  BY DEF Clumps!AskPredicate, ClumpInv, Moves, Clumps!InClump, Clumps!NODE_END, AtInv, DueInv
<1>2. /\ (clumpPc' = "idle" /\ due' = {}) \/ (clumpPc' = "deleteIf" /\ due' = due \ {h})
      /\ clumpPc' \in {"idle", "deleteIf"} \cup Iterations
  BY DEF Clumps!AskPredicate
<1>3. /\ at = <<b, j, i>> /\ b \in 0 .. activeBkts - 1 /\ b \in Clumps!Bkts /\ b \in {0, 1}
      /\ j \in 1 .. Len(chains[b]) /\ j \in Nat \ {0} /\ i \in Nat /\ i \in Clumps!Slots
      /\ chains[b] \in Chain /\ Len(chains[b]) \in Nat \ {0} /\ h = chains[b][j][i]
  <2>1. i \in Nat => i \in Clumps!Slots
    BY <1>1, ClumpConstants
  <2> QED BY <1>1, <2>1, InLoopMeans DEF Clumps!Here
<1>4. <<j, i>> \in Clumps!UsedSlots(chains[b])
  BY <1>1, <1>3, UsedAt
<1> HIDE DEF b, j, i, h
<1>5. /\ FromHere(chains, <<b, j, i + 1>>) = FromHere(chains, <<b, j, i>>) \ {h}
      /\ Occupied(chains, <<b, j, i>>)
  BY <1>1, <1>3, <1>4, HereRest
<1>6. CASE /\ at' = [at EXCEPT ![3] = @ + 1]
           /\ UNCHANGED <<Clumps!chainVars, refCount>>
  <2>1. ChainsInv' /\ OldInv' /\ RoomInv' /\ CountInv' /\ Clumps!Records' = Clumps!Records
    BY <1>1, <1>2, <1>6, Still
  <2>2. at' = <<b, j, i + 1>> /\ chains' = chains
    BY <1>3, <1>6 DEF Clumps!chainVars, i
  <2>3. AtInv'
    <3>1. i + 1 \in 0 .. NODES_PER_CLUMP + 1 /\ i + 1 \in Int /\ b \in Int
      BY <1>1, <1>3, ClumpConstants
    <3>2. InLoop(at)'
      BY <1>1, <1>3, <2>2, <3>1 DEF InLoop
    <3> QED BY <1>1, <1>2, <1>3, <2>2, <3>1, <3>2 DEF AtInv, Iterations
  <2>4. DueInv'
    <3>1. due \ {h} = FromHere(chains', at')
      BY <1>1, <1>3, <1>5, <2>2
    <3> QED BY <1>1, <1>2, <3>1 DEF DueInv, Moves
  <2>5. RefInv'
    BY <1>1, <1>2, <1>6, <2>1, NoIterator DEF Iterations
  <2> QED BY <2>1, <2>3, <2>4, <2>5 DEF ClumpInv
<1>7. CASE /\ Clumps!DeleteNode(at)
           /\ refCount' = [refCount EXCEPT ![Clumps!Here] = @ - 1]
           /\ at' = [Clumps!Back(at) EXCEPT ![3] = @ + 1]
  <2>1. HereIn(chains, at) = h /\ Occupied(chains, at) /\ h \in Clumps!Records /\ h \in ClumpRecord
    BY <1>1, <1>3, <1>5, OccupiedMeans DEF HereIn, h, Clumps!Here
  <2>2. /\ ChainsInv' /\ OldInv' /\ RoomInv' /\ CountInv'
        /\ Clumps!Records' = Clumps!Records \ {h}
        /\ FromHere(chains', at) = FromHere(chains, at) \ {h} /\ BackAt(at)
    <3>1. UNCHANGED <<movers, activeBkts, Clumps!splitVars>> /\ Clumps!DeleteNode(at)
      BY <1>1, <1>7
    <3>2. PICK p : p = at
      OBVIOUS
    <3>3. Clumps!DeleteNode(p) /\ Occupied(chains, p) /\ HereIn(chains, p) = h
      BY <2>1, <3>1, <3>2
    <3>4. /\ ChainsInv' /\ OldInv' /\ RoomInv' /\ CountInv'
          /\ Clumps!Records' = Clumps!Records \ {HereIn(chains, p)}
          /\ FromHere(chains', p) = FromHere(chains, p) \ {HereIn(chains, p)} /\ BackAt(p)
      BY <1>1, <1>2, <3>1, <3>3, Removal
    <3> QED BY <3>2, <3>3, <3>4
  <2>3. /\ at' = <<b, at'[2], at'[3]>> /\ at'[2] \in 1 .. Len(chains'[b])
        /\ at'[3] \in 0 .. NODES_PER_CLUMP + 1
        /\ FromHere(chains', at') = FromHere(chains', at)
    <3> DEFINE q == Clumps!Back(at)
    <3>1. /\ q = <<b, q[2], q[3]>> /\ q[2] \in 1 .. Len(chains'[b]) /\ q[3] \in -1 .. NODES_PER_CLUMP
          /\ FromHere(chains', <<b, q[2], q[3] + 1>>) = FromHere(chains', at)
      BY <2>2 DEF BackAt, b
    <3>2. at' = [q EXCEPT ![3] = @ + 1]
      BY <1>7
    <3> HIDE DEF q
    <3>3. at' = <<b, q[2], q[3] + 1>>
      BY <3>1, <3>2
    <3>4. q[3] + 1 \in 0 .. NODES_PER_CLUMP + 1
      BY <3>1, ClumpConstants
    <3> QED BY <3>1, <3>3, <3>4
  <2>4. AtInv'
    <3>1. at'[2] \in Nat /\ at'[3] \in Int /\ b \in Int
      <4>1. Len(chains'[b]) \in Nat
        BY <1>3, <2>2, LengthTypes DEF ChainsInv, Good
      <4> QED BY <1>3, <2>3, <4>1, ClumpConstants
    <3>2. InLoop(at)'
      BY <1>1, <1>3, <2>3 DEF InLoop
    <3> QED BY <1>1, <1>2, <2>3, <3>1, <3>2 DEF AtInv, Iterations
  <2>5. DueInv'
    <3>1. due \ {h} = FromHere(chains', at')
      BY <1>1, <2>2, <2>3
    <3> QED BY <1>1, <1>2, <3>1 DEF DueInv, Moves
  <2>6. RefInv'
    <3>1. References(refCount, Clumps!Records, "idle", h)
      BY <1>1 DEF RefInv, Clumps!ReferencesBalanced, References, Iterations
    <3>2. References(refCount', Clumps!Records', "idle", h)
      BY <1>7, <2>1, <2>2, <3>1 DEF References, Iterations, h
    <3> QED BY <1>2, <3>2 DEF RefInv, Clumps!ReferencesBalanced, References, Iterations
  <2> QED BY <2>2, <2>4, <2>5, <2>6 DEF ClumpInv
<1> QED BY <1>6, <1>7 DEF Clumps!AskPredicate

\* The loop goes on in the next clump, or in the next bucket.
LEMMA NextClumpStep ==
  ASSUME ClumpInv, Clumps!NextClump
  PROVE  ClumpInv'
<1> DEFINE b == at[1]
           j == at[2]
           i == at[3]
<1>1. /\ ChainsInv /\ OldInv /\ AtInv /\ DueInv /\ RefInv /\ CountInv /\ clumpPc = "deleteIf"
      /\ clumpPc \notin Moves /\ ~(i < NODES_PER_CLUMP) /\ InLoop(at) /\ j < Len(chains[b])
      /\ at' = <<b, j + 1, 0>> /\ clumpPc' = "deleteIf"
      /\ UNCHANGED <<movers, activeBkts, Clumps!chainVars, Clumps!splitVars>>
      /\ UNCHANGED <<activeBkts, chains, riterLast, due, refCount>>
      /\ clumpPc' \in {"idle", "deleteIf"} \cup Iterations
      /\ due = FromHere(chains, at) /\ due \subseteq ClumpRecord /\ riterLast = Clumps!End
      /\ riterLast \in Int \X Nat \X Int
  BY DEF Clumps!NextClump, ClumpInv, Moves, Clumps!InClump, Clumps!NODE_END, AtInv, DueInv, Clumps!chainVars
<1>2. /\ at = <<b, j, i>> /\ b \in 0 .. activeBkts - 1 /\ b \in {0, 1}
      /\ j \in 1 .. Len(chains[b]) /\ j \in Nat \ {0} /\ i \in Nat
      /\ chains[b] \in Chain /\ Len(chains[b]) \in Nat \ {0}
  BY <1>1, InLoopMeans
<1> HIDE DEF b, j, i
<1>3. ChainsInv' /\ OldInv' /\ RoomInv' /\ CountInv' /\ Clumps!Records' = Clumps!Records
  BY <1>1, Still
<1>4. AtInv'
  <2>1. j + 1 \in 1 .. Len(chains[b]) /\ j + 1 \in Nat /\ 0 \in 0 .. NODES_PER_CLUMP + 1 /\ b \in Int
    BY <1>1, <1>2, ClumpConstants
  <2>2. InLoop(at)'
    BY <1>1, <1>2, <2>1 DEF InLoop
  <2> QED BY <1>1, <2>1, <2>2 DEF AtInv, Iterations
<1>5. DueInv'
  <2>1. From(chains[b], j, i) = From(chains[b], j + 1, 0)
    <3>1. i >= NODES_PER_CLUMP /\ j \in Nat
      BY <1>1, <1>2, ClumpConstants
    <3> QED BY <1>2, <3>1, FromNext
  <2>2. FromHere(chains, at) = From(chains[b], j, i) \cup (IF b = 0 THEN Clumps!RecordsIn(chains[1]) ELSE {})
    BY DEF FromHere, b, j, i
  <2>3. FromHere(chains, <<b, j + 1, 0>>) =
          From(chains[b], j + 1, 0) \cup (IF b = 0 THEN Clumps!RecordsIn(chains[1]) ELSE {})
    BY DEF FromHere
  <2>4. due' = FromHere(chains', at')
    BY <1>1, <2>1, <2>2, <2>3
  <2> QED BY <1>1, <2>4 DEF DueInv, Moves
<1>6. RefInv'
  BY <1>1, <1>3, NoIterator DEF Iterations
<1> QED BY <1>3, <1>4, <1>5, <1>6 DEF ClumpInv

LEMMA NextBucketStep ==
  ASSUME ClumpInv, Clumps!NextBucket
  PROVE  ClumpInv'
<1> DEFINE b == at[1]
           j == at[2]
           i == at[3]
<1>1. /\ ChainsInv /\ OldInv /\ AtInv /\ DueInv /\ RefInv /\ CountInv /\ clumpPc = "deleteIf"
      /\ clumpPc \notin Moves /\ InLoop(at)
      /\ UNCHANGED <<movers, activeBkts, Clumps!chainVars, Clumps!splitVars>>
      /\ UNCHANGED <<activeBkts, chains, riterLast, due, refCount>>
      /\ due = FromHere(chains, at) /\ due \subseteq ClumpRecord /\ riterLast = Clumps!End
      /\ riterLast \in Int \X Nat \X Int
  BY DEF Clumps!NextBucket, ClumpInv, Moves, AtInv, DueInv, Clumps!chainVars
<1>2. /\ at = <<b, j, i>> /\ b \in 0 .. activeBkts - 1 /\ b \in {0, 1} /\ b \in Clumps!Bkts
      /\ j \in 1 .. Len(chains[b]) /\ j \in Nat \ {0} /\ i \in Nat
      /\ chains[b] \in Chain /\ Len(chains[b]) \in Nat \ {0} /\ activeBkts \in {1, 2}
  BY <1>1, InLoopMeans DEF ChainsInv, Good
<1>3. \/ b + 1 < activeBkts /\ at' = <<b + 1, 1, 0>> /\ clumpPc' = "deleteIf"
      \/ ~(b + 1 < activeBkts) /\ at' = Clumps!End /\ clumpPc' = "idle"
  BY <1>1 DEF Clumps!NextBucket
<1>4. IF i < NODES_PER_CLUMP THEN chains[b][j][i] = NullRecord ELSE j = Len(chains[b])
  BY DEF Clumps!NextBucket, Clumps!InClump, Clumps!NODE_END, Clumps!Here
<1> HIDE DEF b, j, i
<1>5. ChainsInv' /\ OldInv' /\ RoomInv' /\ CountInv' /\ Clumps!Records' = Clumps!Records
  <2>1. clumpPc' \in {"idle", "deleteIf"} \cup Iterations
    BY <1>3
  <2> QED BY <1>1, <2>1, Still
<1>6. From(chains[b], j, i) = {}
  <2>1. PICK k \in 0 .. NODES_PER_CLUMP : Packed(chains[b], k)
    BY <1>1, <1>2 DEF ChainsInv, Good
  <2>2. j = Len(chains[b]) /\ i >= k
    <3>1. CASE i < NODES_PER_CLUMP
      <4>1. i \in Clumps!Slots /\ chains[b][j][i] = NullRecord
        BY <1>2, <1>4, <3>1, ClumpConstants
      <4>2. ~(j < Len(chains[b]) \/ i < k)
        BY <1>2, <2>1, <4>1 DEF Packed
      <4> QED BY <1>2, <4>2
    <3>2. CASE ~(i < NODES_PER_CLUMP)
      BY <1>2, <1>4, <3>2, ClumpConstants
    <3> QED BY <3>1, <3>2
  <2> QED BY <1>2, <2>1, <2>2, FromEnd
<1>7. due = IF b = 0 THEN Clumps!RecordsIn(chains[1]) ELSE {}
  <2>1. FromHere(chains, at) = From(chains[b], j, i) \cup (IF b = 0 THEN Clumps!RecordsIn(chains[1]) ELSE {})
    BY DEF FromHere, b, j, i
  <2> QED BY <1>1, <1>6, <2>1
<1>8. CASE b + 1 < activeBkts /\ at' = <<b + 1, 1, 0>> /\ clumpPc' = "deleteIf"
  <2>1. b = 0 /\ activeBkts = 2 /\ at' = <<1, 1, 0>>
    BY <1>2, <1>8
  <2>2. chains[1] \in Chain /\ Len(chains[1]) \in Nat \ {0}
    BY <1>1, LengthTypes DEF ChainsInv, Good, Clumps!Bkts
  <2>3. AtInv'
    <3>1. 1 \in 1 .. Len(chains[1]) /\ 1 \in 0 .. activeBkts - 1 /\ 0 \in 0 .. NODES_PER_CLUMP + 1
      BY <2>1, <2>2, ClumpConstants
    <3>2. InLoop(at)'
      BY <1>1, <2>1, <3>1 DEF InLoop
    <3> QED BY <1>1, <1>8, <2>1, <3>2 DEF AtInv, Iterations
  <2>4. DueInv'
    <3>1. FromHere(chains, <<1, 1, 0>>) = Clumps!RecordsIn(chains[1])
      BY <2>2, FromStart DEF FromHere
    <3>2. due' = FromHere(chains', at')
      BY <1>1, <1>7, <2>1, <3>1
    <3> QED BY <1>1, <1>8, <3>2 DEF DueInv, Moves
  <2>5. RefInv'
    BY <1>1, <1>5, <1>8, NoIterator DEF Iterations
  <2> QED BY <1>5, <2>3, <2>4, <2>5 DEF ClumpInv
<1>9. CASE ~(b + 1 < activeBkts) /\ at' = Clumps!End /\ clumpPc' = "idle"
  <2>1. AtInv'
    BY <1>1, <1>9 DEF AtInv, Iterations, Clumps!End
  <2>2. due = {}
    <3>1. b = 0 => activeBkts = 1
      BY <1>2, <1>9
    <3>2. b = 0 => Clumps!RecordsIn(chains[1]) = {}
      BY <1>1, <3>1, EmptyChainFacts DEF ChainsInv, Good
    <3> QED BY <1>7, <3>2
  <2>3. DueInv'
    BY <1>1, <1>9, <2>2 DEF DueInv, Moves
  <2>4. RefInv'
    BY <1>1, <1>5, <1>9, NoIterator DEF Iterations
  <2> QED BY <1>5, <2>1, <2>3, <2>4 DEF ClumpInv
<1> QED BY <1>3, <1>8, <1>9

-----------------------------------------------------------------------------
(* Iterators                                                               *)

\* An iterator that leaves place p ends, or stands on the next record.
Lands(chs, p, refs) ==
  LET rest == FromHere(chs, <<p[1], p[2], p[3] + 1>>)
  IN  \/ at' = Clumps!End /\ rest = {} /\ refCount' = refs
      \/ /\ at' # Clumps!End /\ Occupied(chs, at') /\ FromHere(chs, at') = rest
         /\ refCount' = [refs EXCEPT ![HereIn(chs, at')] = @ + 1]

\* The places it leaves.
InChains(chs, p) ==
  /\ p = <<p[1], p[2], p[3]>> /\ p[1] \in 0 .. activeBkts - 1
  /\ p[2] \in 1 .. Len(chs[p[1]]) /\ p[3] \in -1 .. NODES_PER_CLUMP

\* The same as OccupiedMeans, of any chains.
LEMMA OccupiedAt ==
  ASSUME NEW chs \in [Clumps!Bkts -> Chain], NEW p, Occupied(chs, p)
  PROVE  /\ p = <<p[1], p[2], p[3]>> /\ p[1] \in Clumps!Bkts /\ p[1] \in {0, 1}
         /\ <<p[2], p[3]>> \in Clumps!UsedSlots(chs[p[1]])
         /\ p # Clumps!End /\ p \in Int \X Nat \X Int
         /\ HereIn(chs, p) \in Clumps!RecordsIn(chs[p[1]]) /\ HereIn(chs, p) \in ClumpRecord
<1>1. PICK b \in Clumps!Bkts : \E q \in Clumps!UsedSlots(chs[b]) : p = <<b, q[1], q[2]>>
  BY DEF Occupied
<1>2. PICK q \in Clumps!UsedSlots(chs[b]) : p = <<b, q[1], q[2]>>
  BY <1>1
<1>3. /\ chs[b] \in Chain /\ Len(chs[b]) \in Nat
      /\ q \in (1 .. Len(chs[b])) \X Clumps!Slots /\ q = <<q[1], q[2]>>
  BY <1>2, UsedMeans, ClumpChainFacts
<1>4. p[1] = b /\ p[2] = q[1] /\ p[3] = q[2] /\ q = <<p[2], p[3]>>
  BY <1>2, <1>3
<1>5. /\ p[2] \in Nat \ {0} /\ p[3] \in Clumps!Slots /\ p[3] \in Int /\ b \in {0, 1}
  BY <1>3, <1>4, ClumpConstants DEF Clumps!Bkts
<1>6. HereIn(chs, p) \in Clumps!RecordsIn(chs[b])
  BY <1>2, <1>3, <1>4, InRecords DEF HereIn
<1>7. HereIn(chs, p) \in ClumpRecord
  BY <1>3, <1>6, RecordsAreRecords
<1>8. p # Clumps!End
  BY <1>4, <1>5 DEF Clumps!End
<1> QED BY <1>2, <1>3, <1>4, <1>5, <1>6, <1>7, <1>8

LEMMA Increments ==
  ASSUME NEW chs, NEW p, NEW refs, Good(chs), InChains(chs, p), Clumps!Increment(chs, p, refs)
  PROVE  Lands(chs, p, refs)
<1> DEFINE q == Clumps!Following(chs, p)
           rest == FromHere(chs, <<p[1], p[2], p[3] + 1>>)
<1>1. \/ q = Clumps!End /\ rest = {}
      \/ Occupied(chs, q) /\ rest = FromHere(chs, q)
  <2> DEFINE b == p[1]
             j == p[2]
             i == p[3]
  <2>1. p = <<b, j, i>> /\ b \in 0 .. activeBkts - 1 /\ j \in 1 .. Len(chs[b]) /\ i \in -1 .. NODES_PER_CLUMP
    BY DEF InChains
  <2> HIDE DEF b, j, i
  <2>2. \/ Clumps!Following(chs, <<b, j, i>>) = Clumps!End /\ FromHere(chs, <<b, j, i + 1>>) = {}
        \/ /\ Occupied(chs, Clumps!Following(chs, <<b, j, i>>))
           /\ FromHere(chs, <<b, j, i + 1>>) = FromHere(chs, Clumps!Following(chs, <<b, j, i>>))
    BY <2>1, FollowingIs
  <2>3. p[1] = b /\ p[2] = j /\ p[3] = i
    BY DEF b, j, i
  <2> QED BY <2>1, <2>2, <2>3
<1>2. Occupied(chs, q) => q # Clumps!End
  <2>1. chs \in [Clumps!Bkts -> Chain]
    BY DEF Good
  <2> HIDE DEF q
  <2> QED BY <2>1, OccupiedAt
<1>3. /\ at' = q
      /\ q = Clumps!End => refCount' = refs
      /\ q # Clumps!End => refCount' = [refs EXCEPT ![HereIn(chs, q)] = @ + 1]
  BY DEF Clumps!Increment, HereIn
<1> HIDE DEF q, rest
<1>4. CASE q = Clumps!End /\ rest = {}
  BY <1>3, <1>4 DEF Lands, rest
<1>5. CASE Occupied(chs, q) /\ rest = FromHere(chs, q)
  BY <1>2, <1>3, <1>5 DEF Lands, rest
<1> QED BY <1>1, <1>4, <1>5

\* A loop that goes on there has met what is due, and has its references.
LEMMA Arrival ==
  ASSUME ChainsInv', NEW chs, chs = chains', NEW p, NEW refs, Lands(chs, p, refs),
         References(refs, Clumps!Records', "idle", p),
         due' = FromHere(chs, <<p[1], p[2], p[3] + 1>>), due' \subseteq ClumpRecord,
         clumpPc' = IF at' = Clumps!End THEN "idle" ELSE "iterate", riterLast' = Clumps!End
  PROVE  AtInv' /\ DueInv' /\ RefInv'
<1>1. chs \in [Clumps!Bkts -> Chain]
  BY DEF ChainsInv, Good
<1>2. CASE at' = Clumps!End
  <2>1. clumpPc' = "idle" /\ refCount' = refs /\ due' = {}
    <3>1. ~Occupied(chs, Clumps!End)
      BY <1>1, OccupiedAt
    <3> QED BY <1>2, <3>1 DEF Lands
  <2> QED BY <1>2, <2>1 DEF AtInv, DueInv, RefInv, References, Clumps!ReferencesBalanced,
                            Iterations, Moves, Clumps!End
<1>3. CASE at' # Clumps!End
  <2> DEFINE h == HereIn(chs, at')
  <2>1. /\ clumpPc' = "iterate" /\ Occupied(chs, at') /\ FromHere(chs, at') = due'
        /\ refCount' = [refs EXCEPT ![h] = @ + 1]
    BY <1>3 DEF Lands
  <2>2. h \in ClumpRecord /\ at' \in Int \X Nat \X Int
    BY <1>1, <2>1, OccupiedAt
  <2>3. h \in Clumps!RecordsIn(chs[at'[1]]) /\ at'[1] \in {0, 1}
    BY <1>1, <2>1, OccupiedAt
  <2>4. AtInv'
    BY <2>1, <2>2 DEF AtInv, Iterations, Clumps!End
  <2>5. DueInv'
    BY <2>1 DEF DueInv, Moves
  <2>6. Clumps!Here' = h
    BY DEF Clumps!Here, HereIn
  <2> HIDE DEF h
  <2>7. References(refCount', Clumps!Records', "iterate", h)
    BY <2>1, <2>2 DEF References, Iterations
  <2>8. RefInv'
    BY <2>1, <2>6, <2>7 DEF RefInv, References, Clumps!ReferencesBalanced, Iterations
  <2> QED BY <2>4, <2>5, <2>8
<1> QED BY <1>2, <1>3

LEMMA BeginIterationStep ==
  ASSUME ClumpInv, Clumps!BeginIteration
  PROVE  ClumpInv'
<1> DEFINE p == <<0, 1, -1>>
<1>1. /\ ChainsInv /\ OldInv /\ AtInv /\ DueInv /\ RefInv /\ CountInv /\ clumpPc = "idle"
      /\ clumpPc \notin Moves /\ Clumps!Increment(chains, p, refCount) /\ due' = Clumps!Records
      /\ clumpPc' = IF at' = Clumps!End THEN "idle" ELSE "iterate"
      /\ UNCHANGED <<movers, activeBkts, Clumps!chainVars, Clumps!splitVars>>
      /\ chains' = chains /\ riterLast' = Clumps!End
      /\ clumpPc' \in {"idle", "deleteIf"} \cup Iterations
  BY DEF Clumps!BeginIteration, ClumpInv, Moves, DueInv, Clumps!chainVars, Iterations
<1>2. ChainsInv' /\ OldInv' /\ RoomInv' /\ CountInv' /\ Clumps!Records' = Clumps!Records
  BY <1>1, Still
<1>3. Good(chains) /\ InChains(chains, p)
  <2>1. activeBkts \in {1, 2} /\ Len(chains[0]) \in Nat \ {0}
    BY <1>1, LengthTypes DEF ChainsInv, Good
  <2> QED BY <1>1, <2>1, ClumpConstants DEF ChainsInv, InChains
<1>4. PICK chs, refs : chs = chains /\ refs = refCount
  OBVIOUS
<1>5. Lands(chs, p, refs)
  <2>1. Good(chs) /\ InChains(chs, p) /\ Clumps!Increment(chs, p, refs)
    BY <1>1, <1>3, <1>4
  <2> HIDE DEF p
  <2> QED BY <2>1, Increments
<1>6. due' = FromHere(chs, <<p[1], p[2], p[3] + 1>>) /\ due' \subseteq ClumpRecord
  <2>1. <<p[1], p[2], p[3] + 1>> = <<0, 1, 0>>
    OBVIOUS
  <2> QED BY <1>1, <1>4, <2>1, HereStart, WhereRecords
<1> HIDE DEF p
<1>7. References(refs, Clumps!Records', "idle", p)
  BY <1>1, <1>2, <1>4 DEF RefInv, References, Clumps!ReferencesBalanced, Iterations
<1>8. AtInv' /\ DueInv' /\ RefInv'
  BY <1>1, <1>2, <1>4, <1>5, <1>6, <1>7, Arrival
<1> QED BY <1>2, <1>8 DEF ClumpInv

\* An iterator is at a record of the table.
LEMMA AtRecord ==
  ASSUME ClumpInv, clumpPc \in Iterations
  PROVE  /\ clumpPc \notin Moves /\ Occupied(chains, at) /\ HereIn(chains, at) = Clumps!Here
         /\ InChains(chains, at) /\ at \in Int \X Nat \X Int
         /\ Clumps!Here \in Clumps!Records /\ Clumps!Here \in ClumpRecord
         /\ FromHere(chains, <<at[1], at[2], at[3] + 1>>) = FromHere(chains, at) \ {Clumps!Here}
         /\ Clumps!Here \in FromHere(chains, at)
<1>1. ChainsInv /\ Occupied(chains, at) /\ clumpPc \notin Moves
  BY DEF ClumpInv, AtInv, Iterations, Moves
<1>2. /\ at = <<at[1], at[2], at[3]>> /\ at[1] \in 0 .. activeBkts - 1 /\ at[1] \in Clumps!Bkts
      /\ <<at[2], at[3]>> \in Clumps!UsedSlots(chains[at[1]])
      /\ at[2] \in 1 .. Len(chains[at[1]]) /\ at[3] \in Clumps!Slots /\ at \in Int \X Nat \X Int
      /\ HereIn(chains, at) \in ClumpRecord /\ HereIn(chains, at) \in Clumps!Records
  BY <1>1, OccupiedMeans
<1>3. HereIn(chains, at) = Clumps!Here
  BY DEF HereIn, Clumps!Here
<1>4. InChains(chains, at)
  BY <1>2, ClumpConstants DEF InChains
<1>5. /\ FromHere(chains, <<at[1], at[2], at[3] + 1>>) =
           FromHere(chains, <<at[1], at[2], at[3]>>) \ {chains[at[1]][at[2]][at[3]]}
      /\ chains[at[1]][at[2]][at[3]] \in FromHere(chains, <<at[1], at[2], at[3]>>)
  BY <1>1, <1>2, HereRest
<1>6. /\ FromHere(chains, <<at[1], at[2], at[3] + 1>>) = FromHere(chains, at) \ {Clumps!Here}
      /\ Clumps!Here \in FromHere(chains, at)
  BY <1>2, <1>5 DEF Clumps!Here
<1> QED BY <1>1, <1>2, <1>3, <1>4, <1>6

LEMMA IncrementIteratorStep ==
  ASSUME ClumpInv, Clumps!IncrementIterator
  PROVE  ClumpInv'
<1> DEFINE h == Clumps!Here
<1>0. clumpPc = "iterate" /\ clumpPc \in Iterations
  BY DEF Clumps!IncrementIterator, Iterations
<1>1. /\ ChainsInv /\ OldInv /\ AtInv /\ DueInv /\ RefInv /\ CountInv
      /\ Clumps!Increment(chains, at, [refCount EXCEPT ![h] = @ - 1])
      /\ due' = due \ {h} /\ due = FromHere(chains, at) /\ due \subseteq ClumpRecord
      /\ clumpPc' = IF at' = Clumps!End THEN "idle" ELSE "iterate"
      /\ UNCHANGED <<movers, activeBkts, Clumps!chainVars, Clumps!splitVars>>
      /\ chains' = chains /\ riterLast' = Clumps!End
      /\ clumpPc' \in {"idle", "deleteIf"} \cup Iterations
  BY DEF Clumps!IncrementIterator, ClumpInv, Moves, DueInv, Clumps!chainVars, Iterations
<1>2. /\ clumpPc \notin Moves /\ InChains(chains, at) /\ h \in Clumps!Records /\ h \in ClumpRecord
      /\ FromHere(chains, <<at[1], at[2], at[3] + 1>>) = FromHere(chains, at) \ {h}
  BY <1>0, AtRecord
<1>3. ChainsInv' /\ OldInv' /\ RoomInv' /\ CountInv' /\ Clumps!Records' = Clumps!Records
  BY <1>1, <1>2, Still
<1> HIDE DEF h
<1>4. PICK chs, p, refs : chs = chains /\ p = at /\ refs = [refCount EXCEPT ![h] = @ - 1]
  OBVIOUS
<1>5. Lands(chs, p, refs)
  <2>1. Good(chs) /\ InChains(chs, p) /\ Clumps!Increment(chs, p, refs)
    BY <1>1, <1>2, <1>4 DEF ChainsInv
  <2> QED BY <2>1, Increments
<1>6. due' = FromHere(chs, <<p[1], p[2], p[3] + 1>>) /\ due' \subseteq ClumpRecord
  BY <1>1, <1>2, <1>4
<1>7. References(refs, Clumps!Records', "idle", p)
  <2>1. References(refCount, Clumps!Records, "iterate", h)
    BY <1>0, <1>1 DEF RefInv, References, Clumps!ReferencesBalanced, Iterations, h
  <2> QED BY <1>2, <1>3, <1>4, <2>1 DEF References, Iterations
<1>8. AtInv' /\ DueInv' /\ RefInv'
  BY <1>1, <1>3, <1>4, <1>5, <1>6, <1>7, Arrival
<1> QED BY <1>3, <1>8 DEF ClumpInv

\* Where an iterator is when it has erased its record, and moved on.
LEMMA EraseMeans ==
  ASSUME ClumpInv, clumpPc \in Iterations, Clumps!EraseHere,
         UNCHANGED <<movers, activeBkts, Clumps!splitVars>>,
         clumpPc' \in {"idle", "deleteIf"} \cup Iterations
  PROVE  /\ ChainsInv' /\ OldInv' /\ RoomInv' /\ CountInv'
         /\ \E chs, p, refs :
              /\ chs = chains' /\ Lands(chs, p, refs)
              /\ References(refs, Clumps!Records', "idle", p)
              /\ FromHere(chs, <<p[1], p[2], p[3] + 1>>) = FromHere(chains, at) \ {Clumps!Here}
<1> DEFINE h == Clumps!Here
<1>1. /\ ChainsInv /\ OldInv /\ AtInv /\ DueInv /\ RefInv /\ CountInv
      /\ Clumps!DeleteNode(at)
      /\ Clumps!Increment(chains', Clumps!Back(at), [refCount EXCEPT ![h] = @ - 2])
      /\ activeBkts' = activeBkts
  BY DEF Clumps!EraseHere, ClumpInv
<1>2. /\ clumpPc \notin Moves /\ Occupied(chains, at) /\ HereIn(chains, at) = h
      /\ InChains(chains, at) /\ h \in Clumps!Records /\ h \in ClumpRecord
  BY AtRecord
<1>3. PICK a : a = at
  OBVIOUS
<1>4. Clumps!DeleteNode(a) /\ Occupied(chains, a) /\ HereIn(chains, a) = h
  BY <1>1, <1>2, <1>3
<1>5. /\ ChainsInv' /\ OldInv' /\ RoomInv' /\ CountInv'
      /\ Clumps!Records' = Clumps!Records \ {HereIn(chains, a)}
      /\ FromHere(chains', a) = FromHere(chains, a) \ {HereIn(chains, a)} /\ BackAt(a)
  BY <1>1, <1>2, <1>4, Removal
<1> HIDE DEF h
<1>6. PICK chs, p, refs :
        chs = chains' /\ p = Clumps!Back(a) /\ refs = [refCount EXCEPT ![h] = @ - 2]
  OBVIOUS
<1>7. /\ p = <<a[1], p[2], p[3]>> /\ p[2] \in 1 .. Len(chs[a[1]]) /\ p[3] \in -1 .. NODES_PER_CLUMP
      /\ FromHere(chs, <<a[1], p[2], p[3] + 1>>) = FromHere(chs, a)
  BY <1>5, <1>6 DEF BackAt
<1>8. p[1] = a[1] /\ a[1] \in 0 .. activeBkts - 1
  BY <1>2, <1>3, <1>7 DEF InChains
<1>9. Lands(chs, p, refs)
  <2>1. Good(chs)
    BY <1>1, <1>5, <1>6 DEF ChainsInv, Good
  <2>2. InChains(chs, p)
    BY <1>7, <1>8 DEF InChains
  <2>3. Clumps!Increment(chs, p, refs)
    BY <1>1, <1>3, <1>6
  <2> QED BY <2>1, <2>2, <2>3, Increments
<1>10. References(refs, Clumps!Records', "idle", p)
  <2>1. References(refCount, Clumps!Records, "iterate", h)
    BY <1>1 DEF RefInv, References, Clumps!ReferencesBalanced, Iterations, h
  <2>2. Clumps!Records' = Clumps!Records \ {h}
    BY <1>4, <1>5
  <2> QED BY <1>2, <1>6, <2>1, <2>2 DEF References, Iterations
<1>11. FromHere(chs, <<p[1], p[2], p[3] + 1>>) = FromHere(chains, at) \ {h}
  BY <1>3, <1>4, <1>5, <1>6, <1>7, <1>8
<1> QED BY <1>5, <1>6, <1>9, <1>10, <1>11 DEF h

LEMMA EraseAtIteratorStep ==
  ASSUME ClumpInv, Clumps!EraseAtIterator
  PROVE  ClumpInv'
<1>1. /\ clumpPc = "iterate" /\ clumpPc \in Iterations /\ Clumps!EraseHere
      /\ due' = due \ {Clumps!Here} /\ due = FromHere(chains, at) /\ due \subseteq ClumpRecord
      /\ clumpPc' = IF at' = Clumps!End THEN "idle" ELSE "iterate"
      /\ UNCHANGED <<movers, activeBkts, Clumps!splitVars>> /\ riterLast' = Clumps!End
      /\ clumpPc' \in {"idle", "deleteIf"} \cup Iterations
  BY DEF Clumps!EraseAtIterator, ClumpInv, DueInv, Iterations
<1>2. /\ ChainsInv' /\ OldInv' /\ RoomInv' /\ CountInv'
      /\ \E chs, p, refs :
           /\ chs = chains' /\ Lands(chs, p, refs)
           /\ References(refs, Clumps!Records', "idle", p)
           /\ FromHere(chs, <<p[1], p[2], p[3] + 1>>) = FromHere(chains, at) \ {Clumps!Here}
  BY <1>1, EraseMeans
<1>3. PICK chs, p, refs :
        /\ chs = chains' /\ Lands(chs, p, refs)
        /\ References(refs, Clumps!Records', "idle", p)
        /\ FromHere(chs, <<p[1], p[2], p[3] + 1>>) = FromHere(chains, at) \ {Clumps!Here}
  BY <1>2
<1>4. due' = FromHere(chs, <<p[1], p[2], p[3] + 1>>) /\ due' \subseteq ClumpRecord
  BY <1>1, <1>3
<1>5. AtInv' /\ DueInv' /\ RefInv'
  BY <1>1, <1>2, <1>3, <1>4, Arrival
<1> QED BY <1>2, <1>5 DEF ClumpInv

LEMMA PositionsMean ==
  ASSUME NEW chs
  PROVE  \A p : p \in Clumps!Positions(chs) <=> Occupied(chs, p)
BY DEF Clumps!Positions, Occupied

LEMMA InRecordsFrom ==
  ASSUME NEW chs, NEW q, NEW r
  PROVE  r \in Clumps!RecordsFrom(chs, q) <=>
           \E p : Occupied(chs, p) /\ ~Clumps!Precedes(p, q) /\ r = HereIn(chs, p)
<1>1. r \in Clumps!RecordsFrom(chs, q) <=>
        \E p \in Clumps!Positions(chs) : ~Clumps!Precedes(p, q) /\ r = chs[p[1]][p[2]][p[3]]
  BY DEF Clumps!RecordsFrom
<1> QED BY <1>1, PositionsMean DEF HereIn

\* The range of the table that begins at an iterator.
LEMMA RecordsFromHere ==
  ASSUME NEW chs \in [Clumps!Bkts -> Chain], NEW q, Occupied(chs, q)
  PROVE  Clumps!RecordsFrom(chs, q) = FromHere(chs, q)
<1> DEFINE b == q[1]
<1>1. q = <<b, q[2], q[3]>> /\ b \in {0, 1} /\ b \in Clumps!Bkts /\ q \in Int \X Nat \X Int
  BY OccupiedAt
<1>2. \A p : Occupied(chs, p) =>
        (~Clumps!Precedes(p, q) <=> p[1] > b \/ (p[1] = b /\ ~Clumps!Before(<<p[2], p[3]>>, <<q[2], q[3]>>)))
  <2> TAKE p
  <2> HAVE Occupied(chs, p)
  <2>1. p = <<p[1], p[2], p[3]>> /\ p[1] \in {0, 1}
    BY OccupiedAt
  <2>2. \A x, y, z : Tail(<<x, y, z>>) = <<y, z>>
    OBVIOUS
  <2>3. Tail(p) = <<p[2], p[3]>> /\ Tail(q) = <<q[2], q[3]>>
    <3>1. /\ Tail(<<p[1], p[2], p[3]>>) = <<p[2], p[3]>>
          /\ Tail(<<b, q[2], q[3]>>) = <<q[2], q[3]>>
      BY <2>2
    <3> QED BY <1>1, <2>1, <3>1, Zenon
  <2>4. Clumps!Precedes(p, q) <=>
          p[1] < b \/ (p[1] = b /\ Clumps!Before(<<p[2], p[3]>>, <<q[2], q[3]>>))
    BY <2>3 DEF Clumps!Precedes
  <2> QED BY <1>1, <2>1, <2>4
<1>3. \A r : r \in FromHere(chs, q) <=>
         r \in From(chs[b], q[2], q[3]) \/ (b = 0 /\ r \in Clumps!RecordsIn(chs[1]))
  BY DEF FromHere
<1>4. 0 \in Clumps!Bkts /\ 1 \in Clumps!Bkts /\ chs[0] \in Chain /\ chs[1] \in Chain /\ chs[b] \in Chain
  BY <1>1 DEF Clumps!Bkts
<1> HIDE DEF b
<1>5. ASSUME NEW r \in Clumps!RecordsFrom(chs, q) PROVE r \in FromHere(chs, q)
  <2>1. PICK p : Occupied(chs, p) /\ ~Clumps!Precedes(p, q) /\ r = HereIn(chs, p)
    BY <1>5, InRecordsFrom
  <2>2. /\ p = <<p[1], p[2], p[3]>> /\ p[1] \in {0, 1} /\ <<p[2], p[3]>> \in Clumps!UsedSlots(chs[p[1]])
        /\ r \in Clumps!RecordsIn(chs[p[1]])
    BY <2>1, OccupiedAt
  <2>3. CASE p[1] > b
    <3>1. p[1] = 1 /\ b = 0
      BY <1>1, <2>2, <2>3
    <3> QED BY <1>3, <2>2, <3>1
  <2>4. CASE p[1] = b /\ ~Clumps!Before(<<p[2], p[3]>>, <<q[2], q[3]>>)
    <3>1. r = chs[b][p[2]][p[3]]
      BY <2>1, <2>4 DEF HereIn
    <3>2. PICK s : s = <<p[2], p[3]>>
      OBVIOUS
    <3>3. s \in Clumps!UsedSlots(chs[b]) /\ r = chs[b][s[1]][s[2]] /\ ~Clumps!Before(s, <<q[2], q[3]>>)
      BY <2>2, <2>4, <3>1, <3>2
    <3>4. r \in From(chs[b], q[2], q[3])
      BY <1>4, <3>3, InFrom
    <3> QED BY <1>3, <3>4
  <2> QED BY <1>2, <2>1, <2>3, <2>4
<1>6. ASSUME NEW r \in FromHere(chs, q) PROVE r \in Clumps!RecordsFrom(chs, q)
  <2>1. CASE r \in From(chs[b], q[2], q[3])
    <3>1. PICK s \in Clumps!UsedSlots(chs[b]) : ~Clumps!Before(s, <<q[2], q[3]>>) /\ r = chs[b][s[1]][s[2]]
      BY <1>4, <2>1, InFrom
    <3>2. s = <<s[1], s[2]>>
      BY <1>4, UsedMeans
    <3>3. PICK p : p = <<b, s[1], s[2]>>
      OBVIOUS
    <3>4. p[1] = b /\ p[2] = s[1] /\ p[3] = s[2] /\ s = <<p[2], p[3]>>
      BY <3>2, <3>3
    <3>5. Occupied(chs, p) /\ r = HereIn(chs, p)
      BY <1>1, <3>1, <3>3, <3>4 DEF Occupied, HereIn
    <3>6. ~Clumps!Precedes(p, q)
      BY <1>2, <3>1, <3>4, <3>5
    <3> QED BY <3>5, <3>6, InRecordsFrom
  <2>2. CASE b = 0 /\ r \in Clumps!RecordsIn(chs[1])
    <3>1. PICK s \in Clumps!UsedSlots(chs[1]) : r = chs[1][s[1]][s[2]]
      BY <1>4, <2>2, InRecords
    <3>2. PICK p : p = <<1, s[1], s[2]>>
      OBVIOUS
    <3>3. p[1] = 1 /\ p[2] = s[1] /\ p[3] = s[2]
      BY <3>2
    <3>4. Occupied(chs, p) /\ r = HereIn(chs, p)
      BY <1>4, <3>1, <3>2, <3>3 DEF Occupied, HereIn
    <3>5. ~Clumps!Precedes(p, q)
      <4>1. p[1] > b
        BY <2>2, <3>3
      <4> QED BY <1>2, <3>4, <4>1
    <3> QED BY <3>4, <3>5, InRecordsFrom
  <2> QED BY <1>3, <1>6, <2>1, <2>2
<1> QED BY <1>5, <1>6

LEMMA StartEraseRangeStep ==
  ASSUME ClumpInv, Clumps!StartEraseRange
  PROVE  ClumpInv'
<1>1. /\ ChainsInv /\ OldInv /\ AtInv /\ DueInv /\ RefInv /\ CountInv /\ clumpPc = "iterate"
      /\ clumpPc \notin Moves /\ clumpPc' = "eraseRange" /\ clumpPc \in Iterations
      /\ UNCHANGED <<movers, activeBkts, Clumps!chainVars, Clumps!splitVars>>
      /\ UNCHANGED <<activeBkts, chains, at, refCount>>
      /\ due = FromHere(chains, at) /\ due \subseteq ClumpRecord /\ riterLast = Clumps!End
      /\ Occupied(chains, at) /\ at \in Int \X Nat \X Int /\ riterLast \in Int \X Nat \X Int
      /\ clumpPc' \in {"idle", "deleteIf"} \cup Iterations
  BY DEF Clumps!StartEraseRange, ClumpInv, Moves, Iterations, AtInv, DueInv, Clumps!chainVars
<1>2. ChainsInv' /\ OldInv' /\ RoomInv' /\ CountInv' /\ Clumps!Records' = Clumps!Records
  BY <1>1, Still
<1>3. chains \in [Clumps!Bkts -> Chain]
  BY <1>1 DEF ChainsInv, Good
<1>4. Occupied(chains, at)'
  BY <1>1 DEF Occupied
<1>5. RefInv'
  <2>1. Clumps!Here' = Clumps!Here
    BY <1>1 DEF Clumps!Here
  <2> QED BY <1>1, <1>2, <2>1 DEF RefInv, Clumps!ReferencesBalanced, Iterations
<1>6. CASE UNCHANGED <<riterLast, due>>
  <2>1. due' = FromHere(chains', at')
    BY <1>1, <1>6
  <2> QED BY <1>1, <1>2, <1>4, <1>5, <1>6, <2>1 DEF ClumpInv, AtInv, DueInv, Iterations, Moves
<1>7. ASSUME NEW q \in Clumps!Positions(chains), riterLast' = q,
             due' = Clumps!RecordsFrom(chains, at) \ Clumps!RecordsFrom(chains, q)
      PROVE  ClumpInv'
  <2>1. q # Clumps!End /\ q \in Int \X Nat \X Int
    BY <1>3, PositionsMean, OccupiedAt
  <2>2. due' \subseteq ClumpRecord
    BY <1>1, <1>3, <1>7, RecordsFromHere
  <2> QED BY <1>1, <1>2, <1>4, <1>5, <1>7, <2>1, <2>2 DEF ClumpInv, AtInv, DueInv, Iterations, Moves
<1> QED BY <1>6, <1>7 DEF Clumps!StartEraseRange

LEMMA EraseRangeStep ==
  ASSUME ClumpInv, Clumps!EraseRange
  PROVE  ClumpInv'
<1> DEFINE h == Clumps!Here
<1>1. /\ clumpPc = "eraseRange" /\ clumpPc \in Iterations /\ Clumps!EraseHere
      /\ due \subseteq ClumpRecord /\ riterLast \in Int \X Nat \X Int
      /\ riterLast = Clumps!End => due = FromHere(chains, at)
      /\ UNCHANGED <<movers, activeBkts, Clumps!splitVars>>
      /\ riterLast' = IF clumpPc' = "eraseRange" THEN riterLast ELSE Clumps!End
  BY DEF Clumps!EraseRange, ClumpInv, AtInv, DueInv, Iterations
<1>2. \/ /\ at' = Clumps!End /\ clumpPc' = "idle"
         /\ due' = IF riterLast = Clumps!End THEN due \ {h} ELSE {}
      \/ /\ at' = riterLast /\ at' # Clumps!End /\ clumpPc' = "iterate"
         /\ due' = Clumps!RecordsFrom(chains', at')
      \/ at' # Clumps!End /\ clumpPc' = "eraseRange" /\ due' = due \ {h}
  BY DEF Clumps!EraseRange
<1> HIDE DEF h
<1>3. clumpPc' \in {"idle", "deleteIf"} \cup Iterations
  BY <1>2 DEF Iterations
<1>4. /\ ChainsInv' /\ OldInv' /\ RoomInv' /\ CountInv'
      /\ \E chs, p, refs :
           /\ chs = chains' /\ Lands(chs, p, refs)
           /\ References(refs, Clumps!Records', "idle", p)
           /\ FromHere(chs, <<p[1], p[2], p[3] + 1>>) = FromHere(chains, at) \ {Clumps!Here}
  BY <1>1, <1>3, EraseMeans
<1>5. PICK chs, p, refs :
        /\ chs = chains' /\ Lands(chs, p, refs)
        /\ References(refs, Clumps!Records', "idle", p)
        /\ FromHere(chs, <<p[1], p[2], p[3] + 1>>) = FromHere(chains, at) \ {Clumps!Here}
  BY <1>4
<1>6. chs \in [Clumps!Bkts -> Chain]
  BY <1>4, <1>5 DEF ChainsInv, Good
<1>7. CASE at' = Clumps!End
  <2>1. refCount' = refs /\ FromHere(chains, at) \ {h} = {} /\ clumpPc' = "idle"
    <3>1. ~Occupied(chs, Clumps!End)
      BY <1>6, OccupiedAt
    <3> QED BY <1>2, <1>5, <1>7, <3>1 DEF Lands, h
  <2>2. due' = {}
    BY <1>1, <1>2, <1>7, <2>1
  <2> QED BY <1>1, <1>4, <1>5, <1>7, <2>1, <2>2 DEF ClumpInv, AtInv, DueInv, RefInv, References,
                 Clumps!ReferencesBalanced, Iterations, Moves, Clumps!End
<1>8. CASE at' # Clumps!End
  <2> DEFINE n == HereIn(chs, at')
  <2>1. /\ Occupied(chs, at') /\ FromHere(chs, at') = FromHere(chains, at) \ {h}
        /\ refCount' = [refs EXCEPT ![n] = @ + 1]
        /\ clumpPc' \in {"iterate", "eraseRange"}
    BY <1>2, <1>5, <1>8 DEF Lands, h
  <2>2. n \in ClumpRecord /\ at' \in Int \X Nat \X Int
    BY <1>6, <2>1, OccupiedAt
  <2>3. AtInv'
    BY <1>1, <1>5, <2>1, <2>2 DEF AtInv, Iterations, Clumps!End
  <2>4. Clumps!Here' = n
    BY <1>5 DEF Clumps!Here, HereIn
  <2> HIDE DEF n
  <2>5. References(refCount', Clumps!Records', "iterate", n)
    BY <1>5, <2>1, <2>2 DEF References, Iterations
  <2>6. RefInv'
    BY <2>1, <2>4, <2>5 DEF RefInv, References, Clumps!ReferencesBalanced, Iterations
  <2>7. CASE clumpPc' = "iterate"
    <3>1. due' = FromHere(chs, at') /\ riterLast' = Clumps!End
      BY <1>1, <1>2, <1>5, <1>6, <1>8, <2>1, <2>7, RecordsFromHere
    <3>2. FromHere(chs, at') \subseteq ClumpRecord
      <4>1. ASSUME NEW r \in FromHere(chs, at') PROVE r \in ClumpRecord
        <5>1. \E s : Occupied(chs, s) /\ r = HereIn(chs, s)
          BY <1>6, <2>1, <4>1, RecordsFromHere, InRecordsFrom
        <5> QED BY <1>6, <5>1, OccupiedAt
      <4> QED BY <4>1
    <3>3. DueInv'
      BY <1>5, <2>7, <3>1, <3>2 DEF DueInv, Moves
    <3> QED BY <1>4, <2>3, <2>6, <3>3 DEF ClumpInv
  <2>8. CASE clumpPc' = "eraseRange"
    <3>1. due' = due \ {h} /\ riterLast' = riterLast
      BY <1>1, <1>2, <1>8, <2>8
    <3>2. DueInv'
      BY <1>1, <1>5, <2>1, <2>8, <3>1 DEF DueInv, Moves
    <3> QED BY <1>4, <2>3, <2>6, <3>2 DEF ClumpInv
  <2> QED BY <2>1, <2>7, <2>8
<1> QED BY <1>7, <1>8

-----------------------------------------------------------------------------
(* Splits and merges                                                       *)

\* What the invariant says while records are moved from clump c, slot s.
LEMMA MovesMean ==
  ASSUME ClumpInv, clumpPc \in Moves
  PROVE  /\ ChainsInv /\ OldInv /\ AtInv /\ DueInv /\ RefInv /\ CountInv /\ clumpPc \notin Iterations
         /\ at = <<0, at[2], at[3]>> /\ at[2] \in 1 .. Len(oldList) /\ at[3] \in 0 .. NODES_PER_CLUMP
         /\ at[2] \in Nat \ {0} /\ at[3] \in Nat /\ oldList \in Chain /\ Len(oldList) \in Nat \ {0}
         /\ \E k \in 0 .. NODES_PER_CLUMP : Room(k)
         /\ due = {} /\ riterLast = Clumps!End /\ freeList \in Nat /\ cClumps \in Int
<1>1. /\ ChainsInv /\ OldInv /\ AtInv /\ DueInv /\ RefInv /\ CountInv /\ clumpPc \notin Iterations
      /\ at = <<0, at[2], at[3]>> /\ \E k \in 0 .. NODES_PER_CLUMP : Room(k)
      /\ due = {} /\ riterLast = Clumps!End /\ freeList \in Nat /\ cClumps \in Int
  BY DEF ClumpInv, RoomInv, DueInv, OldInv, CountInv, Moves, Iterations
<1>2. PICK k \in 0 .. NODES_PER_CLUMP : PackedFrom(oldList, k, at[2], at[3])
  BY <1>1 DEF Room
<1>3. /\ oldList \in Chain /\ at[2] \in 1 .. Len(oldList) /\ at[3] \in 0 .. NODES_PER_CLUMP
      /\ Len(oldList) >= 1
  BY <1>2 DEF PackedFrom
<1>4. Len(oldList) \in Nat
  BY <1>3, ClumpChainFacts
<1> QED BY <1>1, <1>3, <1>4, ClumpConstants

\* One record is moved to chain b.
MovesTo(b, new, c, s) ==
  /\ Becomes(b, new) /\ ChainGrown(chains[b], new, oldList[c][s])
  /\ \E n \in 0 .. NODES_PER_CLUMP : Packed(new, n)
  /\ Clumps!Home(oldList[c][s]) = b /\ oldList' = PutAt(oldList, c, s, NullRecord)

LEMMA OneMoves ==
  ASSUME ChainsInv, OldInv, NEW k, NEW c, NEW s, PackedFrom(oldList, k, c, s),
         s < NODES_PER_CLUMP, oldList[c][s] # NullRecord,
         NEW b, NEW new, MovesTo(b, new, c, s), UNCHANGED <<movers, activeBkts>>
  PROVE  /\ ChainsInv' /\ PackedFrom(oldList', k, c, s + 1) /\ Len(oldList') = Len(oldList)
         /\ oldList' \in Chain /\ Single(oldList)'
         /\ \A d \in Clumps!Bkts : Clumps!RecordsIn(oldList') \cap Clumps!RecordsIn(chains'[d]) = {}
         /\ Clumps!Records' = Clumps!Records
         /\ c < Len(oldList) \/ s < k
<1> DEFINE m == oldList[c][s]
<1>1. /\ oldList \in Chain /\ Single(oldList) /\ c \in 1 .. Len(oldList) /\ s \in Clumps!Slots
      /\ s \in Nat /\ k \in 0 .. NODES_PER_CLUMP /\ Len(oldList) \in Nat \ {0}
      /\ \A d \in Clumps!Bkts : Clumps!RecordsIn(oldList) \cap Clumps!RecordsIn(chains[d]) = {}
      /\ c \in Nat
  BY ClumpConstants, ClumpChainFacts DEF PackedFrom, OldInv
<1>2. /\ Becomes(b, new) /\ ChainGrown(chains[b], new, m) /\ b \in Clumps!Bkts
      /\ \E n \in 0 .. NODES_PER_CLUMP : Packed(new, n)
      /\ Clumps!Home(m) = b /\ oldList' = PutAt(oldList, c, s, NullRecord)
  BY DEF MovesTo, Becomes
<1>3. <<c, s>> \in Clumps!UsedSlots(oldList)
  BY <1>1, UsedAt
<1>4. m \in Clumps!RecordsIn(oldList) /\ m \notin Clumps!RecordsIn(chains[b])
  BY <1>1, <1>2, <1>3, InRecords
<1>5. /\ oldList' \in Chain /\ Len(oldList') = Len(oldList)
      /\ \A d \in 1 .. Len(oldList), i \in Clumps!Slots :
           oldList'[d][i] = IF d = c /\ i = s THEN NullRecord ELSE oldList[d][i]
  BY <1>1, <1>2, Put
<1>6. Emptied(oldList, oldList', <<c, s>>)
  <2>1. \A p : p \in Clumps!UsedSlots(oldList') <=> p \in Clumps!UsedSlots(oldList) \ {<<c, s>>}
    <3> TAKE p
    <3>1. p \in Clumps!UsedSlots(oldList') <=>
            p \in (1 .. Len(oldList)) \X Clumps!Slots /\ oldList'[p[1]][p[2]] # NullRecord
      BY <1>5, UsedMeans
    <3>2. p \in Clumps!UsedSlots(oldList) <=>
            p \in (1 .. Len(oldList)) \X Clumps!Slots /\ oldList[p[1]][p[2]] # NullRecord
      BY <1>1, UsedMeans
    <3> QED BY <1>5, <3>1, <3>2
  <2>2. \A p \in Clumps!UsedSlots(oldList') : oldList'[p[1]][p[2]] = oldList[p[1]][p[2]]
    <3> TAKE p \in Clumps!UsedSlots(oldList')
    <3>1. p \in (1 .. Len(oldList)) \X Clumps!Slots /\ p # <<c, s>>
      BY <1>5, <2>1, UsedMeans
    <3> QED BY <1>5, <3>1
  <2>3. Clumps!UsedSlots(oldList') = Clumps!UsedSlots(oldList) \ {<<c, s>>}
    BY <2>1
  <2> QED BY <1>3, <2>2, <2>3 DEF Emptied
<1>7. Clumps!RecordsIn(oldList') = Clumps!RecordsIn(oldList) \ {m} /\ Single(oldList')
  <2>1. <<c, s>>[1] = c /\ <<c, s>>[2] = s
    OBVIOUS
  <2>2. PICK old : old = oldList'
    OBVIOUS
  <2>3. Emptied(oldList, old, <<c, s>>) /\ old \in Chain
    BY <1>5, <1>6, <2>2
  <2>4. /\ Clumps!RecordsIn(old) = Clumps!RecordsIn(oldList) \ {oldList[<<c, s>>[1]][<<c, s>>[2]]}
        /\ Single(old)
    BY <1>1, <2>3, EmptiedRecords
  <2> QED BY <2>1, <2>2, <2>4
<1> HIDE DEF m
<1>8. /\ ChainsInv'
      /\ Clumps!RecordsIn(chains'[b]) = Clumps!RecordsIn(chains[b]) \cup {m}
  BY <1>2, <1>4, ChainsGrow
<1>9. \A d \in Clumps!Bkts : d # b => chains'[d] = chains[d]
  BY <1>2, BecomesMeans
<1>10. \A d \in Clumps!Bkts : Clumps!RecordsIn(oldList') \cap Clumps!RecordsIn(chains'[d]) = {}
  BY <1>1, <1>7, <1>8, <1>9
<1>11. Clumps!Records' = Clumps!Records
  <2>1. CASE b = 0
    BY <1>4, <1>7, <1>8, <1>9, <2>1 DEF Clumps!Records, Clumps!Bkts
  <2>2. CASE b = 1
    BY <1>4, <1>7, <1>8, <1>9, <2>2 DEF Clumps!Records, Clumps!Bkts
  <2> QED BY <1>2, <2>1, <2>2 DEF Clumps!Bkts
<1>12. /\ \A j \in 1 .. Len(oldList), i \in Clumps!Slots :
            oldList[j][i] # NullRecord <=> (j < Len(oldList) \/ i < k) /\ (c < j \/ (c = j /\ s <= i))
       /\ (Len(oldList) > 1 => k >= 1)
  BY DEF PackedFrom
<1>13. PackedFrom(oldList', k, c, s + 1)
  <2>1. \A j \in 1 .. Len(oldList), i \in Clumps!Slots :
          oldList'[j][i] # NullRecord <=>
            (j < Len(oldList) \/ i < k) /\ (c < j \/ (c = j /\ s + 1 <= i))
    <3> TAKE j \in 1 .. Len(oldList), i \in Clumps!Slots
    <3>1. i \in Nat /\ j \in Nat
      BY <1>1, ClumpConstants
    <3>2. CASE j = c /\ i = s
      BY <1>1, <1>5, <3>1, <3>2
    <3>3. CASE ~(j = c /\ i = s)
      <4>1. oldList'[j][i] = oldList[j][i]
        BY <1>5, <3>3
      <4> QED BY <1>1, <1>12, <3>1, <3>3, <4>1
    <3> QED BY <3>2, <3>3
  <2>2. s + 1 \in 0 .. NODES_PER_CLUMP
    BY <1>1, ClumpConstants
  <2> QED BY <1>1, <1>5, <1>12, <2>1, <2>2 DEF PackedFrom
<1>14. c < Len(oldList) \/ s < k
  BY <1>1, <1>12
<1> QED BY <1>5, <1>7, <1>8, <1>10, <1>11, <1>13, <1>14

\* A split takes a clump: there is one.
LEMMA SplitTakes ==
  ASSUME NEW other \in 0 .. NODES_PER_CLUMP, NEW s \in 0 .. NODES_PER_CLUMP - 1, NEW new \in Nat,
         NEW l \in Nat, NEW c \in 1 .. l, NEW free \in Int,
         Clumpful(NODES_PER_CLUMP + other - s, c - 1 - new),
         free = (IF l > 1 THEN 1 ELSE 0) + Freed(c) - new
  PROVE  free > 0 /\ Clumpful(1 + other - (s + 1), c - 1 - (new + 1))
<1> DEFINE n == NODES_PER_CLUMP
           x == n + other - s
           e == c - 1 - new
<1>1. n \in Nat \ {0} /\ other \in Int /\ s \in Int /\ c \in Int /\ l \in Int /\ new \in Int /\ x \in Int /\ e \in Int
  BY ClumpConstants
<1>2. x >= 1
  BY <1>1
<1>3. (x = n /\ e = 1) \/ (x = 2 * n /\ e = 2)
  BY <1>1, <1>2 DEF Clumpful
<1>4. c >= 2 /\ l > 1
  BY <1>1, <1>3
<1>5. Freed(c) = c - 2
  BY <1>1, <1>4 DEF Freed
<1>6. free > 0
  BY <1>1, <1>3, <1>4, <1>5
<1>7. 1 + other - (s + 1) = x - n /\ c - 1 - (new + 1) = e - 1
  BY <1>1
<1>8. (x - n = 0 /\ e - 1 = 0) \/ (x - n = n /\ e - 1 = 1)
  BY <1>1, <1>3
<1>9. Clumpful(x - n, e - 1)
  BY <1>8 DEF Clumpful
<1> QED BY <1>6, <1>7, <1>9

\* The clumps of the old chain that are still to be emptied.
OldClumps ==
  IF oldList = <<>> THEN 0
  ELSE IF at[2] = 1 THEN Len(oldList) - 1 ELSE Len(oldList) - at[2] + 1

\* Clumps only change places, or are allocated and freed.
LEMMA ClumpsKept ==
  ASSUME ChainsInv, ChainsInv', CountInv, NEW taken \in Int, cClumps' = cClumps + taken,
         freeList \in Int, freeList' \in Int, OldClumps \in Int, OldClumps' \in Int,
         Lengths' + freeList' + OldClumps' = Lengths + freeList + OldClumps + taken
  PROVE  CountInv'
<1> DEFINE a0 == Len(chains[0])
           a1 == Len(chains[1])
           b0 == Len(chains'[0])
           b1 == Len(chains'[1])
<1>1. a0 \in Int /\ a1 \in Int
  BY LengthTypes DEF ChainsInv, Good
<1>2. b0 \in Int /\ b1 \in Int
  BY LengthTypes DEF ChainsInv, Good
<1>3. cClumps \in Int /\ cClumps = a0 - 1 + a1 - 1 + freeList + OldClumps
  BY DEF CountInv, Clumps!ClumpsAccounted, OldClumps
<1>4. Clumps!ClumpsAccounted' <=> cClumps' = b0 - 1 + b1 - 1 + freeList' + OldClumps'
  BY DEF Clumps!ClumpsAccounted, OldClumps
<1>5. Lengths = a0 + a1 /\ Lengths' = b0 + b1
  BY DEF Lengths
<1> DEFINE o == OldClumps
           o2 == OldClumps'
           f == freeList
           f2 == freeList'
<1>6. /\ f \in Int /\ f2 \in Int /\ o \in Int /\ o2 \in Int
      /\ (b0 + b1) + f2 + o2 = (a0 + a1) + f + o + taken
      /\ cClumps = a0 - 1 + a1 - 1 + f + o
  BY <1>3, <1>5
<1> HIDE DEF a0, a1, b0, b1, o, o2, f, f2
<1>7. cClumps + taken = b0 - 1 + b1 - 1 + f2 + o2 /\ cClumps + taken \in Int
  BY <1>1, <1>2, <1>6
<1>8. cClumps' = b0 - 1 + b1 - 1 + freeList' + OldClumps' /\ cClumps' \in Int
  BY <1>7 DEF f2, o2
<1> QED BY <1>4, <1>8 DEF CountInv

LEMMA SplitRecordStep ==
  ASSUME ClumpInv, Clumps!SplitRecord
  PROVE  ClumpInv'
<1> DEFINE m == Clumps!Moving
           c == at[2]
           s == at[3]
           b == Clumps!Home(m)
           old == chains[b]
<1>1. /\ clumpPc = "split" /\ clumpPc \in Moves /\ m # NullRecord /\ s < NODES_PER_CLUMP
      /\ m = oldList[c][s] /\ oldList' = PutAt(oldList, c, s, NullRecord)
      /\ at' = [at EXCEPT ![3] = @ + 1] /\ target' = target
      /\ UNCHANGED <<movers, activeBkts, cClumps, riterLast, refCount, due>>
      /\ clumpPc' = IF slot[b] = NODES_PER_CLUMP /\ freeList = 0 THEN "nullClump" ELSE clumpPc
  BY DEF Clumps!SplitRecord, Clumps!MovesOn, Moves, Clumps!InClump, Clumps!NODE_END, Clumps!Moving,
         Clumps!MovingRemoved, PutAt
<1>2. /\ ChainsInv /\ OldInv /\ AtInv /\ DueInv /\ RefInv /\ CountInv /\ clumpPc \notin Iterations
      /\ at = <<0, c, s>> /\ c \in 1 .. Len(oldList) /\ s \in 0 .. NODES_PER_CLUMP
      /\ c \in Nat \ {0} /\ s \in Nat /\ oldList \in Chain /\ Len(oldList) \in Nat \ {0}
      /\ \E k \in 0 .. NODES_PER_CLUMP : Room(k)
      /\ due = {} /\ riterLast = Clumps!End /\ freeList \in Nat /\ cClumps \in Int
  BY <1>1, MovesMean
<1>3. PICK k \in 0 .. NODES_PER_CLUMP : PackedFrom(oldList, k, c, s) /\ SplitRoom(k)
  BY <1>1, <1>2 DEF Room
<1> DEFINE n0 == Len(chains[0])
           n1 == Len(chains[1])
           l == Len(oldList)
           new == n0 + n1 - 2
<1>4. /\ activeBkts = 2 /\ \A d \in Clumps!Bkts : Packed(chains[d], slot[d])
      /\ freeList = (IF l > 1 THEN 1 ELSE 0) + Freed(c) - new
      /\ c < l \/ s <= k => Clumpful(slot[0] + slot[1] - s, c - 1 - new)
  BY <1>3 DEF SplitRoom
<1>5. n0 \in Nat \ {0} /\ n1 \in Nat \ {0} /\ b \in Clumps!Bkts /\ b \in {0, 1}
      /\ slot \in [Clumps!Bkts -> 0 .. NODES_PER_CLUMP] /\ old \in Chain /\ Len(old) \in Nat \ {0}
      /\ slot[0] \in 0 .. NODES_PER_CLUMP /\ slot[1] \in 0 .. NODES_PER_CLUMP
  BY <1>2, LengthTypes DEF ChainsInv, Good, Clumps!Bkts, Clumps!Home, OldInv
<1>6. Packed(old, slot[b]) /\ m \in ClumpRecord
  <2>1. s \in Clumps!Slots
    BY <1>1, <1>2, ClumpConstants
  <2> QED BY <1>1, <1>2, <1>4, <1>5, <2>1, ClumpChainFacts
<1> DEFINE took == slot[b] = NODES_PER_CLUMP
           put == IF took THEN WithClump(old, m) ELSE PutAt(old, Len(old), slot[b], m)
           n == IF took THEN 1 ELSE slot[b] + 1
<1>7. /\ chains' = [chains EXCEPT ![b] = put]
      /\ slot' = [slot EXCEPT ![b] = n]
      /\ freeList' = IF took THEN freeList - 1 ELSE freeList
  BY DEF Clumps!SplitRecord, Clumps!AppendFromFreeList, Clumps!NODE_END, WithClump, PutAt
<1>8. PICK x : x = put
  OBVIOUS
<1> HIDE DEF m, c, s, b
<1>9. /\ Packed(x, n) /\ ChainGrown(old, x, m) /\ n \in 0 .. NODES_PER_CLUMP
      /\ Len(x) = IF took THEN Len(old) + 1 ELSE Len(old)
  <2>1. CASE took
    <3>1. Packed(old, NODES_PER_CLUMP) /\ x = WithClump(old, m)
      BY <1>6, <1>8, <2>1
    <3>2. Packed(x, 1) /\ Len(x) = Len(old) + 1 /\ ChainGrown(old, x, m)
      BY <1>6, <3>1, AddGrows
    <3> QED BY <2>1, <3>2, ClumpConstants
  <2>2. CASE ~took
    <3>1. slot[b] < NODES_PER_CLUMP /\ x = PutAt(old, Len(old), slot[b], m) /\ slot[b] \in 0 .. NODES_PER_CLUMP
      BY <1>5, <1>8, <2>2, ClumpConstants
    <3>2. Packed(x, slot[b] + 1) /\ Len(x) = Len(old) /\ ChainGrown(old, x, m)
      BY <1>6, <3>1, PutGrows
    <3> QED BY <2>2, <3>1, <3>2, ClumpConstants
  <2> QED BY <2>1, <2>2
<1> HIDE DEF took, put, n, old, new, l
<1>10. MovesTo(b, x, c, s)
  <2>1. Becomes(b, x)
    <3>1. x \in Chain
      BY <1>9, PackedSlots
    <3> QED BY <1>5, <1>7, <1>8, <3>1 DEF Becomes
  <2> QED BY <1>1, <1>9, <2>1 DEF MovesTo, old, b
<1>11. /\ ChainsInv' /\ PackedFrom(oldList', k, c, s + 1) /\ Len(oldList') = Len(oldList)
       /\ oldList' \in Chain /\ Single(oldList)'
       /\ \A d \in Clumps!Bkts : Clumps!RecordsIn(oldList') \cap Clumps!RecordsIn(chains'[d]) = {}
       /\ Clumps!Records' = Clumps!Records
       /\ c < Len(oldList) \/ s < k
  <2>1. oldList[c][s] # NullRecord /\ UNCHANGED <<movers, activeBkts>>
    BY <1>1
  <2> QED BY <1>1, <1>2, <1>3, <1>10, <2>1, OneMoves
<1>12. Clumpful(slot[0] + slot[1] - s, c - 1 - new)
  BY <1>2, <1>4, <1>11 DEF l
<1> DEFINE other == IF b = 0 THEN slot[1] ELSE slot[0]
           sum == slot[0] + slot[1]
           sum2 == slot'[0] + slot'[1]
           new2 == Len(chains'[0]) + Len(chains'[1]) - 2
<1>13. /\ other \in 0 .. NODES_PER_CLUMP /\ sum = slot[b] + other /\ sum2 = n + other
       /\ new \in Int /\ new + 2 = Lengths /\ sum \in Int /\ n \in Int
  <2>1. n \in Int
    BY <1>9
  <2>2. slot'[b] = n /\ \A d \in Clumps!Bkts : d # b => slot'[d] = slot[d]
    BY <1>5, <1>7
  <2>3. new \in Int /\ new + 2 = Lengths
    <3>1. new = n0 + n1 - 2 /\ Lengths = n0 + n1
      BY DEF new, Lengths
    <3> HIDE DEF n0, n1
    <3> QED BY <1>5, <3>1
  <2> QED BY <1>5, <2>1, <2>2, <2>3 DEF Clumps!Bkts
<1>14. new2 + 2 = Lengths' /\ new2 = (IF took THEN new + 1 ELSE new) /\ new \in Nat
  <2> DEFINE z0 == Len(chains'[0])
             z1 == Len(chains'[1])
             l1 == Len(old)
             l2 == Len(x)
  <2>1. Lengths' = Lengths - l1 + l2 /\ Lengths \in Int
    BY <1>2, <1>10, BecomesMeans DEF MovesTo, old
  <2>2. Lengths' = z0 + z1 /\ new2 = z0 + z1 - 2
    BY DEF Lengths
  <2>3. z0 \in Nat \ {0} /\ z1 \in Nat \ {0}
    BY <1>11, LengthTypes DEF ChainsInv, Good
  <2>4. l1 \in Nat /\ l2 = IF took THEN l1 + 1 ELSE l1
    BY <1>5, <1>9
  <2>5. new \in Nat
    <3>1. new = n0 + n1 - 2
      BY DEF new
    <3> HIDE DEF n0, n1
    <3> QED BY <1>5, <3>1
  <2> HIDE DEF z0, z1, l1, l2, new2
  <2> QED BY <1>13, <2>1, <2>2, <2>3, <2>4, <2>5
<1> HIDE DEF other, sum, sum2, new2
<1>15. /\ Clumpful(sum2 - (s + 1), c - 1 - new2) /\ (took => freeList > 0)
       /\ freeList' = (IF l > 1 THEN 1 ELSE 0) + Freed(c) - new2 /\ freeList' \in Nat
  <2>1. Clumpful(sum - s, c - 1 - new)
    <3>1. sum - s = slot[0] + slot[1] - s
      BY <1>2, <1>5, ClumpConstants DEF sum
    <3> QED BY <1>12, <3>1
  <2>2. Freed(c) \in Int /\ l \in Nat /\ c \in 1 .. l
    BY <1>2 DEF Freed, l
  <2>3. CASE took
    <3>1. slot[b] = NODES_PER_CLUMP /\ n = 1 /\ freeList' = freeList - 1
      BY <1>7, <2>3 DEF took, n
    <3>2. Clumpful(NODES_PER_CLUMP + other - s, c - 1 - new)
      <4>1. sum - s = NODES_PER_CLUMP + other - s
        BY <1>2, <1>13, <3>1, ClumpConstants
      <4> QED BY <2>1, <4>1
    <3>3. s \in 0 .. NODES_PER_CLUMP - 1
      BY <1>1, <1>2, ClumpConstants
    <3>4. freeList > 0 /\ Clumpful(1 + other - (s + 1), c - 1 - (new + 1))
      <4>1. freeList = (IF l > 1 THEN 1 ELSE 0) + Freed(c) - new /\ freeList \in Int
        BY <1>2, <1>4 DEF l
      <4> QED BY <1>13, <1>14, <2>2, <3>2, <3>3, <4>1, SplitTakes
    <3>5. new2 = new + 1 /\ sum2 = 1 + other
      BY <1>13, <1>14, <2>3, <3>1
    <3>6. Clumpful(sum2 - (s + 1), c - 1 - new2)
      <4>1. sum2 - (s + 1) = 1 + other - (s + 1)
        BY <1>2, <1>13, <3>5, ClumpConstants
      <4> QED BY <3>4, <3>5, <4>1
    <3>7. freeList' = (IF l > 1 THEN 1 ELSE 0) + Freed(c) - new2 /\ freeList' \in Nat
      <4> DEFINE prime == IF l > 1 THEN 1 ELSE 0
                 freed == Freed(c)
      <4>1. freeList = prime + freed - new /\ prime \in Int /\ freed \in Int
        BY <1>4, <2>2 DEF l
      <4>2. freeList > 0 /\ freeList \in Nat /\ freeList' = freeList - 1 /\ new \in Int /\ new2 = new + 1
        BY <1>2, <1>13, <3>1, <3>4, <3>5
      <4> HIDE DEF prime, freed
      <4>3. freeList' = prime + freed - new2 /\ freeList' \in Nat
        BY <4>1, <4>2
      <4> QED BY <4>3 DEF prime, freed
    <3> QED BY <3>4, <3>6, <3>7
  <2>4. CASE ~took
    <3>1. new2 = new /\ freeList' = freeList /\ n = slot[b] + 1
      BY <1>7, <1>14, <2>4 DEF n
    <3>2. sum2 - (s + 1) = sum - s
      <4>1. slot[b] \in Int /\ other \in Int /\ s \in Int
        BY <1>2, <1>5, <1>13, ClumpConstants
      <4> QED BY <1>13, <3>1, <4>1
    <3> QED BY <1>2, <1>4, <2>1, <2>4, <3>1, <3>2
  <2> QED BY <2>3, <2>4
<1>16. /\ clumpPc' = "split" /\ at' = <<0, c, s + 1>>
       /\ slot' \in [Clumps!Bkts -> 0 .. NODES_PER_CLUMP]
       /\ \A d \in Clumps!Bkts : Packed(chains'[d], slot'[d])
  <2>1. clumpPc' = "split"
    BY <1>1, <1>15 DEF took
  <2>2. at' = <<0, c, s + 1>>
    BY <1>1, <1>2 DEF s
  <2>3. \A d \in Clumps!Bkts : Packed(chains'[d], slot'[d])
    <3>1. slot'[b] = n /\ \A d \in Clumps!Bkts : d # b => slot'[d] = slot[d]
      BY <1>5, <1>7
    <3>2. chains'[b] = x /\ \A d \in Clumps!Bkts : d # b => chains'[d] = chains[d]
      BY <1>2, <1>10, BecomesMeans DEF MovesTo
    <3> QED BY <1>4, <1>9, <3>1, <3>2
  <2> QED BY <1>5, <1>7, <1>9, <2>1, <2>2, <2>3
<1>17. SplitRoom(k)'
  <2>1. /\ activeBkts' = 2 /\ at'[2] = c /\ at'[3] = s + 1 /\ Len(oldList') = l
    BY <1>1, <1>4, <1>11, <1>16 DEF l
  <2>2. sum2 - (s + 1) = slot'[0] + slot'[1] - (s + 1)
    <3>1. slot'[0] \in Int /\ slot'[1] \in Int /\ s + 1 \in Int
      BY <1>2, <1>16, ClumpConstants DEF Clumps!Bkts
    <3> QED BY <3>1 DEF sum2
  <2>3. Clumpful(slot'[0] + slot'[1] - at'[3], at'[2] - 1 - new2)
    BY <1>15, <2>1, <2>2
  <2>4. freeList' = (IF Len(oldList') > 1 THEN 1 ELSE 0) + Freed(at'[2]) - new2
    BY <1>15, <2>1
  <2> QED BY <1>16, <2>1, <2>3, <2>4 DEF SplitRoom, new2
<1>18. RoomInv'
  <2>1. Room(k)'
    BY <1>11, <1>16, <1>17 DEF Room
  <2> QED BY <1>16, <2>1 DEF RoomInv
<1>19. OldInv'
  BY <1>1, <1>2, <1>11, <1>15, <1>16 DEF OldInv, Moves
<1>20. AtInv' /\ DueInv'
  <2>1. s + 1 \in Int
    BY <1>2
  <2> QED BY <1>1, <1>2, <1>16, <2>1 DEF AtInv, DueInv, Iterations, Moves
<1>21. RefInv'
  BY <1>1, <1>2, <1>11, <1>16, NoIterator DEF Iterations
<1>22. CountInv'
  <2>1. Lengths' + freeList' = Lengths + freeList /\ Lengths \in Int /\ Lengths' \in Int
    BY <1>2, <1>7, <1>13, <1>14
  <2>2. OldClumps' = OldClumps /\ OldClumps \in Int
    <3>1. Len(oldList') # 0 /\ Len(oldList) # 0
      BY <1>2, <1>11
    <3>2. oldList # <<>> /\ oldList' # <<>>
      BY <3>1, NoChainFacts
    <3>3. at'[2] = at[2]
      BY <1>16 DEF c
    <3>4. OldClumps' = OldClumps
      BY <1>11, <3>2, <3>3 DEF OldClumps
    <3>5. OldClumps \in Int
      <4>1. at[2] \in Int /\ Len(oldList) \in Int
        BY <1>2 DEF c
      <4> QED BY <4>1 DEF OldClumps
    <3> QED BY <3>4, <3>5
  <2>3. /\ cClumps' = cClumps + 0 /\ freeList \in Int /\ freeList' \in Int /\ 0 \in Int
        /\ Lengths' + freeList' + OldClumps' = Lengths + freeList + OldClumps + 0
    BY <1>1, <1>2, <1>15, <2>1, <2>2
  <2> QED BY <1>2, <1>11, <2>2, <2>3, ClumpsKept
<1> QED BY <1>11, <1>18, <1>19, <1>20, <1>21, <1>22 DEF ClumpInv

\* The loop goes on in the old chain, or leaves it: the buckets stay.
LEMMA BucketsStay ==
  ASSUME ClumpInv, clumpPc \in Moves, UNCHANGED <<movers, activeBkts, chains>>
  PROVE  ChainsInv' /\ Lengths' = Lengths /\ Lengths \in Int
<1>1. ChainsInv
  BY DEF ClumpInv
<1>2. ChainsInv'
  BY <1>1 DEF ChainsInv, Good, Clumps!Home
<1>3. Lengths' = Lengths /\ Lengths \in Int
  <2> DEFINE a0 == Len(chains[0])
             a1 == Len(chains[1])
  <2>1. a0 \in Int /\ a1 \in Int /\ Lengths = a0 + a1
    BY <1>1, LengthTypes DEF ChainsInv, Good, Lengths
  <2>2. Lengths' = Lengths
    BY DEF Lengths
  <2> HIDE DEF a0, a1
  <2> QED BY <2>1, <2>2
<1> QED BY <1>2, <1>3

LEMMA SkipEmptySlotStep ==
  ASSUME ClumpInv, Clumps!SkipEmptySlot
  PROVE  ClumpInv'
<1> DEFINE c == at[2]
           s == at[3]
<1>1. /\ clumpPc \in Moves /\ oldList[c][s] = NullRecord /\ s < NODES_PER_CLUMP
      /\ at' = [at EXCEPT ![3] = @ + 1]
      /\ UNCHANGED <<movers, activeBkts, chains, cClumps, freeList, oldList, slot, target>>
      /\ UNCHANGED <<riterLast, refCount, due, clumpPc>>
  BY DEF Clumps!SkipEmptySlot, Moves, Clumps!InClump, Clumps!NODE_END, Clumps!Moving,
         Clumps!chainVars, Clumps!splitVars
<1>2. /\ ChainsInv /\ OldInv /\ AtInv /\ DueInv /\ RefInv /\ CountInv /\ clumpPc \notin Iterations
      /\ at = <<0, c, s>> /\ c \in 1 .. Len(oldList) /\ s \in 0 .. NODES_PER_CLUMP
      /\ c \in Nat \ {0} /\ s \in Nat /\ oldList \in Chain /\ Len(oldList) \in Nat \ {0}
      /\ \E k \in 0 .. NODES_PER_CLUMP : Room(k)
      /\ due = {} /\ riterLast = Clumps!End /\ freeList \in Nat /\ cClumps \in Int
  BY <1>1, MovesMean
<1>3. PICK k \in 0 .. NODES_PER_CLUMP : Room(k)
  BY <1>2
<1> HIDE DEF c, s
<1>4. at' = <<0, c, s + 1>> /\ at'[2] = c /\ at'[3] = s + 1 /\ at[2] = c /\ at[3] = s
  BY <1>1, <1>2 DEF s
<1>5. PackedFrom(oldList, k, c, s)
  BY <1>3, <1>4 DEF Room
<1>6. /\ s \in Clumps!Slots /\ k \in Nat /\ ~(c < Len(oldList)) /\ s >= k
  <2>1. s \in Clumps!Slots
    BY <1>1, <1>2, ClumpConstants
  <2>2. ~(c < Len(oldList) \/ s < k)
    BY <1>1, <1>2, <1>5, <2>1 DEF PackedFrom
  <2> QED BY <1>2, <2>1, <2>2, ClumpConstants
<1>7. PackedFrom(oldList, k, c, s + 1)
  <2>1. \A j \in 1 .. Len(oldList), i \in Clumps!Slots :
          oldList[j][i] # NullRecord <=> (j < Len(oldList) \/ i < k) /\ (c < j \/ (c = j /\ s + 1 <= i))
    <3> TAKE j \in 1 .. Len(oldList), i \in Clumps!Slots
    <3>1. oldList[j][i] # NullRecord <=> (j < Len(oldList) \/ i < k) /\ (c < j \/ (c = j /\ s <= i))
      BY <1>5 DEF PackedFrom
    <3>2. i \in Nat /\ j \in Nat
      BY ClumpConstants
    <3> QED BY <1>2, <1>6, <3>1, <3>2
  <2>2. s + 1 \in 0 .. NODES_PER_CLUMP
    BY <1>1, <1>2, ClumpConstants
  <2> QED BY <1>5, <2>1, <2>2 DEF PackedFrom
<1>8. ~(c < Len(oldList) \/ s + 1 <= k)
  BY <1>2, <1>6
<1>9. RoomInv'
  <2>1. Room(k)'
    <3>1. clumpPc = "split" => SplitRoom(k)'
      <4> SUFFICES ASSUME clumpPc = "split" PROVE SplitRoom(k)'
        OBVIOUS
      <4>1. SplitRoom(k)
        BY <1>3 DEF Room
      <4> QED BY <1>1, <1>4, <1>8, <4>1 DEF SplitRoom
    <3>2. clumpPc = "merge" => Merging(k)'
      <4> SUFFICES ASSUME clumpPc = "merge" PROVE Merging(k)'
        OBVIOUS
      <4>1. PICK l0 \in Nat, k0 \in 0 .. NODES_PER_CLUMP, prime \in 0 .. 2 : MergeRoom(k, l0, k0, prime)
        BY <1>3 DEF Room, Merging
      <4>2. MergeRoom(k, l0, k0, prime)'
        BY <1>1, <1>4, <1>8, <4>1 DEF MergeRoom
      <4> QED BY <4>2 DEF Merging
    <3> QED BY <1>1, <1>4, <1>7, <3>1, <3>2 DEF Room
  <2> QED BY <1>4, <2>1 DEF RoomInv
<1>10. OldInv'
  BY <1>1, <1>2 DEF OldInv, Moves
<1>11. AtInv' /\ DueInv'
  <2>1. s + 1 \in Int
    BY <1>2
  <2>2. clumpPc' \in Moves
    BY <1>1
  <2> QED BY <1>1, <1>2, <1>4, <2>1, <2>2 DEF AtInv, DueInv, Iterations, Moves
<1>12. RefInv'
  <2>1. Clumps!Records' = Clumps!Records
    BY <1>1 DEF Clumps!Records
  <2> QED BY <1>1, <1>2, <2>1, NoIterator
<1>13. CountInv'
  BY <1>1, <1>2, <1>4 DEF CountInv, Clumps!ClumpsAccounted
<1> QED BY <1>1, <1>9, <1>10, <1>11, <1>12, <1>13, BucketsStay DEF ClumpInv

LEMMA FreedNext ==
  ASSUME NEW c \in Nat \ {0}
  PROVE  Freed(c + 1) = Freed(c) + (IF c > 1 THEN 1 ELSE 0) /\ Freed(c) \in Nat /\ Freed(1) = 0
<1>1. Freed(c) = (IF c > 2 THEN c - 2 ELSE 0) /\ Freed(c + 1) = (IF c + 1 > 2 THEN c + 1 - 2 ELSE 0)
  BY DEF Freed
<1>2. Freed(1) = 0
  BY DEF Freed
<1>3. CASE c = 1
  BY <1>1, <1>2, <1>3
<1>4. CASE c = 2
  BY <1>1, <1>2, <1>4
<1>5. CASE c > 2
  <2>1. Freed(c) = c - 2 /\ Freed(c + 1) = c - 1
    BY <1>1, <1>5
  <2> QED BY <1>2, <1>5, <2>1
<1> QED BY <1>3, <1>4, <1>5

\* At the end of a clump the same slots have been filled as left behind.
LEMMA ClumpfulNext ==
  ASSUME NEW sum \in Int, sum <= 2 * NODES_PER_CLUMP, NEW e \in Int,
         Clumpful(sum - NODES_PER_CLUMP, e)
  PROVE  Clumpful(sum - 0, e + 1)
<1> DEFINE n == NODES_PER_CLUMP
           x == sum - n
<1>1. n \in Nat \ {0} /\ x \in Int /\ x <= n /\ sum - 0 = x + n
  BY ClumpConstants
<1>2. \/ e = -2 /\ x = -(2 * n)
      \/ e = -1 /\ x = -n
      \/ e = 0 /\ x = 0
      \/ e = 1 /\ x = n
      \/ e = 2 /\ x = 2 * n
  BY DEF Clumpful
<1> HIDE DEF x, n
<1>3. \/ e + 1 = -1 /\ x + n = -n
      \/ e + 1 = 0 /\ x + n = 0
      \/ e + 1 = 1 /\ x + n = n
      \/ e + 1 = 2 /\ x + n = 2 * n
  BY <1>1, <1>2
<1>4. Clumpful(x + n, e + 1)
  BY <1>3 DEF Clumpful, n
<1> QED BY <1>1, <1>4

LEMMA NextOldClumpStep ==
  ASSUME ClumpInv, Clumps!NextOldClump
  PROVE  ClumpInv'
<1> DEFINE c == at[2]
           s == at[3]
           l == Len(oldList)
           more == IF c > 1 THEN 1 ELSE 0
<1>1. /\ clumpPc \in Moves /\ ~(s < NODES_PER_CLUMP)
      /\ UNCHANGED <<movers, activeBkts, chains, riterLast, refCount, due>>
  BY DEF Clumps!NextOldClump, Moves, Clumps!InClump, Clumps!NODE_END
<1>2. /\ ChainsInv /\ OldInv /\ AtInv /\ DueInv /\ RefInv /\ CountInv /\ clumpPc \notin Iterations
      /\ at = <<0, c, s>> /\ c \in 1 .. l /\ s \in 0 .. NODES_PER_CLUMP
      /\ c \in Nat \ {0} /\ s \in Nat /\ oldList \in Chain /\ l \in Nat \ {0}
      /\ \E k \in 0 .. NODES_PER_CLUMP : Room(k)
      /\ due = {} /\ riterLast = Clumps!End /\ freeList \in Nat /\ cClumps \in Int
  BY <1>1, MovesMean
<1>3. PICK k \in 0 .. NODES_PER_CLUMP : Room(k)
  BY <1>2
<1>4. \/ /\ c < l /\ at' = <<0, c + 1, 0>> /\ freeList' = freeList + more
         /\ UNCHANGED <<cClumps, oldList, slot, target, clumpPc>>
      \/ /\ c = l /\ freeList' = 0 /\ cClumps' = cClumps - (freeList + more)
         /\ at' = Clumps!End /\ oldList' = <<>> /\ slot' = [b \in Clumps!Bkts |-> 0] /\ target' = 1
         /\ clumpPc' = "idle"
  BY DEF Clumps!NextOldClump
<1>5. at[2] = c /\ at[3] = s
  OBVIOUS
<1> HIDE DEF c, s, l, more
<1>6. s = NODES_PER_CLUMP
  BY <1>1, <1>2, ClumpConstants
<1>7. PackedFrom(oldList, k, c, s)
  BY <1>3, <1>5 DEF Room
<1>8. ChainsInv' /\ Lengths' = Lengths /\ Lengths \in Int
  BY <1>1, BucketsStay
<1>9. more \in Nat /\ oldList # <<>> /\ OldClumps \in Int /\ OldClumps = (IF c = 1 THEN l - 1 ELSE l - c + 1)
  <2>1. oldList # <<>>
    BY <1>2, NoChainFacts DEF l
  <2>2. OldClumps = (IF c = 1 THEN l - 1 ELSE l - c + 1)
    BY <1>5, <2>1 DEF OldClumps, l
  <2> QED BY <1>2, <2>1, <2>2 DEF more
<1>10. CASE /\ c < l /\ at' = <<0, c + 1, 0>> /\ freeList' = freeList + more
            /\ UNCHANGED <<cClumps, oldList, slot, target, clumpPc>>
  <2>1. at'[2] = c + 1 /\ at'[3] = 0 /\ c + 1 \in Nat
    BY <1>2, <1>10
  <2>2. PackedFrom(oldList, k, c + 1, 0)
    <3>1. \A j \in 1 .. l, i \in Clumps!Slots :
            oldList[j][i] # NullRecord <=> (j < l \/ i < k) /\ (c + 1 < j \/ (c + 1 = j /\ 0 <= i))
      <4> TAKE j \in 1 .. l, i \in Clumps!Slots
      <4>1. oldList[j][i] # NullRecord <=> (j < l \/ i < k) /\ (c < j \/ (c = j /\ s <= i))
        BY <1>7 DEF PackedFrom, l
      <4>2. i \in Nat /\ j \in Nat /\ ~(s <= i) /\ 0 <= i
        BY <1>2, <1>6, ClumpConstants
      <4> QED BY <1>2, <4>1, <4>2
    <3>2. c + 1 \in 1 .. l /\ 0 \in 0 .. NODES_PER_CLUMP
      BY <1>2, <1>10, ClumpConstants
    <3> QED BY <1>7, <3>1, <3>2 DEF PackedFrom, l
  <2>3. Freed(c + 1) = Freed(c) + more /\ Freed(c) \in Nat
    BY <1>2, FreedNext DEF more
  <2>4. slot[0] \in 0 .. NODES_PER_CLUMP /\ slot[1] \in 0 .. NODES_PER_CLUMP
    BY <1>2 DEF OldInv, Clumps!Bkts
  <2>5. clumpPc = "split" => SplitRoom(k)'
    <3> SUFFICES ASSUME clumpPc = "split" PROVE SplitRoom(k)'
      OBVIOUS
    <3> DEFINE new == Len(chains[0]) + Len(chains[1]) - 2
               sum == slot[0] + slot[1]
               prime == IF l > 1 THEN 1 ELSE 0
    <3>1. /\ activeBkts = 2 /\ \A b \in Clumps!Bkts : Packed(chains[b], slot[b])
          /\ freeList = prime + Freed(c) - new
          /\ Clumpful(slot[0] + slot[1] - s, c - 1 - new)
      BY <1>3, <1>5, <1>10 DEF Room, SplitRoom, l
    <3>2. new \in Int /\ prime \in Int
      <4> DEFINE a0 == Len(chains[0])
                 a1 == Len(chains[1])
      <4>1. a0 \in Int /\ a1 \in Int /\ new = a0 + a1 - 2
        BY <1>2, LengthTypes DEF ChainsInv, Good
      <4> HIDE DEF a0, a1
      <4>2. new \in Int
        BY <4>1
      <4> QED BY <4>2
    <3> HIDE DEF new, prime
    <3>3. Clumpful(slot[0] + slot[1] - 0, (c + 1) - 1 - new)
      <4>1. /\ slot[0] + slot[1] - s = sum - NODES_PER_CLUMP /\ sum \in Int /\ sum <= 2 * NODES_PER_CLUMP
            /\ slot[0] + slot[1] - 0 = sum - 0
        BY <1>2, <1>6, <2>4, ClumpConstants
      <4>2. c - 1 - new \in Int /\ (c + 1) - 1 - new = (c - 1 - new) + 1
        BY <1>2, <3>2
      <4> HIDE DEF sum
      <4>3. Clumpful(sum - NODES_PER_CLUMP, c - 1 - new)
        BY <3>1, <4>1
      <4>4. Clumpful(sum - 0, (c - 1 - new) + 1)
        BY <4>1, <4>2, <4>3, ClumpfulNext
      <4> QED BY <4>1, <4>2, <4>4
    <3>4. freeList' = prime + Freed(c + 1) - new
      <4>1. freeList' = freeList + more /\ Freed(c) \in Int /\ more \in Int
        BY <1>9, <1>10, <2>3
      <4> QED BY <2>3, <3>1, <3>2, <4>1, SMTT(40)
    <3> QED BY <1>1, <1>10, <2>1, <3>1, <3>3, <3>4 DEF SplitRoom, new, prime, l
  <2>6. clumpPc = "merge" => Merging(k)'
    <3> SUFFICES ASSUME clumpPc = "merge" PROVE Merging(k)'
      OBVIOUS
    <3>1. PICK l0 \in Nat, k0 \in 0 .. NODES_PER_CLUMP, prime \in 0 .. 2 : MergeRoom(k, l0, k0, prime)
      BY <1>3 DEF Room, Merging
    <3> DEFINE new == Len(chains[0]) - l0
               sum == slot[0] - k0
    <3>2. /\ activeBkts = 1 /\ target = Len(chains[0]) /\ Packed(chains[0], slot[0])
          /\ Primed(prime, Len(oldList), k, k0) /\ new >= 0
          /\ freeList = prime + Freed(c) - new
          /\ Clumpful(slot[0] - k0 - s, c - 1 - new)
      BY <1>5, <1>10, <3>1 DEF MergeRoom, l
    <3>3. new \in Int
      <4> DEFINE a0 == Len(chains[0])
      <4>1. a0 \in Int /\ new = a0 - l0
        BY <1>2, LengthTypes DEF ChainsInv, Good
      <4> HIDE DEF a0
      <4> QED BY <4>1
    <3> HIDE DEF new
    <3>4. Clumpful(slot[0] - k0 - 0, (c + 1) - 1 - new)
      <4>1. /\ slot[0] - k0 - s = sum - NODES_PER_CLUMP /\ sum \in Int /\ sum <= 2 * NODES_PER_CLUMP
            /\ slot[0] - k0 - 0 = sum - 0
        BY <1>2, <1>6, <2>4, ClumpConstants
      <4>2. c - 1 - new \in Int /\ (c + 1) - 1 - new = (c - 1 - new) + 1
        BY <1>2, <3>3
      <4> HIDE DEF sum
      <4>3. Clumpful(sum - NODES_PER_CLUMP, c - 1 - new)
        BY <3>2, <4>1
      <4>4. Clumpful(sum - 0, (c - 1 - new) + 1)
        BY <4>1, <4>2, <4>3, ClumpfulNext
      <4> QED BY <4>1, <4>2, <4>4
    <3>5. freeList' = prime + Freed(c + 1) - new
      <4>1. freeList' = freeList + more /\ Freed(c) \in Int /\ more \in Int /\ prime \in Int
        BY <1>9, <1>10, <2>3
      <4> QED BY <2>3, <3>2, <3>3, <4>1, SMTT(40)
    <3>6. MergeRoom(k, l0, k0, prime)'
      BY <1>1, <1>10, <2>1, <3>2, <3>4, <3>5 DEF MergeRoom, new
    <3> QED BY <3>6 DEF Merging
  <2>7. RoomInv'
    <3>1. Room(k)'
      BY <1>10, <2>1, <2>2, <2>5, <2>6 DEF Room
    <3> QED BY <1>10, <2>1, <3>1 DEF RoomInv
  <2>8. OldInv'
    <3>1. freeList' \in Nat
      BY <1>2, <1>9, <1>10
    <3> QED BY <1>1, <1>2, <1>10, <3>1 DEF OldInv, Moves
  <2>9. AtInv' /\ DueInv'
    <3>1. clumpPc' \in Moves
      BY <1>1, <1>10
    <3> QED BY <1>1, <1>2, <1>10, <2>1, <3>1 DEF AtInv, DueInv, Iterations, Moves
  <2>10. RefInv'
    <3>1. Clumps!Records' = Clumps!Records
      BY <1>1, <1>10 DEF Clumps!Records
    <3> QED BY <1>1, <1>2, <1>10, <3>1, NoIterator
  <2>11. CountInv'
    <3>1. OldClumps' = l - c
      <4>1. OldClumps' = (IF c + 1 = 1 THEN l - 1 ELSE l - (c + 1) + 1)
        BY <1>9, <1>10, <2>1 DEF OldClumps, l
      <4> QED BY <1>2, <4>1
    <3>2. freeList' + OldClumps' = freeList + OldClumps
      BY <1>2, <1>9, <1>10, <3>1 DEF more
    <3>3. OldClumps' \in Int /\ freeList' \in Int
      BY <1>2, <1>9, <1>10, <3>1
    <3>4. /\ cClumps' = cClumps + 0 /\ 0 \in Int /\ freeList \in Int
          /\ Lengths' + freeList' + OldClumps' = Lengths + freeList + OldClumps + 0
      <4> DEFINE o == OldClumps
                 o2 == OldClumps'
                 f2 == freeList'
                 n == Lengths
                 n2 == Lengths'
      <4>1. f2 + o2 = freeList + o
        BY <3>2
      <4>2. f2 \in Int /\ o2 \in Int
        BY <3>3
      <4>3. o \in Int /\ freeList \in Int /\ n \in Int /\ n2 = n
        BY <1>2, <1>8, <1>9
      <4>4. cClumps' = cClumps /\ cClumps \in Int
        BY <1>2, <1>10
      <4>5. n2 + f2 + o2 = n + freeList + o + 0 /\ cClumps' = cClumps + 0
        <5> HIDE DEF o, o2, f2, n, n2
        <5> QED BY <4>1, <4>2, <4>3, <4>4
      <4> QED BY <4>3, <4>5
    <3> QED BY <1>2, <1>8, <1>9, <3>3, <3>4, ClumpsKept
  <2> QED BY <1>8, <2>7, <2>8, <2>9, <2>10, <2>11 DEF ClumpInv
<1>11. CASE /\ c = l /\ freeList' = 0 /\ cClumps' = cClumps - (freeList + more)
            /\ at' = Clumps!End /\ oldList' = <<>> /\ slot' = [b \in Clumps!Bkts |-> 0] /\ target' = 1
            /\ clumpPc' = "idle"
  <2>1. Clumps!RecordsIn(oldList) = {}
    <3>1. \A p : p \notin Clumps!UsedSlots(oldList)
      <4> SUFFICES ASSUME NEW p \in Clumps!UsedSlots(oldList) PROVE FALSE
        OBVIOUS
      <4>1. p \in (1 .. l) \X Clumps!Slots /\ oldList[p[1]][p[2]] # NullRecord
        BY <1>2, UsedMeans DEF l
      <4>2. PICK j \in 1 .. l, i \in Clumps!Slots : oldList[j][i] # NullRecord
        BY <4>1
      <4>3. c < j \/ (c = j /\ s <= i)
        BY <1>7, <4>2 DEF PackedFrom, l
      <4> QED BY <1>2, <1>6, <1>11, <4>3, ClumpConstants
    <3> QED BY <3>1 DEF Clumps!RecordsIn
  <2>2. Clumps!Records' = Clumps!Records
    BY <1>1, <1>11, <2>1, NoChainFacts DEF Clumps!Records
  <2>3. OldInv' /\ RoomInv'
    BY <1>11, NoChainFacts, ClumpConstants DEF OldInv, RoomInv, Moves
  <2>4. AtInv' /\ DueInv'
    BY <1>1, <1>2, <1>11 DEF AtInv, DueInv, Iterations, Moves, Clumps!End
  <2>5. RefInv'
    BY <1>1, <1>2, <1>11, <2>2, NoIterator DEF Iterations
  <2>6. CountInv'
    <3>1. OldClumps' = 0 /\ OldClumps = more
      <4>1. OldClumps' = 0
        BY <1>11 DEF OldClumps
      <4> QED BY <1>2, <1>9, <1>11, <4>1 DEF more
    <3> DEFINE taken == 0 - (freeList + more)
    <3>2. /\ cClumps' = cClumps + taken /\ taken \in Int /\ freeList \in Int /\ freeList' \in Int
          /\ OldClumps' \in Int
          /\ Lengths' + freeList' + OldClumps' = Lengths + freeList + OldClumps + taken
      BY <1>2, <1>8, <1>9, <1>11, <3>1
    <3> HIDE DEF taken
    <3> QED BY <1>2, <1>8, <1>9, <3>2, ClumpsKept
  <2> QED BY <1>8, <2>3, <2>4, <2>5, <2>6 DEF ClumpInv
<1> QED BY <1>4, <1>10, <1>11

\* Nothing has been moved yet.
LEMMA MovingStarts ==
  ASSUME NEW chain, NEW k, Packed(chain, k)
  PROVE  PackedFrom(chain, k, 1, 0)
<1> DEFINE l == Len(chain)
<1>1. l \in Nat \ {0} /\ 1 \in 1 .. l /\ 0 \in 0 .. NODES_PER_CLUMP
  BY PackedSlots, ClumpConstants
<1>2. \A j \in 1 .. l, i \in Clumps!Slots :
        chain[j][i] # NullRecord <=> (j < l \/ i < k) /\ (1 < j \/ (1 = j /\ 0 <= i))
  <2> TAKE j \in 1 .. l, i \in Clumps!Slots
  <2>1. chain[j][i] # NullRecord <=> j < l \/ i < k
    BY DEF Packed
  <2>2. i \in Nat /\ j \in Nat \ {0} /\ 0 <= i
    BY <1>1, ClumpConstants
  <2> QED BY <2>1, <2>2
<1> QED BY <1>1, <1>2 DEF Packed, PackedFrom

LEMMA ExpandStep ==
  ASSUME ClumpInv, Clumps!Expand
  PROVE  ClumpInv'
<1> DEFINE old == chains[0]
           l == Len(old)
           prime == IF l > 1 THEN 1 ELSE 0
<1>1. /\ ChainsInv /\ OldInv /\ AtInv /\ DueInv /\ RefInv /\ CountInv /\ clumpPc = "idle"
      /\ clumpPc \notin Moves /\ activeBkts = 1 /\ clumpPc' = "split" /\ activeBkts' = 2
      /\ freeList' = prime /\ cClumps' = cClumps + prime
      /\ oldList' = old /\ chains' = [b \in Clumps!Bkts |-> Clumps!EmptyChain]
      /\ slot' = [b \in Clumps!Bkts |-> 0] /\ at' = <<0, 1, 0>>
      /\ UNCHANGED <<movers, target, riterLast, refCount, due>>
      /\ oldList = <<>> /\ freeList = 0 /\ target = 1
  BY DEF Clumps!Expand, ClumpInv, Moves, OldInv, Clumps!SplitPrime
<1>2. /\ chains[1] = Clumps!EmptyChain /\ old \in Chain /\ l \in Nat \ {0} /\ Single(old)
      /\ chains'[0] = Clumps!EmptyChain /\ chains'[1] = Clumps!EmptyChain
      /\ 0 \in Clumps!Bkts /\ 1 \in Clumps!Bkts /\ Clumps!Bkts = {0, 1} /\ chains' \in [Clumps!Bkts -> Chain]
      /\ prime \in Nat
  <2>1. old \in Chain /\ l \in Nat \ {0}
    BY <1>1, LengthTypes DEF ChainsInv, Good, Clumps!Bkts
  <2> QED BY <1>1, <2>1, EmptyChainFacts DEF ChainsInv, Good, Clumps!Bkts
<1>3. PICK k \in 0 .. NODES_PER_CLUMP : Packed(old, k)
  BY <1>1, <1>2 DEF ChainsInv, Good
<1> HIDE DEF old, l, prime
<1>4. ChainsInv'
  <2>1. \A b \in Clumps!Bkts :
          Packed(chains'[b], 0) /\ Single(chains'[b]) /\ Clumps!RecordsIn(chains'[b]) = {}
    BY <1>2, EmptyChainFacts
  <2>2. 0 \in 0 .. NODES_PER_CLUMP
    BY ClumpConstants
  <2> QED BY <1>1, <1>2, <2>1, <2>2 DEF ChainsInv, Good
<1>5. \A b \in Clumps!Bkts : Clumps!RecordsIn(chains'[b]) = {}
  BY <1>2, EmptyChainFacts
<1>6. OldInv'
  BY <1>1, <1>2, <1>5, ClumpConstants DEF OldInv, Moves
<1>7. Len(chains'[0]) = 1 /\ Len(chains'[1]) = 1
  BY <1>2, EmptyChainFacts
<1>8. RoomInv'
  <2>1. PackedFrom(old, k, 1, 0)
    BY <1>3, MovingStarts
  <2>2. SplitRoom(k)'
    <3>1. /\ at'[2] = 1 /\ at'[3] = 0 /\ slot'[0] = 0 /\ slot'[1] = 0 /\ Len(oldList') = l
      BY <1>1, <1>2 DEF l
    <3>2. \A b \in Clumps!Bkts : Packed(chains'[b], slot'[b])
      BY <1>1, <1>2, EmptyChainFacts
    <3>3. Clumpful(slot'[0] + slot'[1] - at'[3], at'[2] - 1 - (Len(chains'[0]) + Len(chains'[1]) - 2))
      <4>1. slot'[0] + slot'[1] - at'[3] = 0 /\ at'[2] - 1 - (Len(chains'[0]) + Len(chains'[1]) - 2) = 0
        BY <1>7, <3>1
      <4>2. Clumpful(0, 0)
        BY DEF Clumpful
      <4> QED BY <4>1, <4>2
    <3>4. freeList' = (IF Len(oldList') > 1 THEN 1 ELSE 0) + Freed(at'[2])
                        - (Len(chains'[0]) + Len(chains'[1]) - 2)
      <4>1. Freed(at'[2]) = 0
        BY <3>1 DEF Freed
      <4>2. Freed(at'[2]) - (Len(chains'[0]) + Len(chains'[1]) - 2) = 0
        BY <1>7, <4>1
      <4> QED BY <1>1, <1>2, <3>1, <4>2 DEF prime
    <3> QED BY <1>1, <3>2, <3>3, <3>4 DEF SplitRoom
  <2>3. Room(k)'
    BY <1>1, <2>1, <2>2 DEF Room
  <2> QED BY <1>1, <2>3 DEF RoomInv
<1>9. AtInv' /\ DueInv'
  BY <1>1 DEF AtInv, DueInv, Iterations, Moves
<1>10. RefInv'
  <2>1. Clumps!Records' = Clumps!RecordsIn(old)
    BY <1>1, <1>2, <1>5 DEF Clumps!Records
  <2>2. Clumps!Records = Clumps!RecordsIn(old)
    BY <1>1, <1>2, EmptyChainFacts, NoChainFacts DEF Clumps!Records, old
  <2> QED BY <1>1, <2>1, <2>2, NoIterator DEF Iterations
<1>11. CountInv'
  <2>1. Lengths' = 2
    BY <1>7 DEF Lengths
  <2>2. Lengths = l + 1
    BY <1>2, EmptyChainFacts DEF Lengths, l, old
  <2>3. OldClumps = 0 /\ OldClumps' = l - 1
    <3>1. old # <<>>
      BY <1>2, NoChainFacts DEF l
    <3> QED BY <1>1, <3>1 DEF OldClumps, l
  <2>4. /\ Lengths' + freeList' + OldClumps' = Lengths + freeList + OldClumps + prime
        /\ prime \in Int /\ freeList \in Int /\ freeList' \in Int /\ OldClumps \in Int /\ OldClumps' \in Int
    BY <1>1, <1>2, <2>1, <2>2, <2>3
  <2> QED BY <1>1, <1>4, <2>4, ClumpsKept
<1> QED BY <1>4, <1>6, <1>8, <1>9, <1>10, <1>11 DEF ClumpInv

\* The clumps that _Contract allocates.
LEMMA PrimedMeans ==
  ASSUME NEW k1 \in 0 .. NODES_PER_CLUMP, NEW k0 \in 0 .. NODES_PER_CLUMP, NEW l \in Nat \ {0},
         l > 1 => k1 >= 1, NEW used \in Nat,
         l = 1 => used = k1, l = 2 => used = NODES_PER_CLUMP + k1, l > 2 => used > 2 * NODES_PER_CLUMP
  PROVE  LET prime == Clumps!MergePrime(used - (NODES_PER_CLUMP - k0))
         IN  prime \in 0 .. 2 /\ Primed(prime, l, k1, k0)
<1> DEFINE n == NODES_PER_CLUMP
           surplus == used - (n - k0)
           prime == Clumps!MergePrime(surplus)
<1>1. n \in Nat \ {0} /\ k0 \in Int /\ k1 \in Int /\ surplus \in Int /\ k0 >= 0 /\ k1 <= n /\ k0 <= n /\ k1 >= 0
  BY ClumpConstants
<1>2. /\ surplus <= 0 => prime = 0
      /\ surplus >= 1 /\ surplus <= n => prime = 1
      /\ surplus > n => prime = 2
  <2> HIDE DEF surplus
  <2>1. surplus <= 0 => prime = 0
    BY <1>1 DEF Clumps!MergePrime
  <2>2. surplus >= 1 /\ surplus <= n => prime = 1
    BY <1>1 DEF Clumps!MergePrime
  <2>3. surplus > n => prime = 2
    BY <1>1 DEF Clumps!MergePrime
  <2> QED BY <2>1, <2>2, <2>3
<1>3. /\ l = 1 => surplus = k1 + k0 - n
      /\ l = 2 => surplus = k1 + k0
      /\ l > 2 => surplus > n
  <2>1. l = 1 => used - (n - k0) = k1 + k0 - n
    BY <1>1
  <2>2. l = 2 => used - (n - k0) = k1 + k0
    BY <1>1
  <2>3. l > 2 => used - (n - k0) > n
    BY <1>1
  <2> QED BY <2>1, <2>2, <2>3
<1> HIDE DEF n, surplus, prime
<1>4. CASE l = 1
  <2>1. surplus = k1 + k0 - n
    BY <1>3, <1>4
  <2>2. CASE k1 + k0 <= n
    <3>1. surplus <= 0
      BY <1>1, <2>1, <2>2
    <3>2. prime = 0 /\ l = 1 /\ k1 + k0 <= NODES_PER_CLUMP
      BY <1>2, <1>4, <2>2, <3>1 DEF n
    <3> QED BY <3>2 DEF Primed, n, surplus, prime
  <2>3. CASE k1 + k0 > n
    <3>1. surplus >= 1 /\ surplus <= n
      BY <1>1, <2>1, <2>3
    <3>2. prime = 1 /\ l = 1 /\ k1 + k0 > NODES_PER_CLUMP
      BY <1>2, <1>4, <2>3, <3>1 DEF n
    <3> QED BY <3>2 DEF Primed, n, surplus, prime
  <2> QED BY <1>1, <2>2, <2>3
<1>5. CASE l = 2
  <2>1. surplus = k1 + k0 /\ surplus >= 1
    BY <1>1, <1>3, <1>5
  <2>2. CASE k1 + k0 <= n
    <3>1. prime = 1 /\ l = 2 /\ k1 + k0 <= NODES_PER_CLUMP
      BY <1>2, <1>5, <2>1, <2>2 DEF n
    <3> QED BY <3>1 DEF Primed, n, surplus, prime
  <2>3. CASE k1 + k0 > n
    <3>1. prime = 2
      BY <1>2, <2>1, <2>3
    <3> QED BY <3>1 DEF Primed, n, surplus, prime
  <2> QED BY <1>1, <2>2, <2>3
<1>6. CASE l > 2
  <2>1. prime = 2
    BY <1>1, <1>2, <1>3, <1>6
  <2> QED BY <2>1 DEF Primed, prime, surplus, n
<1> QED BY <1>4, <1>5, <1>6

\* A merge takes a clump: there is one.
LEMMA MergeTakes ==
  ASSUME NEW k \in 0 .. NODES_PER_CLUMP, NEW k0 \in 0 .. NODES_PER_CLUMP,
         NEW s \in 0 .. NODES_PER_CLUMP - 1, NEW new \in Nat, NEW l \in Nat, NEW c \in 1 .. l,
         c < l \/ s < k, NEW prime \in 0 .. 2, Primed(prime, l, k, k0), NEW free \in Int,
         Clumpful(NODES_PER_CLUMP - k0 - s, c - 1 - new), free = prime + Freed(c) - new
  PROVE  free > 0 /\ Clumpful(1 - k0 - (s + 1), c - 1 - (new + 1))
<1> DEFINE n == NODES_PER_CLUMP
           x == n - k0 - s
           e == c - 1 - new
<1>1. /\ n \in Nat \ {0} /\ k \in Int /\ k0 \in Int /\ s \in Int /\ c \in Int /\ l \in Int /\ new \in Int
      /\ prime \in Int /\ k0 >= 0 /\ k0 <= n /\ s >= 0 /\ s < n /\ k <= n /\ 1 <= c /\ c <= l
  BY ClumpConstants
<1>2. x \in Int /\ e \in Int /\ x = n - (k0 + s)
  BY <1>1
<1>3. \/ e = -2 /\ x = -(2 * n)
      \/ e = -1 /\ x = -n
      \/ e = 0 /\ x = 0
      \/ e = 1 /\ x = n
      \/ e = 2 /\ x = 2 * n
  BY DEF Clumpful
<1>4. \/ prime = 0 /\ l = 1 /\ k + k0 <= n
      \/ prime = 1 /\ l = 1 /\ k + k0 > n
      \/ prime = 1 /\ l = 2 /\ k + k0 <= n
      \/ prime = 2
  BY DEF Primed
<1>5. new = c - 1 - e
  BY <1>1
<1> HIDE DEF n, x, e
<1>6. (e = 0 /\ k0 + s = n) \/ (e = 1 /\ k0 + s = 0)
  BY <1>1, <1>2, <1>3
<1>7. free > 0
  <2>1. CASE c = 1
    <3>1. e = 0 /\ new = 0 /\ k0 + s = n
      BY <1>1, <1>2, <1>5, <1>6, <2>1
    <3>2. Freed(c) = 0 /\ free = prime
      BY <1>1, <2>1, <3>1 DEF Freed
    <3>3. prime # 0
      BY <1>1, <1>4, <2>1, <3>1
    <3> QED BY <3>2, <3>3
  <2>2. CASE c = 2
    <3>1. Freed(c) = 0 /\ free = prime - new
      BY <1>1, <2>2 DEF Freed
    <3>2. CASE e = 1
      <4>1. new = 0
        BY <1>5, <2>2, <3>2
      <4>2. prime >= 1
        BY <1>1, <1>4, <2>2
      <4> QED BY <3>1, <4>1, <4>2
    <3>3. CASE e = 0 /\ k0 + s = n
      <4>1. new = 1
        BY <1>5, <2>2, <3>3
      <4>2. prime = 2
        BY <1>1, <1>4, <2>2, <3>3
      <4> QED BY <3>1, <4>1, <4>2
    <3> QED BY <1>6, <3>2, <3>3
  <2>3. CASE c > 2
    <3>1. Freed(c) = c - 2
      BY <2>3 DEF Freed
    <3>2. prime = 2
      BY <1>1, <1>4, <2>3
    <3>3. free = c - new
      BY <1>1, <3>1, <3>2
    <3> QED BY <1>1, <1>5, <1>6, <3>3
  <2> QED BY <1>1, <2>1, <2>2, <2>3
<1>8. 1 - k0 - (s + 1) = x - n /\ c - 1 - (new + 1) = e - 1
  <2>1. 1 - k0 - (s + 1) = x - n
    BY <1>1, <1>2
  <2> QED BY <1>1, <1>2, <1>5, <2>1
<1>9. (x - n = 0 /\ e - 1 = 0) \/ (x - n = -n /\ e - 1 = -1)
  BY <1>1, <1>2, <1>6
<1>10. Clumpful(x - n, e - 1)
  BY <1>9 DEF Clumpful, n
<1> QED BY <1>7, <1>8, <1>10

LEMMA MergeRecordStep ==
  ASSUME ClumpInv, Clumps!MergeRecord
  PROVE  ClumpInv'
<1> DEFINE m == Clumps!Moving
           c == at[2]
           s == at[3]
           old == chains[0]
           i == slot[0]
<1>1. /\ clumpPc = "merge" /\ clumpPc \in Moves /\ m # NullRecord /\ s < NODES_PER_CLUMP
      /\ m = oldList[c][s] /\ oldList' = PutAt(oldList, c, s, NullRecord)
      /\ at' = [at EXCEPT ![3] = @ + 1]
      /\ UNCHANGED <<movers, activeBkts, cClumps, riterLast, refCount, due>>
      /\ clumpPc' = IF Clumps!MergeSlot = NODES_PER_CLUMP /\ freeList = 0 THEN "nullClump" ELSE clumpPc
  BY DEF Clumps!MergeRecord, Clumps!MovesOn, Moves, Clumps!InClump, Clumps!NODE_END, Clumps!Moving,
         Clumps!MovingRemoved, PutAt
<1>2. /\ ChainsInv /\ OldInv /\ AtInv /\ DueInv /\ RefInv /\ CountInv /\ clumpPc \notin Iterations
      /\ at = <<0, c, s>> /\ c \in 1 .. Len(oldList) /\ s \in 0 .. NODES_PER_CLUMP
      /\ c \in Nat \ {0} /\ s \in Nat /\ oldList \in Chain /\ Len(oldList) \in Nat \ {0}
      /\ \E k \in 0 .. NODES_PER_CLUMP : Room(k)
      /\ due = {} /\ riterLast = Clumps!End /\ freeList \in Nat /\ cClumps \in Int
  BY <1>1, MovesMean
<1>3. PICK k \in 0 .. NODES_PER_CLUMP : PackedFrom(oldList, k, c, s) /\ Merging(k)
  BY <1>1, <1>2 DEF Room
<1>4. PICK l0 \in Nat, k0 \in 0 .. NODES_PER_CLUMP, prime \in 0 .. 2 : MergeRoom(k, l0, k0, prime)
  BY <1>3 DEF Merging
<1> DEFINE l == Len(oldList)
           L == Len(old)
           new == L - l0
<1>5. /\ activeBkts = 1 /\ target = L /\ Packed(old, i) /\ Primed(prime, l, k, k0) /\ new >= 0
      /\ freeList = prime + Freed(c) - new
      /\ c < l \/ s <= k => Clumpful(i - k0 - s, c - 1 - new)
  BY <1>4 DEF MergeRoom
<1>6. /\ 0 \in Clumps!Bkts /\ slot \in [Clumps!Bkts -> 0 .. NODES_PER_CLUMP] /\ i \in 0 .. NODES_PER_CLUMP
      /\ old \in Chain /\ L \in Nat \ {0} /\ m \in ClumpRecord /\ Clumps!Home(m) = 0
  <2>1. s \in Clumps!Slots
    BY <1>1, <1>2, ClumpConstants
  <2>2. 0 \in Clumps!Bkts
    BY DEF Clumps!Bkts
  <2>3. old \in Chain /\ L \in Nat \ {0}
    BY <1>2, <2>2, LengthTypes DEF ChainsInv, Good
  <2>4. m \in ClumpRecord
    BY <1>1, <1>2, <2>1, ClumpChainFacts
  <2> QED BY <1>2, <1>5, <2>2, <2>3, <2>4 DEF OldInv, Clumps!Home
<1>7. Clumps!MergeTarget = L /\ Clumps!MergeSlot = i
  BY <1>5 DEF Clumps!MergeTarget, Clumps!MergeSlot
<1> DEFINE took == i = NODES_PER_CLUMP
           put == IF took THEN WithClump(old, m) ELSE PutAt(old, L, i, m)
           n == IF took THEN 1 ELSE i + 1
<1>8. /\ chains' = [chains EXCEPT ![0] = put]
      /\ freeList' = IF took THEN freeList - 1 ELSE freeList
      /\ IF took THEN target' = Len(chains'[0]) /\ slot' = [slot EXCEPT ![0] = 1]
         ELSE target' = L /\ slot' = [slot EXCEPT ![0] = Clumps!NextEmpty(chains'[0][L], i + 1)]
  <2>1. \/ /\ i # NODES_PER_CLUMP
           /\ chains' = [chains EXCEPT ![0][L][i] = m]
           /\ target' = L
           /\ slot' = [slot EXCEPT ![0] = Clumps!NextEmpty(chains'[0][L], i + 1)]
           /\ UNCHANGED freeList
        \/ /\ i = NODES_PER_CLUMP
           /\ freeList' = freeList - 1
           /\ chains' = [chains EXCEPT ![0] = Append(@, [Clumps!EmptyClump EXCEPT ![0] = m])]
           /\ target' = Len(chains'[0])
           /\ slot' = [slot EXCEPT ![0] = 1]
    BY <1>7 DEF Clumps!MergeRecord, Clumps!AppendFromFreeList, Clumps!NODE_END
  <2>2. chains' = [chains EXCEPT ![0] = put]
    BY <2>1 DEF WithClump, PutAt
  <2> QED BY <2>1, <2>2
<1>9. PICK x : x = put
  OBVIOUS
<1> HIDE DEF m, c, s
<1>10. /\ Packed(x, n) /\ ChainGrown(old, x, m) /\ n \in 0 .. NODES_PER_CLUMP
       /\ Len(x) = IF took THEN L + 1 ELSE L
  <2>1. CASE took
    <3>1. Packed(old, NODES_PER_CLUMP) /\ x = WithClump(old, m)
      BY <1>5, <1>9, <2>1
    <3>2. Packed(x, 1) /\ Len(x) = Len(old) + 1 /\ ChainGrown(old, x, m)
      BY <1>6, <3>1, AddGrows
    <3> QED BY <2>1, <3>2, ClumpConstants
  <2>2. CASE ~took
    <3>1. i < NODES_PER_CLUMP /\ x = PutAt(old, Len(old), i, m) /\ i \in 0 .. NODES_PER_CLUMP
      BY <1>6, <1>9, <2>2, ClumpConstants
    <3>2. Packed(x, i + 1) /\ Len(x) = Len(old) /\ ChainGrown(old, x, m)
      BY <1>5, <1>6, <3>1, PutGrows
    <3> QED BY <2>2, <3>1, <3>2, ClumpConstants
  <2> QED BY <2>1, <2>2
<1> HIDE DEF took, put, n, old, new, l, L, i
<1>11. Becomes(0, x) /\ chains'[0] = x /\ x \in Chain
  <2>1. x \in Chain
    BY <1>10, PackedSlots
  <2>2. Becomes(0, x)
    BY <1>6, <1>8, <1>9, <2>1 DEF Becomes
  <2> QED BY <1>2, <2>1, <2>2, BecomesMeans
<1>12. MovesTo(0, x, c, s)
  BY <1>1, <1>6, <1>10, <1>11 DEF MovesTo, old
<1>13. /\ ChainsInv' /\ PackedFrom(oldList', k, c, s + 1) /\ Len(oldList') = Len(oldList)
       /\ oldList' \in Chain /\ Single(oldList)'
       /\ \A d \in Clumps!Bkts : Clumps!RecordsIn(oldList') \cap Clumps!RecordsIn(chains'[d]) = {}
       /\ Clumps!Records' = Clumps!Records
       /\ c < Len(oldList) \/ s < k
  <2>1. oldList[c][s] # NullRecord /\ UNCHANGED <<movers, activeBkts>>
    BY <1>1
  <2> QED BY <1>1, <1>2, <1>3, <1>12, <2>1, OneMoves
<1>14. Clumpful(i - k0 - s, c - 1 - new)
  BY <1>2, <1>5, <1>13 DEF l
<1>15. target' = Len(chains'[0]) /\ slot' = [slot EXCEPT ![0] = n]
  <2>1. CASE took
    BY <1>8, <2>1 DEF n
  <2>2. CASE ~took
    <3>1. Len(x) = L /\ n = i + 1 /\ i + 1 \in 0 .. n
      BY <1>6, <1>10, <2>2, ClumpConstants DEF n
    <3>2. Clumps!NextEmpty(x[Len(x)], i + 1) = n
      BY <1>10, <3>1, NextEmptyIs
    <3> QED BY <1>8, <1>11, <2>2, <3>1, <3>2
  <2> QED BY <2>1, <2>2
<1> DEFINE L2 == Len(chains'[0])
           new2 == L2 - l0
<1>16. L2 = (IF took THEN L + 1 ELSE L) /\ new2 = (IF took THEN new + 1 ELSE new) /\ new \in Nat
  <2>1. L2 = (IF took THEN L + 1 ELSE L)
    BY <1>10, <1>11
  <2> HIDE DEF L2
  <2>2. new = L - l0
    BY DEF new, L
  <2> QED BY <1>5, <1>6, <2>1, <2>2
<1> HIDE DEF new2, L2
<1>17. /\ Clumpful(n - k0 - (s + 1), c - 1 - new2) /\ (took => freeList > 0)
       /\ freeList' = prime + Freed(c) - new2 /\ freeList' \in Nat
  <2>1. Freed(c) \in Int /\ l \in Nat /\ c \in 1 .. l
    BY <1>2 DEF Freed, l
  <2>2. CASE took
    <3>1. i = NODES_PER_CLUMP /\ n = 1 /\ freeList' = freeList - 1 /\ new2 = new + 1
      BY <1>8, <1>16, <2>2 DEF took, n
    <3>2. s \in 0 .. NODES_PER_CLUMP - 1 /\ (c < l \/ s < k)
      BY <1>1, <1>2, <1>13, ClumpConstants DEF l
    <3>3. Clumpful(NODES_PER_CLUMP - k0 - s, c - 1 - new)
      BY <1>14, <3>1
    <3>4. freeList > 0 /\ Clumpful(1 - k0 - (s + 1), c - 1 - (new + 1))
      <4>1. freeList = prime + Freed(c) - new /\ freeList \in Int /\ Primed(prime, l, k, k0)
        BY <1>2, <1>5
      <4> QED BY <1>16, <2>1, <3>2, <3>3, <4>1, MergeTakes
    <3>5. Clumpful(n - k0 - (s + 1), c - 1 - new2)
      BY <3>1, <3>4
    <3>6. freeList' = prime + Freed(c) - new2 /\ freeList' \in Nat
      <4> DEFINE freed == Freed(c)
      <4>1. freeList = prime + freed - new /\ freed \in Int
        BY <1>5, <2>1
      <4>2. freeList > 0 /\ freeList \in Nat /\ freeList' = freeList - 1 /\ new \in Int /\ new2 = new + 1
        BY <1>2, <1>16, <3>1, <3>4
      <4> HIDE DEF freed
      <4>3. freeList' = prime + freed - new2 /\ freeList' \in Nat
        BY <4>1, <4>2
      <4> QED BY <4>3 DEF freed
    <3> QED BY <3>4, <3>5, <3>6
  <2>3. CASE ~took
    <3>1. new2 = new /\ freeList' = freeList /\ n = i + 1
      BY <1>8, <1>16, <2>3 DEF n
    <3>2. n - k0 - (s + 1) = i - k0 - s
      <4>1. i \in Int /\ k0 \in Int /\ s \in Int
        BY <1>2, <1>6, ClumpConstants
      <4> QED BY <3>1, <4>1
    <3> QED BY <1>2, <1>5, <1>14, <2>3, <3>1, <3>2
  <2> QED BY <2>2, <2>3
<1>18. /\ clumpPc' = "merge" /\ at' = <<0, c, s + 1>>
       /\ slot' \in [Clumps!Bkts -> 0 .. NODES_PER_CLUMP] /\ slot'[0] = n
       /\ target' = Len(chains'[0]) /\ target' \in Nat \ {0}
  <2>1. clumpPc' = "merge"
    BY <1>1, <1>7, <1>17 DEF took
  <2>2. at' = <<0, c, s + 1>>
    BY <1>1, <1>2 DEF s
  <2>3. target' \in Nat \ {0}
    BY <1>6, <1>15, <1>16 DEF L2
  <2> QED BY <1>6, <1>10, <1>15, <2>1, <2>2, <2>3
<1>19. Merging(k)'
  <2>1. /\ activeBkts' = 1 /\ at'[2] = c /\ at'[3] = s + 1 /\ Len(oldList') = l
    BY <1>1, <1>5, <1>13, <1>18 DEF l
  <2>2. new2 >= 0
    BY <1>5, <1>16
  <2>3. MergeRoom(k, l0, k0, prime)'
    BY <1>5, <1>10, <1>11, <1>17, <1>18, <2>1, <2>2 DEF MergeRoom, new2, L2
  <2> QED BY <2>3 DEF Merging
<1>20. RoomInv'
  <2>1. Room(k)'
    BY <1>13, <1>18, <1>19 DEF Room
  <2> QED BY <1>18, <2>1 DEF RoomInv
<1>21. OldInv'
  BY <1>1, <1>2, <1>13, <1>17, <1>18 DEF OldInv, Moves
<1>22. AtInv' /\ DueInv'
  <2>1. s + 1 \in Int
    BY <1>2
  <2> QED BY <1>1, <1>2, <1>18, <2>1 DEF AtInv, DueInv, Iterations, Moves
<1>23. RefInv'
  BY <1>1, <1>2, <1>13, <1>18, NoIterator DEF Iterations
<1>24. CountInv'
  <2>1. Lengths' + freeList' = Lengths + freeList /\ Lengths \in Int /\ Lengths' \in Int
    <3> DEFINE n1 == Lengths
               n2 == Lengths'
               x1 == Len(old)
               x2 == Len(x)
    <3>1. n2 = n1 - x1 + x2 /\ n1 \in Int
      BY <1>2, <1>11, BecomesMeans DEF old
    <3>2. x1 \in Int /\ x2 = (IF took THEN x1 + 1 ELSE x1)
      BY <1>6, <1>10 DEF L
    <3> HIDE DEF n1, n2, x1, x2
    <3>3. n2 + freeList' = n1 + freeList /\ n1 \in Int /\ n2 \in Int
      BY <1>2, <1>8, <3>1, <3>2
    <3> QED BY <3>3 DEF n1, n2
  <2>2. OldClumps' = OldClumps /\ OldClumps \in Int
    <3>1. Len(oldList') # 0 /\ Len(oldList) # 0
      BY <1>2, <1>13
    <3>2. oldList # <<>> /\ oldList' # <<>>
      BY <3>1, NoChainFacts
    <3>3. at'[2] = at[2]
      BY <1>18 DEF c
    <3>4. OldClumps' = OldClumps
      BY <1>13, <3>2, <3>3 DEF OldClumps
    <3>5. OldClumps \in Int
      <4>1. at[2] \in Int /\ Len(oldList) \in Int
        BY <1>2 DEF c
      <4> QED BY <4>1 DEF OldClumps
    <3> QED BY <3>4, <3>5
  <2>3. /\ cClumps' = cClumps + 0 /\ freeList \in Int /\ freeList' \in Int /\ 0 \in Int
        /\ Lengths' + freeList' + OldClumps' = Lengths + freeList + OldClumps + 0
    BY <1>1, <1>2, <1>17, <2>1, <2>2
  <2> QED BY <1>2, <1>13, <2>2, <2>3, ClumpsKept
<1> QED BY <1>13, <1>20, <1>21, <1>22, <1>23, <1>24 DEF ClumpInv

LEMMA ContractStep ==
  ASSUME ClumpInv, Clumps!Contract
  PROVE  ClumpInv'
<1> DEFINE old == chains[1]
           l == Len(old)
           keep == chains[0]
           L == Len(keep)
           prime == Clumps!MergePrime(Clumps!Surplus)
<1>1. /\ ChainsInv /\ OldInv /\ AtInv /\ DueInv /\ RefInv /\ CountInv /\ clumpPc = "idle"
      /\ clumpPc \notin Moves /\ activeBkts = 2 /\ clumpPc' = "merge" /\ activeBkts' = 1
      /\ freeList' = prime /\ cClumps' = cClumps + prime
      /\ oldList' = old /\ chains' = [chains EXCEPT ![1] = Clumps!EmptyChain]
      /\ target' = Clumps!TargetClump(keep, 1)
      /\ slot' = [slot EXCEPT ![0] = Clumps!NextEmpty(keep[target'], 0)] /\ at' = <<0, 1, 0>>
      /\ UNCHANGED <<movers, riterLast, refCount, due>>
      /\ oldList = <<>> /\ freeList = 0 /\ slot = [b \in Clumps!Bkts |-> 0]
  BY DEF Clumps!Contract, ClumpInv, Moves, OldInv
<1>2. /\ 0 \in Clumps!Bkts /\ 1 \in Clumps!Bkts /\ Clumps!Bkts = {0, 1}
      /\ chains \in [Clumps!Bkts -> Chain] /\ chains' \in [Clumps!Bkts -> Chain]
      /\ old \in Chain /\ keep \in Chain /\ l \in Nat \ {0} /\ L \in Nat \ {0}
      /\ Single(old) /\ Single(keep)
      /\ chains'[0] = keep /\ chains'[1] = Clumps!EmptyChain
  BY <1>1, EmptyChainFacts, LengthTypes DEF ChainsInv, Good, Clumps!Bkts
<1>3. /\ \E k \in 0 .. NODES_PER_CLUMP : Packed(old, k)
      /\ \E k \in 0 .. NODES_PER_CLUMP : Packed(keep, k)
      /\ Clumps!RecordsIn(old) \cap Clumps!RecordsIn(keep) = {}
  BY <1>1, <1>2 DEF ChainsInv, Good
<1>4. PICK k1 \in 0 .. NODES_PER_CLUMP : Packed(old, k1)
  BY <1>3
<1>5. PICK k0 \in 0 .. NODES_PER_CLUMP : Packed(keep, k0)
  BY <1>3
<1>6. prime \in 0 .. 2 /\ Primed(prime, l, k1, k0)
  <2> DEFINE used == Cardinality(Clumps!UsedSlots(old))
  <2>1. /\ used \in Nat /\ (l = 1 => used = k1) /\ (l = 2 => used = NODES_PER_CLUMP + k1)
        /\ (l > 2 => used > 2 * NODES_PER_CLUMP) /\ (l > 1 => k1 >= 1)
    BY <1>4, UsedCount DEF Packed
  <2>2. Clumps!Surplus = used - (NODES_PER_CLUMP - k0)
    <3>1. Cardinality(Clumps!EmptySlots(keep)) = NODES_PER_CLUMP - k0
      BY <1>5, EmptyCount
    <3>2. Clumps!Surplus = used - Cardinality(Clumps!EmptySlots(keep))
      BY ClumpSizes DEF Clumps!Surplus
    <3> HIDE DEF used, keep
    <3> QED BY <3>1, <3>2
  <2> HIDE DEF used, l, prime
  <2>3. LET p == Clumps!MergePrime(used - (NODES_PER_CLUMP - k0))
        IN  p \in 0 .. 2 /\ Primed(p, l, k1, k0)
    BY <1>2, <2>1, PrimedMeans
  <2> QED BY <2>2, <2>3 DEF prime
<1>7. target' = L /\ slot' = [slot EXCEPT ![0] = k0] /\ slot' \in [Clumps!Bkts -> 0 .. NODES_PER_CLUMP]
      /\ slot'[0] = k0
  <2>1. target' = L
    BY <1>1, <1>5, TargetIs
  <2>2. Clumps!NextEmpty(keep[L], 0) = k0
    <3>1. 0 \in 0 .. k0
      BY ClumpConstants
    <3> QED BY <1>5, <3>1, NextEmptyIs
  <2>3. slot \in [Clumps!Bkts -> 0 .. NODES_PER_CLUMP]
    BY <1>1 DEF OldInv
  <2> QED BY <1>1, <1>2, <2>1, <2>2, <2>3
<1> HIDE DEF old, l, keep, L, prime
<1>8. ChainsInv'
  <2>1. \A r : Clumps!Home(r)' = 0
    BY <1>1 DEF Clumps!Home
  <2>2. /\ \A b \in Clumps!Bkts : \E k \in 0 .. NODES_PER_CLUMP : Packed(chains'[b], k)
        /\ \A b \in Clumps!Bkts : Single(chains'[b])
        /\ Clumps!RecordsIn(chains'[1]) = {}
    <3>1. 0 \in 0 .. NODES_PER_CLUMP
      BY ClumpConstants
    <3> QED BY <1>2, <1>5, <3>1, EmptyChainFacts
  <2>3. Good(chains)'
    BY <1>1, <1>2, <2>2 DEF Good
  <2>4. \A b \in Clumps!Bkts : \A r \in Clumps!RecordsIn(chains'[b]) : b = 0
    BY <1>2, <2>2
  <2> QED BY <1>1, <2>1, <2>2, <2>3, <2>4 DEF ChainsInv
<1>9. \A b \in Clumps!Bkts : Clumps!RecordsIn(oldList') \cap Clumps!RecordsIn(chains'[b]) = {}
  BY <1>1, <1>2, <1>3, EmptyChainFacts
<1>10. OldInv'
  <2>1. prime \in Nat
    BY <1>6
  <2> QED BY <1>1, <1>2, <1>7, <1>9, <2>1 DEF OldInv, Moves
<1>11. Len(chains'[0]) = L /\ Len(chains'[1]) = 1
  BY <1>2, EmptyChainFacts DEF L
<1>12. RoomInv'
  <2>1. PackedFrom(old, k1, 1, 0)
    BY <1>4, MovingStarts
  <2>2. PICK l0, p : l0 = L /\ p = prime
    OBVIOUS
  <2>3. MergeRoom(k1, l0, k0, p)'
    <3>1. /\ at'[2] = 1 /\ at'[3] = 0 /\ Len(oldList') = l
      BY <1>1, <1>2 DEF l
    <3>2. Packed(chains'[0], slot'[0])
      BY <1>2, <1>5, <1>7
    <3>3. Clumpful(slot'[0] - k0 - at'[3], at'[2] - 1 - (Len(chains'[0]) - l0))
      <4>1. slot'[0] - k0 - at'[3] = 0 /\ at'[2] - 1 - (Len(chains'[0]) - l0) = 0
        BY <1>2, <1>7, <1>11, <2>2, <3>1, ClumpConstants
      <4>2. Clumpful(0, 0)
        BY DEF Clumpful
      <4> QED BY <4>1, <4>2
    <3>4. /\ freeList' = p + Freed(at'[2]) - (Len(chains'[0]) - l0)
          /\ Len(chains'[0]) - l0 >= 0
      <4>1. Freed(at'[2]) = 0
        BY <3>1 DEF Freed
      <4>2. Len(chains'[0]) - l0 = 0
        BY <1>2, <1>11, <2>2
      <4> QED BY <1>1, <1>6, <2>2, <4>1, <4>2
    <3>5. /\ activeBkts' = 1 /\ target' = Len(chains'[0]) /\ Primed(p, Len(oldList'), k1, k0)
      BY <1>1, <1>6, <1>7, <1>11, <2>2, <3>1
    <3> QED BY <3>2, <3>3, <3>4, <3>5 DEF MergeRoom
  <2>4. Merging(k1)'
    BY <1>2, <1>6, <2>2, <2>3 DEF Merging
  <2>5. Room(k1)'
    BY <1>1, <2>1, <2>4 DEF Room
  <2> QED BY <1>1, <2>5 DEF RoomInv
<1>13. AtInv' /\ DueInv'
  BY <1>1 DEF AtInv, DueInv, Iterations, Moves
<1>14. RefInv'
  <2>1. Clumps!Records' = Clumps!Records
    BY <1>1, <1>2, EmptyChainFacts, NoChainFacts DEF Clumps!Records, old, keep
  <2> QED BY <1>1, <2>1, NoIterator DEF Iterations
<1>15. CountInv'
  <2>1. Lengths' = L + 1
    BY <1>11 DEF Lengths
  <2>2. Lengths = L + l
    BY DEF Lengths, l, L, old, keep
  <2>3. OldClumps = 0 /\ OldClumps' = l - 1
    <3>1. old # <<>>
      BY <1>2, NoChainFacts DEF l
    <3> QED BY <1>1, <3>1 DEF OldClumps, l
  <2>4. /\ Lengths' + freeList' + OldClumps' = Lengths + freeList + OldClumps + prime
        /\ prime \in Int /\ freeList \in Int /\ freeList' \in Int /\ OldClumps \in Int /\ OldClumps' \in Int
    BY <1>1, <1>2, <1>6, <2>1, <2>2, <2>3
  <2> QED BY <1>1, <1>8, <2>4, ClumpsKept
<1> QED BY <1>8, <1>10, <1>12, <1>13, <1>14, <1>15 DEF ClumpInv

-----------------------------------------------------------------------------
(* The theorems                                                            *)

\* A step of another part of the suite leaves the clumps alone.
LEMMA ClumpsUnchanged ==
  ASSUME ClumpInv, UNCHANGED Clumps!clumpVars
  PROVE  ClumpInv'
<1> USE DEF Clumps!clumpVars, Clumps!chainVars, Clumps!splitVars
<1>1. \A r : Clumps!Home(r)' = Clumps!Home(r)
  BY DEF Clumps!Home
<1>2. ChainsInv'
  BY <1>1 DEF ClumpInv, ChainsInv, Good
<1>3. OldInv'
  BY DEF ClumpInv, OldInv
<1>4. RoomInv'
  <2> SUFFICES ASSUME clumpPc \in Moves
               PROVE  at = <<0, at[2], at[3]>> /\ \E k \in 0 .. NODES_PER_CLUMP : Room(k)'
    BY DEF RoomInv
  <2>1. PICK k \in 0 .. NODES_PER_CLUMP : Room(k)
    BY DEF ClumpInv, RoomInv
  <2>2. SplitRoom(k)' <=> SplitRoom(k)
    BY DEF SplitRoom
  <2>3. Merging(k)' <=> Merging(k)
    BY DEF Merging, MergeRoom
  <2>4. Room(k)'
    BY <2>1, <2>2, <2>3 DEF Room
  <2> QED BY <2>4 DEF ClumpInv, RoomInv
<1>5. AtInv'
  BY DEF ClumpInv, AtInv, Occupied, InLoop
<1>6. DueInv'
  BY DEF ClumpInv, DueInv, FromHere
<1>7. Clumps!Records' = Clumps!Records /\ Clumps!Here' = Clumps!Here
  BY DEF Clumps!Records, Clumps!Here
<1>8. RefInv'
  BY <1>7 DEF ClumpInv, RefInv, Clumps!ReferencesBalanced
<1>9. CountInv'
  BY DEF ClumpInv, CountInv, Clumps!ClumpsAccounted
<1> QED BY <1>2, <1>3, <1>4, <1>5, <1>6, <1>8, <1>9 DEF ClumpInv

LEMMA ClumpKept ==
  ASSUME ClumpInv, [Clumps!Next]_(Clumps!clumpVars)
  PROVE  ClumpInv'
<1>1. ASSUME NEW r \in ClumpRecord, Clumps!InsertRecord(r) PROVE ClumpInv'
  BY <1>1, InsertStep
<1>2. ASSUME NEW r \in ClumpRecord, Clumps!DeleteKey(r) PROVE ClumpInv'
  BY <1>2, DeleteKeyStep
<1>3. CASE Clumps!StartDeleteIf
  BY <1>3, StartDeleteIfStep
<1>4. CASE Clumps!NextClump
  BY <1>4, NextClumpStep
<1>5. CASE Clumps!NextBucket
  BY <1>5, NextBucketStep
<1>6. ASSUME NEW answer \in Clumps!Answers, Clumps!AskPredicate(answer) PROVE ClumpInv'
  BY <1>6, AskPredicateStep
<1>7. CASE Clumps!BeginIteration
  BY <1>7, BeginIterationStep
<1>8. CASE Clumps!IncrementIterator
  BY <1>8, IncrementIteratorStep
<1>9. CASE Clumps!EraseAtIterator
  BY <1>9, EraseAtIteratorStep
<1>10. CASE Clumps!StartEraseRange
  BY <1>10, StartEraseRangeStep
<1>11. CASE Clumps!EraseRange
  BY <1>11, EraseRangeStep
<1>12. CASE Clumps!Expand
  BY <1>12, ExpandStep
<1>13. CASE Clumps!SplitRecord
  BY <1>13, SplitRecordStep
<1>14. CASE Clumps!Contract
  BY <1>14, ContractStep
<1>15. CASE Clumps!MergeRecord
  BY <1>15, MergeRecordStep
<1>16. CASE Clumps!SkipEmptySlot
  BY <1>16, SkipEmptySlotStep
<1>17. CASE Clumps!NextOldClump
  BY <1>17, NextOldClumpStep
<1>18. CASE UNCHANGED Clumps!clumpVars
  BY <1>18, ClumpsUnchanged
<1> QED BY <1>1, <1>2, <1>3, <1>4, <1>5, <1>6, <1>7, <1>8, <1>9, <1>10, <1>11, <1>12, <1>13,
           <1>14, <1>15, <1>16, <1>17, <1>18 DEF Clumps!Next

\* The invariant of the bucket chains holds always.
THEOREM ClumpInvAlways == PartSpec => []ClumpInv
<1>1. PartInit => ClumpInv
  BY ClumpsStart DEF PartInit
<1>2. ClumpInv /\ [PartNext]_partVars => ClumpInv'
  BY ClumpSteps, ClumpKept
<1> QED BY <1>1, <1>2, PTL DEF PartSpec

\* A chain has as many records as slots in use.
LEMMA RecordCount ==
  ASSUME NEW chain \in Chain, Single(chain)
  PROVE  /\ IsFiniteSet(Clumps!RecordsIn(chain))
         /\ Cardinality(Clumps!UsedSlots(chain)) = Cardinality(Clumps!RecordsIn(chain))
         /\ Cardinality(Clumps!RecordsIn(chain)) \in Nat
<1> DEFINE S == Clumps!UsedSlots(chain)
           T == Clumps!RecordsIn(chain)
           f == [p \in S |-> chain[p[1]][p[2]]]
<1>1. IsFiniteSet(S)
  BY SlotsFinite
<1>2. f \in [S -> T]
  BY InRecords
<1>3. \A p, q \in S : f[p] = f[q] => p = q
  BY DEF Single
<1>4. \A r \in T : \E p \in S : f[p] = r
  BY InRecords
<1> HIDE DEF S, T, f
<1>5. f \in Bijection(S, T)
  BY <1>2, <1>3, <1>4 DEF Bijection, Injection, Surjection, IsInjective
<1>6. ExistsBijection(S, T)
  BY <1>5 DEF ExistsBijection
<1>7. IsFiniteSet(T) /\ Cardinality(T) = Cardinality(S)
  BY <1>1, <1>6, FS_Bijection
<1>8. Cardinality(T) \in Nat
  BY <1>7, FS_CardinalityType
<1> QED BY <1>7, <1>8 DEF S, T

\* Disjoint sets of records.
LEMMA DisjointCount ==
  ASSUME NEW A, NEW B, NEW C, IsFiniteSet(A), IsFiniteSet(B), IsFiniteSet(C),
         A \cap B = {}, A \cap C = {}, B \cap C = {}
  PROVE  Cardinality(A \cup B \cup C) = Cardinality(A) + Cardinality(B) + Cardinality(C)
<1>1. /\ IsFiniteSet(A \cup B)
      /\ Cardinality(A \cup B) = Cardinality(A) + Cardinality(B) - Cardinality({})
  BY FS_Union
<1>2. (A \cup B) \cap C = {}
  OBVIOUS
<1> DEFINE D == A \cup B
<1> HIDE DEF D
<1>3. Cardinality(D \cup C) = Cardinality(D) + Cardinality(C) - Cardinality({})
  BY <1>1, <1>2, FS_Union DEF D
<1>4. /\ Cardinality(A) \in Nat /\ Cardinality(B) \in Nat /\ Cardinality(C) \in Nat
      /\ Cardinality({}) = 0
  BY FS_CardinalityType, FS_EmptySet
<1>5. Cardinality(D) = Cardinality(A) + Cardinality(B)
  BY <1>1, <1>4 DEF D
<1>6. Cardinality(D \cup C) = Cardinality(A) + Cardinality(B) + Cardinality(C)
  BY <1>3, <1>4, <1>5
<1> QED BY <1>6 DEF D

\* Whatever is inserted and removed in whatever order, with loops and ranges,
\* splits and merges, there is no record behind an empty slot and none but the
\* bucket's own clump is empty (LKRhash, _IsNodeCompact); every record is in one
\* slot, of the bucket its signature addresses.
THEOREM ChainsAlwaysCompact == PartSpec => []ChainsCompact
<1>1. ASSUME ClumpInv PROVE Clumps!ChainsCompact
  <2> SUFFICES ASSUME NEW b \in Clumps!Bkts
               PROVE  /\ \A p \in Clumps!EmptySlots(chains[b]), q \in Clumps!UsedSlots(chains[b]) :
                           Clumps!Before(q, p)
                      /\ \A j \in 2 .. Len(chains[b]) : chains[b][j][0] # NullRecord
    BY DEF Clumps!ChainsCompact
  <2>1. PICK k \in 0 .. NODES_PER_CLUMP : Packed(chains[b], k)
    BY <1>1 DEF ClumpInv, ChainsInv, Good
  <2> DEFINE L == Len(chains[b])
  <2>2. /\ L \in Nat \ {0}
        /\ \A p : p \in Clumps!UsedSlots(chains[b]) <=>
              p \in (1 .. L) \X Clumps!Slots /\ (p[1] < L \/ p[2] < k)
        /\ \A p : p \in Clumps!EmptySlots(chains[b]) <=> p \in {L} \X Clumps!Slots /\ p[2] >= k
        /\ k \in Int /\ Clumps!Slots \subseteq Int
    BY <2>1, PackedSlots, ClumpConstants
  <2>3. /\ \A j \in 1 .. L, i \in Clumps!Slots : chains[b][j][i] # NullRecord <=> j < L \/ i < k
        /\ L > 1 => k >= 1
        /\ 0 \in Clumps!Slots
    BY <2>1, ClumpConstants DEF Packed
  <2> HIDE DEF L
  <2>4. \A p \in Clumps!EmptySlots(chains[b]), q \in Clumps!UsedSlots(chains[b]) : Clumps!Before(q, p)
    <3> TAKE p \in Clumps!EmptySlots(chains[b]), q \in Clumps!UsedSlots(chains[b])
    <3>1. p \in {L} \X Clumps!Slots /\ p[2] >= k
      BY <2>2
    <3>2. q \in (1 .. L) \X Clumps!Slots /\ (q[1] < L \/ q[2] < k)
      BY <2>2
    <3>3. p[1] = L /\ p[2] \in Int /\ q[1] \in 1 .. L /\ q[2] \in Int
      BY <2>2, <3>1, <3>2
    <3> QED BY <2>2, <3>1, <3>2, <3>3 DEF Clumps!Before
  <2>5. \A j \in 2 .. L : chains[b][j][0] # NullRecord
    BY <2>2, <2>3
  <2> QED BY <2>4, <2>5 DEF L
<1>2. ASSUME ClumpInv PROVE Clumps!RecordsAtHome
  <2>1. /\ chains[0] \in Chain /\ chains[1] \in Chain /\ oldList \in Chain
        /\ Single(chains[0]) /\ Single(chains[1]) /\ Single(oldList) /\ 0 \in Clumps!Bkts /\ 1 \in Clumps!Bkts
        /\ \A b \in Clumps!Bkts : \A r \in Clumps!RecordsIn(chains[b]) : Clumps!Home(r) = b
        /\ \A b \in Clumps!Bkts : Clumps!RecordsIn(oldList) \cap Clumps!RecordsIn(chains[b]) = {}
    BY <1>2 DEF ClumpInv, ChainsInv, Good, OldInv, Clumps!Bkts
  <2> DEFINE A == Clumps!RecordsIn(chains[0])
             B == Clumps!RecordsIn(chains[1])
             C == Clumps!RecordsIn(oldList)
  <2>2. A \cap B = {} /\ A \cap C = {} /\ B \cap C = {}
    BY <2>1
  <2>3. /\ IsFiniteSet(A) /\ Cardinality(Clumps!UsedSlots(chains[0])) = Cardinality(A)
        /\ IsFiniteSet(B) /\ Cardinality(Clumps!UsedSlots(chains[1])) = Cardinality(B)
        /\ IsFiniteSet(C) /\ Cardinality(Clumps!UsedSlots(oldList)) = Cardinality(C)
    BY <2>1, RecordCount
  <2>4. Clumps!Records = A \cup B \cup C
    BY DEF Clumps!Records
  <2> HIDE DEF A, B, C
  <2>5. Cardinality(A \cup B \cup C) = Cardinality(A) + Cardinality(B) + Cardinality(C)
    BY <2>2, <2>3, DisjointCount
  <2>6. Cardinality(Clumps!UsedSlots(chains[0])) + Cardinality(Clumps!UsedSlots(chains[1]))
          + Cardinality(Clumps!UsedSlots(oldList)) = Cardinality(Clumps!Records)
    BY <2>3, <2>4, <2>5
  <2> QED BY <2>1, <2>6, ClumpSizes DEF Clumps!RecordsAtHome
<1>3. ClumpInv => ChainsCompact
  BY <1>1, <1>2 DEF ChainsCompact
<1> QED BY <1>3, ClumpInvAlways, PTL

\* _SplitRecordSet and _MergeRecordSets never take a clump from an empty free
\* list, whatever the lengths of the chains, and the clumps that the table has
\* allocated are all where they can be freed.
THEOREM ClumpsAlwaysSuffice == PartSpec => []ClumpsSuffice
<1>1. ClumpInv => ClumpsSuffice
  BY DEF ClumpInv, OldInv, CountInv, Moves, Iterations, ClumpsSuffice, Clumps!FreeListSuffices
<1> QED BY <1>1, ClumpInvAlways, PTL

\* A loop or iterator that removes records as it goes has still to meet the one
\* it stands on, and has met all of them in the end (_DeleteIf, Erase and
\* _Increment over _DeleteNode's backing up); references are those of the table
\* and of an iterator.
THEOREM LoopsMeetEveryRecord == PartSpec => []LoopMeetsEveryRecord
<1>1. ASSUME ClumpInv PROVE Clumps!LoopMeetsEveryRecord
  <2>1. ASSUME clumpPc = "iterate" \/ (clumpPc = "eraseRange" /\ riterLast = Clumps!End)
        PROVE  Clumps!Here \in due
    <3>1. clumpPc \in Iterations /\ due = FromHere(chains, at)
      BY <1>1, <2>1 DEF ClumpInv, DueInv, Iterations
    <3> QED BY <1>1, <3>1, AtRecord
  <2>2. ASSUME clumpPc = "deleteIf", Clumps!InClump
        PROVE  Clumps!Here \in due \cup {NullRecord}
    <3> DEFINE b == at[1]
               j == at[2]
               i == at[3]
    <3>1. ChainsInv /\ InLoop(at) /\ due = FromHere(chains, at) /\ i < NODES_PER_CLUMP
      BY <1>1, <2>2 DEF ClumpInv, AtInv, DueInv, Clumps!InClump, Clumps!NODE_END
    <3>2. /\ at = <<b, j, i>> /\ b \in Clumps!Bkts /\ j \in 1 .. Len(chains[b]) /\ i \in Clumps!Slots
          /\ chains[b] \in Chain
      BY <3>1, InLoopMeans, ClumpConstants
    <3>3. Clumps!Here = chains[b][j][i]
      BY DEF Clumps!Here
    <3> HIDE DEF b, j, i
    <3>4. CASE chains[b][j][i] # NullRecord
      <4>1. <<j, i>> \in Clumps!UsedSlots(chains[b])
        BY <3>2, <3>4, UsedAt
      <4>2. chains[b][j][i] \in FromHere(chains, <<b, j, i>>)
        BY <3>1, <3>2, <4>1, HereRest
      <4> QED BY <3>1, <3>2, <3>3, <4>2
    <3> QED BY <3>3, <3>4
  <2>3. clumpPc = "idle" => due = {}
    BY <1>1 DEF ClumpInv, DueInv
  <2> QED BY <2>1, <2>2, <2>3 DEF Clumps!LoopMeetsEveryRecord
<1>2. ClumpInv => LoopMeetsEveryRecord
  BY <1>1 DEF ClumpInv, RefInv, LoopMeetsEveryRecord
<1> QED BY <1>2, ClumpInvAlways, PTL

\* The variables of the bucket chains keep to their types.
THEOREM ClumpTypesOK == PartSpec => []Clumps!TypeOK
<1>1. ASSUME ClumpInv PROVE Clumps!TypeOK
  <2>1. /\ ChainsInv /\ OldInv /\ AtInv /\ DueInv /\ RefInv /\ CountInv
    BY <1>1 DEF ClumpInv
  <2>2. Len(chains[0]) \in Nat \ {0} /\ Len(chains[1]) \in Nat \ {0}
    BY <2>1, LengthTypes DEF ChainsInv, Good
  <2>3. OldClumps \in Nat
    <3>1. CASE clumpPc \in Moves
      <4>1. at[2] \in 1 .. Len(oldList) /\ Len(oldList) \in Nat \ {0}
        BY <1>1, <3>1, MovesMean
      <4> DEFINE l == Len(oldList)
      <4>2. OldClumps = IF oldList = <<>> THEN 0 ELSE IF at[2] = 1 THEN l - 1 ELSE l - at[2] + 1
        BY DEF OldClumps
      <4> HIDE DEF l
      <4>3. at[2] \in 1 .. l /\ l \in Nat \ {0}
        BY <4>1 DEF l
      <4> QED BY <4>2, <4>3
    <3>2. CASE clumpPc \notin Moves
      BY <2>1, <3>2 DEF OldInv, OldClumps
    <3> QED BY <3>1, <3>2
  <2>4. cClumps \in Nat
    <3> DEFINE a0 == Len(chains[0])
               a1 == Len(chains[1])
               o == OldClumps
    <3>1. cClumps = a0 - 1 + a1 - 1 + freeList + o /\ freeList \in Nat
      BY <2>1 DEF CountInv, Clumps!ClumpsAccounted, OldClumps, OldInv
    <3>2. a0 \in Nat \ {0} /\ a1 \in Nat \ {0} /\ o \in Nat
      BY <2>2, <2>3
    <3> HIDE DEF a0, a1, o
    <3> QED BY <3>1, <3>2
  <2>5. refCount \in [ClumpRecord -> Nat]
    <3>1. \A r \in ClumpRecord : refCount[r] \in Nat
      BY <2>1 DEF RefInv, Clumps!ReferencesBalanced
    <3> QED BY <2>1, <3>1 DEF RefInv
  <2>6. movers \in SplitHomes /\ activeBkts \in {1, 2} /\ chains \in [Clumps!Bkts -> Seq(Clumps!Clump)]
    BY <2>1 DEF ChainsInv, Good, Chain
  <2>7. /\ oldList \in Seq(Clumps!Clump) /\ freeList \in Nat /\ target \in Nat \ {0}
        /\ slot \in [Clumps!Bkts -> 0 .. Clumps!NODE_END]
        /\ clumpPc \in {"idle", "deleteIf", "iterate", "eraseRange", "split", "merge", "nullClump"}
    BY <2>1 DEF OldInv, Chain, Clumps!NODE_END, Moves, Iterations
  <2> QED BY <2>1, <2>4, <2>5, <2>6, <2>7 DEF Clumps!TypeOK, AtInv, DueInv
<1>2. ClumpInv => Clumps!TypeOK
  BY <1>1
<1> QED BY <1>2, ClumpInvAlways, PTL
=============================================================================
