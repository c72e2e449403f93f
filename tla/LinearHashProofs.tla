-------------------------- MODULE LinearHashProofs --------------------------
(***************************************************************************)
(* Proofs about LinearHash for any threads, records, sizes and allocation  *)
(* failures, in four parts: the addresses; the fields' types, the table    *)
(* lock and the address variables; the bucket locks, where the records     *)
(* are while buckets are split and merged, and what follows for the        *)
(* threads that search for them; the reference counts, the count of the    *)
(* records, CheckTable, and that the table implements RecordTable.         *)
(***************************************************************************)
EXTENDS LinearHash, FiniteSetTheorems, TLAPS

(***************************************************************************)
(* Part 1.  Addresses                                                      *)
(*                                                                         *)
(* Facts for a table whose level stands for p buckets (p = 2^level, so     *)
(* that the masks are p - 1 and 2 * p - 1) of which the first idx are split. *)
(***************************************************************************)

-----------------------------------------------------------------------------
(* Division *)

\* Division with remainder.
LEMMA DivMod ==
  ASSUME NEW a \in Nat, NEW m \in Nat \ {0}
  PROVE  /\ a = (m * (a \div m)) + (a % m)
         /\ a \div m \in Nat /\ a % m \in 0 .. m - 1
  OBVIOUS

\* Quotient and remainder are unique.
LEMMA ModUnique ==
  ASSUME NEW m \in Nat \ {0}, NEW q1 \in Int, NEW q2 \in Int,
         NEW r1 \in 0 .. m - 1, NEW r2 \in 0 .. m - 1,
         m * q1 + r1 = m * q2 + r2
  PROVE  q1 = q2 /\ r1 = r2
  OBVIOUS

\* Division is monotone.
LEMMA DivMono ==
  ASSUME NEW a \in Nat, NEW b \in Nat, NEW s \in Nat \ {0}, a <= b
  PROVE  a \div s <= b \div s
  OBVIOUS

\* A number below d * s has a quotient below d.
LEMMA DivLess ==
  ASSUME NEW a \in Nat, NEW d \in Nat, NEW s \in Nat \ {0}, a < d * s
  PROVE  a \div s < d
  OBVIOUS

\* One more bit of a signature: doubling the modulus adds 0 or m.
LEMMA ModDouble ==
  ASSUME NEW a \in Nat, NEW m \in Nat \ {0}
  PROVE  a % (2 * m) \in {a % m, (a % m) + m}
<1> DEFINE q == a \div (2 * m)
           r == a % (2 * m)
           k == a \div m
           b == a % m
<1>1. a = (2 * m) * q + r /\ q \in Nat /\ r \in 0 .. (2 * m) - 1
  <2> DEFINE d == 2 * m
  <2>1. d \in Nat \ {0}
    OBVIOUS
  <2> HIDE DEF d
  <2>2. a = (d * (a \div d)) + (a % d) /\ a \div d \in Nat /\ a % d \in 0 .. d - 1
    BY <2>1, DivMod
  <2> QED BY <2>2 DEF d
<1>2. a = (m * k) + b /\ k \in Int /\ b \in 0 .. m - 1
  BY DivMod
<1> HIDE DEF q, r, k, b
<1>3. CASE r < m
  <2> DEFINE z == 2 * q
  <2>1. (m * z) + r = (m * k) + b /\ z \in Int /\ r \in 0 .. m - 1
    BY <1>1, <1>2, <1>3
  <2> HIDE DEF z
  <2>2. r = b
    BY <2>1, <1>2, ModUnique
  <2> QED BY <2>2 DEF r, b
<1>4. CASE r >= m
  <2> DEFINE z == 2 * q + 1
             y == r - m
  <2>1. (m * z) + y = (m * k) + b /\ z \in Int /\ y \in 0 .. m - 1
    BY <1>1, <1>2, <1>4
  <2> HIDE DEF z
  <2>2. y = b
    <3> HIDE DEF y
    <3> QED BY <2>1, <1>2, ModUnique
  <2>3. r = b + m
    BY <2>2, <1>1, <1>2
  <2> QED BY <2>3 DEF r, b
<1> QED BY <1>1, <1>3, <1>4

-----------------------------------------------------------------------------
(* Addresses *)

\* A signature's address, by what its lower bits are.
LEMMA AddressCases ==
  ASSUME NEW sig \in Nat, NEW p \in Nat \ {0}, NEW idx \in 0 .. p
  PROVE  /\ sig % p \in 0 .. p - 1
         /\ sig % (2 * p) \in {sig % p, (sig % p) + p}
         /\ BucketAddress(sig, p - 1, idx) =
              IF sig % p < idx THEN sig % (2 * p) ELSE sig % p
<1>1. (p - 1) + 1 = p /\ (2 * (p - 1) + 1) + 1 = 2 * p
  OBVIOUS
<1>2. H0(sig, p - 1) = sig % p
  BY <1>1 DEF H0
<1>3. H1(sig, p - 1) = sig % (2 * p)
  BY <1>1 DEF H0, H1
<1>4. sig % p \in 0 .. p - 1
  BY DivMod
<1>5. sig % (2 * p) \in {sig % p, (sig % p) + p}
  BY ModDouble
<1> QED BY <1>2, <1>3, <1>4, <1>5 DEF BucketAddress

(***************************************************************************)
(* _BucketAddress never leaves the table: every signature is addressed to  *)
(* one of the p + idx buckets.                                             *)
(***************************************************************************)
THEOREM AddressInTable ==
  ASSUME NEW sig \in Nat, NEW p \in Nat \ {0}, NEW idx \in 0 .. p
  PROVE  BucketAddress(sig, p - 1, idx) \in 0 .. p + idx - 1
<1> DEFINE b == sig % p
           r == sig % (2 * p)
<1>1. b \in 0 .. p - 1 /\ r \in {b, b + p}
  BY AddressCases
<1>2. BucketAddress(sig, p - 1, idx) = IF b < idx THEN r ELSE b
  BY AddressCases
<1> HIDE DEF b, r
<1> QED BY <1>1, <1>2

(***************************************************************************)
(* _Expand's step of the expansion index re-addresses the records of       *)
(* bucket idx, some of them to the new bucket p + idx, and no others: a    *)
(* split has to look at one bucket only.                                   *)
(***************************************************************************)
THEOREM SplitMovesOneBucket ==
  ASSUME NEW sig \in Nat, NEW p \in Nat \ {0}, NEW idx \in 0 .. p - 1
  PROVE  LET before == BucketAddress(sig, p - 1, idx)
             after  == BucketAddress(sig, p - 1, idx + 1)
         IN  IF before = idx THEN after \in {idx, p + idx} ELSE after = before
<1>1. idx \in 0 .. p /\ idx + 1 \in 0 .. p
  OBVIOUS
<1>2. sig % p \in 0 .. p - 1 /\ sig % (2 * p) \in {sig % p, (sig % p) + p}
  BY AddressCases, <1>1
<1>3. BucketAddress(sig, p - 1, idx) = IF sig % p < idx THEN sig % (2 * p) ELSE sig % p
  BY AddressCases, <1>1
<1>4. BucketAddress(sig, p - 1, idx + 1) =
        IF sig % p < idx + 1 THEN sig % (2 * p) ELSE sig % p
  BY AddressCases, <1>1
<1> QED BY <1>2, <1>3, <1>4

(***************************************************************************)
(* When all p buckets are split, going to the next level (twice the masks, *)
(* expansion index 0), as _Expand does and _Contract undoes, re-addresses  *)
(* nothing.                                                                *)
(***************************************************************************)
THEOREM NextLevelMovesNothing ==
  ASSUME NEW sig \in Nat, NEW p \in Nat \ {0}
  PROVE  BucketAddress(sig, p - 1, p) = BucketAddress(sig, 2 * p - 1, 0)
<1>1. BucketAddress(sig, p - 1, p) = sig % (2 * p)
  BY AddressCases
<1> DEFINE d == 2 * p
<1>2. d \in Nat \ {0} /\ 0 \in 0 .. d
  OBVIOUS
<1> HIDE DEF d
<1>3. /\ sig % d \in 0 .. d - 1
      /\ BucketAddress(sig, d - 1, 0) = IF sig % d < 0 THEN sig % (2 * d) ELSE sig % d
  BY <1>2, AddressCases
<1>4. BucketAddress(sig, d - 1, 0) = sig % d
  BY <1>3
<1> QED BY <1>1, <1>4 DEF d

(***************************************************************************)
(* Part 2.  Types, the table lock, the address variables                   *)
(***************************************************************************)

-----------------------------------------------------------------------------
(* The inductive invariant *)

\* The points at which a thread holds the table lock.
Writing(t) ==
  \/ pc[t] \in {"expandOld", "expandNew", "contractLast", "contractTarget",
                "clearBucket", "clearLoad", "clearStore"}
  \/ pc[t] = "lockBucket" /\ op[t] \notin Finds
Reading(t) == pc[t] = "checkBucket" \/ (pc[t] = "lockBucket" /\ op[t] \in Finds)

TableLockInv ==
  /\ \A t \in Thread : Writing(t) <=> tblWriter = t
  /\ \A t \in Thread : Reading(t) <=> t \in tblReaders
  /\ tblWriter # NoThread => tblReaders = {}

\* A thread that runs an operation has a record; one that clears, a bucket.
CallInv ==
  \A t \in Thread :
    /\ pc[t] # "idle" => rec[t] \in Record
    /\ pc[t] \in {"clearLoad", "clearStore"} => scan[t] \in Addr

\* The directory is a doubling of the smallest one, or there is none.
DirectoryInv ==
  /\ cDirSegs = 0 => cActiveBuckets = 0 /\ segs = {}
  /\ cDirSegs = 0 \/ \E n \in 0 .. MaxLevel + 1 : cDirSegs = MinDirSize * 2 ^ n

\* What the thread that resizes relies on while it waits for its buckets.
Expanding == {"expandOld", "expandNew"}
Contracting == {"contractLast", "contractTarget"}
ResizeInv ==
  /\ HasDirectory => SegBits <= nLevel
  /\ \A t \in Thread :
       /\ pc[t] \in Expanding => HasDirectory /\ nLevel < MaxLevel
       /\ pc[t] \in Contracting =>
            HasDirectory /\ (iExpansionIdx + 1 = 2 ^ nLevel => nLevel < MaxLevel)
       /\ pc[t] = "contractTarget" =>
            cActiveBuckets < cDirSegs * SegSize /\ Segment(cActiveBuckets) \in segs

IInv == TypeOK /\ CallInv /\ TableLockInv /\ DirectoryInv /\ ResizeInv /\ AddressesValid

USE DEF tableVars, dataVars, tblLock, bktLocks, callVars, resizeVars, scanVars, vars,
        Goto, Put

-----------------------------------------------------------------------------
(* Facts about the constants and the operators *)

LEMMA SizeFacts ==
  /\ SegSize \in Nat \ {0} /\ SegBits \in 1 .. MaxLevel /\ MaxLevel \in Nat
  /\ SegSize = 2 ^ SegBits
  /\ AddrLimit \in Nat \ {0} /\ AddrLimit = 2 * 2 ^ MaxLevel
  /\ MinDirSize \in Nat \ {0}
  /\ NodesPerClump \in Nat \ {0} /\ CountModulus \in Nat \ {0} /\ MaxLoadPercent \in Nat
  BY SizeAssumption, PowersAssumption DEF SegSize, IsTableSize, AddrLimit

LEMMA Powers ==
  ASSUME NEW n \in 0 .. MaxLevel
  PROVE  /\ 2 ^ n \in Nat \ {0} /\ 2 ^ (n + 1) = 2 * 2 ^ n /\ 2 ^ (n + 1) <= AddrLimit
         /\ n > 0 => 2 ^ n = 2 * 2 ^ (n - 1)
         /\ \A k \in 0 .. n : 2 ^ k <= 2 ^ n
<1> MaxLevel \in Nat
  BY SizeAssumption
<1>1. 2 ^ n \in Nat \ {0} /\ 2 ^ (n + 1) = 2 * 2 ^ n /\ \A k \in 0 .. n : 2 ^ k <= 2 ^ n
  BY PowersAssumption
<1>2. 2 ^ (n + 1) <= AddrLimit
  BY PowersAssumption DEF AddrLimit
<1>3. ASSUME n > 0 PROVE 2 ^ n = 2 * 2 ^ (n - 1)
  <2> n - 1 \in 0 .. MaxLevel /\ (n - 1) + 1 = n
    BY <1>3
  <2> QED BY PowersAssumption
<1> QED BY <1>1, <1>2, <1>3

LEMMA RecordFacts ==
  /\ \A S \in SUBSET Record : Cardinality(S) \in Nat
  /\ \A r \in Record : Sig(r) \in Nat
<1>1. ASSUME NEW S \in SUBSET Record PROVE Cardinality(S) \in Nat
  BY RecordAssumption, FS_Subset, FS_CardinalityType
<1>2. \A r \in Record : Sig(r) \in Nat
  BY RecordAssumption DEF Sig
<1> QED BY <1>1, <1>2

\* While there is a directory, the table lies within the address space.
LEMMA TableBounds ==
  ASSUME TypeOK, AddressesValid, HasDirectory
  PROVE  /\ 2 ^ nLevel \in Nat \ {0} /\ dwBktAddrMask0 = 2 ^ nLevel - 1
         /\ iExpansionIdx \in 0 .. 2 ^ nLevel - 1
         /\ 2 ^ nLevel + iExpansionIdx <= cActiveBuckets
         /\ cActiveBuckets <= 2 ^ (nLevel + 1) /\ cActiveBuckets <= AddrLimit
         /\ 2 ^ (nLevel + 1) = 2 * 2 ^ nLevel
         /\ \A r \in Record : Place(r) \in Addr
<1>1. nLevel \in 0 .. MaxLevel /\ cActiveBuckets \in Nat /\ iExpansionIdx \in Nat
  BY DEF TypeOK
<1>2. /\ dwBktAddrMask0 = 2 ^ nLevel - 1
      /\ iExpansionIdx <= dwBktAddrMask0
      /\ cActiveBuckets = 2 ^ nLevel + iExpansionIdx + BucketInTransit
  BY DEF AddressesValid
<1>3. BucketInTransit \in {0, 1}
  BY DEF BucketInTransit
<1>4. 2 ^ nLevel \in Nat \ {0} /\ 2 ^ (nLevel + 1) = 2 * 2 ^ nLevel /\ 2 ^ (nLevel + 1) <= AddrLimit
  BY <1>1, Powers
<1>5. /\ iExpansionIdx \in 0 .. 2 ^ nLevel - 1
      /\ 2 ^ nLevel + iExpansionIdx <= cActiveBuckets
      /\ cActiveBuckets <= 2 ^ (nLevel + 1) /\ cActiveBuckets <= AddrLimit
  BY <1>1, <1>2, <1>3, <1>4, SizeFacts
<1>6. ASSUME NEW r \in Record PROVE Place(r) \in Addr
  <2>1. Place(r) \in 0 .. 2 ^ nLevel + iExpansionIdx - 1
    BY <1>2, <1>4, <1>5, RecordFacts, AddressInTable DEF Place
  <2> QED BY <2>1, <1>1, <1>4, <1>5, SizeFacts DEF Addr
<1> QED BY <1>2, <1>4, <1>5, <1>6

\* Advancing the expansion index keeps the fields' types.
LEMMA AdvanceType ==
  ASSUME TypeOK, AddressesValid, HasDirectory, Advance, nLevel < MaxLevel \/ iExpansionIdx + 1 # 2 ^ nLevel
  PROVE  /\ nLevel' \in 0 .. MaxLevel /\ iExpansionIdx' \in Nat
         /\ dwBktAddrMask0' \in Nat /\ dwBktAddrMask1' \in Nat
<1>1. dwBktAddrMask0 \in Nat /\ dwBktAddrMask1 \in Nat /\ nLevel \in 0 .. MaxLevel /\ iExpansionIdx \in Nat
  BY DEF TypeOK
<1>2. CASE iExpansionIdx + 1 = 2 ^ nLevel
  BY <1>1, <1>2, SizeFacts DEF Advance
<1>3. CASE iExpansionIdx + 1 # 2 ^ nLevel
  BY <1>1, <1>3 DEF Advance
<1> QED BY <1>2, <1>3

\* Changing one bucket, or one reference count, keeps the types.
LEMMA DataType ==
  ASSUME TypeOK
  PROVE  /\ \A a \in Addr : bucket[a] \in SUBSET Record
         /\ \A t \in Thread : SameKey(t) \in SUBSET Record /\ Victims(t) \in SUBSET Record
         /\ \A a \in Addr, S \in SUBSET Record :
              [bucket EXCEPT ![a] = S] \in [Addr -> SUBSET Record]
         /\ \A r \in Record, n \in Int : AddRef(r, n) \in [Record -> Int]
  BY DEF TypeOK, SameKey, Victims, AddRef

LEMMA SegmentType ==
  ASSUME NEW a \in Nat
  PROVE  Segment(a) = a \div SegSize /\ Segment(a) \in Nat
<1>1. Segment(a) = a \div SegSize
  BY DEF Segment, SegmentOf, SegSize
<1> QED BY <1>1, SizeFacts, DivMod, ZenonT(40)

(***************************************************************************)
(* What _SetSegVars computes for a table of c buckets: c is split into a   *)
(* level and an expansion index, and the directory is large enough.        *)
(***************************************************************************)
LEMMA NewTable ==
  ASSUME NEW c, IsTableSize(c)
  PROVE  LET level == InitialLevel(c, SegBits, MaxLevel)
             idx   == InitialExpansionIdx(c, level)
             dir   == InitialDirSize(c, SegBits, MinDirSize, MaxLevel)
         IN  /\ c \in Nat /\ level \in SegBits .. MaxLevel
             /\ idx \in 0 .. 2 ^ level - 1 /\ c = 2 ^ level + idx
             /\ 2 ^ level - 1 \in Nat /\ 2 ^ (level + 1) - 1 \in Nat
             /\ dir \in Nat \ {0} /\ c <= dir * SegSize
             /\ \E n \in 0 .. MaxLevel : dir = MinDirSize * 2 ^ n
             /\ InitialSegments(c, SegBits) \in Nat
             /\ \A a \in 0 .. c - 1 : Segment(a) < InitialSegments(c, SegBits)
<1> DEFINE level == InitialLevel(c, SegBits, MaxLevel)
           idx   == InitialExpansionIdx(c, level)
           dir   == InitialDirSize(c, SegBits, MinDirSize, MaxLevel)
<1>1. level \in SegBits .. MaxLevel /\ 2 ^ level <= c /\ c < 2 ^ (level + 1) /\ c \in Nat
  BY DEF IsTableSize, InitialLevel
<1> HIDE DEF level
<1>2. 2 ^ level \in Nat \ {0} /\ 2 ^ (level + 1) = 2 * 2 ^ level
  BY <1>1, Powers, SizeFacts
<1>3. idx = c % (2 ^ level)
  BY <1>2 DEF InitialExpansionIdx, H0
<1>4. idx = c - 2 ^ level
  <2> DEFINE p == 2 ^ level
  <2>1. p \in Nat \ {0} /\ c \in Nat /\ p <= c /\ c < 2 * p
    BY <1>1, <1>2
  <2> HIDE DEF p
  <2>2. /\ c = (p * (c \div p)) + (c % p) /\ c \div p \in Int
        /\ c % p \in 0 .. p - 1 /\ c - p \in 0 .. p - 1 /\ c = (p * 1) + (c - p)
    BY <2>1, DivMod
  <2>3. c % p = c - p
    BY <2>1, <2>2, ModUnique
  <2> QED BY <2>3, <1>3 DEF p
<1>5. dir \in Nat \ {0} /\ c <= dir * SegSize /\ \E n \in 0 .. MaxLevel : dir = MinDirSize * 2 ^ n
  <2>1. PICK n \in 0 .. MaxLevel : dir = MinDirSize * 2 ^ n
    BY DEF IsTableSize
  <2>2. 2 ^ n \in Nat \ {0}
    BY Powers
  <2>3. dir \in Nat \ {0}
    BY <2>1, <2>2, SizeFacts
  <2> QED BY <2>1, <2>3 DEF IsTableSize
<1>6. InitialSegments(c, SegBits) = (c + SegSize - 1) \div SegSize
  BY SizeFacts DEF InitialSegments
<1>7. InitialSegments(c, SegBits) \in Nat
  BY <1>1, <1>6, SizeFacts, DivMod
<1>8. ASSUME NEW a \in 0 .. c - 1
      PROVE  Segment(a) < InitialSegments(c, SegBits)
  <2> DEFINE e == c + SegSize - 1
             d == e \div SegSize
             m == e % SegSize
  <2>0. e \in Nat
    BY <1>1, SizeFacts
  <2> HIDE DEF e
  <2>1. e = (SegSize * d) + m /\ m \in 0 .. SegSize - 1 /\ d \in Nat
    BY <2>0, SizeFacts, DivMod
  <2> HIDE DEF d, m
  <2>2. a < d * SegSize /\ a \in Nat
    BY <2>1, <1>1, SizeFacts DEF e
  <2>3. a \div SegSize < d
    BY <2>1, <2>2, SizeFacts, DivLess
  <2> QED BY <2>2, <2>3, <1>6, SegmentType DEF d, e
<1> QED BY <1>1, <1>2, <1>4, <1>5, <1>7, <1>8 DEF level

\* A table of one level and more than one segment can lose a level.
LEMMA OneSegment ==
  ASSUME TypeOK, AddressesValid, HasDirectory, TableFree, iExpansionIdx = 0,
         cActiveBuckets > SegSize
  PROVE  nLevel > SegBits
<1>1. cActiveBuckets = 2 ^ nLevel
  <2>1. BucketInTransit = 0
    BY DEF BucketInTransit, TableFree
  <2> QED BY <2>1, TableBounds DEF AddressesValid, TypeOK
<1>2. ASSUME nLevel <= SegBits PROVE FALSE
  <2>1. nLevel \in 0 .. SegBits
    BY <1>2, SizeFacts DEF TypeOK
  <2>2. 2 ^ nLevel <= 2 ^ SegBits /\ 2 ^ nLevel \in Nat /\ 2 ^ SegBits \in Nat
    BY <2>1, Powers, SizeFacts
  <2> QED BY <1>1, <2>2, SizeFacts
<1> QED BY <1>2, SizeFacts DEF TypeOK

-----------------------------------------------------------------------------
(* The fields keep their types. *)
LEMMA TypeStep ==
  ASSUME IInv, NEW t \in Thread, Call(t) \/ Step(t)
  PROVE  TypeOK'
<1> USE SizeFacts
    DEF TypeOK, PC, OpNames, Inserts, Deletes, Finds, LockTableForWrite, LockTableForRead,
        UnlockTable, LockBucketForWrite, LockBucketForRead, UnlockBuckets, AddRef
<1> TypeOK
  BY DEF IInv
<1>a. pc[t] # "idle" => rec[t] \in Record
  BY DEF IInv, CallInv
<1>b. pc[t] \in {"clearLoad", "clearStore"} => scan[t] \in Addr
  BY DEF IInv, CallInv
<1>c. HasDirectory =>
        /\ nLevel \in 0 .. MaxLevel
        /\ iExpansionIdx \in 0 .. 2 ^ nLevel - 1 /\ 2 ^ nLevel \in Nat \ {0}
        /\ cActiveBuckets <= AddrLimit /\ 2 ^ (nLevel + 1) = 2 * 2 ^ nLevel
        /\ 2 ^ (nLevel + 1) <= AddrLimit
        /\ 2 ^ nLevel + iExpansionIdx <= cActiveBuckets
        /\ \A r \in Record : Place(r) \in Addr
  BY TableBounds, Powers DEF IInv
<1>d. /\ pc[t] \in {"expandOld", "expandNew"} => HasDirectory /\ nLevel < MaxLevel
      /\ pc[t] \in {"contractLast", "contractTarget"} =>
           HasDirectory /\ (iExpansionIdx + 1 = 2 ^ nLevel => nLevel < MaxLevel)
  BY DEF IInv, ResizeInv, Expanding, Contracting
<1>e. home[t] \in Addr /\ other[t] \in Addr /\ bucket[home[t]] \in SUBSET Record
      /\ bucket[other[t]] \in SUBSET Record
  BY DataType
<1>1. CASE Call(t)
  <2> USE <1>1 DEF Call
  <2>1. pc' \in [Thread -> PC]
    <3>1. PICK o \in Ops, r \in Record : Call(t)!2!(o, r)
      BY DEF Call
    <3> DEFINE to == CASE o = "Clear" -> "clearTable"
                       [] o # "Clear" /\ ~IsUsable -> "idle"
                       [] o = "CheckTable" /\ IsUsable -> "checkTable"
                       [] OTHER -> "lockTable"
    <3>2. to \in PC
      BY Zenon
    <3> HIDE DEF to
    <3> QED BY <3>1, <3>2 DEF to
  <2>2. op' \in [Thread -> OpNames] /\ rec' \in [Thread -> Record \cup {NoRecord}]
    BY WorkloadAssumption
  <2> QED BY <2>1, <2>2, WorkloadAssumption

<1>2. CASE LockTable(t)
  <2>1. Place(rec[t]) \in Addr
    BY <1>2, <1>a, <1>c DEF LockTable
  <2> QED BY <1>2, <2>1 DEF LockTable

<1>3. CASE LockTableWithoutDirectory(t)
  BY <1>3 DEF LockTableWithoutDirectory
<1>4. CASE LockBucket(t)
  BY <1>4 DEF LockBucket
<1>5. CASE InsertExisting(t)
  BY <1>5 DEF InsertExisting
<1>6. CASE InsertUpdate(t)
  <2>1. PICK old \in SameKey(t) :
           /\ bucket' = [bucket EXCEPT ![home[t]] = (bucket[home[t]] \ {old}) \cup {rec[t]}]
           /\ refs' = [AddRef(rec[t], 1) EXCEPT ![old] = AddRef(rec[t], 1)[old] - 1]
    BY <1>6 DEF InsertUpdate
  <2>2. rec[t] \in Record /\ old \in Record
    BY <1>6, <1>a, DataType DEF InsertUpdate
  <2>3. bucket' \in [Addr -> SUBSET Record]
    BY <2>1, <2>2, <1>e
  <2>4. AddRef(rec[t], 1) \in [Record -> Int]
    BY <2>2, DataType
  <2>5. refs' \in [Record -> Int]
    BY <2>1, <2>2, <2>4
  <2> QED BY <1>6, <2>3, <2>5 DEF InsertUpdate

<1>7. CASE InsertNew(t)
  <2>1. rec[t] \in Record
    BY <1>7, <1>a DEF InsertNew
  <2>2. bucket' \in [Addr -> SUBSET Record] /\ refs' \in [Record -> Int]
    BY <1>7, <2>1, <1>e DEF InsertNew
  <2>3. cRecords' \in 0 .. CountModulus - 1
    BY <1>7 DEF InsertNew
  <2> QED BY <1>7, <2>2, <2>3 DEF InsertNew

<1>8. CASE InsertNoMemory(t)
  BY <1>8 DEF InsertNoMemory
<1>9. CASE DeleteFound(t)
  <2>1. PICK victim \in Victims(t) :
           /\ bucket' = [bucket EXCEPT ![home[t]] = bucket[home[t]] \ {victim}]
           /\ refs' = AddRef(victim, -1)
    BY <1>9 DEF DeleteFound
  <2>2. bucket' \in [Addr -> SUBSET Record] /\ refs' \in [Record -> Int]
    BY <2>1, <1>e, DataType
  <2>3. cRecords' \in 0 .. CountModulus - 1
    BY <1>9 DEF DeleteFound
  <2> QED BY <1>9, <2>2, <2>3 DEF DeleteFound

<1>10. CASE DeleteMissing(t)
  BY <1>10 DEF DeleteMissing
<1>11. CASE FindKey(t)
  <2>1. PICK r \in SameKey(t) : refs' = AddRef(r, 1) /\ rec' = Put(rec, t, r)
    BY <1>11 DEF FindKey
  <2>2. r \in Record
    BY DataType
  <2>3. refs' \in [Record -> Int] /\ rec' \in [Thread -> Record \cup {NoRecord}]
    BY <2>1, <2>2
  <2> QED BY <1>11, <2>3 DEF FindKey

<1>12. CASE FindOther(t)
  BY <1>12 DEF FindOther
<1>13. CASE Release(t)
  <2>1. refs' \in [Record -> Int]
    BY <1>13, <1>a DEF Release
  <2> QED BY <1>13, <2>1 DEF Release

<1>14. CASE Grow(t)
  BY <1>14 DEF Grow
<1>15. CASE ExpandTable(t)
  <2>1. HasDirectory
    <3>1. cDirSegs = 0 => DirectoryFull
      BY DEF DirectoryFull
    <3> QED BY <1>15, <3>1 DEF ExpandTable, HasDirectory
  <2>2. iExpansionIdx \in Addr /\ NewBucket \in Addr
    BY <2>1, <1>c DEF NewBucket, Addr
  <2>3. Segment(NewBucket) \in Nat
    <3>1. NewBucket \in Nat
      BY <2>2 DEF Addr
    <3> QED BY <3>1, SegmentType
  <2>4. cDirSegs' \in Nat /\ cActiveBuckets' \in Nat /\ segs' \subseteq Nat
    <3>1. cDirSegs' \in Nat /\ cActiveBuckets' \in Nat
      BY <1>15 DEF ExpandTable
    <3>2. segs' = segs \cup {Segment(NewBucket)}
      BY <1>15 DEF ExpandTable
    <3> QED BY <3>1, <3>2, <2>3
  <2>5. home' \in [Thread -> Addr] /\ other' \in [Thread -> Addr]
    BY <1>15, <2>2 DEF ExpandTable
  <2> QED BY <1>15, <2>4, <2>5 DEF ExpandTable

<1>16. CASE ExpandNoDirectory(t)
  BY <1>16 DEF ExpandNoDirectory
<1>17. CASE ExpandNoSegment(t)
  BY <1>17 DEF ExpandNoSegment
<1>18. CASE ExpandOld(t)
  BY <1>18 DEF ExpandOld
<1>19. CASE ExpandNew(t)
  <2>1. moved' \in [Thread -> SUBSET Record]
    <3>1. ToMove(t) \in SUBSET Record
      BY <1>e DEF ToMove
    <3>2. moved' = [moved EXCEPT ![t] = ToMove(t)]
      BY <1>19 DEF ExpandNew
    <3> QED BY <3>1, <3>2
  <2>2. /\ nLevel' \in 0 .. MaxLevel /\ iExpansionIdx' \in Nat
        /\ dwBktAddrMask0' \in Nat /\ dwBktAddrMask1' \in Nat
    BY <1>19, <1>d, AdvanceType DEF ExpandNew, IInv
  <2> QED BY <1>19, <2>1, <2>2 DEF ExpandNew

<1>20. CASE ExpandNoClump(t)
  <2>1. cActiveBuckets' \in Nat
    BY <1>20, <1>c, <1>d DEF ExpandNoClump
  <2> QED BY <1>20, <2>1 DEF ExpandNoClump

<1>21. CASE Split(t)
  BY <1>21 DEF Split
<1>22. CASE Abandon(t)
  BY <1>22 DEF Abandon
<1>23. CASE Snapshot(t)
  BY <1>23 DEF Snapshot
<1>24. CASE Shrink(t)
  BY <1>24 DEF Shrink
<1>25. CASE ContractTable(t)
  <2> USE <1>25 DEF ContractTable, Retreat
  <2>1. HasDirectory /\ cActiveBuckets - 1 \in Addr
    BY <1>c DEF IInv, DirectoryInv, HasDirectory, Addr
  <2>2. iExpansionIdx = 0 => nLevel > SegBits
    BY <2>1, OneSegment DEF IInv
  <2>3. /\ nLevel' \in 0 .. MaxLevel /\ iExpansionIdx' \in Nat
        /\ dwBktAddrMask0' \in Nat /\ dwBktAddrMask1' \in Nat
    <3>1. CASE iExpansionIdx > 0
      BY <3>1
    <3>2. CASE ~(iExpansionIdx > 0)
      <4>1. nLevel - 1 \in 0 .. MaxLevel
        BY <2>2, <3>2
      <4>2. 2 ^ (nLevel - 1) \in Nat \ {0}
        BY <4>1, Powers
      <4> QED BY <3>2, <4>1, <4>2
    <3> QED BY <3>1, <3>2
  <2> QED BY <2>1, <2>3

<1>26. CASE ContractMinimal(t)
  BY <1>26 DEF ContractMinimal
<1>27. CASE ContractLast(t)
  <2>1. cActiveBuckets' \in Nat /\ iExpansionIdx \in Addr
    BY <1>27, <1>c, <1>d DEF ContractLast, Addr
  <2> QED BY <1>27, <2>1 DEF ContractLast

<1>28. CASE ContractTarget(t)
  <2> USE <1>28 DEF ContractTarget
  <2>1. cDirSegs' \in Nat /\ segs' \subseteq Nat
    <3>1. cDirSegs \div 2 \in Nat
      BY DivMod
    <3>2. cDirSegs' \in Nat
      BY <3>1
    <3>3. segs' \subseteq segs
      OBVIOUS
    <3> QED BY <3>2, <3>3
  <2>2. bktWriter' \in [Addr -> Thread \cup {NoThread}]
    OBVIOUS
  <2>3. moved' \in [Thread -> SUBSET Record] /\ bucket' \in [Addr -> SUBSET Record]
    BY <1>e
  <2> QED BY <2>1, <2>2, <2>3

<1>29. CASE ContractNoClump(t)
  <2>1. /\ nLevel' \in 0 .. MaxLevel /\ iExpansionIdx' \in Nat
        /\ dwBktAddrMask0' \in Nat /\ dwBktAddrMask1' \in Nat
    BY <1>29, <1>d, AdvanceType DEF ContractNoClump, IInv
  <2> QED BY <1>29, <2>1 DEF ContractNoClump

<1>30. CASE Merge(t)
  BY <1>30 DEF Merge
<1>31. CASE ClearNothing(t)
  BY <1>31 DEF ClearNothing
<1>32. CASE ClearTable(t)
  BY <1>32 DEF ClearTable
<1>33. CASE ClearBucket(t)
  BY <1>33 DEF ClearBucket
<1>34. CASE ClearRecord(t)
  <2>1. scan[t] \in Addr
    BY <1>34, <1>b DEF ClearRecord
  <2>2. PICK r \in bucket[scan[t]] :
           /\ bucket' = [bucket EXCEPT ![scan[t]] = bucket[scan[t]] \ {r}]
           /\ refs' = AddRef(r, -1)
           /\ cleared' = cleared \cup {r}
    BY <1>34 DEF ClearRecord
  <2>3. r \in Record
    BY <2>1
  <2>4. bucket' \in [Addr -> SUBSET Record] /\ refs' \in [Record -> Int] /\ cleared' \subseteq Record
    BY <2>1, <2>2, <2>3
  <2> QED BY <1>34, <2>4 DEF ClearRecord

<1>35. CASE ClearCount(t)
  BY <1>35 DEF ClearCount
<1>36. CASE ClearNext(t)
  BY <1>36 DEF ClearNext
<1>37. CASE ClearReset(t)
  <2> DEFINE level == InitialLevel(DefaultBuckets, SegBits, MaxLevel)
  <2>1. /\ level \in SegBits .. MaxLevel /\ InitialExpansionIdx(DefaultBuckets, level) \in Nat
        /\ 2 ^ level - 1 \in Nat /\ 2 ^ (level + 1) - 1 \in Nat
    BY NewTable, SizeAssumption
  <2>2. /\ InitialDirSize(DefaultBuckets, SegBits, MinDirSize, MaxLevel) \in Nat
        /\ DefaultBuckets \in Nat /\ InitialSegments(DefaultBuckets, SegBits) \in Nat
    BY NewTable, SizeAssumption
  <2> HIDE DEF level
  <2>3. /\ nLevel' = level
        /\ dwBktAddrMask0' = 2 ^ level - 1 /\ dwBktAddrMask1' = 2 ^ (level + 1) - 1
    BY <1>37 DEF ClearReset, level
  <2>4. /\ iExpansionIdx' \in Nat /\ cActiveBuckets' \in Nat
        /\ cDirSegs' \in Nat
    BY <1>37, <2>1, <2>2, <2>3 DEF ClearReset
  <2>5. segs' \subseteq Nat
    <3>1. segs' = 0 .. InitialSegments(DefaultBuckets, SegBits) - 1 \/ segs' = {}
      BY <1>37 DEF ClearReset
    <3> QED BY <3>1, <2>2
  <2>6. lkrcState' \in {"SUCCESS", "ALLOC_FAIL", "UNUSABLE"}
    BY <1>37 DEF ClearReset
  <2> QED BY <1>37, <2>1, <2>3, <2>4, <2>5, <2>6, SMTT(20) DEF ClearReset

<1>38. CASE CheckInvalid(t)
  BY <1>38 DEF CheckInvalid
<1>39. CASE CheckTable(t)
  BY <1>39 DEF CheckTable
<1>40. CASE CheckBucket(t)
  <2>1. bucket[scan[t]] \in SUBSET Record
    <3>1. cActiveBuckets <= AddrLimit
      BY <1>c DEF IInv, DirectoryInv, HasDirectory
    <3> QED BY <1>40, <3>1, <1>e DEF CheckBucket, Addr
  <2>2. Cardinality(bucket[scan[t]]) \in Nat
    BY <2>1, RecordFacts
  <2> QED BY <1>40, <2>2 DEF CheckBucket

<1>41. CASE CheckCount(t)
  BY <1>41 DEF CheckCount
<1> QED BY <1>1, <1>2, <1>3, <1>4, <1>5, <1>6, <1>7, <1>8, <1>9, <1>10, <1>11, <1>12,
         <1>13, <1>14, <1>15, <1>16, <1>17, <1>18, <1>19, <1>20, <1>21, <1>22, <1>23,
         <1>24, <1>25, <1>26, <1>27, <1>28, <1>29, <1>30, <1>31, <1>32, <1>33, <1>34,
         <1>35, <1>36, <1>37, <1>38, <1>39, <1>40, <1>41
         DEF Step, Body, Expand, Contract, Clear, Check

-----------------------------------------------------------------------------
(* Who holds what *)
LEMMA CallStep ==
  ASSUME IInv, NEW t \in Thread, Call(t) \/ Step(t)
  PROVE  CallInv'
<1> USE DEF CallInv
<1> TypeOK /\ CallInv
  BY DEF IInv
<1>a. pc \in [Thread -> PC] /\ rec \in [Thread -> Record \cup {NoRecord}] /\ scan \in [Thread -> Nat]
  BY DEF TypeOK
<1>1. CASE Call(t)
  BY <1>1, <1>a DEF Call
<1>2. CASE LockTable(t)
  BY <1>2, <1>a DEF LockTable
<1>3. CASE LockTableWithoutDirectory(t)
  BY <1>3, <1>a DEF LockTableWithoutDirectory
<1>4. CASE LockBucket(t)
  BY <1>4, <1>a DEF LockBucket
<1>5. CASE InsertExisting(t)
  BY <1>5, <1>a DEF InsertExisting
<1>6. CASE InsertUpdate(t)
  BY <1>6, <1>a DEF InsertUpdate
<1>7. CASE InsertNew(t)
  BY <1>7, <1>a DEF InsertNew
<1>8. CASE InsertNoMemory(t)
  BY <1>8, <1>a DEF InsertNoMemory
<1>9. CASE DeleteFound(t)
  BY <1>9, <1>a DEF DeleteFound
<1>10. CASE DeleteMissing(t)
  BY <1>10, <1>a DEF DeleteMissing
<1>11. CASE FindKey(t)
  <2>1. PICK r \in SameKey(t) : rec' = [rec EXCEPT ![t] = r]
    BY <1>11 DEF FindKey
  <2>2. r \in Record
    BY DataType
  <2> QED BY <1>11, <1>a, <2>1, <2>2 DEF FindKey

<1>12. CASE FindOther(t)
  BY <1>12, <1>a DEF FindOther
<1>13. CASE Release(t)
  BY <1>13, <1>a DEF Release
<1>14. CASE Grow(t)
  BY <1>14, <1>a DEF Grow
<1>15. CASE ExpandTable(t)
  BY <1>15, <1>a DEF ExpandTable
<1>16. CASE ExpandNoDirectory(t)
  BY <1>16, <1>a DEF ExpandNoDirectory
<1>17. CASE ExpandNoSegment(t)
  BY <1>17, <1>a DEF ExpandNoSegment
<1>18. CASE ExpandOld(t)
  BY <1>18, <1>a DEF ExpandOld
<1>19. CASE ExpandNew(t)
  BY <1>19, <1>a DEF ExpandNew
<1>20. CASE ExpandNoClump(t)
  BY <1>20, <1>a DEF ExpandNoClump
<1>21. CASE Split(t)
  BY <1>21, <1>a DEF Split
<1>22. CASE Abandon(t)
  BY <1>22, <1>a DEF Abandon
<1>23. CASE Snapshot(t)
  BY <1>23, <1>a DEF Snapshot
<1>24. CASE Shrink(t)
  BY <1>24, <1>a DEF Shrink
<1>25. CASE ContractTable(t)
  BY <1>25, <1>a DEF ContractTable
<1>26. CASE ContractMinimal(t)
  BY <1>26, <1>a DEF ContractMinimal
<1>27. CASE ContractLast(t)
  BY <1>27, <1>a DEF ContractLast
<1>28. CASE ContractTarget(t)
  BY <1>28, <1>a DEF ContractTarget
<1>29. CASE ContractNoClump(t)
  BY <1>29, <1>a DEF ContractNoClump
<1>30. CASE Merge(t)
  BY <1>30, <1>a DEF Merge
<1>31. CASE ClearNothing(t)
  BY <1>31, <1>a DEF ClearNothing
<1>32. CASE ClearTable(t)
  BY <1>32, <1>a DEF ClearTable
<1>33. CASE ClearBucket(t)
  <2>1. scan[t] \in Addr
    <3>1. cActiveBuckets <= AddrLimit /\ cActiveBuckets \in Nat
      BY TableBounds, SizeFacts DEF IInv, DirectoryInv, HasDirectory, TypeOK
    <3> QED BY <1>33, <1>a, <3>1, SizeFacts DEF ClearBucket, Addr
  <2> QED BY <1>33, <1>a, <2>1 DEF ClearBucket

<1>34. CASE ClearRecord(t)
  BY <1>34, <1>a DEF ClearRecord
<1>35. CASE ClearCount(t)
  BY <1>35, <1>a DEF ClearCount
<1>36. CASE ClearNext(t)
  BY <1>36, <1>a DEF ClearNext
<1>37. CASE ClearReset(t)
  BY <1>37, <1>a DEF ClearReset
<1>38. CASE CheckInvalid(t)
  BY <1>38, <1>a DEF CheckInvalid
<1>39. CASE CheckTable(t)
  BY <1>39, <1>a DEF CheckTable
<1>40. CASE CheckBucket(t)
  BY <1>40, <1>a DEF CheckBucket
<1>41. CASE CheckCount(t)
  BY <1>41, <1>a DEF CheckCount
<1> QED BY <1>1, <1>2, <1>3, <1>4, <1>5, <1>6, <1>7, <1>8, <1>9, <1>10, <1>11, <1>12,
         <1>13, <1>14, <1>15, <1>16, <1>17, <1>18, <1>19, <1>20, <1>21, <1>22, <1>23,
         <1>24, <1>25, <1>26, <1>27, <1>28, <1>29, <1>30, <1>31, <1>32, <1>33, <1>34,
         <1>35, <1>36, <1>37, <1>38, <1>39, <1>40, <1>41
         DEF Step, Body, Expand, Contract, Clear, Check

LEMMA LockStep ==
  ASSUME IInv, NEW t \in Thread, Call(t) \/ Step(t)
  PROVE  TableLockInv'
<1> USE ThreadAssumption
    DEF TableLockInv, Writing, Reading, Finds, Inserts, Deletes, LockTableForWrite, LockTableForRead,
        UnlockTable, TableFree
<1> TableLockInv
  BY DEF IInv
<1>a. pc \in [Thread -> PC] /\ op \in [Thread -> OpNames] /\ tblWriter \in Thread \cup {NoThread}
  BY DEF IInv, TypeOK
<1>1. CASE Call(t)
  BY <1>1, <1>a DEF Call
<1>2. CASE LockTable(t)
  BY <1>2, <1>a DEF LockTable
<1>3. CASE LockTableWithoutDirectory(t)
  BY <1>3, <1>a DEF LockTableWithoutDirectory
<1>4. CASE LockBucket(t)
  BY <1>4, <1>a DEF LockBucket
<1>5. CASE InsertExisting(t)
  BY <1>5, <1>a DEF InsertExisting
<1>6. CASE InsertUpdate(t)
  BY <1>6, <1>a DEF InsertUpdate
<1>7. CASE InsertNew(t)
  BY <1>7, <1>a DEF InsertNew
<1>8. CASE InsertNoMemory(t)
  BY <1>8, <1>a DEF InsertNoMemory
<1>9. CASE DeleteFound(t)
  BY <1>9, <1>a DEF DeleteFound
<1>10. CASE DeleteMissing(t)
  BY <1>10, <1>a DEF DeleteMissing
<1>11. CASE FindKey(t)
  BY <1>11, <1>a DEF FindKey
<1>12. CASE FindOther(t)
  BY <1>12, <1>a DEF FindOther
<1>13. CASE Release(t)
  BY <1>13, <1>a DEF Release
<1>14. CASE Grow(t)
  BY <1>14, <1>a DEF Grow
<1>15. CASE ExpandTable(t)
  BY <1>15, <1>a DEF ExpandTable
<1>16. CASE ExpandNoDirectory(t)
  BY <1>16, <1>a DEF ExpandNoDirectory
<1>17. CASE ExpandNoSegment(t)
  BY <1>17, <1>a DEF ExpandNoSegment
<1>18. CASE ExpandOld(t)
  BY <1>18, <1>a DEF ExpandOld
<1>19. CASE ExpandNew(t)
  BY <1>19, <1>a DEF ExpandNew
<1>20. CASE ExpandNoClump(t)
  BY <1>20, <1>a DEF ExpandNoClump
<1>21. CASE Split(t)
  BY <1>21, <1>a DEF Split
<1>22. CASE Abandon(t)
  BY <1>22, <1>a DEF Abandon
<1>23. CASE Snapshot(t)
  BY <1>23, <1>a DEF Snapshot
<1>24. CASE Shrink(t)
  BY <1>24, <1>a DEF Shrink
<1>25. CASE ContractTable(t)
  BY <1>25, <1>a DEF ContractTable
<1>26. CASE ContractMinimal(t)
  BY <1>26, <1>a DEF ContractMinimal
<1>27. CASE ContractLast(t)
  BY <1>27, <1>a DEF ContractLast
<1>28. CASE ContractTarget(t)
  BY <1>28, <1>a DEF ContractTarget
<1>29. CASE ContractNoClump(t)
  BY <1>29, <1>a DEF ContractNoClump
<1>30. CASE Merge(t)
  BY <1>30, <1>a DEF Merge
<1>31. CASE ClearNothing(t)
  BY <1>31, <1>a DEF ClearNothing
<1>32. CASE ClearTable(t)
  BY <1>32, <1>a DEF ClearTable
<1>33. CASE ClearBucket(t)
  BY <1>33, <1>a DEF ClearBucket
<1>34. CASE ClearRecord(t)
  BY <1>34, <1>a DEF ClearRecord
<1>35. CASE ClearCount(t)
  BY <1>35, <1>a DEF ClearCount
<1>36. CASE ClearNext(t)
  BY <1>36, <1>a DEF ClearNext
<1>37. CASE ClearReset(t)
  BY <1>37, <1>a DEF ClearReset
<1>38. CASE CheckInvalid(t)
  BY <1>38, <1>a DEF CheckInvalid
<1>39. CASE CheckTable(t)
  BY <1>39, <1>a DEF CheckTable
<1>40. CASE CheckBucket(t)
  BY <1>40, <1>a DEF CheckBucket
<1>41. CASE CheckCount(t)
  BY <1>41, <1>a DEF CheckCount
<1> QED BY <1>1, <1>2, <1>3, <1>4, <1>5, <1>6, <1>7, <1>8, <1>9, <1>10, <1>11, <1>12,
         <1>13, <1>14, <1>15, <1>16, <1>17, <1>18, <1>19, <1>20, <1>21, <1>22, <1>23,
         <1>24, <1>25, <1>26, <1>27, <1>28, <1>29, <1>30, <1>31, <1>32, <1>33, <1>34,
         <1>35, <1>36, <1>37, <1>38, <1>39, <1>40, <1>41
         DEF Step, Body, Expand, Contract, Clear, Check

-----------------------------------------------------------------------------
(* The addresses *)

\* A bucket is in transit exactly while a thread expands, or has yet to lock
\* the last bucket.
Transit == {"expandOld", "expandNew", "contractLast"}

LEMMA InTransit ==
  ASSUME TypeOK, TableLockInv
  PROVE  BucketInTransit = IF \E t \in Thread : pc[t] \in Transit THEN 1 ELSE 0
<1>1. ASSUME NEW t \in Thread, pc[t] \in Transit
      PROVE  BucketInTransit = 1
  BY <1>1, ThreadAssumption DEF TableLockInv, Writing, BucketInTransit, Transit
<1>2. ASSUME \A t \in Thread : pc[t] \notin Transit
      PROVE  BucketInTransit = 0
  BY <1>2 DEF TypeOK, BucketInTransit, Transit
<1> QED BY <1>1, <1>2

LEMMA InTransitNext ==
  ASSUME TypeOK', TableLockInv'
  PROVE  BucketInTransit' = IF \E t \in Thread : pc'[t] \in Transit THEN 1 ELSE 0
<1>1. ASSUME NEW t \in Thread, pc'[t] \in Transit
      PROVE  BucketInTransit' = 1
  BY <1>1, ThreadAssumption DEF TableLockInv, Writing, BucketInTransit, Transit
<1>2. ASSUME \A t \in Thread : pc'[t] \notin Transit
      PROVE  BucketInTransit' = 0
  BY <1>2 DEF TypeOK, BucketInTransit, Transit
<1> QED BY <1>1, <1>2

\* That records belong to active buckets follows from the rest.
LEMMA AddressesValidNext ==
  ASSUME TypeOK',
         HasDirectory' =>
           /\ dwBktAddrMask0' = 2 ^ nLevel' - 1 /\ dwBktAddrMask1' = 2 ^ (nLevel' + 1) - 1
           /\ iExpansionIdx' <= dwBktAddrMask0'
           /\ cActiveBuckets' = 2 ^ nLevel' + iExpansionIdx' + BucketInTransit'
           /\ cActiveBuckets' <= cDirSegs' * SegSize
           /\ \A a \in 0 .. cActiveBuckets' - 1 : Segment(a) \in segs'
  PROVE  AddressesValid'
<1> SUFFICES ASSUME HasDirectory', NEW r \in Record PROVE Place(r)' < cActiveBuckets'
  BY DEF AddressesValid, Segment
<1>1. nLevel' \in 0 .. MaxLevel /\ iExpansionIdx' \in Nat /\ cActiveBuckets' \in Nat
  BY DEF TypeOK
<1>2. 2 ^ nLevel' \in Nat \ {0}
  BY <1>1, Powers
<1>3. BucketInTransit' \in {0, 1}
  BY DEF BucketInTransit
<1>4. iExpansionIdx' \in 0 .. 2 ^ nLevel' /\ 2 ^ nLevel' + iExpansionIdx' <= cActiveBuckets'
  <2>1. /\ dwBktAddrMask0' = 2 ^ nLevel' - 1 /\ iExpansionIdx' <= dwBktAddrMask0'
        /\ cActiveBuckets' = 2 ^ nLevel' + iExpansionIdx' + BucketInTransit'
    OBVIOUS
  <2> DEFINE p == 2 ^ nLevel'
             b == BucketInTransit'
             i == iExpansionIdx'
             c == cActiveBuckets'
  <2>2. /\ p \in Nat \ {0} /\ i \in Nat /\ c \in Nat /\ b \in {0, 1}
        /\ i <= p - 1 /\ c = p + i + b
    BY <2>1, <1>1, <1>2, <1>3
  <2> HIDE DEF p, b, i, c
  <2>3. i \in 0 .. p /\ p + i <= c
    BY <2>2
  <2> QED BY <2>3 DEF p, i, c
<1>5. Place(r)' \in 0 .. 2 ^ nLevel' + iExpansionIdx' - 1
  BY <1>2, <1>4, RecordFacts, AddressInTable DEF Place, Sig
<1> QED BY <1>1, <1>2, <1>4, <1>5

\* A step that neither starts nor ends a part of a resize, and leaves the
\* table's variables alone, leaves the addresses valid.
LEMMA QuietStep ==
  ASSUME IInv, TypeOK', TableLockInv', NEW t \in Thread,
         UNCHANGED <<nLevel, dwBktAddrMask0, dwBktAddrMask1, iExpansionIdx, cActiveBuckets,
                     cDirSegs, segs>>,
         \E q \in PC : pc' = [pc EXCEPT ![t] = q],
         pc[t] \in Expanding <=> pc'[t] \in Expanding,
         pc[t] \notin Contracting, pc'[t] \notin Contracting
  PROVE  DirectoryInv' /\ ResizeInv' /\ AddressesValid'
<1>1. pc \in [Thread -> PC]
  BY DEF IInv, TypeOK
<1>2. DirectoryInv' /\ ResizeInv'
  BY <1>1 DEF IInv, DirectoryInv, ResizeInv, HasDirectory, Expanding, Contracting, Segment
<1>3. \A u \in Thread : pc[u] \in Transit <=> pc'[u] \in Transit
  BY <1>1 DEF Expanding, Contracting, Transit
<1>4. BucketInTransit' = BucketInTransit
  BY <1>3, InTransit, InTransitNext DEF IInv
<1>5. AddressesValid'
  BY <1>4 DEF IInv, AddressesValid, HasDirectory, Place, Segment, Sig
<1> QED BY <1>2, <1>5

\* A directory that is full has not been doubled too often to be doubled again.
LEMMA DirectoryDoubles ==
  ASSUME TypeOK, AddressesValid, DirectoryInv, HasDirectory, DirectoryFull
  PROVE  \E n \in 0 .. MaxLevel + 1 : 2 * cDirSegs = MinDirSize * 2 ^ n
<1>1. PICK n \in 0 .. MaxLevel + 1 : cDirSegs = MinDirSize * 2 ^ n
  BY DEF DirectoryInv, HasDirectory
<1>2. 2 ^ n \in Nat \ {0} /\ 2 ^ MaxLevel \in Nat \ {0} /\ 2 ^ (MaxLevel + 1) = 2 * 2 ^ MaxLevel
  BY PowersAssumption, SizeFacts
<1>3. cActiveBuckets <= 2 * 2 ^ MaxLevel /\ cActiveBuckets \in Nat
  BY TableBounds, SizeFacts DEF TypeOK
<1>4. SegSize >= 2
  <2>1. SegBits \in 0 .. MaxLevel /\ SegBits > 0
    BY SizeFacts
  <2>2. 2 ^ (SegBits - 1) \in Nat \ {0} /\ 2 ^ SegBits = 2 * 2 ^ (SegBits - 1)
    <3>1. SegBits - 1 \in 0 .. MaxLevel
      BY <2>1, SizeFacts
    <3> QED BY <2>1, <3>1, Powers
  <2> QED BY <2>2, SizeFacts
<1>5. 2 ^ n <= 2 ^ MaxLevel
  <2> DEFINE p == 2 ^ n
             q == 2 ^ MaxLevel
  <2>1. p \in Nat /\ q \in Nat /\ (MinDirSize * p) * SegSize <= 2 * q
    <3>1. p \in Nat /\ q \in Nat /\ cActiveBuckets \in Nat /\ cActiveBuckets <= 2 * q
      BY <1>2, <1>3
    <3>2. cActiveBuckets >= (MinDirSize * p) * SegSize
      BY <1>1 DEF DirectoryFull
    <3> HIDE DEF p, q
    <3>3. (MinDirSize * p) * SegSize \in Nat
      BY <3>1, SizeFacts
    <3> QED BY <3>1, <3>2, <3>3
  <2> HIDE DEF p, q
  <2>2. p <= MinDirSize * p
    BY <2>1, SizeFacts
  <2>3. 2 * p <= (MinDirSize * p) * SegSize
    <3> DEFINE d == MinDirSize * p
    <3>1. d \in Nat /\ p <= d
      BY <2>1, <2>2, SizeFacts
    <3> HIDE DEF d
    <3>2. 2 * d <= d * SegSize
      BY <3>1, <1>4, SizeFacts
    <3>3. d * SegSize \in Nat
      BY <3>1, SizeFacts
    <3>4. 2 * p <= d * SegSize
      BY <3>1, <3>2, <3>3, <2>1
    <3> QED BY <3>4 DEF d
  <2>4. (MinDirSize * p) * SegSize \in Nat
    BY <2>1, SizeFacts
  <2>5. p <= q
    BY <2>1, <2>3, <2>4
  <2> QED BY <2>5 DEF p, q
<1>6. n \in 0 .. MaxLevel
  BY <1>2, <1>5, SizeFacts
<1>7. 2 * cDirSegs = MinDirSize * 2 ^ (n + 1)
  <2>1. 2 ^ (n + 1) = 2 * 2 ^ n
    BY <1>6, Powers
  <2> QED BY <1>1, <1>2, <2>1, SizeFacts
<1> QED BY <1>6, <1>7, SizeFacts

\* What holds between two steps, for the proofs of the steps that resize.
LEMMA AddressFacts ==
  ASSUME IInv, HasDirectory
  PROVE  /\ nLevel \in SegBits .. MaxLevel /\ cActiveBuckets \in Nat /\ cDirSegs \in Nat \ {0}
         /\ 2 ^ nLevel \in Nat \ {0} /\ 2 ^ (nLevel + 1) = 2 * 2 ^ nLevel
         /\ dwBktAddrMask0 = 2 ^ nLevel - 1 /\ dwBktAddrMask1 = 2 * 2 ^ nLevel - 1
         /\ iExpansionIdx \in 0 .. 2 ^ nLevel - 1
         /\ cActiveBuckets = 2 ^ nLevel + iExpansionIdx + BucketInTransit
         /\ cDirSegs * SegSize \in Nat \ {0} /\ cActiveBuckets <= cDirSegs * SegSize
         /\ \A a \in 0 .. cActiveBuckets - 1 : Segment(a) \in segs
<1>1. TypeOK /\ AddressesValid
  BY DEF IInv
<1>2. nLevel \in SegBits .. MaxLevel /\ cActiveBuckets \in Nat /\ cDirSegs \in Nat \ {0}
  BY SizeFacts DEF IInv, ResizeInv, TypeOK, HasDirectory
<1>3. cDirSegs * SegSize \in Nat \ {0}
  BY <1>2, SizeFacts
<1>4. /\ dwBktAddrMask0 = 2 ^ nLevel - 1 /\ dwBktAddrMask1 = 2 ^ (nLevel + 1) - 1
      /\ cActiveBuckets = 2 ^ nLevel + iExpansionIdx + BucketInTransit
      /\ cActiveBuckets <= cDirSegs * SegSize
      /\ \A a \in 0 .. cActiveBuckets - 1 : Segment(a) \in segs
  BY <1>1 DEF AddressesValid
<1> QED BY <1>1, <1>2, <1>3, <1>4, TableBounds

LEMMA DirectoryStep ==
  ASSUME IInv, HasDirectory,
         cDirSegs' = (IF DirectoryFull THEN 2 * cDirSegs ELSE cDirSegs)
  PROVE  /\ HasDirectory' /\ DirectoryInv'
         /\ cDirSegs * SegSize <= cDirSegs' * SegSize
         /\ cActiveBuckets < cDirSegs' * SegSize
<1>1. /\ cDirSegs \in Nat \ {0} /\ cActiveBuckets \in Nat
      /\ cDirSegs * SegSize \in Nat \ {0} /\ cActiveBuckets <= cDirSegs * SegSize
  BY AddressFacts
<1>2. CASE DirectoryFull
  <2>1. cDirSegs' = 2 * cDirSegs /\ (2 * cDirSegs) * SegSize = 2 * (cDirSegs * SegSize)
    BY <1>1, <1>2, SizeFacts
  <2>2. DirectoryInv'
    BY <1>1, <1>2, <2>1, DirectoryDoubles DEF IInv, DirectoryInv
  <2> QED BY <1>1, <2>1, <2>2 DEF HasDirectory
<1>3. CASE ~DirectoryFull
  <2>1. cDirSegs' = cDirSegs
    BY <1>3
  <2>2. DirectoryInv'
    BY <1>1, <2>1 DEF IInv, DirectoryInv
  <2> QED BY <1>1, <1>3, <2>1, <2>2 DEF HasDirectory, DirectoryFull
<1> QED BY <1>2, <1>3

\* Advancing keeps the masks with the level, and makes room for one bucket.
LEMMA AdvanceFacts ==
  ASSUME IInv, HasDirectory, Advance, iExpansionIdx + 1 = 2 ^ nLevel => nLevel < MaxLevel
  PROVE  /\ SegBits <= nLevel'
         /\ dwBktAddrMask0' = 2 ^ nLevel' - 1 /\ dwBktAddrMask1' = 2 ^ (nLevel' + 1) - 1
         /\ iExpansionIdx' <= dwBktAddrMask0'
         /\ 2 ^ nLevel' + iExpansionIdx' = 2 ^ nLevel + iExpansionIdx + 1
<1> DEFINE p == 2 ^ nLevel
<1>1. /\ nLevel \in SegBits .. MaxLevel /\ p \in Nat \ {0} /\ 2 ^ (nLevel + 1) = 2 * p
      /\ dwBktAddrMask0 = p - 1 /\ dwBktAddrMask1 = 2 * p - 1
      /\ iExpansionIdx \in 0 .. p - 1
  BY AddressFacts
<1>2. CASE iExpansionIdx + 1 = 2 ^ nLevel
  <2>1. nLevel + 1 \in 0 .. MaxLevel
    BY <1>1, <1>2, SizeFacts
  <2>2. 2 ^ ((nLevel + 1) + 1) = 2 * (2 * p)
    BY <1>1, <2>1, Powers
  <2>3. nLevel' = nLevel + 1 /\ iExpansionIdx' = 0
    BY <1>2 DEF Advance
  <2>4. dwBktAddrMask0' = 2 * p - 1 /\ dwBktAddrMask1' = 2 * (2 * p) - 1
    <3>1. dwBktAddrMask0' = 2 * dwBktAddrMask0 + 1 /\ dwBktAddrMask1' = 2 * (2 * dwBktAddrMask0 + 1) + 1
      BY <1>2 DEF Advance
    <3> HIDE DEF p
    <3> QED BY <1>1, <3>1
  <2> QED BY <1>1, <1>2, <2>2, <2>3, <2>4, SizeFacts
<1>3. CASE iExpansionIdx + 1 # 2 ^ nLevel
  BY <1>1, <1>3 DEF Advance
<1> QED BY <1>2, <1>3

\* No bucket before the first one of a segment lies in that segment.
LEMMA LastOfSegment ==
  ASSUME NEW c \in Nat, SegIndex(c) = 0, NEW a \in 0 .. c - 1
  PROVE  Segment(a) # Segment(c)
<1>0. SegSize \in Nat \ {0}
  BY SizeFacts
<1>1. c = (SegSize * (c \div SegSize)) + (c % SegSize) /\ c \div SegSize \in Nat
  BY <1>0, DivMod
<1> DEFINE q == c \div SegSize
<1>2. c = q * SegSize /\ q \in Nat
  BY <1>1, SizeFacts DEF SegIndex
<1> HIDE DEF q
<1>3. a \in Nat /\ a < q * SegSize
  BY <1>2
<1>4. a \div SegSize < q /\ a \div SegSize \in Nat
  BY <1>2, <1>3, DivLess, DivMod, SizeFacts
<1> QED BY <1>2, <1>3, <1>4, SegmentType DEF q

LEMMA AddressStep ==
  ASSUME IInv, TypeOK', TableLockInv', NEW t \in Thread, Call(t) \/ Step(t)
  PROVE  DirectoryInv' /\ ResizeInv' /\ AddressesValid'
<1> USE DEF Expanding, Contracting
<1>a. pc \in [Thread -> PC] /\ pc' \in [Thread -> PC]
  BY DEF IInv, TypeOK
<1>b. TableFree => \A u \in Thread : pc[u] \notin Expanding /\ pc[u] \notin Contracting
  BY ThreadAssumption DEF IInv, TableLockInv, Writing, TableFree
<1>c. pc[t] \in Expanding \/ pc[t] \in Contracting \/ pc[t] = "clearBucket" =>
        \A u \in Thread \ {t} : pc[u] \notin Expanding /\ pc[u] \notin Contracting
  BY ThreadAssumption DEF IInv, TableLockInv, Writing
<1>d. /\ pc[t] \in Expanding => HasDirectory /\ nLevel < MaxLevel
      /\ pc[t] \in Contracting => HasDirectory /\ (iExpansionIdx + 1 = 2 ^ nLevel => nLevel < MaxLevel)
      /\ pc[t] = "contractTarget" =>
           cActiveBuckets < cDirSegs * SegSize /\ Segment(cActiveBuckets) \in segs
  BY DEF IInv, ResizeInv
<1>e. BucketInTransit = IF \E u \in Thread : pc[u] \in Transit THEN 1 ELSE 0
  BY InTransit DEF IInv
<1>f. BucketInTransit' = IF \E u \in Thread : pc'[u] \in Transit THEN 1 ELSE 0
  BY InTransitNext
<1>1. CASE Call(t)
  BY <1>1, <1>a, QuietStep DEF Call, PC, Expanding, Contracting
<1>2. CASE LockTable(t)
  BY <1>2, <1>a, QuietStep DEF LockTable, PC, Expanding, Contracting
<1>3. CASE LockTableWithoutDirectory(t)
  BY <1>3, <1>a, QuietStep DEF LockTableWithoutDirectory, PC, Expanding, Contracting
<1>4. CASE LockBucket(t)
  BY <1>4, <1>a, QuietStep DEF LockBucket, PC, Expanding, Contracting
<1>5. CASE InsertExisting(t)
  BY <1>5, <1>a, QuietStep DEF InsertExisting, PC, Expanding, Contracting
<1>6. CASE InsertUpdate(t)
  BY <1>6, <1>a, QuietStep DEF InsertUpdate, PC, Expanding, Contracting
<1>7. CASE InsertNew(t)
  BY <1>7, <1>a, QuietStep DEF InsertNew, PC, Expanding, Contracting
<1>8. CASE InsertNoMemory(t)
  BY <1>8, <1>a, QuietStep DEF InsertNoMemory, PC, Expanding, Contracting
<1>9. CASE DeleteFound(t)
  BY <1>9, <1>a, QuietStep DEF DeleteFound, PC, Expanding, Contracting
<1>10. CASE DeleteMissing(t)
  BY <1>10, <1>a, QuietStep DEF DeleteMissing, PC, Expanding, Contracting
<1>11. CASE FindKey(t)
  BY <1>11, <1>a, QuietStep DEF FindKey, PC, Expanding, Contracting
<1>12. CASE FindOther(t)
  BY <1>12, <1>a, QuietStep DEF FindOther, PC, Expanding, Contracting
<1>13. CASE Release(t)
  BY <1>13, <1>a, QuietStep DEF Release, PC, Expanding, Contracting
<1>14. CASE Grow(t)
  BY <1>14, <1>a, QuietStep DEF Grow, PC, Expanding, Contracting
<1>15. CASE ExpandTable(t)
  <2> USE <1>15 DEF ExpandTable
  <2>1. HasDirectory /\ cDirSegs' = (IF DirectoryFull THEN 2 * cDirSegs ELSE cDirSegs)
    <3>1. DirectoryFull => cDirSegs > 0
      OBVIOUS
    <3>2. cDirSegs = 0 => DirectoryFull
      BY SizeFacts DEF DirectoryFull, IInv, TypeOK
    <3> QED BY <3>1, <3>2 DEF HasDirectory, IInv, TypeOK
  <2>2. BucketInTransit = 0 /\ BucketInTransit' = 1
    BY <1>a, <1>b, <1>e, <1>f DEF Transit, LockTableForWrite
  <2>3. cActiveBuckets = NewBucket
    BY <2>1, <2>2, AddressFacts DEF NewBucket
  <2>4. DirectoryInv' /\ HasDirectory' /\ cActiveBuckets < cDirSegs' * SegSize
    BY <2>1, DirectoryStep
  <2>5. \A a \in 0 .. cActiveBuckets' - 1 : Segment(a) \in segs'
    BY <2>1, <2>3, AddressFacts
  <2>6. ResizeInv'
    BY <1>a, <1>b, <2>1, <2>4 DEF ResizeInv, IInv, LockTableForWrite
  <2>7. AddressesValid'
    <3>1. cActiveBuckets' <= cDirSegs' * SegSize
      BY <2>1, <2>4, AddressFacts, SizeFacts DEF TypeOK
    <3> QED BY <2>1, <2>2, <2>5, <3>1, AddressFacts, AddressesValidNext
  <2> QED BY <2>4, <2>6, <2>7

<1>16. CASE ExpandNoDirectory(t)
  BY <1>16, <1>a, QuietStep DEF ExpandNoDirectory, PC, Expanding, Contracting
<1>17. CASE ExpandNoSegment(t)
  <2> USE <1>17 DEF ExpandNoSegment
  <2>1. HasDirectory /\ cDirSegs' = (IF DirectoryFull THEN 2 * cDirSegs ELSE cDirSegs)
    <3>1. DirectoryFull => cDirSegs > 0
      OBVIOUS
    <3>2. cDirSegs = 0 => DirectoryFull
      BY SizeFacts DEF DirectoryFull, IInv, TypeOK
    <3> QED BY <3>1, <3>2 DEF HasDirectory, IInv, TypeOK
  <2>2. BucketInTransit = 0 /\ BucketInTransit' = 0
    BY <1>a, <1>b, <1>e, <1>f DEF Transit
  <2>3. DirectoryInv' /\ HasDirectory' /\ cActiveBuckets < cDirSegs' * SegSize
    BY <2>1, DirectoryStep
  <2>4. ResizeInv'
    BY <1>a, <1>b, <2>1, <2>3 DEF ResizeInv, IInv
  <2>5. AddressesValid'
    <3>1. cActiveBuckets' <= cDirSegs' * SegSize
      BY <2>1, <2>3, AddressFacts, SizeFacts DEF TypeOK
    <3> QED BY <2>1, <2>2, <3>1, AddressFacts, AddressesValidNext
  <2> QED BY <2>3, <2>4, <2>5

<1>18. CASE ExpandOld(t)
  BY <1>18, <1>a, QuietStep DEF ExpandOld, PC, Expanding, Contracting
<1>19. CASE ExpandNew(t)
  <2> USE <1>19 DEF ExpandNew
  <2>1. HasDirectory /\ HasDirectory' /\ nLevel < MaxLevel /\ Advance
    BY <1>d DEF HasDirectory
  <2>2. BucketInTransit = 1 /\ BucketInTransit' = 0
    BY <1>a, <1>c, <1>e, <1>f DEF Transit
  <2>3. /\ SegBits <= nLevel'
        /\ dwBktAddrMask0' = 2 ^ nLevel' - 1 /\ dwBktAddrMask1' = 2 ^ (nLevel' + 1) - 1
        /\ iExpansionIdx' <= dwBktAddrMask0'
        /\ cActiveBuckets' = 2 ^ nLevel' + iExpansionIdx' + BucketInTransit'
    BY <2>1, <2>2, AdvanceFacts, AddressFacts
  <2>4. DirectoryInv' /\ ResizeInv'
    BY <1>a, <1>c, <2>1, <2>3 DEF ResizeInv, DirectoryInv, IInv
  <2>5. AddressesValid'
    BY <2>1, <2>3, AddressFacts, AddressesValidNext
  <2> QED BY <2>4, <2>5

<1>20. CASE ExpandNoClump(t)
  <2> USE <1>20 DEF ExpandNoClump
  <2>1. HasDirectory /\ HasDirectory'
    BY <1>d DEF HasDirectory
  <2>2. BucketInTransit = 1 /\ BucketInTransit' = 0
    BY <1>a, <1>c, <1>e, <1>f DEF Transit
  <2>3. DirectoryInv' /\ ResizeInv'
    BY <1>a, <1>c, <2>1 DEF ResizeInv, DirectoryInv, IInv, HasDirectory
  <2>4. cActiveBuckets' \in Nat /\ cActiveBuckets' <= cDirSegs' * SegSize
    BY <2>1, <2>2, AddressFacts
  <2>5. AddressesValid'
    BY <2>1, <2>2, <2>4, AddressFacts, AddressesValidNext
  <2> QED BY <2>3, <2>5

<1>21. CASE Split(t)
  BY <1>21, <1>a, QuietStep DEF Split, PC, Expanding, Contracting
<1>22. CASE Abandon(t)
  BY <1>22, <1>a, QuietStep DEF Abandon, PC, Expanding, Contracting
<1>23. CASE Snapshot(t)
  BY <1>23, <1>a, QuietStep DEF Snapshot, PC, Expanding, Contracting
<1>24. CASE Shrink(t)
  BY <1>24, <1>a, QuietStep DEF Shrink, PC, Expanding, Contracting
<1>25. CASE ContractTable(t)
  <2> USE <1>25 DEF ContractTable, Retreat
  <2>1. HasDirectory /\ HasDirectory' /\ TableFree
    BY SizeFacts DEF IInv, DirectoryInv, HasDirectory, TypeOK, LockTableForWrite
  <2>2. BucketInTransit = 0 /\ BucketInTransit' = 1
    BY <1>a, <1>b, <1>e, <1>f, <2>1 DEF Transit
  <2>3. /\ SegBits <= nLevel' /\ (iExpansionIdx' + 1 = 2 ^ nLevel' => nLevel' < MaxLevel)
        /\ dwBktAddrMask0' = 2 ^ nLevel' - 1 /\ dwBktAddrMask1' = 2 ^ (nLevel' + 1) - 1
        /\ iExpansionIdx' <= dwBktAddrMask0'
        /\ cActiveBuckets' = 2 ^ nLevel' + iExpansionIdx' + BucketInTransit'
    <3>1. CASE iExpansionIdx > 0
      BY <2>1, <2>2, <3>1, AddressFacts
    <3>2. CASE ~(iExpansionIdx > 0)
      <4> DEFINE p == 2 ^ (nLevel - 1)
      <4>1. iExpansionIdx = 0
        BY <2>1, <3>2, AddressFacts
      <4>2. nLevel > SegBits
        BY <2>1, <4>1, OneSegment DEF IInv
      <4>3. nLevel \in 1 .. MaxLevel /\ nLevel - 1 \in 0 .. MaxLevel
        BY <2>1, <4>2, AddressFacts, SizeFacts
      <4>4. p \in Nat \ {0} /\ 2 ^ nLevel = 2 * p
        BY <4>3, Powers
      <4>5. nLevel' = nLevel - 1 /\ 2 ^ nLevel' = p /\ 2 ^ (nLevel' + 1) = 2 * p
        BY <3>2, <4>3, <4>4
      <4>6. iExpansionIdx' = p - 1
        BY <3>2
      <4>7. dwBktAddrMask0 = 2 * p - 1 /\ dwBktAddrMask1 = 2 * (2 * p) - 1 /\ cActiveBuckets = 2 * p
        BY <2>1, <2>2, <4>1, <4>4, AddressFacts
      <4>8. dwBktAddrMask0' = dwBktAddrMask0 \div 2 /\ dwBktAddrMask1' = dwBktAddrMask1 \div 2
        BY <3>2
      <4> HIDE DEF p
      <4>9. dwBktAddrMask0' = p - 1 /\ dwBktAddrMask1' = 2 * p - 1
        BY <4>4, <4>7, <4>8
      <4> QED BY <2>2, <4>2, <4>3, <4>4, <4>5, <4>6, <4>7, <4>9, SizeFacts
    <3> QED BY <3>1, <3>2
  <2>4. DirectoryInv' /\ ResizeInv'
    BY <1>a, <1>b, <2>1, <2>3 DEF ResizeInv, DirectoryInv, IInv, HasDirectory
  <2>5. AddressesValid'
    BY <2>1, <2>3, AddressFacts, AddressesValidNext
  <2> QED BY <2>4, <2>5

<1>26. CASE ContractMinimal(t)
  BY <1>26, <1>a, QuietStep DEF ContractMinimal, PC, Expanding, Contracting
<1>27. CASE ContractLast(t)
  <2> USE <1>27 DEF ContractLast
  <2>1. HasDirectory /\ HasDirectory'
    BY <1>d DEF HasDirectory
  <2>2. BucketInTransit = 1 /\ BucketInTransit' = 0
    BY <1>a, <1>c, <1>e, <1>f DEF Transit
  <2>3. /\ cActiveBuckets' \in 0 .. cActiveBuckets - 1
        /\ cActiveBuckets' < cDirSegs' * SegSize /\ Segment(cActiveBuckets') \in segs'
    BY <2>1, <2>2, AddressFacts
  <2>4. DirectoryInv' /\ ResizeInv'
    BY <1>a, <1>c, <1>d, <2>1, <2>3 DEF ResizeInv, DirectoryInv, IInv, Segment
  <2>5. AddressesValid'
    BY <2>1, <2>2, <2>3, AddressFacts, AddressesValidNext
  <2> QED BY <2>4, <2>5

<1>28. CASE ContractTarget(t)
  <2> USE <1>28 DEF ContractTarget
  <2>1. HasDirectory
    BY <1>d
  <2>2. BucketInTransit = 0 /\ BucketInTransit' = 0
    BY <1>a, <1>c, <1>e, <1>f DEF Transit
  <2> DEFINE rest == IF SegIndex(cActiveBuckets) = 0
                     THEN segs \ {Segment(cActiveBuckets)} ELSE segs
  <2>3. ASSUME NEW a \in 0 .. cActiveBuckets - 1 PROVE Segment(a) \in rest
    BY <2>1, LastOfSegment, AddressFacts
  <2>4. CASE cDirSegs' = cDirSegs /\ segs' = rest
    <3>1. DirectoryInv' /\ ResizeInv' /\ HasDirectory'
      BY <1>a, <1>c, <2>1, <2>4 DEF DirectoryInv, ResizeInv, IInv, HasDirectory
    <3>2. AddressesValid'
      BY <2>1, <2>2, <2>3, <2>4, AddressFacts, AddressesValidNext
    <3> QED BY <3>1, <3>2
  <2>5. CASE /\ 2 * cActiveBuckets <= cDirSegs * SegSize /\ cDirSegs > MinDirSize
             /\ cDirSegs' = cDirSegs \div 2 /\ segs' = {s \in rest : s < cDirSegs \div 2}
    <3>1. PICK n \in 0 .. MaxLevel + 1 : cDirSegs = MinDirSize * 2 ^ n
      BY <2>1 DEF IInv, DirectoryInv, HasDirectory
    <3>2. n - 1 \in 0 .. MaxLevel /\ 2 ^ (n - 1) \in Nat \ {0} /\ 2 ^ n = 2 * 2 ^ (n - 1)
      <4>1. n # 0
        <5>1. ASSUME n = 0 PROVE cDirSegs = MinDirSize
          <6>1. 2 ^ n = 1
            BY <5>1, PowersAssumption
          <6> QED BY <3>1, <6>1, SizeFacts
        <5> QED BY <2>5, <5>1, SizeFacts
      <4>2. n - 1 \in 0 .. MaxLevel /\ (n - 1) + 1 = n
        BY <4>1, SizeFacts
      <4> QED BY <4>2, Powers
    <3> DEFINE d == MinDirSize * 2 ^ (n - 1)
    <3>3. d \in Nat \ {0} /\ cDirSegs = 2 * d
      BY <3>1, <3>2, SizeFacts
    <3> HIDE DEF d
    <3>4. cDirSegs' = d
      BY <2>5, <3>3
    <3>5. cActiveBuckets <= d * SegSize /\ d * SegSize \in Nat
      <4>1. (2 * d) * SegSize = 2 * (d * SegSize) /\ d * SegSize \in Nat
        BY <3>3, SizeFacts
      <4> QED BY <2>1, <2>5, <3>3, <4>1, AddressFacts
    <3>6. ASSUME NEW a \in 0 .. cActiveBuckets - 1 PROVE Segment(a) \in segs'
      <4>1. a \in Nat /\ a < d * SegSize
        BY <2>1, <3>5, AddressFacts
      <4>2. Segment(a) < d
        BY <3>3, <4>1, DivLess, SegmentType, SizeFacts
      <4> QED BY <2>3, <2>5, <3>4, <4>2
    <3>7. DirectoryInv' /\ ResizeInv' /\ HasDirectory'
      BY <1>a, <1>c, <2>1, <3>2, <3>3, <3>4, SizeFacts
         DEF DirectoryInv, ResizeInv, IInv, HasDirectory, d
    <3>8. AddressesValid'
      BY <2>1, <2>2, <3>4, <3>5, <3>6, AddressFacts, AddressesValidNext
    <3> QED BY <3>7, <3>8
  <2> QED BY <2>4, <2>5

<1>29. CASE ContractNoClump(t)
  <2> USE <1>29 DEF ContractNoClump
  <2>1. HasDirectory /\ HasDirectory' /\ (iExpansionIdx + 1 = 2 ^ nLevel => nLevel < MaxLevel) /\ Advance
    BY <1>d DEF HasDirectory
  <2>2. BucketInTransit = 0 /\ BucketInTransit' = 0
    BY <1>a, <1>c, <1>e, <1>f DEF Transit
  <2>3. /\ SegBits <= nLevel'
        /\ dwBktAddrMask0' = 2 ^ nLevel' - 1 /\ dwBktAddrMask1' = 2 ^ (nLevel' + 1) - 1
        /\ iExpansionIdx' <= dwBktAddrMask0'
        /\ cActiveBuckets' = 2 ^ nLevel' + iExpansionIdx' + BucketInTransit'
    BY <2>1, <2>2, AdvanceFacts, AddressFacts
  <2>4. DirectoryInv' /\ ResizeInv'
    BY <1>a, <1>c, <2>1, <2>3 DEF ResizeInv, DirectoryInv, IInv
  <2>5. cActiveBuckets' <= cDirSegs' * SegSize
    BY <1>d, <2>1, AddressFacts
  <2>6. \A a \in 0 .. cActiveBuckets' - 1 : Segment(a) \in segs'
    BY <1>d, <2>1, AddressFacts
  <2>7. AddressesValid'
    BY <2>1, <2>3, <2>5, <2>6, AddressesValidNext
  <2> QED BY <2>4, <2>7

<1>30. CASE Merge(t)
  BY <1>30, <1>a, QuietStep DEF Merge, PC, Expanding, Contracting
<1>31. CASE ClearNothing(t)
  BY <1>31, <1>a, QuietStep DEF ClearNothing, PC, Expanding, Contracting
<1>32. CASE ClearTable(t)
  BY <1>32, <1>a, QuietStep DEF ClearTable, PC, Expanding, Contracting
<1>33. CASE ClearBucket(t)
  BY <1>33, <1>a, QuietStep DEF ClearBucket, PC, Expanding, Contracting
<1>34. CASE ClearRecord(t)
  BY <1>34, <1>a, QuietStep DEF ClearRecord, PC, Expanding, Contracting
<1>35. CASE ClearCount(t)
  BY <1>35, <1>a, QuietStep DEF ClearCount, PC, Expanding, Contracting
<1>36. CASE ClearNext(t)
  BY <1>36, <1>a, QuietStep DEF ClearNext, PC, Expanding, Contracting
<1>37. CASE ClearReset(t)
  <2> DEFINE level == InitialLevel(DefaultBuckets, SegBits, MaxLevel)
  <2>1. BucketInTransit' = 0
    BY <1>37, <1>a, <1>c, <1>f DEF ClearReset, Transit
  <2>2. CASE cDirSegs' = 0 /\ cActiveBuckets' = 0 /\ segs' = {}
    BY <1>37, <1>a, <1>c, <2>2 DEF ClearReset, DirectoryInv, ResizeInv, HasDirectory, AddressesValid
  <2>3. CASE /\ iExpansionIdx' = InitialExpansionIdx(DefaultBuckets, nLevel')
             /\ cActiveBuckets' = DefaultBuckets
             /\ cDirSegs' = InitialDirSize(DefaultBuckets, SegBits, MinDirSize, MaxLevel)
             /\ segs' = 0 .. InitialSegments(DefaultBuckets, SegBits) - 1
    <3>1. nLevel' = level /\ dwBktAddrMask0' = 2 ^ nLevel' - 1 /\ dwBktAddrMask1' = 2 ^ (nLevel' + 1) - 1
      BY <1>37 DEF ClearReset
    <3> HIDE DEF level
    <3>2. /\ nLevel' \in SegBits .. MaxLevel /\ iExpansionIdx' \in 0 .. 2 ^ nLevel' - 1
          /\ cActiveBuckets' = 2 ^ nLevel' + iExpansionIdx'
          /\ cDirSegs' \in Nat \ {0} /\ cActiveBuckets' <= cDirSegs' * SegSize
          /\ \E n \in 0 .. MaxLevel : cDirSegs' = MinDirSize * 2 ^ n
          /\ InitialSegments(DefaultBuckets, SegBits) \in Nat
          /\ \A a \in 0 .. DefaultBuckets - 1 : Segment(a) < InitialSegments(DefaultBuckets, SegBits)
      <4>1. IsTableSize(DefaultBuckets)
        BY SizeAssumption
      <4> QED BY <2>3, <3>1, <4>1, NewTable DEF level
    <3>3. nLevel' \in 0 .. MaxLevel /\ SegBits <= nLevel' /\ 2 ^ nLevel' \in Nat
      <4>1. nLevel' \in SegBits .. MaxLevel
        BY <3>2
      <4>2. nLevel' \in 0 .. MaxLevel /\ SegBits <= nLevel'
        BY <4>1, SizeFacts
      <4> QED BY <4>2, Powers
    <3>4. DirectoryInv' /\ ResizeInv'
      <4>1. pc[t] = "clearBucket" /\ pc' = [pc EXCEPT ![t] = "idle"]
        BY <1>37 DEF ClearReset
      <4>2. \A u \in Thread : pc'[u] \notin Expanding /\ pc'[u] \notin Contracting
        BY <4>1, <1>a, <1>c
      <4>3. cDirSegs' # 0 /\ \E n \in 0 .. MaxLevel + 1 : cDirSegs' = MinDirSize * 2 ^ n
        BY <3>2, SizeFacts
      <4>4. DirectoryInv'
        BY <4>3 DEF DirectoryInv
      <4>5. ResizeInv'
        BY <3>3, <4>2 DEF ResizeInv
      <4> QED BY <4>4, <4>5
    <3>5. \A a \in 0 .. cActiveBuckets' - 1 : Segment(a) \in segs'
      <4>1. ASSUME NEW a \in 0 .. DefaultBuckets - 1
            PROVE  Segment(a) \in 0 .. InitialSegments(DefaultBuckets, SegBits) - 1
        <5>1. Segment(a) \in Nat
          BY SegmentType
        <5>2. /\ Segment(a) < InitialSegments(DefaultBuckets, SegBits)
              /\ InitialSegments(DefaultBuckets, SegBits) \in Nat
          BY <3>2
        <5> QED BY <5>1, <5>2
      <4> QED BY <2>3, <4>1
    <3>6. AddressesValid'
      <4>1. iExpansionIdx' <= dwBktAddrMask0'
        BY <3>1, <3>2, <3>3
      <4>2. cActiveBuckets' = 2 ^ nLevel' + iExpansionIdx' + BucketInTransit'
        BY <2>1, <3>2, <3>3
      <4> QED BY <3>1, <3>2, <3>5, <4>1, <4>2, AddressesValidNext
    <3> QED BY <3>4, <3>6
  <2> QED BY <1>37, <2>2, <2>3 DEF ClearReset

<1>38. CASE CheckInvalid(t)
  BY <1>38, <1>a, QuietStep DEF CheckInvalid, PC, Expanding, Contracting
<1>39. CASE CheckTable(t)
  BY <1>39, <1>a, QuietStep DEF CheckTable, PC, Expanding, Contracting
<1>40. CASE CheckBucket(t)
  BY <1>40, <1>a, QuietStep DEF CheckBucket, PC, Expanding, Contracting
<1>41. CASE CheckCount(t)
  BY <1>41, <1>a, QuietStep DEF CheckCount, PC, Expanding, Contracting
<1> QED BY <1>1, <1>2, <1>3, <1>4, <1>5, <1>6, <1>7, <1>8, <1>9, <1>10, <1>11, <1>12,
         <1>13, <1>14, <1>15, <1>16, <1>17, <1>18, <1>19, <1>20, <1>21, <1>22, <1>23,
         <1>24, <1>25, <1>26, <1>27, <1>28, <1>29, <1>30, <1>31, <1>32, <1>33, <1>34,
         <1>35, <1>36, <1>37, <1>38, <1>39, <1>40, <1>41
         DEF Step, Body, Expand, Contract, Clear, Check

-----------------------------------------------------------------------------
(* The theorems *)
LEMMA InitInv ==
  ASSUME Init
  PROVE  IInv
<1> DEFINE c     == InitialBuckets
           level == InitialLevel(c, SegBits, MaxLevel)
           idx   == InitialExpansionIdx(c, level)
           dir   == InitialDirSize(c, SegBits, MinDirSize, MaxLevel)
<1>1. /\ c \in Nat /\ level \in SegBits .. MaxLevel
      /\ idx \in 0 .. 2 ^ level - 1 /\ c = 2 ^ level + idx
      /\ 2 ^ level - 1 \in Nat /\ 2 ^ (level + 1) - 1 \in Nat
      /\ dir \in Nat \ {0} /\ c <= dir * SegSize
      /\ \E n \in 0 .. MaxLevel : dir = MinDirSize * 2 ^ n
      /\ InitialSegments(c, SegBits) \in Nat
      /\ \A a \in 0 .. c - 1 : Segment(a) < InitialSegments(c, SegBits)
  <2>1. IsTableSize(c)
    BY SizeAssumption
  <2> QED BY <2>1, NewTable
<1>2. /\ nLevel = level /\ iExpansionIdx = idx /\ cActiveBuckets = c /\ cDirSegs = dir
      /\ dwBktAddrMask0 = 2 ^ nLevel - 1 /\ dwBktAddrMask1 = 2 ^ (nLevel + 1) - 1
      /\ segs = 0 .. InitialSegments(c, SegBits) - 1
      /\ tblWriter = NoThread /\ tblReaders = {}
      /\ pc = [t \in Thread |-> "idle"]
  BY DEF Init
<1> HIDE DEF level, idx, dir, c
<1>3. level \in 0 .. MaxLevel /\ SegBits <= level /\ 2 ^ level \in Nat \ {0}
  <2>1. level \in 0 .. MaxLevel /\ SegBits <= level
    BY <1>1, SizeFacts
  <2> QED BY <2>1, Powers
<1>4. TypeOK
  <2>1. /\ nLevel \in 0 .. MaxLevel /\ dwBktAddrMask0 \in Nat /\ dwBktAddrMask1 \in Nat
        /\ iExpansionIdx \in Nat /\ cActiveBuckets \in Nat /\ cDirSegs \in Nat /\ segs \subseteq Nat
    BY <1>1, <1>2, <1>3
  <2>2. cRecords \in 0 .. CountModulus - 1
    <3>1. Cardinality(InitialRecords) \in Nat
      BY RecordFacts, WorkloadAssumption
    <3>2. Cardinality(InitialRecords) < CountModulus
      BY WorkloadAssumption
    <3> QED BY <3>1, <3>2, SizeFacts DEF Init
  <2>3. bucket \in [Addr -> SUBSET Record] /\ refs \in [Record -> Int]
    BY WorkloadAssumption DEF Init
  <2>4. 0 \in Addr
    BY SizeFacts DEF Addr
  <2>5. /\ lkrcState \in {"SUCCESS", "ALLOC_FAIL", "UNUSABLE"}
        /\ tblWriter \in Thread \cup {NoThread} /\ tblReaders \subseteq Thread
        /\ bktWriter \in [Addr -> Thread \cup {NoThread}] /\ bktReaders \in [Addr -> SUBSET Thread]
        /\ pc \in [Thread -> PC] /\ op \in [Thread -> OpNames]
        /\ rec \in [Thread -> Record \cup {NoRecord}]
    BY DEF Init, PC, OpNames
  <2>6. /\ home \in [Thread -> Addr] /\ other \in [Thread -> Addr]
        /\ limit \in [Thread -> Nat] /\ scan \in [Thread -> Nat] /\ tally \in [Thread -> Nat]
        /\ moved \in [Thread -> SUBSET Record] /\ cleared \subseteq Record
    BY <2>4 DEF Init
  <2>7. calls \in 0 .. MaxOps
    BY WorkloadAssumption DEF Init
  <2>8. result \in [Thread -> {"NONE", "SUCCESS", "KEY_EXISTS", "NO_SUCH_KEY", "ALLOC_FAIL",
                              "UNUSABLE", "CONSISTENT", "MISPLACED", "MISCOUNTED"}]
    BY DEF Init
  <2> QED BY <2>1, <2>2, <2>3, <2>5, <2>6, <2>7, <2>8 DEF TypeOK
<1>5. CallInv /\ TableLockInv
  BY <1>2, ThreadAssumption DEF CallInv, TableLockInv, Writing, Reading
<1>6. DirectoryInv
  BY <1>1, <1>2, SizeFacts DEF DirectoryInv
<1>7. ResizeInv
  BY <1>2, <1>3 DEF ResizeInv, Expanding, Contracting
<1>8. AddressesValid
  <2>1. BucketInTransit = 0
    BY <1>2 DEF BucketInTransit
  <2>2. iExpansionIdx <= dwBktAddrMask0 /\ cActiveBuckets = 2 ^ nLevel + iExpansionIdx + BucketInTransit
    BY <1>1, <1>2, <1>3, <2>1
  <2>3. ASSUME NEW a \in 0 .. cActiveBuckets - 1 PROVE Segment(a) \in segs
    <3>1. a \in Nat /\ a \in 0 .. c - 1
      BY <1>1, <1>2
    <3>2. Segment(a) \in Nat
      BY <3>1, SegmentType
    <3>3. Segment(a) < InitialSegments(c, SegBits)
      BY <1>1, <3>1
    <3> QED BY <1>1, <1>2, <3>2, <3>3
  <2>4. ASSUME NEW r \in Record PROVE Place(r) < cActiveBuckets
    <3>1. idx \in 0 .. 2 ^ level
      BY <1>1, <1>3
    <3>2. Place(r) \in 0 .. 2 ^ level + idx - 1
      BY <1>2, <1>3, <3>1, RecordFacts, AddressInTable DEF Place
    <3> QED BY <1>1, <1>2, <1>3, <3>2
  <2> QED BY <1>1, <1>2, <2>2, <2>3, <2>4 DEF AddressesValid
<1> QED BY <1>4, <1>5, <1>6, <1>7, <1>8 DEF IInv

LEMMA StepInv ==
  ASSUME IInv, [Next]_vars
  PROVE  IInv'
<1>1. CASE UNCHANGED vars
  BY <1>1 DEF IInv, TypeOK, CallInv, TableLockInv, Writing, Reading, DirectoryInv, ResizeInv,
              Expanding, Contracting, AddressesValid, BucketInTransit, HasDirectory, Place, Segment, Sig
<1>2. ASSUME NEW t \in Thread, Call(t) \/ Step(t)
      PROVE  IInv'
  <2>1. TypeOK' /\ CallInv' /\ TableLockInv'
    BY <1>2, TypeStep, CallStep, LockStep
  <2>2. DirectoryInv' /\ ResizeInv' /\ AddressesValid'
    BY <1>2, <2>1, AddressStep
  <2> QED BY <2>1, <2>2 DEF IInv
<1> QED BY <1>1, <1>2 DEF Next, Done

LEMMA Invariance == Spec => []IInv
<1>1. Init => IInv
  BY InitInv
<1>2. IInv /\ [Next]_vars => IInv'
  BY StepInv
<1> QED BY <1>1, <1>2, PTL DEF Spec

(***************************************************************************)
(* Every field of CLKRLinearHashTable keeps its type, whatever the threads *)
(* do and whichever allocations fail.                                      *)
(***************************************************************************)
THEOREM TypeCorrect == Spec => []TypeOK
<1>1. IInv => TypeOK
  BY DEF IInv
<1> QED BY <1>1, Invariance, PTL

(***************************************************************************)
(* The table lock works: the threads that use the table's variables across *)
(* a step are the ones that hold it, one writer or any readers.            *)
(***************************************************************************)
THEOREM TableLockHeld == Spec => []TableLockInv
<1>1. IInv => TableLockInv
  BY DEF IInv
<1> QED BY <1>1, Invariance, PTL

(***************************************************************************)
(* The assertions of _FindBucket, _Bucket, _Expand and _Contract about the *)
(* address variables hold in every state of every table, for any number of *)
(* threads, with any failures and any stale decisions to grow or shrink.   *)
(***************************************************************************)
THEOREM AddressesAlwaysValid == Spec => []AddressesValid
<1>1. IInv => AddressesValid
  BY DEF IInv
<1> QED BY <1>1, Invariance, PTL

(***************************************************************************)
(* Part 3.  The bucket locks, and where the records are                    *)
(***************************************************************************)

-----------------------------------------------------------------------------
(* The inductive invariant, with the places of the records *)

\* The points at which a thread holds the lock of a bucket.
HoldsForWrite(t, a) ==
  \/ a = home[t] /\ \/ pc[t] \in {"expandNew", "split", "abandon", "merge"}
                    \/ pc[t] = "body" /\ op[t] \notin Finds
  \/ a = other[t] /\ pc[t] \in {"split", "abandon", "contractTarget"}
  \/ a = scan[t] /\ pc[t] \in {"clearLoad", "clearStore"}
HoldsForRead(t, a) == a = home[t] /\ pc[t] = "body" /\ op[t] \in Finds

BucketLockInv ==
  \A a \in Addr :
    /\ \A t \in Thread : HoldsForWrite(t, a) <=> bktWriter[a] = t
    /\ \A t \in Thread : HoldsForRead(t, a) <=> t \in bktReaders[a]
    /\ bktWriter[a] # NoThread => bktReaders[a] = {}

\* A contraction takes the address variables back before it locks a bucket.
\* The settled place of a record is its address with the variables that the
\* finished resizes have left: until the contraction has both its locks, the
\* bucket that it gives up still counts.
Contraction == \E t \in Thread : pc[t] \in Contracting
SettledIdx == IF Contraction THEN iExpansionIdx + 1 ELSE iExpansionIdx
Settled(r) == BucketAddress(Sig(r), dwBktAddrMask0, SettledIdx)
SettledBuckets == 2 ^ nLevel + SettledIdx

\* The buckets that the threads work on.
HomeOK(t) ==
  /\ pc[t] \in {"lockBucket", "body"} => home[t] = Settled(rec[t])
  /\ pc[t] \in {"expandOld", "expandNew", "contractTarget"} => home[t] = iExpansionIdx
  /\ pc[t] \in Expanding \cup Contracting => other[t] = NewBucket
  /\ pc[t] \in {"split", "merge", "abandon"} => home[t] < SettledBuckets
  /\ pc[t] = "split" =>
       /\ other[t] < SettledBuckets
       /\ \E l \in 0 .. MaxLevel : home[t] < 2 ^ l /\ other[t] = 2 ^ l + home[t]
HomeInv == \A t \in Thread : HomeOK(t)

\* A Clear has emptied the buckets behind it, and nobody comes back to them.
ScanOK(t) ==
  /\ pc[t] \in {"clearBucket", "checkBucket"} => scan[t] <= cActiveBuckets
  /\ pc[t] \in {"clearLoad", "clearStore"} => scan[t] < cActiveBuckets
  /\ pc[t] \in {"clearBucket", "clearLoad", "clearStore"} =>
       \A a \in Addr : a < scan[t] => BucketFree(a) /\ bucket[a] = {}
ScanInv == \A t \in Thread : ScanOK(t)

\* A table without a directory is empty, and nobody is in it.
Outside == {"idle", "lockTable", "holding", "grow", "expandTable", "snapshot", "shrink",
            "contractTable", "clearTable", "checkTable", "crashed"}
NoTableInv ==
  /\ IsUsable => HasDirectory
  /\ ~HasDirectory => /\ \A t \in Thread : pc[t] \in Outside
                      /\ \A a \in Addr : bucket[a] = {}

\* Every record is in its settled place, but for those that a split has yet
\* to move there; a merge has its records to itself.
PlaceOK(a) ==
  \A r \in bucket[a] :
    \/ Settled(r) = a
    \/ \E t \in Thread : pc[t] = "split" /\ home[t] = a /\ r \in moved[t]
MovedOK(t) ==
  /\ pc[t] \notin {"split", "merge"} => moved[t] = {}
  /\ pc[t] = "split" =>
       /\ moved[t] \subseteq bucket[home[t]] /\ bucket[other[t]] = {}
       /\ \A r \in moved[t] : Settled(r) = other[t]
  /\ pc[t] = "merge" =>
       /\ moved[t] \cap bucket[home[t]] = {}
       /\ \A r \in moved[t] : Settled(r) = home[t]
PlaceInv == (\A a \in Addr : PlaceOK(a)) /\ (\A t \in Thread : MovedOK(t))

KeyInv == \A r, s \in Contents : KeyOf[r] = KeyOf[s] => r = s

PInv ==
  /\ IInv /\ BucketLockInv /\ HomeInv /\ ScanInv /\ NoTableInv /\ PlaceInv /\ KeyInv

-----------------------------------------------------------------------------
(* Locks *)

\* Who writes the table is alone with it.
LEMMA WriterExcludes ==
  ASSUME TableLockInv, NEW t \in Thread, Writing(t), NEW u \in Thread \ {t}
  PROVE  ~Writing(u) /\ ~Reading(u) /\ ~Reading(t)
BY ThreadAssumption DEF TableLockInv, Writing, Reading

LEMMA ReaderExcludes ==
  ASSUME TableLockInv, NEW t \in Thread, Reading(t), NEW u \in Thread
  PROVE  ~Writing(u)
BY ThreadAssumption DEF TableLockInv

LEMMA FreeExcludes ==
  ASSUME TableLockInv, TableFree, NEW u \in Thread
  PROVE  ~Writing(u) /\ ~Reading(u)
BY ThreadAssumption DEF TableLockInv, TableFree

\* Two threads hold a bucket only if both read it.
LEMMA BucketExcludes ==
  ASSUME BucketLockInv, NEW a \in Addr, NEW t \in Thread, NEW u \in Thread \ {t},
         HoldsForWrite(t, a)
  PROVE  ~HoldsForWrite(u, a) /\ ~HoldsForRead(u, a)
BY ThreadAssumption DEF BucketLockInv

LEMMA BucketFreeExcludes ==
  ASSUME BucketLockInv, NEW a \in Addr, NEW u \in Thread, BucketFree(a)
  PROVE  ~HoldsForWrite(u, a) /\ ~HoldsForRead(u, a)
BY ThreadAssumption DEF BucketLockInv, BucketFree

\* A step of one thread leaves what the others remember alone.
LEMMA Frame ==
  ASSUME TypeOK, NEW t \in Thread, Call(t) \/ Step(t), NEW u \in Thread \ {t}
  PROVE  /\ pc'[u] = pc[u] /\ op'[u] = op[u] /\ rec'[u] = rec[u]
         /\ home'[u] = home[u] /\ other'[u] = other[u] /\ scan'[u] = scan[u]
         /\ tally'[u] = tally[u] /\ moved'[u] = moved[u] /\ result'[u] = result[u]
<1>a. /\ pc \in [Thread -> PC] /\ op \in [Thread -> OpNames]
      /\ rec \in [Thread -> Record \cup {NoRecord}]
      /\ home \in [Thread -> Addr] /\ other \in [Thread -> Addr] /\ scan \in [Thread -> Nat]
      /\ tally \in [Thread -> Nat] /\ moved \in [Thread -> SUBSET Record]
  BY DEF TypeOK
<1>1. CASE Call(t)
  BY <1>1, <1>a DEF Call
<1>2. CASE LockTable(t)
  BY <1>2, <1>a DEF LockTable
<1>3. CASE LockTableWithoutDirectory(t)
  BY <1>3, <1>a DEF LockTableWithoutDirectory
<1>4. CASE LockBucket(t)
  BY <1>4, <1>a DEF LockBucket
<1>5. CASE InsertExisting(t)
  BY <1>5, <1>a DEF InsertExisting
<1>6. CASE InsertUpdate(t)
  BY <1>6, <1>a DEF InsertUpdate
<1>7. CASE InsertNew(t)
  BY <1>7, <1>a DEF InsertNew
<1>8. CASE InsertNoMemory(t)
  BY <1>8, <1>a DEF InsertNoMemory
<1>9. CASE DeleteFound(t)
  BY <1>9, <1>a DEF DeleteFound
<1>10. CASE DeleteMissing(t)
  BY <1>10, <1>a DEF DeleteMissing
<1>11. CASE FindKey(t)
  BY <1>11, <1>a DEF FindKey
<1>12. CASE FindOther(t)
  BY <1>12, <1>a DEF FindOther
<1>13. CASE Release(t)
  BY <1>13, <1>a DEF Release
<1>14. CASE Grow(t)
  BY <1>14, <1>a DEF Grow
<1>15. CASE ExpandTable(t)
  BY <1>15, <1>a DEF ExpandTable
<1>16. CASE ExpandNoDirectory(t)
  BY <1>16, <1>a DEF ExpandNoDirectory
<1>17. CASE ExpandNoSegment(t)
  BY <1>17, <1>a DEF ExpandNoSegment
<1>18. CASE ExpandOld(t)
  BY <1>18, <1>a DEF ExpandOld
<1>19. CASE ExpandNew(t)
  BY <1>19, <1>a DEF ExpandNew
<1>20. CASE ExpandNoClump(t)
  BY <1>20, <1>a DEF ExpandNoClump
<1>21. CASE Split(t)
  BY <1>21, <1>a DEF Split
<1>22. CASE Abandon(t)
  BY <1>22, <1>a DEF Abandon
<1>23. CASE Snapshot(t)
  BY <1>23, <1>a DEF Snapshot
<1>24. CASE Shrink(t)
  BY <1>24, <1>a DEF Shrink
<1>25. CASE ContractTable(t)
  BY <1>25, <1>a DEF ContractTable
<1>26. CASE ContractMinimal(t)
  BY <1>26, <1>a DEF ContractMinimal
<1>27. CASE ContractLast(t)
  BY <1>27, <1>a DEF ContractLast
<1>28. CASE ContractTarget(t)
  BY <1>28, <1>a DEF ContractTarget
<1>29. CASE ContractNoClump(t)
  BY <1>29, <1>a DEF ContractNoClump
<1>30. CASE Merge(t)
  BY <1>30, <1>a DEF Merge
<1>31. CASE ClearNothing(t)
  BY <1>31, <1>a DEF ClearNothing
<1>32. CASE ClearTable(t)
  BY <1>32, <1>a DEF ClearTable
<1>33. CASE ClearBucket(t)
  BY <1>33, <1>a DEF ClearBucket
<1>34. CASE ClearRecord(t)
  BY <1>34, <1>a DEF ClearRecord
<1>35. CASE ClearCount(t)
  BY <1>35, <1>a DEF ClearCount
<1>36. CASE ClearNext(t)
  BY <1>36, <1>a DEF ClearNext
<1>37. CASE ClearReset(t)
  BY <1>37, <1>a DEF ClearReset
<1>38. CASE CheckInvalid(t)
  BY <1>38, <1>a DEF CheckInvalid
<1>39. CASE CheckTable(t)
  BY <1>39, <1>a DEF CheckTable
<1>40. CASE CheckBucket(t)
  BY <1>40, <1>a DEF CheckBucket
<1>41. CASE CheckCount(t)
  BY <1>41, <1>a DEF CheckCount
<1> QED BY <1>1, <1>2, <1>3, <1>4, <1>5, <1>6, <1>7, <1>8, <1>9, <1>10, <1>11, <1>12,
         <1>13, <1>14, <1>15, <1>16, <1>17, <1>18, <1>19, <1>20, <1>21, <1>22, <1>23,
         <1>24, <1>25, <1>26, <1>27, <1>28, <1>29, <1>30, <1>31, <1>32, <1>33, <1>34,
         <1>35, <1>36, <1>37, <1>38, <1>39, <1>40, <1>41
         DEF Step, Body, Expand, Contract, Clear, Check

\* The locks of the buckets follow those of t.
LEMMA LocksKept ==
  ASSUME TypeOK, BucketLockInv, NEW t \in Thread, Call(t) \/ Step(t), UNCHANGED bktLocks,
         \A a \in Addr : /\ HoldsForWrite(t, a)' <=> HoldsForWrite(t, a)
                         /\ HoldsForRead(t, a)' <=> HoldsForRead(t, a)
  PROVE  BucketLockInv'
<1>1. \A u \in Thread, a \in Addr : /\ HoldsForWrite(u, a)' <=> HoldsForWrite(u, a)
                                    /\ HoldsForRead(u, a)' <=> HoldsForRead(u, a)
  BY Frame DEF HoldsForWrite, HoldsForRead
<1> QED BY <1>1 DEF BucketLockInv

LEMMA LockTaken ==
  ASSUME TypeOK, BucketLockInv, NEW t \in Thread, Call(t) \/ Step(t), NEW b \in Addr,
         LockBucketForWrite(t, b),
         \A a \in Addr : /\ HoldsForWrite(t, a)' <=> HoldsForWrite(t, a) \/ a = b
                         /\ ~HoldsForRead(t, a)' /\ ~HoldsForRead(t, a)
  PROVE  BucketLockInv'
<1>1. \A u \in Thread \ {t}, a \in Addr : /\ HoldsForWrite(u, a)' <=> HoldsForWrite(u, a)
                                          /\ HoldsForRead(u, a)' <=> HoldsForRead(u, a)
  BY Frame DEF HoldsForWrite, HoldsForRead
<1>2. /\ bktWriter' = [bktWriter EXCEPT ![b] = t] /\ bktReaders' = bktReaders
      /\ bktWriter[b] = NoThread /\ bktReaders[b] = {}
      /\ bktWriter \in [Addr -> Thread \cup {NoThread}] /\ bktReaders \in [Addr -> SUBSET Thread]
  BY DEF LockBucketForWrite, BucketFree, TypeOK
<1> QED BY <1>1, <1>2, ThreadAssumption DEF BucketLockInv

LEMMA LocksGiven ==
  ASSUME TypeOK, BucketLockInv, NEW t \in Thread, Call(t) \/ Step(t), NEW A,
         UnlockBuckets(t, A),
         \A a \in Addr : /\ ~HoldsForWrite(t, a)' /\ ~HoldsForRead(t, a)'
                         /\ HoldsForWrite(t, a) \/ HoldsForRead(t, a) => a \in A
  PROVE  BucketLockInv'
<1>1. \A u \in Thread \ {t}, a \in Addr : /\ HoldsForWrite(u, a)' <=> HoldsForWrite(u, a)
                                          /\ HoldsForRead(u, a)' <=> HoldsForRead(u, a)
  BY Frame DEF HoldsForWrite, HoldsForRead
<1>2. \A a \in Addr : /\ bktWriter'[a] = IF a \in A /\ bktWriter[a] = t THEN NoThread ELSE bktWriter[a]
                      /\ bktReaders'[a] = IF a \in A THEN bktReaders[a] \ {t} ELSE bktReaders[a]
  BY DEF UnlockBuckets
<1>3. ASSUME NEW a \in Addr
      PROVE  bktWriter'[a] # t /\ t \notin bktReaders'[a]
  <2>1. a \notin A => bktWriter[a] # t /\ t \notin bktReaders[a]
    BY DEF BucketLockInv
  <2> QED BY <1>2, <2>1, ThreadAssumption
<1>4. ASSUME NEW a \in Addr, NEW u \in Thread \ {t}
      PROVE  /\ bktWriter'[a] = u <=> bktWriter[a] = u
             /\ u \in bktReaders'[a] <=> u \in bktReaders[a]
  BY <1>2, ThreadAssumption
<1>5. ASSUME NEW a \in Addr, bktWriter'[a] # NoThread PROVE bktReaders'[a] = {}
  BY <1>2, <1>5 DEF BucketLockInv
<1>6. ASSUME NEW a \in Addr, NEW u \in Thread
      PROVE  /\ HoldsForWrite(u, a)' <=> bktWriter'[a] = u
             /\ HoldsForRead(u, a)' <=> u \in bktReaders'[a]
  <2>1. CASE u = t
    BY <2>1, <1>3
  <2>2. CASE u # t
    BY <2>2, <1>1, <1>4 DEF BucketLockInv
  <2> QED BY <2>1, <2>2
<1> QED BY <1>5, <1>6 DEF BucketLockInv

LEMMA BucketLockStep ==
  ASSUME PInv, NEW t \in Thread, Call(t) \/ Step(t)
  PROVE  BucketLockInv'
<1> USE DEF HoldsForWrite, HoldsForRead
<1> TypeOK /\ BucketLockInv
  BY DEF PInv, IInv
<1>a. /\ pc \in [Thread -> PC] /\ op \in [Thread -> OpNames]
      /\ home \in [Thread -> Addr] /\ other \in [Thread -> Addr] /\ scan \in [Thread -> Nat]
  BY DEF TypeOK
<1>1. CASE Call(t)
  BY <1>1, <1>a, LocksKept DEF Call
<1>2. CASE LockTable(t)
  BY <1>2, <1>a, LocksKept DEF LockTable
<1>3. CASE LockTableWithoutDirectory(t)
  BY <1>3, <1>a, LocksKept DEF LockTableWithoutDirectory
<1>4. CASE LockBucket(t)
  <2>1. CASE op[t] \notin Finds
    BY <1>4, <1>a, <2>1, LockTaken DEF LockBucket
  <2>2. CASE op[t] \in Finds
    <3>1. \A u \in Thread \ {t}, a \in Addr : /\ HoldsForWrite(u, a)' <=> HoldsForWrite(u, a)
                                              /\ HoldsForRead(u, a)' <=> HoldsForRead(u, a)
      BY Frame DEF HoldsForWrite, HoldsForRead
    <3>2. \A a \in Addr : /\ ~HoldsForWrite(t, a) /\ ~HoldsForWrite(t, a)'
                          /\ ~HoldsForRead(t, a) /\ (HoldsForRead(t, a)' <=> a = home[t])
      BY <1>4, <1>a, <2>2 DEF LockBucket
    <3>3. /\ bktWriter' = bktWriter /\ bktWriter[home[t]] = NoThread
          /\ bktReaders' = [bktReaders EXCEPT ![home[t]] = bktReaders[home[t]] \cup {t}]
          /\ bktReaders \in [Addr -> SUBSET Thread]
      BY <1>4, <2>2 DEF LockBucket, LockBucketForRead, TypeOK
    <3> QED BY <1>a, <3>1, <3>2, <3>3, ThreadAssumption DEF BucketLockInv
  <2> QED BY <2>1, <2>2
<1>5. CASE InsertExisting(t)
  BY <1>5, <1>a, LocksGiven DEF InsertExisting
<1>6. CASE InsertUpdate(t)
  BY <1>6, <1>a, LocksGiven DEF InsertUpdate
<1>7. CASE InsertNew(t)
  BY <1>7, <1>a, LocksGiven DEF InsertNew
<1>8. CASE InsertNoMemory(t)
  BY <1>8, <1>a, LocksGiven DEF InsertNoMemory
<1>9. CASE DeleteFound(t)
  BY <1>9, <1>a, LocksGiven DEF DeleteFound
<1>10. CASE DeleteMissing(t)
  BY <1>10, <1>a, LocksGiven DEF DeleteMissing
<1>11. CASE FindKey(t)
  BY <1>11, <1>a, LocksGiven DEF FindKey
<1>12. CASE FindOther(t)
  BY <1>12, <1>a, LocksGiven DEF FindOther
<1>13. CASE Release(t)
  BY <1>13, <1>a, LocksKept DEF Release
<1>14. CASE Grow(t)
  BY <1>14, <1>a, LocksKept DEF Grow
<1>15. CASE ExpandTable(t)
  BY <1>15, <1>a, LocksKept DEF ExpandTable
<1>16. CASE ExpandNoDirectory(t)
  BY <1>16, <1>a, LocksKept DEF ExpandNoDirectory
<1>17. CASE ExpandNoSegment(t)
  BY <1>17, <1>a, LocksKept DEF ExpandNoSegment
<1>18. CASE ExpandOld(t)
  BY <1>18, <1>a, LockTaken DEF ExpandOld
<1>19. CASE ExpandNew(t)
  BY <1>19, <1>a, LockTaken DEF ExpandNew
<1>20. CASE ExpandNoClump(t)
  BY <1>20, <1>a, LockTaken DEF ExpandNoClump
<1>21. CASE Split(t)
  BY <1>21, <1>a, LocksGiven DEF Split
<1>22. CASE Abandon(t)
  BY <1>22, <1>a, LocksGiven DEF Abandon
<1>23. CASE Snapshot(t)
  BY <1>23, <1>a, LocksKept DEF Snapshot
<1>24. CASE Shrink(t)
  BY <1>24, <1>a, LocksKept DEF Shrink
<1>25. CASE ContractTable(t)
  BY <1>25, <1>a, LocksKept DEF ContractTable
<1>26. CASE ContractMinimal(t)
  BY <1>26, <1>a, LocksKept DEF ContractMinimal
<1>27. CASE ContractLast(t)
  BY <1>27, <1>a, LockTaken DEF ContractLast
<1>28. CASE ContractTarget(t)
  <2>1. \A u \in Thread \ {t}, a \in Addr : /\ HoldsForWrite(u, a)' <=> HoldsForWrite(u, a)
                                            /\ HoldsForRead(u, a)' <=> HoldsForRead(u, a)
    BY Frame DEF HoldsForWrite, HoldsForRead
  <2>2. \A a \in Addr : /\ HoldsForWrite(t, a) <=> a = other[t]
                        /\ HoldsForWrite(t, a)' <=> a = home[t]
                        /\ ~HoldsForRead(t, a) /\ ~HoldsForRead(t, a)'
    BY <1>28, <1>a DEF ContractTarget
  <2>3. /\ bktWriter' = [bktWriter EXCEPT ![home[t]] = t, ![other[t]] = NoThread]
        /\ bktReaders' = bktReaders /\ bktWriter[home[t]] = NoThread /\ bktReaders[home[t]] = {}
        /\ bktWriter \in [Addr -> Thread \cup {NoThread}]
    BY <1>28 DEF ContractTarget, BucketFree, TypeOK
  <2>4. bktWriter[other[t]] = t /\ other[t] # home[t]
    BY <1>a, <2>2, <2>3, ThreadAssumption DEF BucketLockInv
  <2> QED BY <1>a, <2>1, <2>2, <2>3, <2>4, ThreadAssumption DEF BucketLockInv
<1>29. CASE ContractNoClump(t)
  BY <1>29, <1>a, LocksGiven DEF ContractNoClump
<1>30. CASE Merge(t)
  BY <1>30, <1>a, LocksGiven DEF Merge
<1>31. CASE ClearNothing(t)
  BY <1>31, <1>a, LocksKept DEF ClearNothing
<1>32. CASE ClearTable(t)
  BY <1>32, <1>a, LocksKept DEF ClearTable
<1>33. CASE ClearBucket(t)
  <2>1. scan[t] \in Addr
    BY <1>33, <1>a, CallStep DEF ClearBucket, CallInv, PInv
  <2> QED BY <1>33, <1>a, <2>1, LockTaken DEF ClearBucket
<1>34. CASE ClearRecord(t)
  BY <1>34, <1>a, LocksKept DEF ClearRecord
<1>35. CASE ClearCount(t)
  BY <1>35, <1>a, LocksKept DEF ClearCount
<1>36. CASE ClearNext(t)
  BY <1>36, <1>a, LocksGiven DEF ClearNext
<1>37. CASE ClearReset(t)
  BY <1>37, <1>a, LocksKept DEF ClearReset
<1>38. CASE CheckInvalid(t)
  BY <1>38, <1>a, LocksKept DEF CheckInvalid
<1>39. CASE CheckTable(t)
  BY <1>39, <1>a, LocksKept DEF CheckTable
<1>40. CASE CheckBucket(t)
  BY <1>40, <1>a, LocksKept DEF CheckBucket
<1>41. CASE CheckCount(t)
  BY <1>41, <1>a, LocksKept DEF CheckCount
<1> QED BY <1>1, <1>2, <1>3, <1>4, <1>5, <1>6, <1>7, <1>8, <1>9, <1>10, <1>11, <1>12,
         <1>13, <1>14, <1>15, <1>16, <1>17, <1>18, <1>19, <1>20, <1>21, <1>22, <1>23,
         <1>24, <1>25, <1>26, <1>27, <1>28, <1>29, <1>30, <1>31, <1>32, <1>33, <1>34,
         <1>35, <1>36, <1>37, <1>38, <1>39, <1>40, <1>41
         DEF Step, Body, Expand, Contract, Clear, Check

-----------------------------------------------------------------------------
(* Settled places *)

\* A step that leaves every record in its settled place.
SettledSame == SettledBuckets' = SettledBuckets /\ \A r \in Record : Settled(r)' = Settled(r)

\* At most one thread resizes between its two table locks.
LEMMA OneResizer ==
  ASSUME IInv, NEW t \in Thread
  PROVE  /\ pc[t] \in Expanding \cup Contracting => \A u \in Thread \ {t} : pc[u] \notin Contracting
         /\ pc[t] \in Contracting => Contraction
         /\ Writing(t) /\ pc[t] \notin Contracting => ~Contraction
         /\ TableFree => ~Contraction
         /\ Reading(t) => ~Contraction
<1>1. \A u \in Thread : pc[u] \in Expanding \cup Contracting => Writing(u)
  BY DEF Writing, Expanding, Contracting
<1>2. TableLockInv
  BY DEF IInv
<1> QED BY <1>1, <1>2, WriterExcludes, FreeExcludes, ReaderExcludes DEF Contraction

LEMMA SettledFacts ==
  ASSUME IInv, HasDirectory
  PROVE  /\ SettledIdx \in iExpansionIdx .. 2 ^ nLevel /\ SettledBuckets \in 0 .. AddrLimit
         /\ SettledBuckets = 2 ^ nLevel + SettledIdx
         /\ ~Contraction => SettledIdx = iExpansionIdx
         /\ Contraction => SettledIdx = iExpansionIdx + 1
         /\ \A r \in Record : Settled(r) \in 0 .. SettledBuckets - 1 /\ Settled(r) \in Addr
<1> DEFINE p == 2 ^ nLevel
<1>1. /\ p \in Nat \ {0} /\ 2 * p <= AddrLimit /\ AddrLimit \in Nat
      /\ iExpansionIdx \in 0 .. p - 1 /\ dwBktAddrMask0 = p - 1
  <2>1. nLevel \in 0 .. MaxLevel
    BY DEF IInv, TypeOK
  <2> QED BY <2>1, AddressFacts, Powers, SizeFacts
<1>2. SettledBuckets = p + SettledIdx
  BY DEF SettledBuckets
<1> HIDE DEF p
<1>3. SettledIdx \in iExpansionIdx .. p
  BY <1>1 DEF SettledIdx
<1>4. SettledBuckets \in 0 .. AddrLimit
  BY <1>1, <1>2, <1>3
<1>5. ASSUME NEW r \in Record PROVE Settled(r) \in 0 .. SettledBuckets - 1 /\ Settled(r) \in Addr
  <2>1. Sig(r) \in Nat /\ SettledIdx \in 0 .. p
    BY <1>1, <1>3, RecordFacts
  <2>2. Settled(r) \in 0 .. p + SettledIdx - 1
    BY <1>1, <2>1, AddressInTable DEF Settled
  <2> QED BY <2>2, <1>1, <1>2, <1>3, <1>4 DEF Addr
<1> QED BY <1>2, <1>3, <1>4, <1>5 DEF SettledIdx, p

LEMMA ContractionKept ==
  ASSUME TypeOK, NEW t \in Thread, Call(t) \/ Step(t), pc'[t] \in Contracting <=> pc[t] \in Contracting
  PROVE  Contraction' <=> Contraction
<1>1. \A u \in Thread : pc'[u] \in Contracting <=> pc[u] \in Contracting
  BY Frame
<1> QED BY <1>1 DEF Contraction

LEMMA SettledKept ==
  ASSUME TypeOK, NEW t \in Thread, Call(t) \/ Step(t),
         UNCHANGED <<nLevel, dwBktAddrMask0, iExpansionIdx>>,
         pc'[t] \in Contracting <=> pc[t] \in Contracting
  PROVE  SettledSame
<1>1. Contraction' <=> Contraction
  BY ContractionKept
<1> QED BY <1>1 DEF SettledSame, SettledBuckets, Settled, SettledIdx, Sig

\* Taking the expansion index back is undone by the contraction that does it.
LEMMA ContractTableSettles ==
  ASSUME IInv, IInv', NEW t \in Thread, ContractTable(t)
  PROVE  SettledSame
<1> DEFINE p == 2 ^ nLevel
           q == 2 ^ nLevel'
<1>0. HasDirectory
  <2>1. cActiveBuckets > 0
    BY SizeFacts DEF ContractTable, IInv, TypeOK
  <2> QED BY <2>1 DEF IInv, DirectoryInv, HasDirectory, TypeOK
<1>1. /\ p \in Nat \ {0} /\ iExpansionIdx \in 0 .. p - 1 /\ dwBktAddrMask0 = p - 1
      /\ nLevel \in 0 .. MaxLevel /\ nLevel \in SegBits .. MaxLevel /\ SegBits \in Nat \ {0}
  BY <1>0, AddressFacts, SizeFacts DEF IInv, TypeOK
<1>2. ~Contraction /\ Contraction'
  <2>1. TableFree /\ pc'[t] \in Contracting
    BY DEF ContractTable, LockTableForWrite, Contracting, IInv, TypeOK
  <2> QED BY <2>1, OneResizer DEF Contraction
<1>3. SettledIdx = iExpansionIdx /\ SettledIdx' = iExpansionIdx' + 1
  BY <1>2 DEF SettledIdx
<1>4. CASE iExpansionIdx > 0
  <2>1. iExpansionIdx' = iExpansionIdx - 1 /\ nLevel' = nLevel /\ dwBktAddrMask0' = dwBktAddrMask0
    BY <1>4 DEF ContractTable, Retreat
  <2>2. SettledIdx' = SettledIdx
    BY <1>1, <1>3, <2>1
  <2> QED BY <2>1, <2>2 DEF SettledSame, SettledBuckets, Settled, Sig
<1>5. CASE ~(iExpansionIdx > 0)
  <2>1. nLevel' = nLevel - 1 /\ iExpansionIdx' = 2 ^ (nLevel - 1) - 1 /\ iExpansionIdx = 0
    BY <1>1, <1>5 DEF ContractTable, Retreat
  <2>2. p = 2 * q /\ q \in Nat \ {0} /\ iExpansionIdx' = q - 1
    <3>1. nLevel - 1 \in 0 .. MaxLevel /\ nLevel > 0
      BY <1>1, SizeFacts
    <3>2. 2 ^ nLevel = 2 * 2 ^ (nLevel - 1)
      BY <3>1, <1>1, Powers
    <3>3. 2 ^ (nLevel - 1) \in Nat \ {0}
      BY <3>1, Powers
    <3> QED BY <3>2, <3>3, <2>1
  <2>3. dwBktAddrMask0' = q - 1
    <3>1. HasDirectory'
      BY <1>0 DEF ContractTable, HasDirectory
    <3> QED BY <3>1 DEF IInv, AddressesValid
  <2> HIDE DEF p, q
  <2>4. SettledIdx' = q /\ SettledIdx = 0
    BY <1>3, <2>1, <2>2
  <2>5. ASSUME NEW r \in Record PROVE Settled(r)' = Settled(r)
    BY <1>1, <2>2, <2>3, <2>4, RecordFacts, NextLevelMovesNothing DEF Settled, Sig
  <2>6. SettledBuckets' = SettledBuckets
    BY <2>2, <2>4 DEF SettledBuckets, p, q
  <2> QED BY <2>5, <2>6 DEF SettledSame
<1> QED BY <1>4, <1>5

\* What advancing does to the addresses of the records, from index to index.
LEMMA AdvanceSettles ==
  ASSUME IInv, HasDirectory, Advance, NEW r \in Record
  PROVE  BucketAddress(Sig(r), dwBktAddrMask0', iExpansionIdx') =
           BucketAddress(Sig(r), dwBktAddrMask0, iExpansionIdx + 1)
<1> DEFINE p == 2 ^ nLevel
<1>1. p \in Nat \ {0} /\ dwBktAddrMask0 = p - 1
  BY AddressFacts
<1>2. CASE iExpansionIdx + 1 = 2 ^ nLevel
  <2>1. iExpansionIdx' = 0 /\ dwBktAddrMask0' = 2 * dwBktAddrMask0 + 1
    BY <1>2 DEF Advance
  <2>2. iExpansionIdx + 1 = p
    BY <1>2
  <2> HIDE DEF p
  <2>3. dwBktAddrMask0' = 2 * p - 1
    BY <1>1, <2>1
  <2> QED BY <1>1, <2>1, <2>2, <2>3, RecordFacts, NextLevelMovesNothing
<1>3. CASE iExpansionIdx + 1 # 2 ^ nLevel
  BY <1>3 DEF Advance
<1> QED BY <1>2, <1>3

\* Undoing a contraction that finds no memory moves nothing either.
LEMMA ContractNoClumpSettles ==
  ASSUME IInv, IInv', NEW t \in Thread, Call(t) \/ Step(t), ContractNoClump(t)
  PROVE  SettledSame
<1>1. pc[t] \in Contracting /\ pc'[t] \notin Contracting
  BY DEF ContractNoClump, Contracting, IInv, TypeOK
<1>2. HasDirectory
  BY <1>1 DEF IInv, ResizeInv
<1>3. Contraction /\ ~Contraction'
  <2>1. \A u \in Thread : pc'[u] \notin Contracting
    BY <1>1, OneResizer, Frame DEF IInv
  <2> QED BY <1>1, <2>1 DEF Contraction
<1>4. Advance /\ (iExpansionIdx + 1 = 2 ^ nLevel => nLevel < MaxLevel)
  BY <1>1 DEF ContractNoClump, IInv, ResizeInv
<1>5. SettledIdx = iExpansionIdx + 1 /\ SettledIdx' = iExpansionIdx'
  BY <1>3 DEF SettledIdx
<1>6. SettledBuckets' = SettledBuckets
  <2>1. /\ 2 ^ nLevel' + iExpansionIdx' = 2 ^ nLevel + iExpansionIdx + 1
        /\ 2 ^ nLevel \in Nat /\ iExpansionIdx \in Nat
    BY <1>2, <1>4, AdvanceFacts, AddressFacts
  <2> QED BY <1>5, <2>1 DEF SettledBuckets
<1>7. ASSUME NEW r \in Record PROVE Settled(r)' = Settled(r)
  BY <1>2, <1>4, <1>5, AdvanceSettles DEF Settled, Sig
<1> QED BY <1>6, <1>7 DEF SettledSame

\* A split moves records of the bucket it splits to the new bucket only.
LEMMA ExpandNewSettles ==
  ASSUME PInv, NEW t \in Thread, Call(t) \/ Step(t), ExpandNew(t)
  PROVE  /\ HasDirectory /\ ~Contraction /\ ~Contraction'
         /\ home[t] \in Nat /\ home[t] < SettledBuckets /\ other[t] = SettledBuckets
         /\ SettledBuckets \in Nat /\ SettledBuckets' = SettledBuckets + 1
         /\ \A r \in Record :
              IF Settled(r) = home[t] THEN Settled(r)' \in {home[t], other[t]}
                                      ELSE Settled(r)' = Settled(r)
         /\ ToMove(t) = {r \in bucket[home[t]] : Settled(r)' = other[t]}
<1> IInv
  BY DEF PInv
<1>1. /\ pc[t] = "expandNew" /\ pc'[t] = "split" /\ Advance
      /\ HasDirectory /\ nLevel < MaxLevel
  <2>1. pc[t] = "expandNew" /\ pc'[t] = "split" /\ Advance
    BY DEF ExpandNew, IInv, TypeOK
  <2> QED BY <2>1 DEF IInv, ResizeInv, Expanding
<1>2. ~Contraction /\ ~Contraction'
  <2>1. \A u \in Thread : pc[u] \notin Contracting /\ pc'[u] \notin Contracting
    BY <1>1, OneResizer, Frame DEF IInv, Expanding, Contracting
  <2> QED BY <2>1 DEF Contraction
<1>3. SettledIdx = iExpansionIdx /\ SettledIdx' = iExpansionIdx'
  BY <1>2 DEF SettledIdx
<1>4. home[t] = iExpansionIdx /\ other[t] = 2 ^ nLevel + iExpansionIdx
  BY <1>1 DEF PInv, HomeInv, HomeOK, NewBucket, Expanding
<1> DEFINE p == 2 ^ nLevel
<1>5. p \in Nat \ {0} /\ iExpansionIdx \in 0 .. p - 1 /\ dwBktAddrMask0 = p - 1
  BY <1>1, AddressFacts
<1>6. SettledBuckets = p + iExpansionIdx
  BY <1>3 DEF SettledBuckets
<1>7. SettledBuckets' = p + iExpansionIdx + 1
  <2>1. 2 ^ nLevel' + iExpansionIdx' = 2 ^ nLevel + iExpansionIdx + 1
    BY <1>1, AdvanceFacts
  <2> QED BY <1>3, <2>1 DEF SettledBuckets
<1>8. \A r \in Record : Settled(r) = BucketAddress(Sig(r), p - 1, iExpansionIdx)
  BY <1>3, <1>5 DEF Settled
<1>9. \A r \in Record : Settled(r)' = BucketAddress(Sig(r), p - 1, iExpansionIdx + 1)
  BY <1>1, <1>3, <1>5, AdvanceSettles DEF Settled, Sig
<1>10. other[t] = p + iExpansionIdx
  BY <1>4
<1>11. ToMove(t) = {r \in bucket[home[t]] : Settled(r)' = other[t]}
  BY <1>3 DEF ToMove, Settled, Sig
<1> HIDE DEF p
<1>12. ASSUME NEW r \in Record
       PROVE  IF Settled(r) = home[t] THEN Settled(r)' \in {home[t], other[t]}
                                      ELSE Settled(r)' = Settled(r)
  BY <1>4, <1>5, <1>8, <1>9, <1>10, RecordFacts, SplitMovesOneBucket
<1>13. /\ home[t] \in Nat /\ home[t] < SettledBuckets /\ other[t] = SettledBuckets
       /\ SettledBuckets \in Nat /\ SettledBuckets' = SettledBuckets + 1
  BY <1>4, <1>5, <1>6, <1>7, <1>10
<1> QED BY <1>1, <1>2, <1>11, <1>12, <1>13

\* A merge moves the records of the last bucket only.
LEMMA ContractTargetSettles ==
  ASSUME PInv, NEW t \in Thread, Call(t) \/ Step(t), ContractTarget(t)
  PROVE  /\ HasDirectory
         /\ SettledBuckets \in Nat \ {0} /\ SettledBuckets' = SettledBuckets - 1
         /\ other[t] = SettledBuckets - 1 /\ home[t] \in Nat /\ home[t] < SettledBuckets'
         /\ \A r \in Record :
              Settled(r)' = IF Settled(r) = other[t] THEN home[t] ELSE Settled(r)
<1> IInv
  BY DEF PInv
<1>1. /\ pc[t] = "contractTarget" /\ pc'[t] = "merge" /\ HasDirectory
      /\ UNCHANGED <<nLevel, dwBktAddrMask0, iExpansionIdx>>
  <2>1. /\ pc[t] = "contractTarget" /\ pc'[t] = "merge"
        /\ UNCHANGED <<nLevel, dwBktAddrMask0, iExpansionIdx>>
    BY DEF ContractTarget, IInv, TypeOK
  <2> QED BY <2>1 DEF IInv, ResizeInv, Contracting
<1>2. Contraction /\ ~Contraction'
  <2>1. \A u \in Thread : pc'[u] \notin Contracting
    BY <1>1, OneResizer, Frame DEF IInv, Contracting
  <2> QED BY <1>1, <2>1 DEF Contraction, Contracting
<1>3. SettledIdx = iExpansionIdx + 1 /\ SettledIdx' = iExpansionIdx
  BY <1>1, <1>2 DEF SettledIdx
<1> DEFINE p == 2 ^ nLevel
<1>4. home[t] = iExpansionIdx /\ other[t] = p + iExpansionIdx
  BY <1>1 DEF PInv, HomeInv, HomeOK, NewBucket, Contracting
<1>5. p \in Nat \ {0} /\ iExpansionIdx \in 0 .. p - 1 /\ dwBktAddrMask0 = p - 1
  BY <1>1, AddressFacts
<1>6. SettledBuckets = p + (iExpansionIdx + 1) /\ SettledBuckets' = p + iExpansionIdx
  BY <1>1, <1>3 DEF SettledBuckets
<1>7. \A r \in Record : /\ Settled(r) = BucketAddress(Sig(r), p - 1, iExpansionIdx + 1)
                        /\ Settled(r)' = BucketAddress(Sig(r), p - 1, iExpansionIdx)
  BY <1>1, <1>3, <1>5 DEF Settled, Sig
<1> HIDE DEF p
<1>8. ASSUME NEW r \in Record
      PROVE  Settled(r)' = IF Settled(r) = other[t] THEN home[t] ELSE Settled(r)
  <2>1. BucketAddress(Sig(r), p - 1, iExpansionIdx) \in 0 .. p + iExpansionIdx - 1
    <3>1. iExpansionIdx \in 0 .. p
      BY <1>5
    <3> QED BY <1>5, <3>1, RecordFacts, AddressInTable
  <2>2. IF Settled(r)' = iExpansionIdx THEN Settled(r) \in {iExpansionIdx, p + iExpansionIdx}
                                       ELSE Settled(r) = Settled(r)'
    BY <1>5, <1>7, RecordFacts, SplitMovesOneBucket
  <2> QED BY <1>4, <1>5, <1>7, <2>1, <2>2
<1>9. /\ SettledBuckets \in Nat \ {0} /\ SettledBuckets' = SettledBuckets - 1
      /\ other[t] = SettledBuckets - 1 /\ home[t] \in Nat /\ home[t] < SettledBuckets'
  BY <1>4, <1>5, <1>6
<1> QED BY <1>1, <1>8, <1>9

\* No other step moves anything.
LEMMA SettledStep ==
  ASSUME IInv, IInv', NEW t \in Thread, Call(t) \/ Step(t),
         ~ExpandNew(t), ~ContractTarget(t), ~ClearReset(t)
  PROVE  SettledSame
<1> USE DEF Contracting
<1> TypeOK
  BY DEF IInv
<1>a. pc \in [Thread -> PC]
  BY DEF TypeOK
<1>1. CASE Call(t)
  BY <1>1, <1>a, SettledKept DEF Call
<1>2. CASE LockTable(t)
  BY <1>2, <1>a, SettledKept DEF LockTable
<1>3. CASE LockTableWithoutDirectory(t)
  BY <1>3, <1>a, SettledKept DEF LockTableWithoutDirectory
<1>4. CASE LockBucket(t)
  BY <1>4, <1>a, SettledKept DEF LockBucket
<1>5. CASE InsertExisting(t)
  BY <1>5, <1>a, SettledKept DEF InsertExisting
<1>6. CASE InsertUpdate(t)
  BY <1>6, <1>a, SettledKept DEF InsertUpdate
<1>7. CASE InsertNew(t)
  BY <1>7, <1>a, SettledKept DEF InsertNew
<1>8. CASE InsertNoMemory(t)
  BY <1>8, <1>a, SettledKept DEF InsertNoMemory
<1>9. CASE DeleteFound(t)
  BY <1>9, <1>a, SettledKept DEF DeleteFound
<1>10. CASE DeleteMissing(t)
  BY <1>10, <1>a, SettledKept DEF DeleteMissing
<1>11. CASE FindKey(t)
  BY <1>11, <1>a, SettledKept DEF FindKey
<1>12. CASE FindOther(t)
  BY <1>12, <1>a, SettledKept DEF FindOther
<1>13. CASE Release(t)
  BY <1>13, <1>a, SettledKept DEF Release
<1>14. CASE Grow(t)
  BY <1>14, <1>a, SettledKept DEF Grow
<1>15. CASE ExpandTable(t)
  BY <1>15, <1>a, SettledKept DEF ExpandTable
<1>16. CASE ExpandNoDirectory(t)
  BY <1>16, <1>a, SettledKept DEF ExpandNoDirectory
<1>17. CASE ExpandNoSegment(t)
  BY <1>17, <1>a, SettledKept DEF ExpandNoSegment
<1>18. CASE ExpandOld(t)
  BY <1>18, <1>a, SettledKept DEF ExpandOld
<1>19. CASE ExpandNew(t)
  BY <1>19
<1>20. CASE ExpandNoClump(t)
  BY <1>20, <1>a, SettledKept DEF ExpandNoClump
<1>21. CASE Split(t)
  BY <1>21, <1>a, SettledKept DEF Split
<1>22. CASE Abandon(t)
  BY <1>22, <1>a, SettledKept DEF Abandon
<1>23. CASE Snapshot(t)
  BY <1>23, <1>a, SettledKept DEF Snapshot
<1>24. CASE Shrink(t)
  BY <1>24, <1>a, SettledKept DEF Shrink
<1>25. CASE ContractTable(t)
  BY <1>25, ContractTableSettles
<1>26. CASE ContractMinimal(t)
  BY <1>26, <1>a, SettledKept DEF ContractMinimal
<1>27. CASE ContractLast(t)
  BY <1>27, <1>a, SettledKept DEF ContractLast
<1>28. CASE ContractTarget(t)
  BY <1>28
<1>29. CASE ContractNoClump(t)
  BY <1>29, ContractNoClumpSettles
<1>30. CASE Merge(t)
  BY <1>30, <1>a, SettledKept DEF Merge
<1>31. CASE ClearNothing(t)
  BY <1>31, <1>a, SettledKept DEF ClearNothing
<1>32. CASE ClearTable(t)
  BY <1>32, <1>a, SettledKept DEF ClearTable
<1>33. CASE ClearBucket(t)
  BY <1>33, <1>a, SettledKept DEF ClearBucket
<1>34. CASE ClearRecord(t)
  BY <1>34, <1>a, SettledKept DEF ClearRecord
<1>35. CASE ClearCount(t)
  BY <1>35, <1>a, SettledKept DEF ClearCount
<1>36. CASE ClearNext(t)
  BY <1>36, <1>a, SettledKept DEF ClearNext
<1>37. CASE ClearReset(t)
  BY <1>37
<1>38. CASE CheckInvalid(t)
  BY <1>38, <1>a, SettledKept DEF CheckInvalid
<1>39. CASE CheckTable(t)
  BY <1>39, <1>a, SettledKept DEF CheckTable
<1>40. CASE CheckBucket(t)
  BY <1>40, <1>a, SettledKept DEF CheckBucket
<1>41. CASE CheckCount(t)
  BY <1>41, <1>a, SettledKept DEF CheckCount
<1> QED BY <1>1, <1>2, <1>3, <1>4, <1>5, <1>6, <1>7, <1>8, <1>9, <1>10, <1>11, <1>12,
         <1>13, <1>14, <1>15, <1>16, <1>17, <1>18, <1>19, <1>20, <1>21, <1>22, <1>23,
         <1>24, <1>25, <1>26, <1>27, <1>28, <1>29, <1>30, <1>31, <1>32, <1>33, <1>34,
         <1>35, <1>36, <1>37, <1>38, <1>39, <1>40, <1>41
         DEF Step, Body, Expand, Contract, Clear, Check

-----------------------------------------------------------------------------
(* What a step of t leaves to the other threads *)

\* Nobody changes the table's variables while another thread holds its lock.
LEMMA TableKept ==
  ASSUME TypeOK, TableLockInv, NEW t \in Thread, Call(t) \/ Step(t),
         NEW u \in Thread \ {t}, Writing(u) \/ Reading(u)
  PROVE  /\ UNCHANGED <<nLevel, dwBktAddrMask0, dwBktAddrMask1, iExpansionIdx, cActiveBuckets,
                        cDirSegs, segs>>
         /\ pc'[t] \in Contracting <=> pc[t] \in Contracting
<1> USE DEF Contracting
<1>a. pc \in [Thread -> PC]
  BY DEF TypeOK
<1>b. ~Writing(t) /\ ~TableFree
  BY WriterExcludes, ReaderExcludes, FreeExcludes
<1>c. pc[t] \notin {"expandOld", "expandNew", "contractLast", "contractTarget",
                    "clearBucket", "clearLoad", "clearStore"}
  BY <1>b DEF Writing
<1>1. CASE Call(t)
  BY <1>1, <1>a DEF Call
<1>2. CASE LockTable(t)
  BY <1>2, <1>a DEF LockTable
<1>3. CASE LockTableWithoutDirectory(t)
  BY <1>3, <1>a DEF LockTableWithoutDirectory
<1>4. CASE LockBucket(t)
  BY <1>4, <1>a DEF LockBucket
<1>5. CASE InsertExisting(t)
  BY <1>5, <1>a DEF InsertExisting
<1>6. CASE InsertUpdate(t)
  BY <1>6, <1>a DEF InsertUpdate
<1>7. CASE InsertNew(t)
  BY <1>7, <1>a DEF InsertNew
<1>8. CASE InsertNoMemory(t)
  BY <1>8, <1>a DEF InsertNoMemory
<1>9. CASE DeleteFound(t)
  BY <1>9, <1>a DEF DeleteFound
<1>10. CASE DeleteMissing(t)
  BY <1>10, <1>a DEF DeleteMissing
<1>11. CASE FindKey(t)
  BY <1>11, <1>a DEF FindKey
<1>12. CASE FindOther(t)
  BY <1>12, <1>a DEF FindOther
<1>13. CASE Release(t)
  BY <1>13, <1>a DEF Release
<1>14. CASE Grow(t)
  BY <1>14, <1>a DEF Grow
<1>15. CASE ExpandTable(t)
  BY <1>15, <1>b DEF ExpandTable, LockTableForWrite
<1>16. CASE ExpandNoDirectory(t)
  BY <1>16, <1>a DEF ExpandNoDirectory
<1>17. CASE ExpandNoSegment(t)
  BY <1>17, <1>b DEF ExpandNoSegment
<1>18. CASE ExpandOld(t)
  BY <1>18, <1>c DEF ExpandOld
<1>19. CASE ExpandNew(t)
  BY <1>19, <1>c DEF ExpandNew
<1>20. CASE ExpandNoClump(t)
  BY <1>20, <1>c DEF ExpandNoClump
<1>21. CASE Split(t)
  BY <1>21, <1>a DEF Split
<1>22. CASE Abandon(t)
  BY <1>22, <1>a DEF Abandon
<1>23. CASE Snapshot(t)
  BY <1>23, <1>a DEF Snapshot
<1>24. CASE Shrink(t)
  BY <1>24, <1>a DEF Shrink
<1>25. CASE ContractTable(t)
  BY <1>25, <1>b DEF ContractTable, LockTableForWrite
<1>26. CASE ContractMinimal(t)
  BY <1>26, <1>a DEF ContractMinimal
<1>27. CASE ContractLast(t)
  BY <1>27, <1>c DEF ContractLast
<1>28. CASE ContractTarget(t)
  BY <1>28, <1>c DEF ContractTarget
<1>29. CASE ContractNoClump(t)
  BY <1>29, <1>c DEF ContractNoClump
<1>30. CASE Merge(t)
  BY <1>30, <1>a DEF Merge
<1>31. CASE ClearNothing(t)
  BY <1>31, <1>a DEF ClearNothing
<1>32. CASE ClearTable(t)
  BY <1>32, <1>b DEF ClearTable, LockTableForWrite
<1>33. CASE ClearBucket(t)
  BY <1>33, <1>c DEF ClearBucket
<1>34. CASE ClearRecord(t)
  BY <1>34, <1>c DEF ClearRecord
<1>35. CASE ClearCount(t)
  BY <1>35, <1>c DEF ClearCount
<1>36. CASE ClearNext(t)
  BY <1>36, <1>c DEF ClearNext
<1>37. CASE ClearReset(t)
  BY <1>37, <1>c DEF ClearReset
<1>38. CASE CheckInvalid(t)
  BY <1>38, <1>a DEF CheckInvalid
<1>39. CASE CheckTable(t)
  BY <1>39, <1>a DEF CheckTable
<1>40. CASE CheckBucket(t)
  BY <1>40, <1>a DEF CheckBucket
<1>41. CASE CheckCount(t)
  BY <1>41, <1>a DEF CheckCount
<1> QED BY <1>1, <1>2, <1>3, <1>4, <1>5, <1>6, <1>7, <1>8, <1>9, <1>10, <1>11, <1>12,
         <1>13, <1>14, <1>15, <1>16, <1>17, <1>18, <1>19, <1>20, <1>21, <1>22, <1>23,
         <1>24, <1>25, <1>26, <1>27, <1>28, <1>29, <1>30, <1>31, <1>32, <1>33, <1>34,
         <1>35, <1>36, <1>37, <1>38, <1>39, <1>40, <1>41
         DEF Step, Body, Expand, Contract, Clear, Check

LEMMA SettledForHolder ==
  ASSUME TypeOK, TableLockInv, NEW t \in Thread, Call(t) \/ Step(t),
         NEW u \in Thread \ {t}, Writing(u) \/ Reading(u)
  PROVE  SettledSame
BY TableKept, SettledKept

\* A Clear that has been through all buckets is alone, and the table is empty.
LEMMA ResetAlone ==
  ASSUME PInv, NEW t \in Thread, ClearReset(t)
  PROVE  /\ HasDirectory /\ ~Contraction
         /\ \A u \in Thread \ {t} : pc[u] \in Outside
         /\ \A a \in Addr : bucket[a] = {}
         /\ \A u \in Thread : moved[u] = {}
<1> IInv /\ TypeOK /\ TableLockInv /\ BucketLockInv
  BY DEF PInv, IInv
<1>1. pc[t] = "clearBucket" /\ scan[t] = cActiveBuckets /\ pc[t] \notin Outside /\ Writing(t)
  BY DEF ClearReset, Outside, Writing
<1>2. HasDirectory
  BY <1>1 DEF PInv, NoTableInv
<1>3. ~Contraction
  BY <1>1, OneResizer DEF Contracting
<1>4. \A u \in Thread \ {t} : ~Writing(u) /\ ~Reading(u)
  BY <1>1, WriterExcludes
<1>5. cActiveBuckets = SettledBuckets /\ SettledBuckets \in Nat
  <2>1. ASSUME NEW u \in Thread PROVE pc[u] \notin {"expandOld", "expandNew", "contractLast"}
    BY <1>1, <1>4 DEF Writing
  <2>2. BucketInTransit = 0
    BY <2>1, InTransit DEF Transit
  <2>3. cActiveBuckets = 2 ^ nLevel + iExpansionIdx
    BY <1>2, <2>2, AddressFacts
  <2> QED BY <1>2, <1>3, <2>3, SettledFacts
<1>6. \A a \in Addr : a < SettledBuckets => BucketFree(a) /\ bucket[a] = {}
  BY <1>1, <1>5 DEF PInv, ScanInv, ScanOK
<1>7. ASSUME NEW u \in Thread \ {t} PROVE pc[u] \in Outside
  <2>1. pc[u] \in PC /\ home[u] \in Addr
    BY DEF TypeOK
  <2>2. pc[u] # "body" /\ pc[u] \notin {"split", "merge", "abandon"}
    <3>1. CASE pc[u] = "body"
      <4>1. rec[u] \in Record
        BY <3>1 DEF IInv, CallInv
      <4>2. home[u] < SettledBuckets
        BY <1>2, <3>1, <4>1, SettledFacts DEF PInv, HomeInv, HomeOK
      <4> QED BY <1>6, <2>1, <3>1, <4>2, BucketFreeExcludes DEF HoldsForWrite, HoldsForRead
    <3>2. CASE pc[u] \in {"split", "merge", "abandon"}
      <4>1. home[u] < SettledBuckets
        BY <3>2 DEF PInv, HomeInv, HomeOK
      <4> QED BY <1>6, <2>1, <3>2, <4>1, BucketFreeExcludes DEF HoldsForWrite
    <3> QED BY <3>1, <3>2
  <2> QED BY <1>4, <2>1, <2>2 DEF Outside, PC, Writing, Reading
<1>8. \A u \in Thread : pc[u] \notin {"split", "merge"}
  BY <1>1, <1>7 DEF Outside
<1>9. \A u \in Thread : moved[u] = {}
  BY <1>8 DEF PInv, PlaceInv, PlaceOK, MovedOK
<1>10. ASSUME NEW a \in Addr PROVE bucket[a] = {}
  <2>1. CASE a < SettledBuckets
    BY <1>6, <2>1
  <2>2. CASE ~(a < SettledBuckets)
    <3>1. ASSUME NEW r \in bucket[a] PROVE FALSE
      <4>1. r \in Record
        BY DEF TypeOK
      <4>2. Settled(r) < SettledBuckets
        BY <1>2, <1>5, <4>1, SettledFacts
      <4>3. Settled(r) = a
        BY <1>8 DEF PInv, PlaceInv, PlaceOK, MovedOK
      <4> QED BY <2>2, <4>2, <4>3
    <3> QED BY <3>1
  <2> QED BY <2>1, <2>2
<1> QED BY <1>2, <1>3, <1>7, <1>9, <1>10

\* What is settled in a bucket that another thread has locked stays there.
LEMMA HeldSettled ==
  ASSUME PInv, IInv', NEW t \in Thread, Call(t) \/ Step(t), NEW u \in Thread \ {t},
         NEW b \in Addr, HoldsForWrite(u, b) \/ HoldsForRead(u, b)
  PROVE  /\ b < SettledBuckets => b < SettledBuckets'
         /\ \A r \in Record : Settled(r) = b => Settled(r)' = b
<1> IInv /\ TypeOK /\ TableLockInv /\ BucketLockInv
  BY DEF PInv, IInv
<1>a. b \in Nat
  BY SizeFacts DEF Addr
<1>b. home[t] \in Addr /\ other[t] \in Addr
  BY DEF TypeOK
<1>1. CASE ExpandNew(t)
  <2>1. HoldsForWrite(t, home[t])
    BY <1>1 DEF ExpandNew, HoldsForWrite
  <2>2. b # home[t]
    BY <1>b, <2>1, BucketExcludes
  <2> QED BY <1>1, <1>a, <2>2, ExpandNewSettles
<1>2. CASE ContractTarget(t)
  <2>1. HoldsForWrite(t, other[t])
    BY <1>2 DEF ContractTarget, HoldsForWrite
  <2>2. b # other[t]
    BY <1>b, <2>1, BucketExcludes
  <2> QED BY <1>2, <1>a, <2>2, ContractTargetSettles
<1>3. CASE ClearReset(t)
  <2>1. pc[u] \in Outside /\ pc[u] \notin {"clearLoad", "clearStore"}
    BY <1>3, ResetAlone DEF Outside
  <2> QED BY <2>1 DEF HoldsForWrite, HoldsForRead, Outside
<1>4. CASE ~ExpandNew(t) /\ ~ContractTarget(t) /\ ~ClearReset(t)
  BY <1>4, SettledStep DEF SettledSame
<1> QED BY <1>1, <1>2, <1>3, <1>4

\* The buckets behind a Clear stay as it left them.
LEMMA BucketKept ==
  ASSUME PInv, NEW t \in Thread, Call(t) \/ Step(t), NEW u \in Thread \ {t}, Writing(u),
         NEW a \in Addr, BucketFree(a)
  PROVE  BucketFree(a)' /\ bucket'[a] = bucket[a]
<1> TypeOK /\ TableLockInv /\ BucketLockInv
  BY DEF PInv, IInv
<1>a. bucket \in [Addr -> SUBSET Record] /\ home[t] \in Addr /\ other[t] \in Addr
  BY DEF TypeOK
<1>b. ~HoldsForWrite(t, a) /\ ~HoldsForRead(t, a)
  BY BucketFreeExcludes
<1>c. ~Writing(t) /\ ~Reading(t)
  BY WriterExcludes
<1>d. pc[t] \notin {"lockBucket", "expandOld", "expandNew", "contractLast", "contractTarget",
                    "clearBucket", "clearLoad", "clearStore"}
  BY <1>c DEF Writing, Reading
<1>e. /\ pc[t] \in {"split", "merge", "abandon"} => a # home[t]
      /\ pc[t] = "body" => a # home[t]
      /\ pc[t] = "split" => a # other[t]
  BY <1>b DEF HoldsForWrite, HoldsForRead
<1>f. \A A : UnlockBuckets(t, A) => BucketFree(a)'
  BY DEF UnlockBuckets, BucketFree
<1>1. CASE Call(t)
  BY <1>1 DEF Call, BucketFree
<1>2. CASE LockTable(t)
  BY <1>2 DEF LockTable, BucketFree
<1>3. CASE LockTableWithoutDirectory(t)
  BY <1>3 DEF LockTableWithoutDirectory, BucketFree
<1>4. CASE LockBucket(t)
  BY <1>4, <1>d DEF LockBucket
<1>5. CASE InsertExisting(t)
  BY <1>5, <1>a, <1>e, <1>f DEF InsertExisting
<1>6. CASE InsertUpdate(t)
  BY <1>6, <1>a, <1>e, <1>f DEF InsertUpdate
<1>7. CASE InsertNew(t)
  BY <1>7, <1>a, <1>e, <1>f DEF InsertNew
<1>8. CASE InsertNoMemory(t)
  BY <1>8, <1>a, <1>e, <1>f DEF InsertNoMemory
<1>9. CASE DeleteFound(t)
  BY <1>9, <1>a, <1>e, <1>f DEF DeleteFound
<1>10. CASE DeleteMissing(t)
  BY <1>10, <1>a, <1>e, <1>f DEF DeleteMissing
<1>11. CASE FindKey(t)
  BY <1>11, <1>a, <1>e, <1>f DEF FindKey
<1>12. CASE FindOther(t)
  BY <1>12, <1>a, <1>e, <1>f DEF FindOther
<1>13. CASE Release(t)
  BY <1>13 DEF Release, BucketFree
<1>14. CASE Grow(t)
  BY <1>14 DEF Grow, BucketFree
<1>15. CASE ExpandTable(t)
  BY <1>15 DEF ExpandTable, BucketFree
<1>16. CASE ExpandNoDirectory(t)
  BY <1>16 DEF ExpandNoDirectory, BucketFree
<1>17. CASE ExpandNoSegment(t)
  BY <1>17 DEF ExpandNoSegment, BucketFree
<1>18. CASE ExpandOld(t)
  BY <1>18, <1>d DEF ExpandOld
<1>19. CASE ExpandNew(t)
  BY <1>19, <1>d DEF ExpandNew
<1>20. CASE ExpandNoClump(t)
  BY <1>20, <1>d DEF ExpandNoClump
<1>21. CASE Split(t)
  BY <1>21, <1>a, <1>e, <1>f DEF Split
<1>22. CASE Abandon(t)
  BY <1>22, <1>a, <1>e, <1>f DEF Abandon
<1>23. CASE Snapshot(t)
  BY <1>23 DEF Snapshot, BucketFree
<1>24. CASE Shrink(t)
  BY <1>24 DEF Shrink, BucketFree
<1>25. CASE ContractTable(t)
  BY <1>25 DEF ContractTable, BucketFree
<1>26. CASE ContractMinimal(t)
  BY <1>26 DEF ContractMinimal, BucketFree
<1>27. CASE ContractLast(t)
  BY <1>27, <1>d DEF ContractLast
<1>28. CASE ContractTarget(t)
  BY <1>28, <1>d DEF ContractTarget
<1>29. CASE ContractNoClump(t)
  BY <1>29, <1>d DEF ContractNoClump
<1>30. CASE Merge(t)
  BY <1>30, <1>a, <1>e, <1>f DEF Merge
<1>31. CASE ClearNothing(t)
  BY <1>31 DEF ClearNothing, BucketFree
<1>32. CASE ClearTable(t)
  BY <1>32 DEF ClearTable, BucketFree
<1>33. CASE ClearBucket(t)
  BY <1>33, <1>d DEF ClearBucket
<1>34. CASE ClearRecord(t)
  BY <1>34, <1>d DEF ClearRecord
<1>35. CASE ClearCount(t)
  BY <1>35, <1>d DEF ClearCount
<1>36. CASE ClearNext(t)
  BY <1>36, <1>d DEF ClearNext
<1>37. CASE ClearReset(t)
  BY <1>37, <1>d DEF ClearReset
<1>38. CASE CheckInvalid(t)
  BY <1>38 DEF CheckInvalid, BucketFree
<1>39. CASE CheckTable(t)
  BY <1>39 DEF CheckTable, BucketFree
<1>40. CASE CheckBucket(t)
  BY <1>40 DEF CheckBucket, BucketFree
<1>41. CASE CheckCount(t)
  BY <1>41 DEF CheckCount, BucketFree
<1> QED BY <1>1, <1>2, <1>3, <1>4, <1>5, <1>6, <1>7, <1>8, <1>9, <1>10, <1>11, <1>12,
         <1>13, <1>14, <1>15, <1>16, <1>17, <1>18, <1>19, <1>20, <1>21, <1>22, <1>23,
         <1>24, <1>25, <1>26, <1>27, <1>28, <1>29, <1>30, <1>31, <1>32, <1>33, <1>34,
         <1>35, <1>36, <1>37, <1>38, <1>39, <1>40, <1>41
         DEF Step, Body, Expand, Contract, Clear, Check

-----------------------------------------------------------------------------
(* The buckets that the threads work on *)

LEMMA HomeOthers ==
  ASSUME PInv, IInv', NEW t \in Thread, Call(t) \/ Step(t), NEW u \in Thread \ {t}
  PROVE  HomeOK(u)'
<1> TypeOK /\ TableLockInv /\ HomeOK(u)
  BY DEF PInv, IInv, HomeInv
<1>1. pc'[u] = pc[u] /\ rec'[u] = rec[u] /\ home'[u] = home[u] /\ other'[u] = other[u]
  BY Frame
<1>2. home[u] \in Addr /\ other[u] \in Addr
  BY DEF TypeOK
<1>3. ASSUME pc[u] = "lockBucket" PROVE home[u] = Settled(rec[u])'
  <2>1. rec[u] \in Record
    BY <1>3 DEF PInv, IInv, CallInv
  <2>2. Writing(u) \/ Reading(u)
    BY <1>3 DEF Writing, Reading
  <2>3. Settled(rec[u])' = Settled(rec[u])
    BY <1>1, <2>1, <2>2, SettledForHolder DEF SettledSame, Settled, Sig
  <2> QED BY <1>3, <2>3 DEF HomeOK
<1>4. ASSUME pc[u] = "body" PROVE home[u] = Settled(rec[u])'
  <2>1. rec[u] \in Record
    BY <1>4 DEF PInv, IInv, CallInv
  <2>2. HoldsForWrite(u, home[u]) \/ HoldsForRead(u, home[u])
    BY <1>4 DEF HoldsForWrite, HoldsForRead
  <2>3. home[u] = Settled(rec[u])
    BY <1>4 DEF HomeOK
  <2>4. \A r \in Record : Settled(r) = home[u] => Settled(r)' = home[u]
    BY <1>2, <2>2, HeldSettled
  <2> QED BY <1>1, <2>1, <2>3, <2>4 DEF Settled, Sig
<1>5. ASSUME pc[u] \in Expanding \cup Contracting
      PROVE  UNCHANGED <<nLevel, iExpansionIdx>>
  <2>1. Writing(u)
    BY <1>5 DEF Writing, Expanding, Contracting
  <2> QED BY <2>1, TableKept
<1>6. ASSUME pc[u] \in {"split", "merge", "abandon"} PROVE home[u] < SettledBuckets'
  <2>1. HoldsForWrite(u, home[u]) /\ home[u] < SettledBuckets
    BY <1>6 DEF HoldsForWrite, HomeOK
  <2> QED BY <1>2, <2>1, HeldSettled
<1>7. ASSUME pc[u] = "split" PROVE other[u] < SettledBuckets'
  <2>1. HoldsForWrite(u, other[u]) /\ other[u] < SettledBuckets
    BY <1>7 DEF HoldsForWrite, HomeOK
  <2> QED BY <1>2, <2>1, HeldSettled
<1>8. /\ pc'[u] \in {"lockBucket", "body"} => home'[u] = Settled(rec[u])'
      /\ pc'[u] \in {"expandOld", "expandNew", "contractTarget"} => home'[u] = iExpansionIdx'
      /\ pc'[u] \in Expanding \cup Contracting => other'[u] = NewBucket'
  BY <1>1, <1>3, <1>4, <1>5 DEF HomeOK, NewBucket, Expanding, Contracting
<1>9. /\ pc'[u] \in {"split", "merge", "abandon"} => home'[u] < SettledBuckets'
      /\ pc'[u] = "split" =>
           /\ other'[u] < SettledBuckets'
           /\ \E l \in 0 .. MaxLevel : home'[u] < 2 ^ l /\ other'[u] = 2 ^ l + home'[u]
  BY <1>1, <1>6, <1>7 DEF HomeOK
<1> QED BY <1>8, <1>9 DEF HomeOK

LEMMA HomeSelf ==
  ASSUME PInv, IInv', NEW t \in Thread, Call(t) \/ Step(t)
  PROVE  HomeOK(t)'
<1> USE DEF Expanding, Contracting
<1> IInv /\ TypeOK /\ TableLockInv /\ HomeOK(t)
  BY DEF PInv, IInv, HomeInv
<1>a. /\ pc \in [Thread -> PC] /\ home \in [Thread -> Addr] /\ other \in [Thread -> Addr]
  BY DEF TypeOK
<1>b. ASSUME pc'[t] \notin {"lockBucket", "body", "expandOld", "expandNew", "contractLast",
                            "contractTarget", "split", "merge", "abandon"}
      PROVE  HomeOK(t)'
  BY <1>b DEF HomeOK
<1>1. CASE Call(t)
  BY <1>1, <1>a, <1>b DEF Call
<1>2. CASE LockTable(t)
  <2>1. rec[t] \in Record /\ UNCHANGED rec
    BY <1>2 DEF LockTable, IInv, CallInv
  <2>2. tblWriter = NoThread
    BY <1>2 DEF LockTable, LockTableForWrite, LockTableForRead, TableFree
  <2>3. ~Contraction
    <3>1. \A u \in Thread : ~Writing(u)
      BY <2>2, ThreadAssumption DEF TableLockInv
    <3> QED BY <3>1 DEF Contraction, Writing
  <2>4. Settled(rec[t]) = Place(rec[t])
    BY <2>3 DEF Settled, SettledIdx, Place
  <2>5. Settled(rec[t])' = Settled(rec[t])
    <3>1. SettledSame
      BY <1>2, <1>a, SettledKept DEF LockTable
    <3> QED BY <2>1, <3>1 DEF SettledSame, Settled, Sig
  <2>6. home'[t] = Place(rec[t]) /\ pc'[t] = "lockBucket"
    BY <1>2, <1>a DEF LockTable
  <2> QED BY <2>4, <2>5, <2>6 DEF HomeOK
<1>3. CASE LockTableWithoutDirectory(t)
  BY <1>3, <1>a, <1>b DEF LockTableWithoutDirectory
<1>4. CASE LockBucket(t)
  <2>1. pc[t] = "lockBucket" /\ pc'[t] = "body" /\ UNCHANGED <<home, rec>>
    BY <1>4, <1>a DEF LockBucket
  <2>2. rec[t] \in Record
    BY <2>1 DEF IInv, CallInv
  <2>3. SettledSame
    BY <1>4, <1>a, SettledKept DEF LockBucket
  <2> QED BY <2>1, <2>2, <2>3 DEF HomeOK, SettledSame, Settled, Sig
<1>5. CASE InsertExisting(t)
  BY <1>5, <1>a, <1>b DEF InsertExisting
<1>6. CASE InsertUpdate(t)
  BY <1>6, <1>a, <1>b DEF InsertUpdate
<1>7. CASE InsertNew(t)
  BY <1>7, <1>a, <1>b DEF InsertNew
<1>8. CASE InsertNoMemory(t)
  BY <1>8, <1>a, <1>b DEF InsertNoMemory
<1>9. CASE DeleteFound(t)
  BY <1>9, <1>a, <1>b DEF DeleteFound
<1>10. CASE DeleteMissing(t)
  BY <1>10, <1>a, <1>b DEF DeleteMissing
<1>11. CASE FindKey(t)
  BY <1>11, <1>a, <1>b DEF FindKey
<1>12. CASE FindOther(t)
  BY <1>12, <1>a, <1>b DEF FindOther
<1>13. CASE Release(t)
  BY <1>13, <1>a, <1>b DEF Release
<1>14. CASE Grow(t)
  BY <1>14, <1>a, <1>b DEF Grow
<1>15. CASE ExpandTable(t)
  BY <1>15, <1>a DEF ExpandTable, HomeOK, NewBucket
<1>16. CASE ExpandNoDirectory(t)
  BY <1>16, <1>a, <1>b DEF ExpandNoDirectory
<1>17. CASE ExpandNoSegment(t)
  BY <1>17, <1>a, <1>b DEF ExpandNoSegment
<1>18. CASE ExpandOld(t)
  BY <1>18, <1>a DEF ExpandOld, HomeOK, NewBucket
<1>19. CASE ExpandNew(t)
  <2>1. pc'[t] = "split" /\ pc[t] = "expandNew" /\ UNCHANGED <<home, other>>
    BY <1>19, <1>a DEF ExpandNew
  <2>2. home[t] < SettledBuckets' /\ other[t] < SettledBuckets'
    BY <1>19, ExpandNewSettles
  <2>3. /\ home[t] = iExpansionIdx /\ other[t] = 2 ^ nLevel + iExpansionIdx
        /\ nLevel \in 0 .. MaxLevel
    BY <2>1 DEF HomeOK, NewBucket, TypeOK
  <2>4. iExpansionIdx < 2 ^ nLevel
    BY <1>19, ExpandNewSettles, AddressFacts
  <2> QED BY <2>1, <2>2, <2>3, <2>4 DEF HomeOK
<1>20. CASE ExpandNoClump(t)
  <2>1. pc'[t] = "abandon" /\ pc[t] = "expandNew" /\ UNCHANGED home
    BY <1>20, <1>a DEF ExpandNoClump
  <2>2. SettledSame /\ HasDirectory
    BY <1>20, <1>a, <2>1, SettledKept DEF ExpandNoClump, IInv, ResizeInv
  <2>3. home[t] < SettledBuckets
    <3>1. home[t] = iExpansionIdx
      BY <2>1 DEF HomeOK
    <3> QED BY <2>2, <3>1, SettledFacts, AddressFacts
  <2> QED BY <2>1, <2>2, <2>3 DEF HomeOK, SettledSame
<1>21. CASE Split(t)
  BY <1>21, <1>a, <1>b DEF Split
<1>22. CASE Abandon(t)
  BY <1>22, <1>a, <1>b DEF Abandon
<1>23. CASE Snapshot(t)
  BY <1>23, <1>a, <1>b DEF Snapshot
<1>24. CASE Shrink(t)
  BY <1>24, <1>a, <1>b DEF Shrink
<1>25. CASE ContractTable(t)
  <2>1. /\ pc'[t] = "contractLast" /\ other'[t] = cActiveBuckets - 1
        /\ UNCHANGED <<cActiveBuckets, cDirSegs>>
    BY <1>25, <1>a DEF ContractTable
  <2>2. HasDirectory'
    BY <2>1 DEF IInv, ResizeInv
  <2>3. BucketInTransit' = 1
    BY <2>1, InTransitNext DEF IInv, Transit
  <2>4. cActiveBuckets' = 2 ^ nLevel' + iExpansionIdx' + 1
    BY <2>2, <2>3 DEF IInv, AddressesValid
  <2>5. 2 ^ nLevel' \in Nat /\ iExpansionIdx' \in Nat
    <3>1. nLevel' \in 0 .. MaxLevel /\ iExpansionIdx' \in Nat
      BY DEF IInv, TypeOK
    <3> QED BY <3>1, Powers
  <2>6. other'[t] = NewBucket'
    BY <2>1, <2>4, <2>5 DEF NewBucket
  <2> QED BY <2>1, <2>6 DEF HomeOK
<1>26. CASE ContractMinimal(t)
  BY <1>26, <1>a, <1>b DEF ContractMinimal
<1>27. CASE ContractLast(t)
  BY <1>27, <1>a DEF ContractLast, HomeOK, NewBucket
<1>28. CASE ContractTarget(t)
  <2>1. pc'[t] = "merge" /\ UNCHANGED home
    BY <1>28, <1>a DEF ContractTarget
  <2>2. home[t] < SettledBuckets'
    BY <1>28, ContractTargetSettles
  <2> QED BY <2>1, <2>2 DEF HomeOK
<1>29. CASE ContractNoClump(t)
  BY <1>29, <1>a, <1>b DEF ContractNoClump
<1>30. CASE Merge(t)
  BY <1>30, <1>a, <1>b DEF Merge
<1>31. CASE ClearNothing(t)
  BY <1>31, <1>a, <1>b DEF ClearNothing
<1>32. CASE ClearTable(t)
  BY <1>32, <1>a, <1>b DEF ClearTable
<1>33. CASE ClearBucket(t)
  BY <1>33, <1>a, <1>b DEF ClearBucket
<1>34. CASE ClearRecord(t)
  BY <1>34, <1>a, <1>b DEF ClearRecord
<1>35. CASE ClearCount(t)
  BY <1>35, <1>a, <1>b DEF ClearCount
<1>36. CASE ClearNext(t)
  BY <1>36, <1>a, <1>b DEF ClearNext
<1>37. CASE ClearReset(t)
  BY <1>37, <1>a, <1>b DEF ClearReset
<1>38. CASE CheckInvalid(t)
  BY <1>38, <1>a, <1>b DEF CheckInvalid
<1>39. CASE CheckTable(t)
  BY <1>39, <1>a, <1>b DEF CheckTable
<1>40. CASE CheckBucket(t)
  BY <1>40, <1>a, <1>b DEF CheckBucket
<1>41. CASE CheckCount(t)
  BY <1>41, <1>a, <1>b DEF CheckCount
<1> QED BY <1>1, <1>2, <1>3, <1>4, <1>5, <1>6, <1>7, <1>8, <1>9, <1>10, <1>11, <1>12,
         <1>13, <1>14, <1>15, <1>16, <1>17, <1>18, <1>19, <1>20, <1>21, <1>22, <1>23,
         <1>24, <1>25, <1>26, <1>27, <1>28, <1>29, <1>30, <1>31, <1>32, <1>33, <1>34,
         <1>35, <1>36, <1>37, <1>38, <1>39, <1>40, <1>41
         DEF Step, Body, Expand, Contract, Clear, Check

LEMMA HomeStep ==
  ASSUME PInv, IInv', NEW t \in Thread, Call(t) \/ Step(t)
  PROVE  HomeInv'
BY HomeOthers, HomeSelf DEF HomeInv

-----------------------------------------------------------------------------
(* How far a Clear or a CheckTable has come *)

LEMMA ScanOthers ==
  ASSUME PInv, NEW t \in Thread, Call(t) \/ Step(t), NEW u \in Thread \ {t}
  PROVE  ScanOK(u)'
<1> TypeOK /\ TableLockInv /\ ScanOK(u)
  BY DEF PInv, IInv, ScanInv
<1>1. pc'[u] = pc[u] /\ scan'[u] = scan[u]
  BY Frame
<1>2. ASSUME pc[u] \in {"clearBucket", "clearLoad", "clearStore", "checkBucket"}
      PROVE  UNCHANGED cActiveBuckets
  <2>1. Writing(u) \/ Reading(u)
    BY <1>2 DEF Writing, Reading
  <2> QED BY <2>1, TableKept
<1>3. ASSUME pc[u] \in {"clearBucket", "clearLoad", "clearStore"},
             NEW a \in Addr, a < scan[u]
      PROVE  BucketFree(a)' /\ bucket'[a] = {}
  <2>1. Writing(u)
    BY <1>3 DEF Writing
  <2>2. BucketFree(a) /\ bucket[a] = {}
    BY <1>3 DEF ScanOK
  <2> QED BY <2>1, <2>2, BucketKept
<1> QED BY <1>1, <1>2, <1>3 DEF ScanOK

LEMMA ScanSelf ==
  ASSUME PInv, IInv', NEW t \in Thread, Call(t) \/ Step(t)
  PROVE  ScanOK(t)'
<1> IInv /\ TypeOK /\ BucketLockInv /\ ScanOK(t)
  BY DEF PInv, IInv, ScanInv
<1>a. /\ pc \in [Thread -> PC] /\ scan \in [Thread -> Nat] /\ cActiveBuckets \in Nat
      /\ bucket \in [Addr -> SUBSET Record]
  BY DEF TypeOK
<1>b. ASSUME pc'[t] \notin {"clearBucket", "clearLoad", "clearStore", "checkBucket"}
      PROVE  ScanOK(t)'
  BY <1>b DEF ScanOK
<1>c. \A a \in Addr : a \in Nat
  BY SizeFacts DEF Addr
<1>1. CASE Call(t)
  BY <1>1, <1>a, <1>b DEF Call
<1>2. CASE LockTable(t)
  BY <1>2, <1>a, <1>b DEF LockTable
<1>3. CASE LockTableWithoutDirectory(t)
  BY <1>3, <1>a, <1>b DEF LockTableWithoutDirectory
<1>4. CASE LockBucket(t)
  BY <1>4, <1>a, <1>b DEF LockBucket
<1>5. CASE InsertExisting(t)
  BY <1>5, <1>a, <1>b DEF InsertExisting
<1>6. CASE InsertUpdate(t)
  BY <1>6, <1>a, <1>b DEF InsertUpdate
<1>7. CASE InsertNew(t)
  BY <1>7, <1>a, <1>b DEF InsertNew
<1>8. CASE InsertNoMemory(t)
  BY <1>8, <1>a, <1>b DEF InsertNoMemory
<1>9. CASE DeleteFound(t)
  BY <1>9, <1>a, <1>b DEF DeleteFound
<1>10. CASE DeleteMissing(t)
  BY <1>10, <1>a, <1>b DEF DeleteMissing
<1>11. CASE FindKey(t)
  BY <1>11, <1>a, <1>b DEF FindKey
<1>12. CASE FindOther(t)
  BY <1>12, <1>a, <1>b DEF FindOther
<1>13. CASE Release(t)
  BY <1>13, <1>a, <1>b DEF Release
<1>14. CASE Grow(t)
  BY <1>14, <1>a, <1>b DEF Grow
<1>15. CASE ExpandTable(t)
  BY <1>15, <1>a, <1>b DEF ExpandTable
<1>16. CASE ExpandNoDirectory(t)
  BY <1>16, <1>a, <1>b DEF ExpandNoDirectory
<1>17. CASE ExpandNoSegment(t)
  BY <1>17, <1>a, <1>b DEF ExpandNoSegment
<1>18. CASE ExpandOld(t)
  BY <1>18, <1>a, <1>b DEF ExpandOld
<1>19. CASE ExpandNew(t)
  BY <1>19, <1>a, <1>b DEF ExpandNew
<1>20. CASE ExpandNoClump(t)
  BY <1>20, <1>a, <1>b DEF ExpandNoClump
<1>21. CASE Split(t)
  BY <1>21, <1>a, <1>b DEF Split
<1>22. CASE Abandon(t)
  BY <1>22, <1>a, <1>b DEF Abandon
<1>23. CASE Snapshot(t)
  BY <1>23, <1>a, <1>b DEF Snapshot
<1>24. CASE Shrink(t)
  BY <1>24, <1>a, <1>b DEF Shrink
<1>25. CASE ContractTable(t)
  BY <1>25, <1>a, <1>b DEF ContractTable
<1>26. CASE ContractMinimal(t)
  BY <1>26, <1>a, <1>b DEF ContractMinimal
<1>27. CASE ContractLast(t)
  BY <1>27, <1>a, <1>b DEF ContractLast
<1>28. CASE ContractTarget(t)
  BY <1>28, <1>a, <1>b DEF ContractTarget
<1>29. CASE ContractNoClump(t)
  BY <1>29, <1>a, <1>b DEF ContractNoClump
<1>30. CASE Merge(t)
  BY <1>30, <1>a, <1>b DEF Merge
<1>31. CASE ClearNothing(t)
  BY <1>31, <1>a, <1>b DEF ClearNothing
<1>32. CASE ClearTable(t)
  BY <1>32, <1>a, <1>c DEF ClearTable, ScanOK
<1>33. CASE ClearBucket(t)
  <2>1. /\ pc[t] = "clearBucket" /\ pc'[t] = "clearLoad" /\ scan[t] < cActiveBuckets
        /\ UNCHANGED <<scan, cActiveBuckets, bucket>>
        /\ bktWriter' = [bktWriter EXCEPT ![scan[t]] = t] /\ bktReaders' = bktReaders
    BY <1>33, <1>a DEF ClearBucket, LockBucketForWrite
  <2>2. ASSUME NEW a \in Addr, a < scan[t] PROVE BucketFree(a)' /\ bucket'[a] = {}
    <3>1. BucketFree(a) /\ bucket[a] = {} /\ a # scan[t]
      BY <1>a, <1>c, <2>1, <2>2 DEF ScanOK
    <3>2. bktWriter'[a] = bktWriter[a]
      BY <2>1, <3>1 DEF TypeOK
    <3> QED BY <2>1, <3>1, <3>2 DEF BucketFree
  <2> QED BY <2>1, <2>2 DEF ScanOK
<1>34. CASE ClearRecord(t)
  <2>1. /\ pc[t] = "clearLoad" /\ pc'[t] = "clearStore"
        /\ UNCHANGED <<scan, cActiveBuckets, bktWriter, bktReaders>>
        /\ \E S : bucket' = [bucket EXCEPT ![scan[t]] = S]
    BY <1>34, <1>a DEF ClearRecord
  <2>2. ASSUME NEW a \in Addr, a < scan[t] PROVE BucketFree(a)' /\ bucket'[a] = {}
    BY <1>a, <1>c, <2>1, <2>2 DEF ScanOK, BucketFree
  <2> QED BY <2>1, <2>2 DEF ScanOK
<1>35. CASE ClearCount(t)
  BY <1>35, <1>a DEF ClearCount, ScanOK, BucketFree
<1>36. CASE ClearNext(t)
  <2>1. /\ pc[t] = "clearLoad" /\ pc'[t] = "clearBucket" /\ bucket[scan[t]] = {}
        /\ scan'[t] = scan[t] + 1 /\ UNCHANGED <<cActiveBuckets, bucket>>
        /\ UnlockBuckets(t, {scan[t]})
    BY <1>36, <1>a DEF ClearNext
  <2>2. scan[t] < cActiveBuckets /\ scan[t] \in Addr
    BY <2>1 DEF ScanOK, IInv, CallInv
  <2>3. bktWriter[scan[t]] = t /\ bktReaders[scan[t]] = {}
    <3>1. HoldsForWrite(t, scan[t])
      BY <2>1 DEF HoldsForWrite
    <3> QED BY <2>2, <3>1, ThreadAssumption DEF BucketLockInv
  <2>4. ASSUME NEW a \in Addr, a < scan[t] + 1 PROVE BucketFree(a)' /\ bucket'[a] = {}
    <3>1. CASE a = scan[t]
      BY <2>1, <2>3, <3>1 DEF UnlockBuckets, BucketFree
    <3>2. CASE a # scan[t]
      <4>1. a < scan[t]
        BY <1>a, <1>c, <2>4, <3>2
      <4>2. BucketFree(a) /\ bucket[a] = {}
        BY <2>1, <4>1 DEF ScanOK
      <4> QED BY <2>1, <4>2 DEF UnlockBuckets, BucketFree
    <3> QED BY <3>1, <3>2
  <2>5. scan'[t] <= cActiveBuckets'
    BY <1>a, <2>1, <2>2
  <2> QED BY <2>1, <2>4, <2>5 DEF ScanOK
<1>37. CASE ClearReset(t)
  BY <1>37, <1>a, <1>b DEF ClearReset
<1>38. CASE CheckInvalid(t)
  BY <1>38, <1>a, <1>b DEF CheckInvalid
<1>39. CASE CheckTable(t)
  BY <1>39, <1>a DEF CheckTable, ScanOK
<1>40. CASE CheckBucket(t)
  BY <1>40, <1>a DEF CheckBucket, ScanOK
<1>41. CASE CheckCount(t)
  BY <1>41, <1>a, <1>b DEF CheckCount
<1> QED BY <1>1, <1>2, <1>3, <1>4, <1>5, <1>6, <1>7, <1>8, <1>9, <1>10, <1>11, <1>12,
         <1>13, <1>14, <1>15, <1>16, <1>17, <1>18, <1>19, <1>20, <1>21, <1>22, <1>23,
         <1>24, <1>25, <1>26, <1>27, <1>28, <1>29, <1>30, <1>31, <1>32, <1>33, <1>34,
         <1>35, <1>36, <1>37, <1>38, <1>39, <1>40, <1>41
         DEF Step, Body, Expand, Contract, Clear, Check

LEMMA ScanStep ==
  ASSUME PInv, IInv', NEW t \in Thread, Call(t) \/ Step(t)
  PROVE  ScanInv'
BY ScanOthers, ScanSelf DEF ScanInv

-----------------------------------------------------------------------------
(* A table without a directory *)

\* Only the end of a Clear takes the directory away, and without one there is
\* nothing that a thread outside could do.
LEMMA DirectoryKept ==
  ASSUME PInv, NEW t \in Thread, Call(t) \/ Step(t), ~ClearReset(t)
  PROVE  /\ HasDirectory' <=> HasDirectory
         /\ IsUsable' => IsUsable
         /\ ~HasDirectory => UNCHANGED bucket /\ pc'[t] \in Outside
<1> USE DEF HasDirectory, IsUsable, Outside
<1>a. /\ pc \in [Thread -> PC] /\ cDirSegs \in Nat /\ MinDirSize \in Nat \ {0}
      /\ cActiveBuckets \in Nat
  BY SizeFacts DEF PInv, IInv, TypeOK
<1>b. /\ ~HasDirectory => pc[t] \in Outside /\ ~IsUsable /\ cActiveBuckets = 0
  BY <1>a DEF PInv, IInv, NoTableInv, DirectoryInv
<1>1. CASE Call(t)
  BY <1>1, <1>a, <1>b DEF Call
<1>2. CASE LockTable(t)
  BY <1>2, <1>a, <1>b DEF LockTable
<1>3. CASE LockTableWithoutDirectory(t)
  BY <1>3, <1>a, <1>b DEF LockTableWithoutDirectory
<1>4. CASE LockBucket(t)
  BY <1>4, <1>a, <1>b DEF LockBucket
<1>5. CASE InsertExisting(t)
  BY <1>5, <1>a, <1>b DEF InsertExisting
<1>6. CASE InsertUpdate(t)
  BY <1>6, <1>a, <1>b DEF InsertUpdate
<1>7. CASE InsertNew(t)
  BY <1>7, <1>a, <1>b DEF InsertNew
<1>8. CASE InsertNoMemory(t)
  BY <1>8, <1>a, <1>b DEF InsertNoMemory
<1>9. CASE DeleteFound(t)
  BY <1>9, <1>a, <1>b DEF DeleteFound
<1>10. CASE DeleteMissing(t)
  BY <1>10, <1>a, <1>b DEF DeleteMissing
<1>11. CASE FindKey(t)
  BY <1>11, <1>a, <1>b DEF FindKey
<1>12. CASE FindOther(t)
  BY <1>12, <1>a, <1>b DEF FindOther
<1>13. CASE Release(t)
  BY <1>13, <1>a, <1>b DEF Release
<1>14. CASE Grow(t)
  BY <1>14, <1>a, <1>b DEF Grow
<1>15. CASE ExpandTable(t)
  BY <1>15, <1>a, <1>b, SizeFacts DEF ExpandTable, DirectoryFull
<1>16. CASE ExpandNoDirectory(t)
  BY <1>16, <1>a, <1>b DEF ExpandNoDirectory
<1>17. CASE ExpandNoSegment(t)
  BY <1>17, <1>a, <1>b, SizeFacts DEF ExpandNoSegment, DirectoryFull
<1>18. CASE ExpandOld(t)
  BY <1>18, <1>a, <1>b DEF ExpandOld
<1>19. CASE ExpandNew(t)
  BY <1>19, <1>a, <1>b DEF ExpandNew
<1>20. CASE ExpandNoClump(t)
  BY <1>20, <1>a, <1>b DEF ExpandNoClump
<1>21. CASE Split(t)
  BY <1>21, <1>a, <1>b DEF Split
<1>22. CASE Abandon(t)
  BY <1>22, <1>a, <1>b DEF Abandon
<1>23. CASE Snapshot(t)
  BY <1>23, <1>a, <1>b DEF Snapshot
<1>24. CASE Shrink(t)
  BY <1>24, <1>a, <1>b DEF Shrink
<1>25. CASE ContractTable(t)
  BY <1>25, <1>a, <1>b, SizeFacts DEF ContractTable
<1>26. CASE ContractMinimal(t)
  BY <1>26, <1>a, <1>b DEF ContractMinimal
<1>27. CASE ContractLast(t)
  BY <1>27, <1>a, <1>b DEF ContractLast
<1>28. CASE ContractTarget(t)
  BY <1>28, <1>a, <1>b DEF ContractTarget
<1>29. CASE ContractNoClump(t)
  BY <1>29, <1>a, <1>b DEF ContractNoClump
<1>30. CASE Merge(t)
  BY <1>30, <1>a, <1>b DEF Merge
<1>31. CASE ClearNothing(t)
  BY <1>31, <1>a, <1>b DEF ClearNothing
<1>32. CASE ClearTable(t)
  BY <1>32, <1>a, <1>b DEF ClearTable
<1>33. CASE ClearBucket(t)
  BY <1>33, <1>a, <1>b DEF ClearBucket
<1>34. CASE ClearRecord(t)
  BY <1>34, <1>a, <1>b DEF ClearRecord
<1>35. CASE ClearCount(t)
  BY <1>35, <1>a, <1>b DEF ClearCount
<1>36. CASE ClearNext(t)
  BY <1>36, <1>a, <1>b DEF ClearNext
<1>37. CASE ClearReset(t)
  BY <1>37
<1>38. CASE CheckInvalid(t)
  BY <1>38, <1>a, <1>b DEF CheckInvalid
<1>39. CASE CheckTable(t)
  BY <1>39, <1>a, <1>b DEF CheckTable, IsValid
<1>40. CASE CheckBucket(t)
  BY <1>40, <1>a, <1>b DEF CheckBucket
<1>41. CASE CheckCount(t)
  BY <1>41, <1>a, <1>b DEF CheckCount
<1> QED BY <1>1, <1>2, <1>3, <1>4, <1>5, <1>6, <1>7, <1>8, <1>9, <1>10, <1>11, <1>12,
         <1>13, <1>14, <1>15, <1>16, <1>17, <1>18, <1>19, <1>20, <1>21, <1>22, <1>23,
         <1>24, <1>25, <1>26, <1>27, <1>28, <1>29, <1>30, <1>31, <1>32, <1>33, <1>34,
         <1>35, <1>36, <1>37, <1>38, <1>39, <1>40, <1>41
         DEF Step, Body, Expand, Contract, Clear, Check

LEMMA NoTableStep ==
  ASSUME PInv, NEW t \in Thread, Call(t) \/ Step(t)
  PROVE  NoTableInv'
<1> TypeOK /\ NoTableInv
  BY DEF PInv, IInv
<1>1. CASE ClearReset(t)
  <2>1. \A u \in Thread : pc'[u] \in Outside
    <3>1. pc'[t] \in Outside
      BY <1>1 DEF ClearReset, TypeOK, Outside
    <3> QED BY <1>1, <3>1, ResetAlone, Frame
  <2>2. \A a \in Addr : bucket'[a] = {}
    BY <1>1, ResetAlone DEF ClearReset
  <2>3. IsUsable' => HasDirectory'
    <3>1. InitialDirSize(DefaultBuckets, SegBits, MinDirSize, MaxLevel) \in Nat \ {0}
      BY SizeAssumption, NewTable
    <3> QED BY <1>1, <3>1 DEF ClearReset, IsUsable, HasDirectory
  <2> QED BY <2>1, <2>2, <2>3 DEF NoTableInv
<1>2. CASE ~ClearReset(t)
  <2>1. \A u \in Thread \ {t} : pc'[u] = pc[u]
    BY Frame
  <2> QED BY <1>2, <2>1, DirectoryKept DEF NoTableInv
<1> QED BY <1>1, <1>2

-----------------------------------------------------------------------------
(* Where the records are *)

\* In a bucket that a thread works on alone there is what belongs there.
LEMMA HeldBucketSettled ==
  ASSUME PInv, NEW t \in Thread, NEW a \in Addr, HoldsForWrite(t, a) \/ BucketFree(a),
         pc[t] = "split" => a # home[t], NEW r \in bucket[a]
  PROVE  Settled(r) = a
<1>1. ASSUME NEW u \in Thread, pc[u] = "split", home[u] = a PROVE FALSE
  <2>1. HoldsForWrite(u, a)
    BY <1>1 DEF HoldsForWrite
  <2>2. u # t
    BY <1>1
  <2> QED BY <2>1, <2>2, BucketExcludes, BucketFreeExcludes DEF PInv
<1> QED BY <1>1 DEF PInv, PlaceInv, PlaceOK, MovedOK

\* A record that belongs to a bucket that a thread works on is there, and
\* nowhere else.
LEMMA HeldRecord ==
  ASSUME PInv, NEW t \in Thread, NEW b \in Addr, HoldsForWrite(t, b),
         pc[t] \notin {"split", "merge"}, NEW r \in Record, Settled(r) = b
  PROVE  /\ \A a \in Addr : r \in bucket[a] => a = b
         /\ \A u \in Thread : pc[u] \in {"split", "merge"} => r \notin moved[u]
<1> TypeOK /\ BucketLockInv /\ PlaceInv
  BY DEF PInv, IInv
<1>1. ASSUME NEW u \in Thread, pc[u] \in {"split", "merge"}, r \in moved[u] PROVE FALSE
  <2>1. HoldsForWrite(u, b)
    BY <1>1 DEF PlaceInv, PlaceOK, MovedOK, HoldsForWrite
  <2>2. u # t
    BY <1>1
  <2> QED BY <2>1, <2>2, BucketExcludes
<1>2. ASSUME NEW a \in Addr, r \in bucket[a] PROVE a = b
  BY <1>1, <1>2 DEF PlaceInv, PlaceOK, MovedOK
<1> QED BY <1>1, <1>2

-----------------------------------------------------------------------------
(* How a step moves the records *)

\* Nobody writes to a bucket whose lock it does not hold.
LEMMA BucketWritten ==
  ASSUME PInv, NEW t \in Thread, Call(t) \/ Step(t), NEW a \in Addr, ~HoldsForWrite(t, a)
  PROVE  bucket'[a] = bucket[a]
<1>a. bucket \in [Addr -> SUBSET Record] /\ home[t] \in Addr /\ other[t] \in Addr
  BY DEF PInv, IInv, TypeOK
<1>b. /\ pc[t] \in {"split", "merge"} => a # home[t]
      /\ pc[t] = "body" /\ op[t] \notin Finds => a # home[t]
      /\ pc[t] \in {"split", "contractTarget"} => a # other[t]
      /\ pc[t] = "clearLoad" => a # scan[t]
  BY DEF HoldsForWrite
<1>c. Inserts \cap Finds = {} /\ Deletes \cap Finds = {} /\ "Overwrite" \in Inserts
  BY DEF Inserts, Deletes, Finds
<1>1. CASE Call(t)
  BY <1>1, <1>a, <1>b, <1>c DEF Call
<1>2. CASE LockTable(t)
  BY <1>2, <1>a, <1>b, <1>c DEF LockTable
<1>3. CASE LockTableWithoutDirectory(t)
  BY <1>3, <1>a, <1>b, <1>c DEF LockTableWithoutDirectory
<1>4. CASE LockBucket(t)
  BY <1>4, <1>a, <1>b, <1>c DEF LockBucket
<1>5. CASE InsertExisting(t)
  BY <1>5, <1>a, <1>b, <1>c DEF InsertExisting
<1>6. CASE InsertUpdate(t)
  BY <1>6, <1>a, <1>b, <1>c DEF InsertUpdate
<1>7. CASE InsertNew(t)
  BY <1>7, <1>a, <1>b, <1>c DEF InsertNew
<1>8. CASE InsertNoMemory(t)
  BY <1>8, <1>a, <1>b, <1>c DEF InsertNoMemory
<1>9. CASE DeleteFound(t)
  BY <1>9, <1>a, <1>b, <1>c DEF DeleteFound
<1>10. CASE DeleteMissing(t)
  BY <1>10, <1>a, <1>b, <1>c DEF DeleteMissing
<1>11. CASE FindKey(t)
  BY <1>11, <1>a, <1>b, <1>c DEF FindKey
<1>12. CASE FindOther(t)
  BY <1>12, <1>a, <1>b, <1>c DEF FindOther
<1>13. CASE Release(t)
  BY <1>13, <1>a, <1>b, <1>c DEF Release
<1>14. CASE Grow(t)
  BY <1>14, <1>a, <1>b, <1>c DEF Grow
<1>15. CASE ExpandTable(t)
  BY <1>15, <1>a, <1>b, <1>c DEF ExpandTable
<1>16. CASE ExpandNoDirectory(t)
  BY <1>16, <1>a, <1>b, <1>c DEF ExpandNoDirectory
<1>17. CASE ExpandNoSegment(t)
  BY <1>17, <1>a, <1>b, <1>c DEF ExpandNoSegment
<1>18. CASE ExpandOld(t)
  BY <1>18, <1>a, <1>b, <1>c DEF ExpandOld
<1>19. CASE ExpandNew(t)
  BY <1>19, <1>a, <1>b, <1>c DEF ExpandNew
<1>20. CASE ExpandNoClump(t)
  BY <1>20, <1>a, <1>b, <1>c DEF ExpandNoClump
<1>21. CASE Split(t)
  BY <1>21, <1>a, <1>b, <1>c DEF Split
<1>22. CASE Abandon(t)
  BY <1>22, <1>a, <1>b, <1>c DEF Abandon
<1>23. CASE Snapshot(t)
  BY <1>23, <1>a, <1>b, <1>c DEF Snapshot
<1>24. CASE Shrink(t)
  BY <1>24, <1>a, <1>b, <1>c DEF Shrink
<1>25. CASE ContractTable(t)
  BY <1>25, <1>a, <1>b, <1>c DEF ContractTable
<1>26. CASE ContractMinimal(t)
  BY <1>26, <1>a, <1>b, <1>c DEF ContractMinimal
<1>27. CASE ContractLast(t)
  BY <1>27, <1>a, <1>b, <1>c DEF ContractLast
<1>28. CASE ContractTarget(t)
  BY <1>28, <1>a, <1>b, <1>c DEF ContractTarget
<1>29. CASE ContractNoClump(t)
  BY <1>29, <1>a, <1>b, <1>c DEF ContractNoClump
<1>30. CASE Merge(t)
  BY <1>30, <1>a, <1>b, <1>c DEF Merge
<1>31. CASE ClearNothing(t)
  BY <1>31, <1>a, <1>b, <1>c DEF ClearNothing
<1>32. CASE ClearTable(t)
  BY <1>32, <1>a, <1>b, <1>c DEF ClearTable
<1>33. CASE ClearBucket(t)
  BY <1>33, <1>a, <1>b, <1>c DEF ClearBucket
<1>34. CASE ClearRecord(t)
  BY <1>34, <1>a, <1>b, <1>c DEF ClearRecord
<1>35. CASE ClearCount(t)
  BY <1>35, <1>a, <1>b, <1>c DEF ClearCount
<1>36. CASE ClearNext(t)
  BY <1>36, <1>a, <1>b, <1>c DEF ClearNext
<1>37. CASE ClearReset(t)
  BY <1>37, <1>a, <1>b, <1>c DEF ClearReset
<1>38. CASE CheckInvalid(t)
  BY <1>38, <1>a, <1>b, <1>c DEF CheckInvalid
<1>39. CASE CheckTable(t)
  BY <1>39, <1>a, <1>b, <1>c DEF CheckTable
<1>40. CASE CheckBucket(t)
  BY <1>40, <1>a, <1>b, <1>c DEF CheckBucket
<1>41. CASE CheckCount(t)
  BY <1>41, <1>a, <1>b, <1>c DEF CheckCount
<1> QED BY <1>1, <1>2, <1>3, <1>4, <1>5, <1>6, <1>7, <1>8, <1>9, <1>10, <1>11, <1>12,
         <1>13, <1>14, <1>15, <1>16, <1>17, <1>18, <1>19, <1>20, <1>21, <1>22, <1>23,
         <1>24, <1>25, <1>26, <1>27, <1>28, <1>29, <1>30, <1>31, <1>32, <1>33, <1>34,
         <1>35, <1>36, <1>37, <1>38, <1>39, <1>40, <1>41
         DEF Step, Body, Expand, Contract, Clear, Check

LEMMA MovedOthers ==
  ASSUME PInv, IInv', NEW t \in Thread, Call(t) \/ Step(t), NEW u \in Thread \ {t}
  PROVE  MovedOK(u)'
<1> TypeOK /\ BucketLockInv /\ MovedOK(u)
  BY DEF PInv, IInv, PlaceInv
<1>1. pc'[u] = pc[u] /\ home'[u] = home[u] /\ other'[u] = other[u] /\ moved'[u] = moved[u]
  BY Frame
<1>2. home[u] \in Addr /\ other[u] \in Addr /\ moved[u] \subseteq Record
  BY DEF TypeOK
<1>3. ASSUME NEW b \in Addr, HoldsForWrite(u, b)
      PROVE  bucket'[b] = bucket[b] /\ \A r \in Record : Settled(r) = b => Settled(r)' = b
  <2>1. ~HoldsForWrite(t, b)
    BY <1>3, BucketExcludes
  <2> QED BY <1>3, <2>1, BucketWritten, HeldSettled
<1>4. CASE pc[u] = "split"
  <2>1. HoldsForWrite(u, home[u]) /\ HoldsForWrite(u, other[u])
    BY <1>4 DEF HoldsForWrite
  <2>2. /\ bucket'[home[u]] = bucket[home[u]] /\ bucket'[other[u]] = bucket[other[u]]
        /\ \A r \in Record : Settled(r) = other[u] => Settled(r)' = other[u]
    BY <1>2, <1>3, <2>1
  <2>3. \A r \in moved[u] : Settled(r)' = other[u]
    BY <1>2, <1>4, <2>2 DEF MovedOK
  <2> QED BY <1>1, <1>4, <2>2, <2>3 DEF MovedOK, Settled, Sig
<1>5. CASE pc[u] = "merge"
  <2>1. HoldsForWrite(u, home[u])
    BY <1>5 DEF HoldsForWrite
  <2>2. /\ bucket'[home[u]] = bucket[home[u]]
        /\ \A r \in Record : Settled(r) = home[u] => Settled(r)' = home[u]
    BY <1>2, <1>3, <2>1
  <2>3. \A r \in moved[u] : Settled(r)' = home[u]
    BY <1>2, <1>5, <2>2 DEF MovedOK
  <2> QED BY <1>1, <1>5, <2>2, <2>3 DEF MovedOK, Settled, Sig
<1>6. CASE pc[u] \notin {"split", "merge"}
  BY <1>1, <1>6 DEF MovedOK
<1> QED BY <1>4, <1>5, <1>6

\* A bucket that t has not locked keeps its records, and they stay where they are.
LEMMA PlaceOthers ==
  ASSUME PInv, IInv', NEW t \in Thread, Call(t) \/ Step(t), NEW a \in Addr, ~HoldsForWrite(t, a)
  PROVE  PlaceOK(a)'
<1> IInv /\ TypeOK /\ BucketLockInv /\ PlaceOK(a)
  BY DEF PInv, IInv, PlaceInv
<1>1. bucket'[a] = bucket[a] /\ bucket[a] \subseteq Record /\ a \in Nat
  BY BucketWritten, SizeFacts DEF TypeOK, Addr
<1>2. \A r \in Record : Settled(r) = a /\ r \in bucket[a] => Settled(r)' = a
  <2>1. CASE ExpandNew(t)
    <3>1. a # home[t]
      BY <2>1 DEF ExpandNew, HoldsForWrite
    <3> QED BY <2>1, <3>1, ExpandNewSettles
  <2>2. CASE ContractTarget(t)
    <3>1. a # other[t]
      BY <2>2 DEF ContractTarget, HoldsForWrite
    <3> QED BY <2>2, <3>1, ContractTargetSettles
  <2>3. CASE ClearReset(t)
    BY <2>3, ResetAlone
  <2>4. CASE ~ExpandNew(t) /\ ~ContractTarget(t) /\ ~ClearReset(t)
    BY <2>4, SettledStep DEF SettledSame
  <2> QED BY <2>1, <2>2, <2>3, <2>4
<1>3. ASSUME NEW u \in Thread, pc[u] = "split", home[u] = a
      PROVE  pc'[u] = "split" /\ home'[u] = a /\ moved'[u] = moved[u]
  <2>1. u # t
    BY <1>3 DEF HoldsForWrite
  <2> QED BY <1>3, <2>1, Frame
<1>4. ASSUME NEW r \in bucket'[a]
      PROVE  \/ Settled(r)' = a
             \/ \E u \in Thread : pc'[u] = "split" /\ home'[u] = a /\ r \in moved'[u]
  BY <1>1, <1>2, <1>3, <1>4 DEF PlaceOK
<1> QED BY <1>4 DEF PlaceOK, Settled, Sig

\* A bucket that t has locked.
LEMMA PlaceOwnQuiet ==
  ASSUME PInv, NEW t \in Thread, NEW a \in Addr, HoldsForWrite(t, a), pc[t] # "split",
         SettledSame, bucket'[a] \subseteq bucket[a] \cup {r \in Record : Settled(r) = a}
  PROVE  PlaceOK(a)'
<1>1. bucket[a] \subseteq Record
  BY DEF PInv, IInv, TypeOK
<1>2. ASSUME NEW r \in bucket'[a] PROVE Settled(r)' = a
  <2>1. r \in Record /\ Settled(r) = a
    BY <1>1, <1>2, HeldBucketSettled
  <2> QED BY <2>1 DEF SettledSame
<1> QED BY <1>2 DEF PlaceOK, Settled, Sig

LEMMA PlaceOwn ==
  ASSUME PInv, IInv', NEW t \in Thread, Call(t) \/ Step(t), NEW a \in Addr, HoldsForWrite(t, a)
  PROVE  PlaceOK(a)'
<1> IInv /\ TypeOK /\ BucketLockInv
  BY DEF PInv, IInv
<1>a. /\ bucket \in [Addr -> SUBSET Record] /\ pc \in [Thread -> PC]
      /\ home \in [Thread -> Addr] /\ other \in [Thread -> Addr]
      /\ moved \in [Thread -> SUBSET Record]
  BY DEF TypeOK
<1>b. pc[t] = "body" /\ op[t] \notin Finds => rec[t] \in Record /\ Settled(rec[t]) = a
  BY DEF PInv, IInv, CallInv, HomeInv, HomeOK, HoldsForWrite
<1>c. Inserts \cap Finds = {} /\ Deletes \cap Finds = {} /\ "Overwrite" \in Inserts
  BY DEF Inserts, Deletes, Finds
<1>d. pc[t] \in {"body", "expandNew", "split", "abandon", "merge", "contractTarget",
                 "clearLoad", "clearStore"}
  BY DEF HoldsForWrite
<1>e. ASSUME bucket'[a] \subseteq bucket[a] \cup {r \in Record : Settled(r) = a}, pc[t] # "split",
             ~ExpandNew(t), ~ContractTarget(t), ~ClearReset(t)
      PROVE  PlaceOK(a)'
  BY <1>e, SettledStep, PlaceOwnQuiet
<1>1. CASE ExpandNew(t)
  <2>1. /\ pc[t] = "expandNew" /\ pc'[t] = "split" /\ a = home[t] /\ home' = home
        /\ bucket' = bucket /\ moved'[t] = ToMove(t)
    BY <1>1, <1>a DEF ExpandNew, HoldsForWrite
  <2>2. ASSUME NEW r \in bucket[a] PROVE Settled(r)' = a \/ r \in ToMove(t)
    <3>1. r \in Record /\ Settled(r) = a
      BY <1>a, <2>1, HeldBucketSettled
    <3>2. Settled(r)' \in {home[t], other[t]}
      BY <1>1, <2>1, <3>1, ExpandNewSettles
    <3> QED BY <1>1, <2>1, <3>2, ExpandNewSettles
  <2> QED BY <2>1, <2>2 DEF PlaceOK, Settled, Sig
<1>2. CASE Split(t)
  <2>1. /\ pc[t] = "split" /\ a \in {home[t], other[t]}
        /\ bucket' = [bucket EXCEPT ![home[t]] = @ \ moved[t], ![other[t]] = moved[t]]
    BY <1>2 DEF Split, HoldsForWrite
  <2>2. SettledSame
    BY <1>2, <1>a, SettledKept DEF Split, Contracting
  <2>3. ASSUME NEW r \in bucket'[a] PROVE r \in Record /\ Settled(r) = a
    <3>1. CASE a = other[t]
      <4>1. r \in moved[t]
        BY <1>a, <2>1, <2>3, <3>1
      <4> QED BY <1>a, <2>1, <3>1, <4>1 DEF PInv, PlaceInv, MovedOK
    <3>2. CASE a # other[t]
      <4>1. a = home[t] /\ r \in bucket[a] /\ r \notin moved[t]
        BY <1>a, <2>1, <2>3, <3>2
      <4>2. ASSUME NEW u \in Thread, pc[u] = "split", home[u] = a PROVE u = t
        <5>1. HoldsForWrite(u, a)
          BY <4>2 DEF HoldsForWrite
        <5> QED BY <5>1, BucketExcludes
      <4> QED BY <1>a, <4>1, <4>2 DEF PInv, PlaceInv, PlaceOK
    <3> QED BY <3>1, <3>2
  <2> QED BY <2>2, <2>3 DEF PlaceOK, SettledSame, Settled, Sig
<1>3. CASE ContractTarget(t)
  <2>1. pc[t] = "contractTarget" /\ a = other[t] /\ bucket' = [bucket EXCEPT ![other[t]] = {}]
    BY <1>3 DEF ContractTarget, HoldsForWrite
  <2>2. bucket'[a] = {}
    BY <1>a, <2>1
  <2> QED BY <2>2 DEF PlaceOK
<1>4. CASE Merge(t)
  <2>1. pc[t] = "merge" /\ a = home[t] /\ bucket'[a] = bucket[a] \cup moved[t]
    BY <1>4, <1>a DEF Merge, HoldsForWrite
  <2>2. \A r \in moved[t] : r \in Record /\ Settled(r) = a
    BY <1>a, <2>1 DEF PInv, PlaceInv, MovedOK
  <2>3. ~ExpandNew(t) /\ ~ContractTarget(t) /\ ~ClearReset(t)
    BY <2>1 DEF ExpandNew, ContractTarget, ClearReset
  <2> QED BY <1>e, <2>1, <2>2, <2>3
<1>5. CASE InsertUpdate(t) \/ InsertNew(t)
  <2>1. pc[t] = "body" /\ op[t] \notin Finds /\ bucket'[a] \subseteq bucket[a] \cup {rec[t]}
    BY <1>5, <1>a, <1>c DEF InsertUpdate, InsertNew, HoldsForWrite
  <2>2. ~ExpandNew(t) /\ ~ContractTarget(t) /\ ~ClearReset(t)
    BY <2>1 DEF ExpandNew, ContractTarget, ClearReset
  <2> QED BY <1>b, <1>e, <2>1, <2>2
<1>6. CASE /\ ~ExpandNew(t) /\ ~Split(t) /\ ~ContractTarget(t) /\ ~Merge(t)
           /\ ~InsertUpdate(t) /\ ~InsertNew(t)
  <2>1. ~ClearReset(t)
    BY <1>d DEF ClearReset
  <2>2. bucket'[a] \subseteq bucket[a] /\ pc[t] # "split"
    <3>1. CASE Call(t)
      BY <3>1, <1>a, <1>d DEF Call
    <3>2. CASE LockTable(t)
      BY <3>2, <1>a, <1>d DEF LockTable
    <3>3. CASE LockTableWithoutDirectory(t)
      BY <3>3, <1>a, <1>d DEF LockTableWithoutDirectory
    <3>4. CASE LockBucket(t)
      BY <3>4, <1>a, <1>d DEF LockBucket
    <3>5. CASE InsertExisting(t)
      BY <3>5, <1>a, <1>d DEF InsertExisting
    <3>6. CASE InsertUpdate(t)
      BY <3>6, <1>6
    <3>7. CASE InsertNew(t)
      BY <3>7, <1>6
    <3>8. CASE InsertNoMemory(t)
      BY <3>8, <1>a, <1>d DEF InsertNoMemory
    <3>9. CASE DeleteFound(t)
      BY <3>9, <1>a, <1>d DEF DeleteFound
    <3>10. CASE DeleteMissing(t)
      BY <3>10, <1>a, <1>d DEF DeleteMissing
    <3>11. CASE FindKey(t)
      BY <3>11, <1>a, <1>d DEF FindKey
    <3>12. CASE FindOther(t)
      BY <3>12, <1>a, <1>d DEF FindOther
    <3>13. CASE Release(t)
      BY <3>13, <1>a, <1>d DEF Release
    <3>14. CASE Grow(t)
      BY <3>14, <1>a, <1>d DEF Grow
    <3>15. CASE ExpandTable(t)
      BY <3>15, <1>a, <1>d DEF ExpandTable
    <3>16. CASE ExpandNoDirectory(t)
      BY <3>16, <1>a, <1>d DEF ExpandNoDirectory
    <3>17. CASE ExpandNoSegment(t)
      BY <3>17, <1>a, <1>d DEF ExpandNoSegment
    <3>18. CASE ExpandOld(t)
      BY <3>18, <1>a, <1>d DEF ExpandOld
    <3>19. CASE ExpandNew(t)
      BY <3>19, <1>6
    <3>20. CASE ExpandNoClump(t)
      BY <3>20, <1>a, <1>d DEF ExpandNoClump
    <3>21. CASE Split(t)
      BY <3>21, <1>6
    <3>22. CASE Abandon(t)
      BY <3>22, <1>a, <1>d DEF Abandon
    <3>23. CASE Snapshot(t)
      BY <3>23, <1>a, <1>d DEF Snapshot
    <3>24. CASE Shrink(t)
      BY <3>24, <1>a, <1>d DEF Shrink
    <3>25. CASE ContractTable(t)
      BY <3>25, <1>a, <1>d DEF ContractTable
    <3>26. CASE ContractMinimal(t)
      BY <3>26, <1>a, <1>d DEF ContractMinimal
    <3>27. CASE ContractLast(t)
      BY <3>27, <1>a, <1>d DEF ContractLast
    <3>28. CASE ContractTarget(t)
      BY <3>28, <1>6
    <3>29. CASE ContractNoClump(t)
      BY <3>29, <1>a, <1>d DEF ContractNoClump
    <3>30. CASE Merge(t)
      BY <3>30, <1>6
    <3>31. CASE ClearNothing(t)
      BY <3>31, <1>a, <1>d DEF ClearNothing
    <3>32. CASE ClearTable(t)
      BY <3>32, <1>a, <1>d DEF ClearTable
    <3>33. CASE ClearBucket(t)
      BY <3>33, <1>a, <1>d DEF ClearBucket
    <3>34. CASE ClearRecord(t)
      BY <3>34, <1>a, <1>d DEF ClearRecord
    <3>35. CASE ClearCount(t)
      BY <3>35, <1>a, <1>d DEF ClearCount
    <3>36. CASE ClearNext(t)
      BY <3>36, <1>a, <1>d DEF ClearNext
    <3>37. CASE ClearReset(t)
      BY <3>37, <1>a, <1>d DEF ClearReset
    <3>38. CASE CheckInvalid(t)
      BY <3>38, <1>a, <1>d DEF CheckInvalid
    <3>39. CASE CheckTable(t)
      BY <3>39, <1>a, <1>d DEF CheckTable
    <3>40. CASE CheckBucket(t)
      BY <3>40, <1>a, <1>d DEF CheckBucket
    <3>41. CASE CheckCount(t)
      BY <3>41, <1>a, <1>d DEF CheckCount
    <3> QED BY <3>1, <3>2, <3>3, <3>4, <3>5, <3>6, <3>7, <3>8, <3>9, <3>10, <3>11, <3>12,
         <3>13, <3>14, <3>15, <3>16, <3>17, <3>18, <3>19, <3>20, <3>21, <3>22, <3>23,
         <3>24, <3>25, <3>26, <3>27, <3>28, <3>29, <3>30, <3>31, <3>32, <3>33, <3>34,
         <3>35, <3>36, <3>37, <3>38, <3>39, <3>40, <3>41
         DEF Step, Body, Expand, Contract, Clear, Check
  <2> QED BY <1>e, <1>6, <2>1, <2>2
<1> QED BY <1>1, <1>2, <1>3, <1>4, <1>5, <1>6

LEMMA MovedSelf ==
  ASSUME PInv, IInv', NEW t \in Thread, Call(t) \/ Step(t)
  PROVE  MovedOK(t)'
<1> IInv /\ TypeOK /\ BucketLockInv /\ MovedOK(t)
  BY DEF PInv, IInv, PlaceInv
<1>a. /\ bucket \in [Addr -> SUBSET Record] /\ pc \in [Thread -> PC]
      /\ home \in [Thread -> Addr] /\ other \in [Thread -> Addr]
      /\ moved \in [Thread -> SUBSET Record]
  BY DEF TypeOK
<1>b. ASSUME pc'[t] \notin {"split", "merge"}, moved'[t] = {}
      PROVE  MovedOK(t)'
  BY <1>b DEF MovedOK
<1>c. pc[t] \notin {"split", "merge"} => moved[t] = {}
  BY DEF MovedOK
<1>1. CASE Call(t)
  BY <1>1, <1>a, <1>b, <1>c DEF Call
<1>2. CASE LockTable(t)
  BY <1>2, <1>a, <1>b, <1>c DEF LockTable
<1>3. CASE LockTableWithoutDirectory(t)
  BY <1>3, <1>a, <1>b, <1>c DEF LockTableWithoutDirectory
<1>4. CASE LockBucket(t)
  BY <1>4, <1>a, <1>b, <1>c DEF LockBucket
<1>5. CASE InsertExisting(t)
  BY <1>5, <1>a, <1>b, <1>c DEF InsertExisting
<1>6. CASE InsertUpdate(t)
  BY <1>6, <1>a, <1>b, <1>c DEF InsertUpdate
<1>7. CASE InsertNew(t)
  BY <1>7, <1>a, <1>b, <1>c DEF InsertNew
<1>8. CASE InsertNoMemory(t)
  BY <1>8, <1>a, <1>b, <1>c DEF InsertNoMemory
<1>9. CASE DeleteFound(t)
  BY <1>9, <1>a, <1>b, <1>c DEF DeleteFound
<1>10. CASE DeleteMissing(t)
  BY <1>10, <1>a, <1>b, <1>c DEF DeleteMissing
<1>11. CASE FindKey(t)
  BY <1>11, <1>a, <1>b, <1>c DEF FindKey
<1>12. CASE FindOther(t)
  BY <1>12, <1>a, <1>b, <1>c DEF FindOther
<1>13. CASE Release(t)
  BY <1>13, <1>a, <1>b, <1>c DEF Release
<1>14. CASE Grow(t)
  BY <1>14, <1>a, <1>b, <1>c DEF Grow
<1>15. CASE ExpandTable(t)
  BY <1>15, <1>a, <1>b, <1>c DEF ExpandTable
<1>16. CASE ExpandNoDirectory(t)
  BY <1>16, <1>a, <1>b, <1>c DEF ExpandNoDirectory
<1>17. CASE ExpandNoSegment(t)
  BY <1>17, <1>a, <1>b, <1>c DEF ExpandNoSegment
<1>18. CASE ExpandOld(t)
  BY <1>18, <1>a, <1>b, <1>c DEF ExpandOld
<1>19. CASE ExpandNew(t)
  <2>1. /\ pc[t] = "expandNew" /\ pc'[t] = "split" /\ home' = home /\ other' = other
        /\ bucket' = bucket /\ moved'[t] = ToMove(t) /\ BucketFree(other[t])
    BY <1>19, <1>a DEF ExpandNew, LockBucketForWrite
  <2>2. ASSUME NEW r \in bucket[other[t]] PROVE FALSE
    <3>1. Settled(r) = other[t] /\ r \in Record
      BY <1>a, <2>1, HeldBucketSettled
    <3>2. HasDirectory /\ other[t] = SettledBuckets /\ SettledBuckets \in Nat
      BY <1>19, ExpandNewSettles
    <3> QED BY <3>1, <3>2, SettledFacts
  <2>3. ToMove(t) \subseteq bucket[home[t]] /\ \A r \in ToMove(t) : Settled(r)' = other[t]
    BY <1>19, ExpandNewSettles
  <2>4. moved'[t] \subseteq bucket'[home'[t]] /\ bucket'[other'[t]] = {}
    BY <2>1, <2>2, <2>3
  <2>5. \A r \in moved'[t] : Settled(r)' = other'[t]
    BY <2>1, <2>3
  <2> QED BY <2>1, <2>4, <2>5 DEF MovedOK, Settled, Sig
<1>20. CASE ExpandNoClump(t)
  BY <1>20, <1>a, <1>b, <1>c DEF ExpandNoClump
<1>21. CASE Split(t)
  BY <1>21, <1>a, <1>b, <1>c DEF Split
<1>22. CASE Abandon(t)
  BY <1>22, <1>a, <1>b, <1>c DEF Abandon
<1>23. CASE Snapshot(t)
  BY <1>23, <1>a, <1>b, <1>c DEF Snapshot
<1>24. CASE Shrink(t)
  BY <1>24, <1>a, <1>b, <1>c DEF Shrink
<1>25. CASE ContractTable(t)
  BY <1>25, <1>a, <1>b, <1>c DEF ContractTable
<1>26. CASE ContractMinimal(t)
  BY <1>26, <1>a, <1>b, <1>c DEF ContractMinimal
<1>27. CASE ContractLast(t)
  BY <1>27, <1>a, <1>b, <1>c DEF ContractLast
<1>28. CASE ContractTarget(t)
  <2>1. /\ pc[t] = "contractTarget" /\ pc'[t] = "merge" /\ home' = home
        /\ bucket' = [bucket EXCEPT ![other[t]] = {}] /\ moved'[t] = bucket[other[t]]
        /\ BucketFree(home[t])
    BY <1>28, <1>a DEF ContractTarget
  <2>2. home[t] # other[t]
    BY <1>28, ContractTargetSettles
  <2>3. \A r \in moved'[t] : r \in Record /\ Settled(r) = other[t]
    <3>1. HoldsForWrite(t, other[t])
      BY <2>1 DEF HoldsForWrite
    <3> QED BY <1>a, <2>1, <3>1, HeldBucketSettled
  <2>4. \A r \in bucket[home[t]] : Settled(r) = home[t]
    BY <1>a, <2>1, HeldBucketSettled
  <2>5. moved'[t] \cap bucket'[home'[t]] = {}
    <3>1. bucket'[home'[t]] = bucket[home[t]]
      BY <1>a, <2>1, <2>2
    <3> QED BY <2>2, <2>3, <2>4, <3>1
  <2>6. \A r \in moved'[t] : Settled(r)' = home'[t]
    BY <1>28, <2>1, <2>3, ContractTargetSettles
  <2> QED BY <2>1, <2>5, <2>6 DEF MovedOK, Settled, Sig
<1>29. CASE ContractNoClump(t)
  BY <1>29, <1>a, <1>b, <1>c DEF ContractNoClump
<1>30. CASE Merge(t)
  BY <1>30, <1>a, <1>b, <1>c DEF Merge
<1>31. CASE ClearNothing(t)
  BY <1>31, <1>a, <1>b, <1>c DEF ClearNothing
<1>32. CASE ClearTable(t)
  BY <1>32, <1>a, <1>b, <1>c DEF ClearTable
<1>33. CASE ClearBucket(t)
  BY <1>33, <1>a, <1>b, <1>c DEF ClearBucket
<1>34. CASE ClearRecord(t)
  BY <1>34, <1>a, <1>b, <1>c DEF ClearRecord
<1>35. CASE ClearCount(t)
  BY <1>35, <1>a, <1>b, <1>c DEF ClearCount
<1>36. CASE ClearNext(t)
  BY <1>36, <1>a, <1>b, <1>c DEF ClearNext
<1>37. CASE ClearReset(t)
  BY <1>37, <1>a, <1>b, <1>c DEF ClearReset
<1>38. CASE CheckInvalid(t)
  BY <1>38, <1>a, <1>b, <1>c DEF CheckInvalid
<1>39. CASE CheckTable(t)
  BY <1>39, <1>a, <1>b, <1>c DEF CheckTable
<1>40. CASE CheckBucket(t)
  BY <1>40, <1>a, <1>b, <1>c DEF CheckBucket
<1>41. CASE CheckCount(t)
  BY <1>41, <1>a, <1>b, <1>c DEF CheckCount
<1> QED BY <1>1, <1>2, <1>3, <1>4, <1>5, <1>6, <1>7, <1>8, <1>9, <1>10, <1>11, <1>12,
         <1>13, <1>14, <1>15, <1>16, <1>17, <1>18, <1>19, <1>20, <1>21, <1>22, <1>23,
         <1>24, <1>25, <1>26, <1>27, <1>28, <1>29, <1>30, <1>31, <1>32, <1>33, <1>34,
         <1>35, <1>36, <1>37, <1>38, <1>39, <1>40, <1>41
         DEF Step, Body, Expand, Contract, Clear, Check

LEMMA PlaceStep ==
  ASSUME PInv, IInv', NEW t \in Thread, Call(t) \/ Step(t)
  PROVE  PlaceInv'
<1>1. \A a \in Addr : PlaceOK(a)'
  BY PlaceOthers, PlaceOwn
<1>2. \A u \in Thread : MovedOK(u)'
  BY MovedOthers, MovedSelf
<1> QED BY <1>1, <1>2 DEF PlaceInv, Addr, AddrLimit

-----------------------------------------------------------------------------
(* Which records there are *)

LEMMA ContentsMembers ==
  ASSUME NEW r
  PROVE  r \in Contents <=> \/ \E a \in Addr : r \in bucket[a]
                            \/ \E t \in Thread : pc[t] = "merge" /\ r \in moved[t]
<1> DEFINE inBuckets == UNION {bucket[a] : a \in Addr}
           inMerges == UNION {moved[t] : t \in Merging}
<1>1. r \in inBuckets <=> \E a \in Addr : r \in bucket[a]
  OBVIOUS
<1>2. r \in inMerges <=> \E t \in Thread : pc[t] = "merge" /\ r \in moved[t]
  BY DEF Merging
<1>3. Contents = inBuckets \cup inMerges
  BY DEF Contents
<1> HIDE DEF inBuckets, inMerges
<1> QED BY <1>1, <1>2, <1>3

LEMMA ContentsMembersNext ==
  ASSUME NEW r
  PROVE  r \in Contents' <=> \/ \E a \in Addr : r \in bucket'[a]
                             \/ \E t \in Thread : pc'[t] = "merge" /\ r \in moved'[t]
<1> DEFINE inBuckets == UNION {bucket'[a] : a \in Addr}
           inMerges == UNION {moved'[t] : t \in Merging'}
<1>1. r \in inBuckets <=> \E a \in Addr : r \in bucket'[a]
  OBVIOUS
<1>2. r \in inMerges <=> \E t \in Thread : pc'[t] = "merge" /\ r \in moved'[t]
  BY DEF Merging
<1>3. Contents' = inBuckets \cup inMerges
  BY DEF Contents, Addr, AddrLimit
<1> HIDE DEF inBuckets, inMerges
<1> QED BY <1>1, <1>2, <1>3

LEMMA ContentsType ==
  ASSUME TypeOK
  PROVE  Contents \subseteq Record
BY ContentsMembers DEF TypeOK

\* Every record in the table is where it is settled, or on its way there.
LEMMA WhereRecordsAre ==
  ASSUME PInv, NEW r \in Contents
  PROVE  /\ r \in Record
         /\ \/ \E a \in Addr : r \in bucket[a] /\ Settled(r) = a
            \/ \E t \in Thread : /\ pc[t] = "split" /\ r \in moved[t]
                                 /\ r \in bucket[home[t]] /\ Settled(r) = other[t]
            \/ \E t \in Thread : pc[t] = "merge" /\ r \in moved[t] /\ Settled(r) = home[t]
<1>1. CASE \E a \in Addr : r \in bucket[a]
  <2> PICK a \in Addr : r \in bucket[a]
    BY <1>1
  <2> QED BY ContentsType DEF PInv, IInv, PlaceInv, PlaceOK, MovedOK
<1>2. CASE \E t \in Thread : pc[t] = "merge" /\ r \in moved[t]
  BY <1>2, ContentsType DEF PInv, IInv, PlaceInv, MovedOK
<1> QED BY <1>1, <1>2, ContentsMembers

LEMMA ContentsFrom ==
  ASSUME TypeOK, NEW t \in Thread, Call(t) \/ Step(t), NEW S, Contents \subseteq S,
         \A a \in Addr : bucket'[a] \subseteq S,
         pc'[t] = "merge" => moved'[t] \subseteq S
  PROVE  Contents' \subseteq S
<1> SUFFICES ASSUME NEW r \in Contents' PROVE r \in S
  OBVIOUS
<1>1. \/ \E a \in Addr : r \in bucket'[a]
      \/ \E u \in Thread : pc'[u] = "merge" /\ r \in moved'[u]
  BY ContentsMembersNext
<1>2. ASSUME NEW u \in Thread \ {t}, pc'[u] = "merge", r \in moved'[u] PROVE r \in Contents
  BY <1>2, Frame, ContentsMembers
<1> QED BY <1>1, <1>2

\* Only an insertion adds a record.
LEMMA ContentsStep ==
  ASSUME PInv, NEW t \in Thread, Call(t) \/ Step(t), ~InsertUpdate(t), ~InsertNew(t)
  PROVE  Contents' \subseteq Contents
<1> TypeOK
  BY DEF PInv, IInv
<1>a. /\ bucket \in [Addr -> SUBSET Record] /\ pc \in [Thread -> PC]
      /\ home \in [Thread -> Addr] /\ other \in [Thread -> Addr]
      /\ moved \in [Thread -> SUBSET Record]
  BY DEF TypeOK
<1>b. /\ \A a \in Addr : bucket[a] \subseteq Contents
      /\ pc[t] = "merge" => moved[t] \subseteq Contents
      /\ pc[t] = "split" => moved[t] \subseteq bucket[home[t]]
  BY ContentsMembers DEF PInv, PlaceInv, MovedOK
<1> SUFFICES /\ \A a \in Addr : bucket'[a] \subseteq Contents
             /\ pc'[t] = "merge" => moved'[t] \subseteq Contents
  BY ContentsFrom
<1>1. CASE Call(t)
  BY <1>1, <1>a, <1>b DEF Call
<1>2. CASE LockTable(t)
  BY <1>2, <1>a, <1>b DEF LockTable
<1>3. CASE LockTableWithoutDirectory(t)
  BY <1>3, <1>a, <1>b DEF LockTableWithoutDirectory
<1>4. CASE LockBucket(t)
  BY <1>4, <1>a, <1>b DEF LockBucket
<1>5. CASE InsertExisting(t)
  BY <1>5, <1>a, <1>b DEF InsertExisting
<1>6. CASE InsertUpdate(t)
  BY <1>6
<1>7. CASE InsertNew(t)
  BY <1>7
<1>8. CASE InsertNoMemory(t)
  BY <1>8, <1>a, <1>b DEF InsertNoMemory
<1>9. CASE DeleteFound(t)
  BY <1>9, <1>a, <1>b DEF DeleteFound
<1>10. CASE DeleteMissing(t)
  BY <1>10, <1>a, <1>b DEF DeleteMissing
<1>11. CASE FindKey(t)
  BY <1>11, <1>a, <1>b DEF FindKey
<1>12. CASE FindOther(t)
  BY <1>12, <1>a, <1>b DEF FindOther
<1>13. CASE Release(t)
  BY <1>13, <1>a, <1>b DEF Release
<1>14. CASE Grow(t)
  BY <1>14, <1>a, <1>b DEF Grow
<1>15. CASE ExpandTable(t)
  BY <1>15, <1>a, <1>b DEF ExpandTable
<1>16. CASE ExpandNoDirectory(t)
  BY <1>16, <1>a, <1>b DEF ExpandNoDirectory
<1>17. CASE ExpandNoSegment(t)
  BY <1>17, <1>a, <1>b DEF ExpandNoSegment
<1>18. CASE ExpandOld(t)
  BY <1>18, <1>a, <1>b DEF ExpandOld
<1>19. CASE ExpandNew(t)
  BY <1>19, <1>a, <1>b DEF ExpandNew
<1>20. CASE ExpandNoClump(t)
  BY <1>20, <1>a, <1>b DEF ExpandNoClump
<1>21. CASE Split(t)
  BY <1>21, <1>a, <1>b DEF Split
<1>22. CASE Abandon(t)
  BY <1>22, <1>a, <1>b DEF Abandon
<1>23. CASE Snapshot(t)
  BY <1>23, <1>a, <1>b DEF Snapshot
<1>24. CASE Shrink(t)
  BY <1>24, <1>a, <1>b DEF Shrink
<1>25. CASE ContractTable(t)
  BY <1>25, <1>a, <1>b DEF ContractTable
<1>26. CASE ContractMinimal(t)
  BY <1>26, <1>a, <1>b DEF ContractMinimal
<1>27. CASE ContractLast(t)
  BY <1>27, <1>a, <1>b DEF ContractLast
<1>28. CASE ContractTarget(t)
  BY <1>28, <1>a, <1>b DEF ContractTarget
<1>29. CASE ContractNoClump(t)
  BY <1>29, <1>a, <1>b DEF ContractNoClump
<1>30. CASE Merge(t)
  BY <1>30, <1>a, <1>b DEF Merge
<1>31. CASE ClearNothing(t)
  BY <1>31, <1>a, <1>b DEF ClearNothing
<1>32. CASE ClearTable(t)
  BY <1>32, <1>a, <1>b DEF ClearTable
<1>33. CASE ClearBucket(t)
  BY <1>33, <1>a, <1>b DEF ClearBucket
<1>34. CASE ClearRecord(t)
  BY <1>34, <1>a, <1>b DEF ClearRecord
<1>35. CASE ClearCount(t)
  BY <1>35, <1>a, <1>b DEF ClearCount
<1>36. CASE ClearNext(t)
  BY <1>36, <1>a, <1>b DEF ClearNext
<1>37. CASE ClearReset(t)
  BY <1>37, <1>a, <1>b DEF ClearReset
<1>38. CASE CheckInvalid(t)
  BY <1>38, <1>a, <1>b DEF CheckInvalid
<1>39. CASE CheckTable(t)
  BY <1>39, <1>a, <1>b DEF CheckTable
<1>40. CASE CheckBucket(t)
  BY <1>40, <1>a, <1>b DEF CheckBucket
<1>41. CASE CheckCount(t)
  BY <1>41, <1>a, <1>b DEF CheckCount
<1> QED BY <1>1, <1>2, <1>3, <1>4, <1>5, <1>6, <1>7, <1>8, <1>9, <1>10, <1>11, <1>12,
         <1>13, <1>14, <1>15, <1>16, <1>17, <1>18, <1>19, <1>20, <1>21, <1>22, <1>23,
         <1>24, <1>25, <1>26, <1>27, <1>28, <1>29, <1>30, <1>31, <1>32, <1>33, <1>34,
         <1>35, <1>36, <1>37, <1>38, <1>39, <1>40, <1>41
         DEF Step, Body, Expand, Contract, Clear, Check

LEMMA KeyStep ==
  ASSUME PInv, NEW t \in Thread, Call(t) \/ Step(t)
  PROVE  KeyInv'
<1> TypeOK /\ KeyInv
  BY DEF PInv, IInv
<1>a. /\ bucket \in [Addr -> SUBSET Record] /\ pc \in [Thread -> PC] /\ home[t] \in Addr
  BY DEF TypeOK
<1>1. CASE ~InsertUpdate(t) /\ ~InsertNew(t)
  BY <1>1, ContentsStep DEF KeyInv
<1>2. CASE InsertUpdate(t) \/ InsertNew(t)
  <2>1. pc[t] = "body" /\ op[t] \notin Finds /\ pc'[t] = "grow"
    BY <1>2, <1>a DEF InsertUpdate, InsertNew, Inserts, Finds
  <2>2. HoldsForWrite(t, home[t])
    BY <2>1 DEF HoldsForWrite
  <2>3. rec[t] \in Record /\ Settled(rec[t]) = home[t]
    BY <2>1 DEF PInv, IInv, CallInv, HomeInv, HomeOK
  <2>4. \A r \in SameKey(t) : r \in Record /\ KeyOf[r] = KeyOf[rec[t]] /\ r \in Contents
    BY <1>a, ContentsMembers DEF SameKey
  \* A record with the same key is in this bucket and nowhere else.
  <2>5. ASSUME NEW r \in Contents, KeyOf[r] = KeyOf[rec[t]]
        PROVE  /\ r \in SameKey(t) /\ \A a \in Addr : r \in bucket[a] => a = home[t]
               /\ \A u \in Thread : pc[u] = "merge" => r \notin moved[u]
    <3>1. r \in Record /\ Settled(r) = home[t]
      BY <2>3, <2>5, ContentsType DEF Settled, Sig
    <3>2. /\ \A a \in Addr : r \in bucket[a] => a = home[t]
          /\ \A u \in Thread : pc[u] = "merge" => r \notin moved[u]
      BY <1>a, <2>1, <2>2, <3>1, HeldRecord
    <3>3. r \in bucket[home[t]]
      BY <3>2, ContentsMembers
    <3> QED BY <2>5, <3>2, <3>3 DEF SameKey
  <2>6. PICK old : /\ bucket' = [bucket EXCEPT ![home[t]] = (@ \ {old}) \cup {rec[t]}]
                   /\ \A r \in SameKey(t) : r = old
    <3>1. CASE InsertUpdate(t)
      <4>1. PICK old \in SameKey(t) : bucket' = [bucket EXCEPT ![home[t]] = (@ \ {old}) \cup {rec[t]}]
        BY <3>1 DEF InsertUpdate
      <4>2. \A r \in SameKey(t) : r = old
        BY <2>4, <4>1 DEF KeyInv
      <4> QED BY <4>1, <4>2
    <3>2. CASE InsertNew(t)
      <4>1. bucket[home[t]] \ {rec[t]} = bucket[home[t]]
        BY <3>2 DEF InsertNew, SameKey
      <4>2. bucket' = [bucket EXCEPT ![home[t]] = (bucket[home[t]] \ {rec[t]}) \cup {rec[t]}]
        BY <3>2, <4>1 DEF InsertNew
      <4> QED BY <3>2, <4>2 DEF InsertNew
    <3> QED BY <1>2, <3>1, <3>2
  <2>7. Contents' \subseteq {r \in Contents : KeyOf[r] # KeyOf[rec[t]]} \cup {rec[t]}
    <3> SUFFICES ASSUME NEW r \in Contents', r # rec[t]
                 PROVE  r \in Contents /\ KeyOf[r] # KeyOf[rec[t]]
      OBVIOUS
    <3>1. \/ \E a \in Addr : r \in bucket'[a]
          \/ \E u \in Thread : pc'[u] = "merge" /\ r \in moved'[u]
      BY ContentsMembersNext
    <3>2. CASE \E a \in Addr : r \in bucket'[a]
      <4> PICK a \in Addr : r \in bucket'[a]
        BY <3>2
      <4>1. r \in bucket[a] /\ (a = home[t] => r # old)
        BY <1>a, <2>6
      <4>2. r \in Contents
        BY <4>1, ContentsMembers
      <4> QED BY <2>5, <2>6, <4>1, <4>2
    <3>3. CASE \E u \in Thread : pc'[u] = "merge" /\ r \in moved'[u]
      <4> PICK u \in Thread : pc'[u] = "merge" /\ r \in moved'[u]
        BY <3>3
      <4>1. u # t
        BY <2>1
      <4>2. pc[u] = "merge" /\ r \in moved[u]
        BY <4>1, Frame
      <4>3. r \in Contents
        BY <4>2, ContentsMembers
      <4> QED BY <2>5, <4>2, <4>3
    <3> QED BY <3>1, <3>2, <3>3
  <2> QED BY <2>7 DEF KeyInv
<1> QED BY <1>1, <1>2

-----------------------------------------------------------------------------
(* The invariant *)

LEMMA InitPInv ==
  ASSUME Init
  PROVE  PInv
<1>1. IInv
  BY InitInv
<1>2. /\ pc = [t \in Thread |-> "idle"] /\ moved = [t \in Thread |-> {}]
      /\ bktWriter = [a \in Addr |-> NoThread] /\ bktReaders = [a \in Addr |-> {}]
  BY DEF Init
<1>3. BucketLockInv
  BY <1>2, ThreadAssumption DEF BucketLockInv, HoldsForWrite, HoldsForRead
<1>4. HomeInv /\ ScanInv
  BY <1>2 DEF HomeInv, HomeOK, ScanInv, ScanOK, Expanding, Contracting
<1>5. NoTableInv
  <2>1. InitialDirSize(InitialBuckets, SegBits, MinDirSize, MaxLevel) \in Nat \ {0}
    BY SizeAssumption, NewTable
  <2> QED BY <2>1 DEF Init, NoTableInv, HasDirectory
<1>6. ASSUME NEW a \in Addr, NEW r \in bucket[a] PROVE r \in InitialRecords /\ Settled(r) = a
  <2>1. ~Contraction
    BY <1>2 DEF Contraction, Contracting
  <2>2. Settled(r) = BucketAddress(Sig(r), dwBktAddrMask0, iExpansionIdx)
    BY <2>1 DEF Settled, SettledIdx
  <2> QED BY <1>6, <2>2 DEF Init
<1>7. PlaceInv
  BY <1>2, <1>6 DEF PlaceInv, PlaceOK, MovedOK
<1>8. KeyInv
  <2>1. \A r \in Contents : r \in InitialRecords
    BY <1>2, <1>6, ContentsMembers
  <2> QED BY <2>1, WorkloadAssumption DEF KeyInv
<1> QED BY <1>1, <1>3, <1>4, <1>5, <1>7, <1>8 DEF PInv

LEMMA StepPInv ==
  ASSUME PInv, [Next]_vars
  PROVE  PInv'
<1> IInv /\ IInv'
  BY StepInv DEF PInv
<1>1. CASE UNCHANGED vars
  <2>1. BucketLockInv'
    BY <1>1 DEF PInv, BucketLockInv, HoldsForWrite, HoldsForRead
  <2>2. HomeInv' /\ ScanInv' /\ NoTableInv'
    BY <1>1 DEF PInv, HomeInv, HomeOK, ScanInv, ScanOK, NoTableInv, BucketFree, NewBucket,
                Settled, SettledIdx, SettledBuckets, Contraction, Sig, IsUsable, HasDirectory
  <2>3. PlaceInv' /\ KeyInv'
    BY <1>1 DEF PInv, PlaceInv, PlaceOK, MovedOK, KeyInv, Contents, Merging,
                Settled, SettledIdx, Contraction, Sig
  <2> QED BY <2>1, <2>2, <2>3 DEF PInv
<1>2. ASSUME NEW t \in Thread, Call(t) \/ Step(t)
      PROVE  PInv'
  <2>1. BucketLockInv' /\ HomeInv' /\ ScanInv' /\ NoTableInv' /\ PlaceInv' /\ KeyInv'
    BY <1>2, BucketLockStep, HomeStep, ScanStep, NoTableStep, PlaceStep, KeyStep
  <2> QED BY <2>1 DEF PInv
<1> QED BY <1>1, <1>2 DEF Next, Done

LEMMA PlacementInvariance == Spec => []PInv
<1>1. Init => PInv
  BY InitPInv
<1>2. PInv /\ [Next]_vars => PInv'
  BY StepPInv
<1> QED BY <1>1, <1>2, PTL DEF Spec

-----------------------------------------------------------------------------
(* What follows *)

\* A bucket address determines the level and the bucket that it was split from.
LEMMA SplitOfOneBucket ==
  ASSUME NEW l \in 0 .. MaxLevel, NEW n \in 0 .. MaxLevel, NEW h \in Nat, NEW i \in Nat,
         h < 2 ^ l, i < 2 ^ n, 2 ^ l + h = 2 ^ n + i
  PROVE  h = i
<1> DEFINE L == 2 ^ l
           N == 2 ^ n
<1>1. L \in Nat /\ N \in Nat /\ h < L /\ i < N /\ L + h = N + i
  BY Powers
<1>2. ASSUME l < n PROVE 2 * L <= N
  <2>1. l + 1 \in 0 .. n
    BY <1>2, SizeFacts
  <2> QED BY <2>1, Powers
<1>3. ASSUME n < l PROVE 2 * N <= L
  <2>1. n + 1 \in 0 .. l
    BY <1>3, SizeFacts
  <2> QED BY <2>1, Powers
<1>4. l = n => L = N
  OBVIOUS
<1>5. l < n \/ n < l \/ l = n
  BY SizeFacts
<1> HIDE DEF L, N
<1> QED BY <1>1, <1>2, <1>3, <1>4, <1>5

\* A record's address is its settled place, unless its bucket is given up.
LEMMA AddressOrGivenUp ==
  ASSUME PInv, HasDirectory, NEW r \in Record
  PROVE  \/ Place(r) = Settled(r)
         \/ /\ GivenUp(Settled(r)) /\ Settled(r) = 2 ^ nLevel + iExpansionIdx
            /\ Place(r) = iExpansionIdx
<1> IInv /\ TableLockInv
  BY DEF PInv, IInv
<1>1. CASE ~Contraction
  BY <1>1 DEF Settled, SettledIdx, Place
<1>2. CASE Contraction
  <2> PICK t \in Thread : pc[t] \in Contracting
    BY <1>2 DEF Contraction
  <2>1. tblWriter = t /\ tblWriter # NoThread
    BY ThreadAssumption DEF TableLockInv, Writing, Contracting
  <2>2. other[t] = 2 ^ nLevel + iExpansionIdx
    BY DEF PInv, HomeInv, HomeOK, NewBucket
  <2> DEFINE p == 2 ^ nLevel
  <2>3. p \in Nat \ {0} /\ iExpansionIdx \in 0 .. p - 1 /\ dwBktAddrMask0 = p - 1
    BY AddressFacts
  <2>4. /\ Place(r) = BucketAddress(Sig(r), p - 1, iExpansionIdx)
        /\ Settled(r) = BucketAddress(Sig(r), p - 1, iExpansionIdx + 1)
    BY <1>2, <2>3 DEF Place, Settled, SettledIdx
  <2>5. other[t] = p + iExpansionIdx
    BY <2>2
  <2> HIDE DEF p
  <2>6. Place(r) = Settled(r) \/ (Place(r) = iExpansionIdx /\ Settled(r) \in {iExpansionIdx, other[t]})
    BY <2>3, <2>4, <2>5, RecordFacts, SplitMovesOneBucket
  <2>7. GivenUp(other[t])
    BY <2>1 DEF GivenUp, Contracting
  <2> QED BY <2>2, <2>6, <2>7
<1> QED BY <1>1, <1>2

LEMMA DirectoryWithRecords ==
  ASSUME PInv
  PROVE  /\ \A a \in Addr : bucket[a] # {} => HasDirectory
         /\ \A t \in Thread : moved[t] # {} => HasDirectory
BY DEF PInv, NoTableInv, PlaceInv, MovedOK, Outside

LEMMA Reachable ==
  ASSUME PInv
  PROVE  RecordsReachable
<1> IInv /\ TypeOK /\ BucketLockInv
  BY DEF PInv, IInv
\* A split holds both its buckets, and one of them is where a search looks.
<1>1. ASSUME NEW t \in Thread, pc[t] = "split", NEW r \in moved[t]
      PROVE  bktWriter[Place(r)] = t /\ bktWriter[home[t]] = t
  <2>1. r \in Record /\ home[t] \in Addr /\ other[t] \in Addr /\ nLevel \in 0 .. MaxLevel
    BY DEF TypeOK
  <2>2. Settled(r) = other[t] /\ HasDirectory
    BY <1>1, DirectoryWithRecords DEF PInv, PlaceInv, MovedOK
  <2>3. bktWriter[home[t]] = t /\ bktWriter[other[t]] = t
    BY <1>1, <2>1 DEF BucketLockInv, HoldsForWrite
  <2>4. CASE Place(r) = Settled(r)
    BY <2>2, <2>3, <2>4
  <2>5. CASE Settled(r) = 2 ^ nLevel + iExpansionIdx /\ Place(r) = iExpansionIdx
    <3>1. PICK l \in 0 .. MaxLevel : home[t] < 2 ^ l /\ other[t] = 2 ^ l + home[t]
      BY <1>1 DEF PInv, HomeInv, HomeOK
    <3>2. iExpansionIdx \in Nat /\ iExpansionIdx < 2 ^ nLevel /\ home[t] \in Nat
      BY <2>1, <2>2, AddressFacts, SizeFacts DEF Addr
    <3>3. home[t] = iExpansionIdx
      BY <2>1, <2>2, <2>5, <3>1, <3>2, SplitOfOneBucket
    <3> QED BY <2>3, <2>5, <3>3
  <2> QED BY <2>1, <2>2, <2>4, <2>5, AddressOrGivenUp
<1>2. ASSUME NEW a \in Addr, NEW r \in bucket[a]
      PROVE  \/ Place(r) = a
             \/ bktWriter[Place(r)] # NoThread /\ bktWriter[Place(r)] = bktWriter[a]
             \/ GivenUp(a)
  <2>1. r \in Record /\ HasDirectory
    BY DirectoryWithRecords DEF TypeOK
  <2>2. CASE Settled(r) = a
    BY <2>1, <2>2, AddressOrGivenUp
  <2>3. CASE Settled(r) # a
    <3>1. PICK t \in Thread : pc[t] = "split" /\ home[t] = a /\ r \in moved[t]
      BY <2>3 DEF PInv, PlaceInv, PlaceOK
    <3> QED BY <1>1, <3>1, ThreadAssumption
  <2> QED BY <2>2, <2>3
<1>3. ASSUME NEW t \in Thread, NEW r \in moved[t]
      PROVE  bktWriter[Place(r)] = t \/ GivenUp(home[t])
  <2>1. r \in Record /\ HasDirectory /\ home[t] \in Addr
    BY DirectoryWithRecords DEF TypeOK
  <2>2. CASE pc[t] = "split"
    BY <1>1, <2>2
  <2>3. CASE pc[t] = "merge"
    <3>1. Settled(r) = home[t] /\ bktWriter[home[t]] = t
      BY <2>1, <2>3 DEF PInv, PlaceInv, MovedOK, BucketLockInv, HoldsForWrite
    <3> QED BY <2>1, <3>1, AddressOrGivenUp
  <2> QED BY <2>2, <2>3 DEF PInv, PlaceInv, MovedOK
<1> QED BY <1>2, <1>3 DEF RecordsReachable

(***************************************************************************)
(* In a table of any size, with any threads inserting, deleting, clearing, *)
(* splitting and merging, a search under the lock of the bucket that       *)
(* _FindBucket found sees every record of that bucket's address.           *)
(***************************************************************************)
THEOREM RecordsAlwaysReachable == Spec => []RecordsReachable
<1>1. PInv => RecordsReachable
  BY Reachable
<1> QED BY <1>1, PlacementInvariance, PTL

(***************************************************************************)
(* The bucket locks work: whoever works on the chain of a bucket holds its *)
(* lock, one writer or any readers, from the step that finds the bucket    *)
(* under the table lock to the one that leaves it.                         *)
(***************************************************************************)
THEOREM BucketLocksHeld == Spec => []BucketLockInv
<1>1. PInv => BucketLockInv
  BY DEF PInv
<1> QED BY <1>1, PlacementInvariance, PTL

-----------------------------------------------------------------------------
(* No record is in two places *)

LEMMA OnePlace ==
  ASSUME PInv, NEW r
  PROVE  /\ \A a, b \in Addr : r \in bucket[a] /\ r \in bucket[b] => a = b
         /\ \A a \in Addr, t \in Merging : r \in bucket[a] => r \notin moved[t]
         /\ \A t, u \in Merging : r \in moved[t] /\ r \in moved[u] => t = u
<1> TypeOK /\ BucketLockInv /\ PlaceInv
  BY DEF PInv, IInv
<1>a. \A t \in Thread : home[t] \in Addr /\ other[t] \in Addr
  BY DEF TypeOK
\* A split or a merge holds the bucket that the records it moves go to.
<1>b. ASSUME NEW t \in Thread, NEW u \in Thread, NEW a \in Addr,
             HoldsForWrite(t, a), HoldsForWrite(u, a)
      PROVE  t = u
  BY <1>b, BucketExcludes
<1>c. ASSUME NEW t \in Thread, pc[t] = "split", r \in moved[t]
      PROVE  /\ HoldsForWrite(t, other[t]) /\ Settled(r) = other[t] /\ bucket[other[t]] = {}
  BY <1>c DEF PlaceInv, MovedOK, HoldsForWrite
<1>d. ASSUME NEW t \in Merging, r \in moved[t]
      PROVE  /\ t \in Thread /\ pc[t] = "merge" /\ HoldsForWrite(t, home[t])
             /\ Settled(r) = home[t] /\ r \notin bucket[home[t]]
  BY <1>d DEF PlaceInv, MovedOK, HoldsForWrite, Merging
<1>e. ASSUME NEW a \in Addr, r \in bucket[a]
      PROVE  \/ Settled(r) = a
             \/ \E t \in Thread : pc[t] = "split" /\ home[t] = a /\ r \in moved[t]
  BY <1>e DEF PlaceInv, PlaceOK
<1>1. ASSUME NEW a \in Addr, NEW b \in Addr, r \in bucket[a], r \in bucket[b] PROVE a = b
  <2>1. CASE Settled(r) = a
    BY <1>1, <1>c, <1>e, <2>1
  <2>2. CASE Settled(r) = b
    BY <1>1, <1>c, <1>e, <2>2
  <2>3. CASE Settled(r) # a /\ Settled(r) # b
    <3>1. PICK t \in Thread : pc[t] = "split" /\ home[t] = a /\ r \in moved[t]
      BY <1>1, <1>e, <2>3
    <3>2. PICK u \in Thread : pc[u] = "split" /\ home[u] = b /\ r \in moved[u]
      BY <1>1, <1>e, <2>3
    <3>3. t = u
      BY <1>a, <1>b, <1>c, <3>1, <3>2
    <3> QED BY <3>1, <3>2, <3>3
  <2> QED BY <2>1, <2>2, <2>3
<1>2. ASSUME NEW a \in Addr, NEW t \in Merging, r \in bucket[a], r \in moved[t] PROVE FALSE
  <2>1. CASE Settled(r) = a
    BY <1>2, <1>d, <2>1
  <2>2. CASE Settled(r) # a
    <3>1. PICK u \in Thread : pc[u] = "split" /\ home[u] = a /\ r \in moved[u]
      BY <1>2, <1>e, <2>2
    <3>2. t = u
      BY <1>2, <1>a, <1>b, <1>c, <1>d, <3>1
    <3> QED BY <1>2, <1>d, <3>1, <3>2
  <2> QED BY <2>1, <2>2
<1>3. ASSUME NEW t \in Merging, NEW u \in Merging, r \in moved[t], r \in moved[u] PROVE t = u
  BY <1>3, <1>a, <1>b, <1>d
<1> QED BY <1>1, <1>2, <1>3

LEMMA OneChain ==
  ASSUME PInv, NEW r \in Contents
  PROVE  Chains(r) = 1
<1> DEFINE A == {a \in Addr : r \in bucket[a]}
           M == {t \in Merging : r \in moved[t]}
<1>0. Chains(r) = Cardinality(A) + Cardinality(M)
  BY DEF Chains
<1>1. /\ \A a, b \in A : a = b
      /\ A # {} => M = {}
      /\ \A t, u \in M : t = u
  BY OnePlace
<1>2. A # {} \/ M # {}
  BY ContentsMembers DEF Merging
<1> HIDE DEF A, M
<1>3. CASE A # {}
  <2> PICK a : a \in A
    BY <1>3
  <2>1. A = {a} /\ M = {}
    BY <1>1, <1>3
  <2>2. Cardinality(A) = 1
    BY <2>1, FS_Singleton
  <2>3. Cardinality(M) = 0
    BY <2>1, FS_EmptySet
  <2> QED BY <1>0, <2>2, <2>3
<1>4. CASE A = {}
  <2> PICK t : t \in M
    BY <1>2, <1>4
  <2>1. M = {t}
    BY <1>1
  <2>2. Cardinality(M) = 1
    BY <2>1, FS_Singleton
  <2>3. Cardinality(A) = 0
    BY <1>4, FS_EmptySet
  <2> QED BY <1>0, <2>2, <2>3
<1> QED BY <1>3, <1>4

(***************************************************************************)
(* No two records of a table ever have the same key, and no record is      *)
(* lost to a second chain or doubled by a split, a merge or an overwrite,  *)
(* whatever the threads do and whichever allocations fail.                 *)
(***************************************************************************)
THEOREM KeysAlwaysUnique == Spec => []KeysUnique
<1>1. PInv => KeysUnique
  BY OneChain DEF PInv, KeyInv, KeysUnique
<1> QED BY <1>1, PlacementInvariance, PTL

-----------------------------------------------------------------------------
(* Locked buckets exist *)

NoAbandon == \A t \in Thread : pc[t] # "abandon"

LEMMA NoAbandonStep ==
  ASSUME TypeOK, "clump" \notin MayFail, NoAbandon, NEW t \in Thread, Call(t) \/ Step(t)
  PROVE  NoAbandon'
<1>a. pc \in [Thread -> PC]
  BY DEF TypeOK
<1>b. \A u \in Thread \ {t} : pc'[u] # "abandon"
  BY Frame DEF NoAbandon
<1> SUFFICES pc'[t] # "abandon"
  BY <1>b DEF NoAbandon
<1>1. CASE Call(t)
  BY <1>1, <1>a DEF Call
<1>2. CASE LockTable(t)
  BY <1>2, <1>a DEF LockTable
<1>3. CASE LockTableWithoutDirectory(t)
  BY <1>3, <1>a DEF LockTableWithoutDirectory
<1>4. CASE LockBucket(t)
  BY <1>4, <1>a DEF LockBucket
<1>5. CASE InsertExisting(t)
  BY <1>5, <1>a DEF InsertExisting
<1>6. CASE InsertUpdate(t)
  BY <1>6, <1>a DEF InsertUpdate
<1>7. CASE InsertNew(t)
  BY <1>7, <1>a DEF InsertNew
<1>8. CASE InsertNoMemory(t)
  BY <1>8, <1>a DEF InsertNoMemory
<1>9. CASE DeleteFound(t)
  BY <1>9, <1>a DEF DeleteFound
<1>10. CASE DeleteMissing(t)
  BY <1>10, <1>a DEF DeleteMissing
<1>11. CASE FindKey(t)
  BY <1>11, <1>a DEF FindKey
<1>12. CASE FindOther(t)
  BY <1>12, <1>a DEF FindOther
<1>13. CASE Release(t)
  BY <1>13, <1>a DEF Release
<1>14. CASE Grow(t)
  BY <1>14, <1>a DEF Grow
<1>15. CASE ExpandTable(t)
  BY <1>15, <1>a DEF ExpandTable
<1>16. CASE ExpandNoDirectory(t)
  BY <1>16, <1>a DEF ExpandNoDirectory
<1>17. CASE ExpandNoSegment(t)
  BY <1>17, <1>a DEF ExpandNoSegment
<1>18. CASE ExpandOld(t)
  BY <1>18, <1>a DEF ExpandOld
<1>19. CASE ExpandNew(t)
  BY <1>19, <1>a DEF ExpandNew
<1>20. CASE ExpandNoClump(t)
  BY <1>20 DEF ExpandNoClump, AllocationFails
<1>21. CASE Split(t)
  BY <1>21, <1>a DEF Split
<1>22. CASE Abandon(t)
  BY <1>22, <1>a DEF Abandon
<1>23. CASE Snapshot(t)
  BY <1>23, <1>a DEF Snapshot
<1>24. CASE Shrink(t)
  BY <1>24, <1>a DEF Shrink
<1>25. CASE ContractTable(t)
  BY <1>25, <1>a DEF ContractTable
<1>26. CASE ContractMinimal(t)
  BY <1>26, <1>a DEF ContractMinimal
<1>27. CASE ContractLast(t)
  BY <1>27, <1>a DEF ContractLast
<1>28. CASE ContractTarget(t)
  BY <1>28, <1>a DEF ContractTarget
<1>29. CASE ContractNoClump(t)
  BY <1>29, <1>a DEF ContractNoClump
<1>30. CASE Merge(t)
  BY <1>30, <1>a DEF Merge
<1>31. CASE ClearNothing(t)
  BY <1>31, <1>a DEF ClearNothing
<1>32. CASE ClearTable(t)
  BY <1>32, <1>a DEF ClearTable
<1>33. CASE ClearBucket(t)
  BY <1>33, <1>a DEF ClearBucket
<1>34. CASE ClearRecord(t)
  BY <1>34, <1>a DEF ClearRecord
<1>35. CASE ClearCount(t)
  BY <1>35, <1>a DEF ClearCount
<1>36. CASE ClearNext(t)
  BY <1>36, <1>a DEF ClearNext
<1>37. CASE ClearReset(t)
  BY <1>37, <1>a DEF ClearReset
<1>38. CASE CheckInvalid(t)
  BY <1>38, <1>a DEF CheckInvalid
<1>39. CASE CheckTable(t)
  BY <1>39, <1>a DEF CheckTable
<1>40. CASE CheckBucket(t)
  BY <1>40, <1>a DEF CheckBucket
<1>41. CASE CheckCount(t)
  BY <1>41, <1>a DEF CheckCount
<1> QED BY <1>1, <1>2, <1>3, <1>4, <1>5, <1>6, <1>7, <1>8, <1>9, <1>10, <1>11, <1>12,
         <1>13, <1>14, <1>15, <1>16, <1>17, <1>18, <1>19, <1>20, <1>21, <1>22, <1>23,
         <1>24, <1>25, <1>26, <1>27, <1>28, <1>29, <1>30, <1>31, <1>32, <1>33, <1>34,
         <1>35, <1>36, <1>37, <1>38, <1>39, <1>40, <1>41
         DEF Step, Body, Expand, Contract, Clear, Check

LEMMA LockedExist ==
  ASSUME PInv, NoAbandon
  PROVE  LockedBucketsExist
<1> IInv /\ TypeOK /\ BucketLockInv /\ TableLockInv
  BY DEF PInv, IInv
\* Every locked bucket belongs to the table, or is the one being given up.
<1>1. ASSUME NEW t \in Thread, NEW a \in Addr, HoldsForWrite(t, a) \/ HoldsForRead(t, a)
      PROVE  /\ HasDirectory
             /\ a < SettledBuckets \/ a < cActiveBuckets
  <2>1. HasDirectory
    BY <1>1 DEF PInv, NoTableInv, Outside, HoldsForWrite, HoldsForRead
  <2>2. a \in Nat /\ pc[t] # "abandon"
    BY SizeFacts DEF Addr, NoAbandon
  <2>3. CASE pc[t] = "body"
    <3>1. rec[t] \in Record /\ a = Settled(rec[t])
      BY <1>1, <2>3 DEF IInv, CallInv, PInv, HomeInv, HomeOK, HoldsForWrite, HoldsForRead
    <3> QED BY <2>1, <3>1, SettledFacts
  <2>4. CASE pc[t] = "expandNew" /\ a = home[t]
    <3>1. a = iExpansionIdx
      BY <2>4 DEF PInv, HomeInv, HomeOK
    <3> QED BY <2>1, <3>1, SettledFacts, AddressFacts
  <2>5. CASE pc[t] \in {"split", "merge"}
    <3>1. a \in {home[t], other[t]} /\ (pc[t] = "merge" => a = home[t])
      BY <1>1, <2>5 DEF HoldsForWrite, HoldsForRead
    <3>2. home[t] < SettledBuckets /\ (pc[t] = "split" => other[t] < SettledBuckets)
      BY <2>5 DEF PInv, HomeInv, HomeOK
    <3> QED BY <2>1, <2>5, <3>1, <3>2
  <2>6. CASE pc[t] = "contractTarget" /\ a = other[t]
    <3>1. a = 2 ^ nLevel + iExpansionIdx /\ Contraction
      BY <2>6 DEF PInv, HomeInv, HomeOK, NewBucket, Contracting, Contraction
    <3>2. SettledBuckets = 2 ^ nLevel + SettledIdx /\ SettledIdx = iExpansionIdx + 1
      BY <2>1, <3>1, SettledFacts
    <3> QED BY <2>1, <2>2, <3>1, <3>2, AddressFacts
  <2>7. CASE pc[t] \in {"clearLoad", "clearStore"} /\ a = scan[t]
    BY <2>1, <2>7 DEF PInv, ScanInv, ScanOK
  <2> QED BY <1>1, <2>1, <2>2, <2>3, <2>4, <2>5, <2>6, <2>7 DEF HoldsForWrite, HoldsForRead
<1>2. ASSUME HasDirectory
      PROVE  \/ SettledBuckets <= cActiveBuckets
             \/ /\ SettledBuckets = cActiveBuckets + 1 /\ Segment(cActiveBuckets) \in segs
                /\ \E u \in Thread : pc[u] = "contractTarget"
  <2>1. /\ 2 ^ nLevel \in Nat /\ iExpansionIdx \in Nat
        /\ cActiveBuckets = 2 ^ nLevel + iExpansionIdx + BucketInTransit
        /\ SettledBuckets = 2 ^ nLevel + SettledIdx /\ BucketInTransit \in {0, 1}
    BY <1>2, AddressFacts, SettledFacts DEF BucketInTransit
  <2>2. CASE ~Contraction
    <3>1. SettledIdx = iExpansionIdx
      BY <2>2 DEF SettledIdx
    <3> QED BY <2>1, <3>1
  <2>3. CASE Contraction
    <3>1. SettledIdx = iExpansionIdx + 1
      BY <2>3 DEF SettledIdx
    <3> PICK u \in Thread : pc[u] \in Contracting
      BY <2>3 DEF Contraction
    <3>2. CASE pc[u] = "contractTarget"
      <4>1. Segment(cActiveBuckets) \in segs
        BY <3>2 DEF IInv, ResizeInv
      <4> QED BY <2>1, <3>1, <3>2, <4>1
    <3>3. CASE pc[u] = "contractLast"
      <4>1. BucketInTransit = 1
        BY <3>3, InTransit DEF Transit
      <4> QED BY <2>1, <3>1, <4>1
    <3> QED BY <3>2, <3>3 DEF Contracting
  <2> QED BY <2>2, <2>3
<1>3. ASSUME NEW a \in Addr, ~BucketFree(a)
      PROVE  \E t \in Thread : HoldsForWrite(t, a) \/ HoldsForRead(t, a)
  BY <1>3 DEF BucketFree, BucketLockInv, TypeOK
<1>4. ASSUME NEW a \in Addr, ~BucketFree(a) PROVE Segment(a) \in segs
  <2> PICK t \in Thread : HoldsForWrite(t, a) \/ HoldsForRead(t, a)
    BY <1>3, <1>4
  <2>1. HasDirectory /\ (a < SettledBuckets \/ a < cActiveBuckets)
    BY <1>1
  <2>2. a \in Nat /\ cActiveBuckets \in Nat /\ SettledBuckets \in Nat
    BY <2>1, SizeFacts, SettledFacts, AddressFacts DEF Addr
  <2>3. CASE a < cActiveBuckets
    BY <2>1, <2>2, <2>3, AddressFacts
  <2>4. CASE ~(a < cActiveBuckets)
    <3>1. SettledBuckets = cActiveBuckets + 1 /\ Segment(cActiveBuckets) \in segs
      BY <1>2, <2>1, <2>2, <2>4
    <3>2. a = cActiveBuckets
      BY <2>1, <2>2, <2>4, <3>1
    <3> QED BY <3>1, <3>2
  <2> QED BY <2>3, <2>4
<1>5. ASSUME NEW t \in Thread, pc[t] = "clearBucket", scan[t] = cActiveBuckets, NEW a \in Addr
      PROVE  BucketFree(a)
  <2> SUFFICES ASSUME ~BucketFree(a) PROVE FALSE
    OBVIOUS
  <2> PICK u \in Thread : HoldsForWrite(u, a) \/ HoldsForRead(u, a)
    BY <1>3
  <2>1. HasDirectory /\ (a < SettledBuckets \/ a < cActiveBuckets)
    BY <1>1
  <2>2. \A v \in Thread : pc[v] # "contractTarget"
    BY <1>5, ThreadAssumption, WriterExcludes DEF Writing
  <2>3. SettledBuckets <= cActiveBuckets
    BY <1>2, <2>1, <2>2
  <2>4. a < cActiveBuckets
    <3>1. a \in Nat /\ cActiveBuckets \in Nat /\ SettledBuckets \in Nat
      BY <2>1, SizeFacts, SettledFacts, AddressFacts DEF Addr
    <3> QED BY <2>1, <2>3, <3>1
  <2> QED BY <1>5, <2>4 DEF PInv, ScanInv, ScanOK
<1> QED BY <1>4, <1>5 DEF LockedBucketsExist

(***************************************************************************)
(* When a split always finds a clump for its records (a failed one leaves  *)
(* two buckets locked that no longer count, as a run shows), no bucket is  *)
(* freed while a thread holds its lock: the assertion of _Contract, and    *)
(* what Clear takes for granted when it frees every segment.               *)
(***************************************************************************)
THEOREM LockedBucketsAlwaysExist ==
  ASSUME "clump" \notin MayFail
  PROVE  Spec => []LockedBucketsExist
<1>1. Init => PInv /\ NoAbandon
  BY InitPInv DEF Init, NoAbandon
<1>2. PInv /\ NoAbandon /\ [Next]_vars => PInv' /\ NoAbandon'
  <2> SUFFICES ASSUME PInv, NoAbandon, [Next]_vars PROVE NoAbandon'
    BY StepPInv
  <2>1. CASE UNCHANGED vars
    BY <2>1 DEF NoAbandon
  <2>2. ASSUME NEW t \in Thread, Call(t) \/ Step(t) PROVE NoAbandon'
    BY <2>2, NoAbandonStep DEF PInv, IInv
  <2> QED BY <2>1, <2>2 DEF Next, Done
<1>3. PInv /\ NoAbandon => LockedBucketsExist
  BY LockedExist
<1> QED BY <1>1, <1>2, <1>3, PTL DEF Spec

(***************************************************************************)
(* Part 4.  References, counts, and RecordTable                            *)
(***************************************************************************)

-----------------------------------------------------------------------------
(* The inductive invariants of the references and counts *)

\* The operation a thread is at.
ClearPoints == {"clearTable", "clearBucket", "clearLoad", "clearStore"}
OpOK(t) ==
  /\ pc[t] \in ClearPoints => op[t] = "Clear"
  /\ pc[t] \in {"checkTable", "checkBucket"} => op[t] = "CheckTable"
  /\ pc[t] \in {"lockTable", "lockBucket", "body"} => op[t] \in Inserts \cup Deletes \cup Finds
OpInv == \A t \in Thread : OpOK(t)

\* What a Clear in progress has removed belongs to buckets that it is done with.
ClearedInv ==
  \A r \in cleared : \E t \in Thread :
    \/ pc[t] = "clearBucket" /\ Settled(r) < scan[t]
    \/ pc[t] \in {"clearLoad", "clearStore"} /\ Settled(r) <= scan[t]

\* A CheckTable that is under way has found every record in its place.
NoneMisplaced == \A t \in Thread : result[t] # "MISPLACED"

RInv == PInv /\ OpInv /\ ClearedInv /\ NoneMisplaced

InUse(r) == {t \in Thread : pc[t] = "holding" /\ rec[t] = r}
RefInv ==
  \A r \in Record : refs[r] = (IF r \in Contents THEN 1 ELSE 0) + Cardinality(InUse(r))

\* Without Clear, the count is the number of records; and what CheckTable has
\* counted so far, in buckets that nobody changes any more.
Counted(n) == {r \in Record : \E a \in Addr : a < n /\ r \in bucket[a]}
CountOK(t) ==
  pc[t] = "checkBucket" =>
    /\ tally[t] = Cardinality(Counted(scan[t]))
    /\ \A a \in Addr : a < scan[t] => bktWriter[a] = NoThread
CountInv ==
  /\ cRecords = Cardinality(Contents)
  /\ \A t \in Thread : pc[t] \notin ClearPoints /\ result[t] # "MISCOUNTED" /\ CountOK(t)

-----------------------------------------------------------------------------
(* The operations *)

LEMMA OpStep ==
  ASSUME IInv, OpInv, NEW t \in Thread, Call(t) \/ Step(t)
  PROVE  OpInv'
<1>a. pc \in [Thread -> PC] /\ op \in [Thread -> OpNames] /\ OpOK(t) /\ TypeOK
  BY DEF IInv, TypeOK, OpInv
<1>b. \A u \in Thread \ {t} : OpOK(u)'
  BY <1>a, Frame DEF OpInv, OpOK
<1>c. OpNames = {"Clear", "CheckTable"} \cup Inserts \cup Deletes \cup Finds
  BY DEF OpNames, Inserts, Deletes, Finds
<1> SUFFICES OpOK(t)'
  BY <1>b DEF OpInv
<1> USE DEF OpOK, ClearPoints
<1>1. CASE Call(t)
  BY <1>1, <1>a, <1>c, WorkloadAssumption DEF Call
<1>2. CASE LockTable(t)
  BY <1>2, <1>a DEF LockTable
<1>3. CASE LockTableWithoutDirectory(t)
  BY <1>3, <1>a DEF LockTableWithoutDirectory
<1>4. CASE LockBucket(t)
  BY <1>4, <1>a DEF LockBucket
<1>5. CASE InsertExisting(t)
  BY <1>5, <1>a DEF InsertExisting
<1>6. CASE InsertUpdate(t)
  BY <1>6, <1>a DEF InsertUpdate
<1>7. CASE InsertNew(t)
  BY <1>7, <1>a DEF InsertNew
<1>8. CASE InsertNoMemory(t)
  BY <1>8, <1>a DEF InsertNoMemory
<1>9. CASE DeleteFound(t)
  BY <1>9, <1>a DEF DeleteFound
<1>10. CASE DeleteMissing(t)
  BY <1>10, <1>a DEF DeleteMissing
<1>11. CASE FindKey(t)
  BY <1>11, <1>a DEF FindKey
<1>12. CASE FindOther(t)
  BY <1>12, <1>a DEF FindOther
<1>13. CASE Release(t)
  BY <1>13, <1>a DEF Release
<1>14. CASE Grow(t)
  BY <1>14, <1>a DEF Grow
<1>15. CASE ExpandTable(t)
  BY <1>15, <1>a DEF ExpandTable
<1>16. CASE ExpandNoDirectory(t)
  BY <1>16, <1>a DEF ExpandNoDirectory
<1>17. CASE ExpandNoSegment(t)
  BY <1>17, <1>a DEF ExpandNoSegment
<1>18. CASE ExpandOld(t)
  BY <1>18, <1>a DEF ExpandOld
<1>19. CASE ExpandNew(t)
  BY <1>19, <1>a DEF ExpandNew
<1>20. CASE ExpandNoClump(t)
  BY <1>20, <1>a DEF ExpandNoClump
<1>21. CASE Split(t)
  BY <1>21, <1>a DEF Split
<1>22. CASE Abandon(t)
  BY <1>22, <1>a DEF Abandon
<1>23. CASE Snapshot(t)
  BY <1>23, <1>a DEF Snapshot
<1>24. CASE Shrink(t)
  BY <1>24, <1>a DEF Shrink
<1>25. CASE ContractTable(t)
  BY <1>25, <1>a DEF ContractTable
<1>26. CASE ContractMinimal(t)
  BY <1>26, <1>a DEF ContractMinimal
<1>27. CASE ContractLast(t)
  BY <1>27, <1>a DEF ContractLast
<1>28. CASE ContractTarget(t)
  BY <1>28, <1>a DEF ContractTarget
<1>29. CASE ContractNoClump(t)
  BY <1>29, <1>a DEF ContractNoClump
<1>30. CASE Merge(t)
  BY <1>30, <1>a DEF Merge
<1>31. CASE ClearNothing(t)
  BY <1>31, <1>a DEF ClearNothing
<1>32. CASE ClearTable(t)
  BY <1>32, <1>a DEF ClearTable
<1>33. CASE ClearBucket(t)
  BY <1>33, <1>a DEF ClearBucket
<1>34. CASE ClearRecord(t)
  BY <1>34, <1>a DEF ClearRecord
<1>35. CASE ClearCount(t)
  BY <1>35, <1>a DEF ClearCount
<1>36. CASE ClearNext(t)
  BY <1>36, <1>a DEF ClearNext
<1>37. CASE ClearReset(t)
  BY <1>37, <1>a DEF ClearReset
<1>38. CASE CheckInvalid(t)
  BY <1>38, <1>a DEF CheckInvalid
<1>39. CASE CheckTable(t)
  BY <1>39, <1>a DEF CheckTable
<1>40. CASE CheckBucket(t)
  BY <1>40, <1>a DEF CheckBucket
<1>41. CASE CheckCount(t)
  BY <1>41, <1>a DEF CheckCount
<1> QED BY <1>1, <1>2, <1>3, <1>4, <1>5, <1>6, <1>7, <1>8, <1>9, <1>10, <1>11, <1>12,
         <1>13, <1>14, <1>15, <1>16, <1>17, <1>18, <1>19, <1>20, <1>21, <1>22, <1>23,
         <1>24, <1>25, <1>26, <1>27, <1>28, <1>29, <1>30, <1>31, <1>32, <1>33, <1>34,
         <1>35, <1>36, <1>37, <1>38, <1>39, <1>40, <1>41
         DEF Step, Body, Expand, Contract, Clear, Check

-----------------------------------------------------------------------------
(* Which records come and go *)

\* What a step does to the records, when nobody but t adds or removes any.
LEMMA ContentsBothWays ==
  ASSUME TypeOK, NEW t \in Thread, Call(t) \/ Step(t),
         \A a \in Addr : bucket'[a] \subseteq Contents /\ bucket[a] \subseteq Contents',
         pc'[t] = "merge" => moved'[t] \subseteq Contents,
         pc[t] = "merge" => moved[t] \subseteq Contents'
  PROVE  Contents' = Contents
<1>1. Contents' \subseteq Contents
  BY ContentsFrom
<1>2. ASSUME NEW r \in Contents PROVE r \in Contents'
  <2>1. CASE \E a \in Addr : r \in bucket[a]
    BY <2>1
  <2>2. CASE \E u \in Thread : pc[u] = "merge" /\ r \in moved[u]
    <3> PICK u \in Thread : pc[u] = "merge" /\ r \in moved[u]
      BY <2>2
    <3>1. CASE u = t
      BY <3>1
    <3>2. CASE u # t
      BY <3>2, Frame, ContentsMembersNext
    <3> QED BY <3>1, <3>2
  <2> QED BY <2>1, <2>2, ContentsMembers
<1> QED BY <1>1, <1>2

\* Splits, merges and the steps that fail lose nothing and double nothing.
LEMMA ContentsSame ==
  ASSUME PInv, NEW t \in Thread, Call(t) \/ Step(t),
         ~InsertUpdate(t), ~InsertNew(t), ~DeleteFound(t), ~ClearRecord(t)
  PROVE  Contents' = Contents
<1> TypeOK
  BY DEF PInv, IInv
<1>a. /\ bucket \in [Addr -> SUBSET Record] /\ pc \in [Thread -> PC]
      /\ home \in [Thread -> Addr] /\ other \in [Thread -> Addr]
      /\ moved \in [Thread -> SUBSET Record]
  BY DEF TypeOK
<1>b. /\ \A a \in Addr : bucket[a] \subseteq Contents
      /\ pc[t] = "merge" => moved[t] \subseteq Contents
      /\ pc[t] = "split" => moved[t] \subseteq bucket[home[t]] /\ bucket[other[t]] = {}
  BY ContentsMembers DEF PInv, PlaceInv, MovedOK
<1>c. /\ \A a \in Addr : bucket'[a] \subseteq Contents'
      /\ pc'[t] = "merge" => moved'[t] \subseteq Contents'
  BY ContentsMembersNext
<1> SUFFICES /\ \A a \in Addr : bucket'[a] \subseteq Contents /\ bucket[a] \subseteq Contents'
             /\ pc'[t] = "merge" => moved'[t] \subseteq Contents
             /\ pc[t] = "merge" => moved[t] \subseteq Contents'
  BY ContentsBothWays
<1>1. CASE Call(t)
  BY <1>1, <1>a, <1>b, <1>c DEF Call
<1>2. CASE LockTable(t)
  BY <1>2, <1>a, <1>b, <1>c DEF LockTable
<1>3. CASE LockTableWithoutDirectory(t)
  BY <1>3, <1>a, <1>b, <1>c DEF LockTableWithoutDirectory
<1>4. CASE LockBucket(t)
  BY <1>4, <1>a, <1>b, <1>c DEF LockBucket
<1>5. CASE InsertExisting(t)
  BY <1>5, <1>a, <1>b, <1>c DEF InsertExisting
<1>6. CASE InsertUpdate(t)
  BY <1>6
<1>7. CASE InsertNew(t)
  BY <1>7
<1>8. CASE InsertNoMemory(t)
  BY <1>8, <1>a, <1>b, <1>c DEF InsertNoMemory
<1>9. CASE DeleteFound(t)
  BY <1>9
<1>10. CASE DeleteMissing(t)
  BY <1>10, <1>a, <1>b, <1>c DEF DeleteMissing
<1>11. CASE FindKey(t)
  BY <1>11, <1>a, <1>b, <1>c DEF FindKey
<1>12. CASE FindOther(t)
  BY <1>12, <1>a, <1>b, <1>c DEF FindOther
<1>13. CASE Release(t)
  BY <1>13, <1>a, <1>b, <1>c DEF Release
<1>14. CASE Grow(t)
  BY <1>14, <1>a, <1>b, <1>c DEF Grow
<1>15. CASE ExpandTable(t)
  BY <1>15, <1>a, <1>b, <1>c DEF ExpandTable
<1>16. CASE ExpandNoDirectory(t)
  BY <1>16, <1>a, <1>b, <1>c DEF ExpandNoDirectory
<1>17. CASE ExpandNoSegment(t)
  BY <1>17, <1>a, <1>b, <1>c DEF ExpandNoSegment
<1>18. CASE ExpandOld(t)
  BY <1>18, <1>a, <1>b, <1>c DEF ExpandOld
<1>19. CASE ExpandNew(t)
  BY <1>19, <1>a, <1>b, <1>c DEF ExpandNew
<1>20. CASE ExpandNoClump(t)
  BY <1>20, <1>a, <1>b, <1>c DEF ExpandNoClump
<1>21. CASE Split(t)
  <2>1. /\ pc[t] = "split" /\ pc'[t] = "grow"
        /\ bucket' = [bucket EXCEPT ![home[t]] = bucket[home[t]] \ moved[t], ![other[t]] = moved[t]]
    BY <1>21, <1>a DEF Split
  <2>2. \A a \in Addr : bucket'[a] \subseteq Contents
    BY <1>a, <1>b, <2>1
  <2>3. bucket'[other[t]] = moved[t]
    BY <1>a, <2>1
  <2>4. ASSUME NEW a \in Addr PROVE bucket[a] \subseteq bucket'[a] \cup bucket'[other[t]]
    BY <1>a, <1>b, <2>1, <2>3
  <2>5. \A a \in Addr : bucket[a] \subseteq Contents'
    BY <1>a, <1>c, <2>4
  <2> QED BY <2>1, <2>2, <2>5
<1>22. CASE Abandon(t)
  BY <1>22, <1>a, <1>b, <1>c DEF Abandon
<1>23. CASE Snapshot(t)
  BY <1>23, <1>a, <1>b, <1>c DEF Snapshot
<1>24. CASE Shrink(t)
  BY <1>24, <1>a, <1>b, <1>c DEF Shrink
<1>25. CASE ContractTable(t)
  BY <1>25, <1>a, <1>b, <1>c DEF ContractTable
<1>26. CASE ContractMinimal(t)
  BY <1>26, <1>a, <1>b, <1>c DEF ContractMinimal
<1>27. CASE ContractLast(t)
  BY <1>27, <1>a, <1>b, <1>c DEF ContractLast
<1>28. CASE ContractTarget(t)
  <2>1. /\ pc[t] = "contractTarget" /\ pc'[t] = "merge" /\ moved'[t] = bucket[other[t]]
        /\ bucket' = [bucket EXCEPT ![other[t]] = {}]
    BY <1>28, <1>a DEF ContractTarget
  <2>2. \A a \in Addr : bucket[a] \subseteq bucket'[a] \cup moved'[t]
    BY <1>a, <2>1
  <2> QED BY <1>a, <1>b, <1>c, <2>1, <2>2
<1>29. CASE ContractNoClump(t)
  BY <1>29, <1>a, <1>b, <1>c DEF ContractNoClump
<1>30. CASE Merge(t)
  <2>1. /\ pc[t] = "merge" /\ pc'[t] = "shrink" /\ bucket'[home[t]] = bucket[home[t]] \cup moved[t]
        /\ \A a \in Addr : a # home[t] => bucket'[a] = bucket[a]
    BY <1>30, <1>a DEF Merge
  <2>2. \A a \in Addr : bucket[a] \subseteq bucket'[a]
    BY <2>1
  <2> QED BY <1>a, <1>b, <1>c, <2>1, <2>2
<1>31. CASE ClearNothing(t)
  BY <1>31, <1>a, <1>b, <1>c DEF ClearNothing
<1>32. CASE ClearTable(t)
  BY <1>32, <1>a, <1>b, <1>c DEF ClearTable
<1>33. CASE ClearBucket(t)
  BY <1>33, <1>a, <1>b, <1>c DEF ClearBucket
<1>34. CASE ClearRecord(t)
  BY <1>34
<1>35. CASE ClearCount(t)
  BY <1>35, <1>a, <1>b, <1>c DEF ClearCount
<1>36. CASE ClearNext(t)
  BY <1>36, <1>a, <1>b, <1>c DEF ClearNext
<1>37. CASE ClearReset(t)
  BY <1>37, <1>a, <1>b, <1>c DEF ClearReset
<1>38. CASE CheckInvalid(t)
  BY <1>38, <1>a, <1>b, <1>c DEF CheckInvalid
<1>39. CASE CheckTable(t)
  BY <1>39, <1>a, <1>b, <1>c DEF CheckTable
<1>40. CASE CheckBucket(t)
  BY <1>40, <1>a, <1>b, <1>c DEF CheckBucket
<1>41. CASE CheckCount(t)
  BY <1>41, <1>a, <1>b, <1>c DEF CheckCount
<1> QED BY <1>1, <1>2, <1>3, <1>4, <1>5, <1>6, <1>7, <1>8, <1>9, <1>10, <1>11, <1>12,
         <1>13, <1>14, <1>15, <1>16, <1>17, <1>18, <1>19, <1>20, <1>21, <1>22, <1>23,
         <1>24, <1>25, <1>26, <1>27, <1>28, <1>29, <1>30, <1>31, <1>32, <1>33, <1>34,
         <1>35, <1>36, <1>37, <1>38, <1>39, <1>40, <1>41
         DEF Step, Body, Expand, Contract, Clear, Check

\* What t changes in a bucket that it has locked, changes in the table.
LEMMA ContentsOfBucket ==
  ASSUME PInv, NEW t \in Thread, Call(t) \/ Step(t), NEW b \in Addr, HoldsForWrite(t, b),
         pc[t] \notin {"split", "merge"}, pc'[t] # "merge",
         NEW S \in SUBSET Record, bucket' = [bucket EXCEPT ![b] = S],
         \A r \in S : r \notin bucket[b] => Settled(r) = b
  PROVE  \A r : r \in Contents' <=> r \in S \/ (r \in Contents /\ r \notin bucket[b])
<1> TypeOK
  BY DEF PInv, IInv
<1>a. bucket \in [Addr -> SUBSET Record] /\ bucket'[b] = S
  BY DEF TypeOK
<1>b. \A a \in Addr : a # b => bucket'[a] = bucket[a]
  BY <1>a
<1>c. \A u \in Thread : /\ pc'[u] = "merge" => u # t
                        /\ u # t => pc'[u] = pc[u] /\ moved'[u] = moved[u]
  BY Frame
<1> TAKE r
<1>1. ASSUME r \in bucket[b]
      PROVE  /\ \A a \in Addr : r \in bucket[a] => a = b
             /\ \A u \in Thread : pc[u] = "merge" => r \notin moved[u]
  <2>1. r \in Record /\ Settled(r) = b
    BY <1>a, <1>1, HeldBucketSettled
  <2> QED BY <2>1, HeldRecord
<1>2. r \in Contents <=> \/ \E a \in Addr : r \in bucket[a]
                         \/ \E u \in Thread : pc[u] = "merge" /\ r \in moved[u]
  BY ContentsMembers
<1>3. r \in Contents' <=> \/ \E a \in Addr : r \in bucket'[a]
                          \/ \E u \in Thread : pc'[u] = "merge" /\ r \in moved'[u]
  BY ContentsMembersNext
<1>4. ASSUME r \in Contents', r \notin S PROVE r \in Contents /\ r \notin bucket[b]
  BY <1>1, <1>2, <1>3, <1>4, <1>a, <1>b, <1>c
<1>5. ASSUME r \in S PROVE r \in Contents'
  BY <1>3, <1>5, <1>a
<1>6. ASSUME r \in Contents, r \notin bucket[b] PROVE r \in Contents'
  <2>1. CASE \E a \in Addr : r \in bucket[a]
    BY <1>3, <1>6, <1>b, <2>1
  <2>2. CASE \E u \in Thread : pc[u] = "merge" /\ r \in moved[u]
    BY <1>3, <1>c, <2>2
  <2> QED BY <1>2, <1>6, <2>1, <2>2
<1> QED BY <1>4, <1>5, <1>6

-----------------------------------------------------------------------------
(* A thread in its bucket *)

LEMMA InBody ==
  ASSUME PInv, NEW t \in Thread, pc[t] = "body"
  PROVE  /\ rec[t] \in Record /\ home[t] \in Addr /\ Settled(rec[t]) = home[t]
         /\ HoldsForWrite(t, home[t]) \/ HoldsForRead(t, home[t])
         /\ op[t] \notin Finds => HoldsForWrite(t, home[t])
BY DEF PInv, IInv, TypeOK, CallInv, HomeInv, HomeOK, HoldsForWrite, HoldsForRead

\* A record that belongs to the bucket is in its chain.
LEMMA BucketComplete ==
  ASSUME PInv, NEW t \in Thread, pc[t] = "body", NEW r \in Contents, Settled(r) = home[t]
  PROVE  r \in bucket[home[t]]
<1> BucketLockInv /\ TypeOK
  BY DEF PInv, IInv
<1>1. ASSUME NEW u \in Thread, HoldsForWrite(u, home[t]), u # t PROVE FALSE
  BY <1>1, InBody, BucketExcludes
<1>2. CASE \E a \in Addr : r \in bucket[a] /\ Settled(r) = a
  BY <1>2
<1>3. ASSUME NEW u \in Thread, pc[u] = "split" /\ Settled(r) = other[u] PROVE FALSE
  BY <1>1, <1>3 DEF HoldsForWrite
<1>4. ASSUME NEW u \in Thread, pc[u] = "merge" /\ Settled(r) = home[u] PROVE FALSE
  BY <1>1, <1>4 DEF HoldsForWrite
<1> QED BY <1>2, <1>3, <1>4, WhereRecordsAre

\* The records of the table that have t's key are those of its bucket.
LEMMA SameKeyComplete ==
  ASSUME PInv, NEW t \in Thread, pc[t] = "body"
  PROVE  /\ SameKey(t) = {r \in Contents : KeyOf[r] = KeyOf[rec[t]]}
         /\ bucket[home[t]] \cap {rec[t]} = Contents \cap {rec[t]}
<1>1. bucket[home[t]] \subseteq Contents
  BY InBody, ContentsMembers
<1>2. ASSUME NEW r \in Contents, KeyOf[r] = KeyOf[rec[t]] PROVE r \in bucket[home[t]]
  <2>1. Settled(r) = Settled(rec[t])
    BY <1>2 DEF Settled, Sig
  <2> QED BY <2>1, InBody, BucketComplete
<1> QED BY <1>1, <1>2 DEF SameKey

LEMMA InsertNewContents ==
  ASSUME PInv, NEW t \in Thread, Call(t) \/ Step(t), InsertNew(t)
  PROVE  /\ pc[t] = "body" /\ rec[t] \in Record /\ rec[t] \notin Contents
         /\ Contents' = Contents \cup {rec[t]}
<1>1. /\ pc[t] = "body" /\ op[t] \notin Finds /\ pc'[t] = "grow" /\ SameKey(t) = {}
      /\ bucket' = [bucket EXCEPT ![home[t]] = bucket[home[t]] \cup {rec[t]}]
  BY DEF InsertNew, Inserts, Finds, PInv, IInv, TypeOK
<1>2. /\ rec[t] \in Record /\ home[t] \in Addr /\ Settled(rec[t]) = home[t]
      /\ HoldsForWrite(t, home[t]) /\ bucket[home[t]] \in SUBSET Record
  BY <1>1, InBody DEF PInv, IInv, TypeOK
<1>3. \A r : r \in Contents' <=> \/ r \in bucket[home[t]] \cup {rec[t]}
                                 \/ r \in Contents /\ r \notin bucket[home[t]]
  <2>1. bucket[home[t]] \cup {rec[t]} \in SUBSET Record
    BY <1>2
  <2>2. \A r \in bucket[home[t]] \cup {rec[t]} : r \notin bucket[home[t]] => Settled(r) = home[t]
    BY <1>2
  <2>3. pc[t] \notin {"split", "merge"} /\ pc'[t] # "merge"
    BY <1>1
  <2> HIDE DEF Contents
  <2> QED BY <1>1, <1>2, <2>1, <2>2, <2>3, ContentsOfBucket
<1>4. bucket[home[t]] \subseteq Contents
  BY <1>2, ContentsMembers
<1> QED BY <1>1, <1>2, <1>3, <1>4, SameKeyComplete

LEMMA InsertUpdateContents ==
  ASSUME PInv, NEW t \in Thread, Call(t) \/ Step(t), InsertUpdate(t)
  PROVE  /\ pc[t] = "body" /\ rec[t] \in Record
         /\ \E old \in Contents :
              /\ KeyOf[old] = KeyOf[rec[t]] /\ SameKey(t) = {old}
              /\ rec[t] \in Contents => rec[t] = old
              /\ Contents' = (Contents \ {old}) \cup {rec[t]}
              /\ refs' = [AddRef(rec[t], 1) EXCEPT ![old] = AddRef(rec[t], 1)[old] - 1]
<1>1. /\ pc[t] = "body" /\ op[t] \notin Finds /\ pc'[t] = "grow"
  BY DEF InsertUpdate, Finds, PInv, IInv, TypeOK
<1>2. /\ rec[t] \in Record /\ home[t] \in Addr /\ Settled(rec[t]) = home[t]
      /\ HoldsForWrite(t, home[t]) /\ bucket[home[t]] \in SUBSET Record
  BY <1>1, InBody DEF PInv, IInv, TypeOK
<1>3. PICK old \in SameKey(t) :
        /\ bucket' = [bucket EXCEPT ![home[t]] = (bucket[home[t]] \ {old}) \cup {rec[t]}]
        /\ refs' = [AddRef(rec[t], 1) EXCEPT ![old] = AddRef(rec[t], 1)[old] - 1]
  BY DEF InsertUpdate
<1>4. /\ old \in Contents /\ KeyOf[old] = KeyOf[rec[t]] /\ SameKey(t) = {old}
      /\ rec[t] \in Contents => rec[t] = old
      /\ old \in bucket[home[t]]
  BY <1>1, <1>3, SameKeyComplete DEF PInv, KeyInv, SameKey
<1>5. \A r : r \in Contents' <=> \/ r \in (bucket[home[t]] \ {old}) \cup {rec[t]}
                                 \/ r \in Contents /\ r \notin bucket[home[t]]
  <2>1. (bucket[home[t]] \ {old}) \cup {rec[t]} \in SUBSET Record
    BY <1>2
  <2> QED BY <1>1, <1>2, <1>3, <2>1, ContentsOfBucket
<1>6. bucket[home[t]] \subseteq Contents
  BY <1>2, ContentsMembers
<1> QED BY <1>1, <1>2, <1>3, <1>4, <1>5, <1>6

LEMMA DeleteFoundContents ==
  ASSUME PInv, NEW t \in Thread, Call(t) \/ Step(t), DeleteFound(t)
  PROVE  /\ pc[t] = "body"
         /\ \E victim \in Contents :
              /\ Victims(t) = {victim} /\ Contents' = Contents \ {victim}
              /\ refs' = AddRef(victim, -1)
<1>1. /\ pc[t] = "body" /\ op[t] \notin Finds /\ pc'[t] = "snapshot"
  BY DEF DeleteFound, Deletes, Finds, PInv, IInv, TypeOK
<1>2. /\ rec[t] \in Record /\ home[t] \in Addr
      /\ HoldsForWrite(t, home[t]) /\ bucket[home[t]] \in SUBSET Record
  BY <1>1, InBody DEF PInv, IInv, TypeOK
<1>3. PICK victim \in Victims(t) :
        /\ bucket' = [bucket EXCEPT ![home[t]] = bucket[home[t]] \ {victim}]
        /\ refs' = AddRef(victim, -1)
  BY DEF DeleteFound
<1>4. victim \in bucket[home[t]] /\ victim \in Contents /\ Victims(t) = {victim}
  BY <1>1, <1>2, <1>3, SameKeyComplete DEF Victims, SameKey, PInv, KeyInv
<1>5. \A r : r \in Contents' <=> \/ r \in bucket[home[t]] \ {victim}
                                 \/ r \in Contents /\ r \notin bucket[home[t]]
  BY <1>1, <1>2, <1>3, ContentsOfBucket
<1>6. bucket[home[t]] \subseteq Contents
  BY <1>2, ContentsMembers
<1> QED BY <1>1, <1>3, <1>4, <1>5, <1>6

LEMMA ClearRecordContents ==
  ASSUME PInv, NEW t \in Thread, Call(t) \/ Step(t), ClearRecord(t)
  PROVE  /\ pc[t] = "clearLoad"
         /\ \E r \in Contents :
              /\ Contents' = Contents \ {r} /\ Settled(r) = scan[t]
              /\ refs' = AddRef(r, -1) /\ cleared' = cleared \cup {r}
<1>1. pc[t] = "clearLoad" /\ pc'[t] = "clearStore"
  BY DEF ClearRecord, PInv, IInv, TypeOK
<1>2. scan[t] \in Addr /\ HoldsForWrite(t, scan[t])
  BY <1>1 DEF PInv, IInv, CallInv, HoldsForWrite
<1>3. PICK r \in bucket[scan[t]] :
        /\ bucket' = [bucket EXCEPT ![scan[t]] = bucket[scan[t]] \ {r}]
        /\ refs' = AddRef(r, -1) /\ cleared' = cleared \cup {r}
  BY DEF ClearRecord
<1>4. Settled(r) = scan[t]
  BY <1>1, <1>2, HeldBucketSettled
<1>5. bucket[scan[t]] \in SUBSET Record
  BY <1>2 DEF PInv, IInv, TypeOK
<1>6. \A x : x \in Contents' <=> \/ x \in bucket[scan[t]] \ {r}
                                 \/ x \in Contents /\ x \notin bucket[scan[t]]
  BY <1>1, <1>2, <1>3, <1>5, ContentsOfBucket
<1>7. bucket[scan[t]] \subseteq Contents
  BY <1>2, ContentsMembers
<1> QED BY <1>1, <1>3, <1>4, <1>6, <1>7

-----------------------------------------------------------------------------
(* Reference counts *)

LEMMA InUseFacts ==
  ASSUME NEW r
  PROVE  IsFiniteSet(InUse(r)) /\ Cardinality(InUse(r)) \in Nat
<1>1. InUse(r) \subseteq Thread
  BY DEF InUse
<1> QED BY <1>1, ThreadAssumption, FS_Subset, FS_CardinalityType

\* Only FindKey hands out a record, and only Release gives it back; besides
\* them, only what changes the contents changes a count.
LEMMA ReferencesKept ==
  ASSUME TypeOK, NEW t \in Thread, Call(t) \/ Step(t), ~FindKey(t), ~Release(t)
  PROVE  /\ \A r : InUse(r)' = InUse(r)
         /\ ~InsertUpdate(t) /\ ~InsertNew(t) /\ ~DeleteFound(t) /\ ~ClearRecord(t) => refs' = refs
<1>a. pc \in [Thread -> PC]
  BY DEF TypeOK
<1> SUFFICES /\ pc[t] # "holding" /\ pc'[t] # "holding"
             /\ ~InsertUpdate(t) /\ ~InsertNew(t) /\ ~DeleteFound(t) /\ ~ClearRecord(t)
                  => refs' = refs
  <2>1. \A u \in Thread \ {t} : pc'[u] = pc[u] /\ rec'[u] = rec[u]
    BY Frame
  <2> QED BY <2>1 DEF InUse
<1>1. CASE Call(t)
  BY <1>1, <1>a DEF Call
<1>2. CASE LockTable(t)
  BY <1>2, <1>a DEF LockTable
<1>3. CASE LockTableWithoutDirectory(t)
  BY <1>3, <1>a DEF LockTableWithoutDirectory
<1>4. CASE LockBucket(t)
  BY <1>4, <1>a DEF LockBucket
<1>5. CASE InsertExisting(t)
  BY <1>5, <1>a DEF InsertExisting
<1>6. CASE InsertUpdate(t)
  BY <1>6, <1>a DEF InsertUpdate
<1>7. CASE InsertNew(t)
  BY <1>7, <1>a DEF InsertNew
<1>8. CASE InsertNoMemory(t)
  BY <1>8, <1>a DEF InsertNoMemory
<1>9. CASE DeleteFound(t)
  BY <1>9, <1>a DEF DeleteFound
<1>10. CASE DeleteMissing(t)
  BY <1>10, <1>a DEF DeleteMissing
<1>11. CASE FindKey(t)
  BY <1>11
<1>12. CASE FindOther(t)
  BY <1>12, <1>a DEF FindOther
<1>13. CASE Release(t)
  BY <1>13
<1>14. CASE Grow(t)
  BY <1>14, <1>a DEF Grow
<1>15. CASE ExpandTable(t)
  BY <1>15, <1>a DEF ExpandTable
<1>16. CASE ExpandNoDirectory(t)
  BY <1>16, <1>a DEF ExpandNoDirectory
<1>17. CASE ExpandNoSegment(t)
  BY <1>17, <1>a DEF ExpandNoSegment
<1>18. CASE ExpandOld(t)
  BY <1>18, <1>a DEF ExpandOld
<1>19. CASE ExpandNew(t)
  BY <1>19, <1>a DEF ExpandNew
<1>20. CASE ExpandNoClump(t)
  BY <1>20, <1>a DEF ExpandNoClump
<1>21. CASE Split(t)
  BY <1>21, <1>a DEF Split
<1>22. CASE Abandon(t)
  BY <1>22, <1>a DEF Abandon
<1>23. CASE Snapshot(t)
  BY <1>23, <1>a DEF Snapshot
<1>24. CASE Shrink(t)
  BY <1>24, <1>a DEF Shrink
<1>25. CASE ContractTable(t)
  BY <1>25, <1>a DEF ContractTable
<1>26. CASE ContractMinimal(t)
  BY <1>26, <1>a DEF ContractMinimal
<1>27. CASE ContractLast(t)
  BY <1>27, <1>a DEF ContractLast
<1>28. CASE ContractTarget(t)
  BY <1>28, <1>a DEF ContractTarget
<1>29. CASE ContractNoClump(t)
  BY <1>29, <1>a DEF ContractNoClump
<1>30. CASE Merge(t)
  BY <1>30, <1>a DEF Merge
<1>31. CASE ClearNothing(t)
  BY <1>31, <1>a DEF ClearNothing
<1>32. CASE ClearTable(t)
  BY <1>32, <1>a DEF ClearTable
<1>33. CASE ClearBucket(t)
  BY <1>33, <1>a DEF ClearBucket
<1>34. CASE ClearRecord(t)
  BY <1>34, <1>a DEF ClearRecord
<1>35. CASE ClearCount(t)
  BY <1>35, <1>a DEF ClearCount
<1>36. CASE ClearNext(t)
  BY <1>36, <1>a DEF ClearNext
<1>37. CASE ClearReset(t)
  BY <1>37, <1>a DEF ClearReset
<1>38. CASE CheckInvalid(t)
  BY <1>38, <1>a DEF CheckInvalid
<1>39. CASE CheckTable(t)
  BY <1>39, <1>a DEF CheckTable
<1>40. CASE CheckBucket(t)
  BY <1>40, <1>a DEF CheckBucket
<1>41. CASE CheckCount(t)
  BY <1>41, <1>a DEF CheckCount
<1> QED BY <1>1, <1>2, <1>3, <1>4, <1>5, <1>6, <1>7, <1>8, <1>9, <1>10, <1>11, <1>12,
         <1>13, <1>14, <1>15, <1>16, <1>17, <1>18, <1>19, <1>20, <1>21, <1>22, <1>23,
         <1>24, <1>25, <1>26, <1>27, <1>28, <1>29, <1>30, <1>31, <1>32, <1>33, <1>34,
         <1>35, <1>36, <1>37, <1>38, <1>39, <1>40, <1>41
         DEF Step, Body, Expand, Contract, Clear, Check

LEMMA RefStep ==
  ASSUME PInv, RefInv, NEW t \in Thread, Call(t) \/ Step(t)
  PROVE  RefInv'
<1> TypeOK
  BY DEF PInv, IInv
<1>a. refs \in [Record -> Int] /\ Contents \subseteq Record
  BY ContentsType DEF TypeOK
<1>b. \A r \in Record : /\ refs[r] = (IF r \in Contents THEN 1 ELSE 0) + Cardinality(InUse(r))
                        /\ Cardinality(InUse(r)) \in Nat
  BY InUseFacts DEF RefInv
<1>c. ASSUME ~FindKey(t), ~Release(t)
      PROVE  \A r \in Record : Cardinality(InUse(r)') = Cardinality(InUse(r))
  BY <1>c, ReferencesKept
<1> SUFFICES ASSUME NEW r \in Record
             PROVE  refs'[r] = (IF r \in Contents' THEN 1 ELSE 0) + Cardinality(InUse(r)')
  BY DEF RefInv, InUse
<1> HIDE DEF Contents, InUse
<1>1. CASE InsertUpdate(t)
  <2>1. ~FindKey(t) /\ ~Release(t)
    BY <1>1 DEF InsertUpdate, FindKey, Release
  <2>2. PICK old \in Contents :
          /\ KeyOf[old] = KeyOf[rec[t]]
          /\ rec[t] \in Contents => rec[t] = old
          /\ Contents' = (Contents \ {old}) \cup {rec[t]}
          /\ refs' = [AddRef(rec[t], 1) EXCEPT ![old] = AddRef(rec[t], 1)[old] - 1]
    BY <1>1, InsertUpdateContents
  <2>3. rec[t] \in Record
    BY <1>1, InsertUpdateContents
  <2> QED BY <1>a, <1>b, <1>c, <2>1, <2>2, <2>3 DEF AddRef
<1>2. CASE InsertNew(t)
  <2>1. ~FindKey(t) /\ ~Release(t) /\ refs' = AddRef(rec[t], 1)
    BY <1>2 DEF InsertNew, Inserts, FindKey, Release
  <2> QED BY <1>2, <1>a, <1>b, <1>c, <2>1, InsertNewContents DEF AddRef
<1>3. CASE DeleteFound(t)
  <2>1. ~FindKey(t) /\ ~Release(t)
    BY <1>3 DEF DeleteFound, Deletes, FindKey, Release
  <2>2. PICK victim \in Contents : Contents' = Contents \ {victim} /\ refs' = AddRef(victim, -1)
    BY <1>3, DeleteFoundContents
  <2> QED BY <1>a, <1>b, <1>c, <2>1, <2>2 DEF AddRef
<1>4. CASE ClearRecord(t)
  <2>1. ~FindKey(t) /\ ~Release(t)
    BY <1>4 DEF ClearRecord, FindKey, Release
  <2>2. PICK x \in Contents : Contents' = Contents \ {x} /\ refs' = AddRef(x, -1)
    BY <1>4, ClearRecordContents
  <2> QED BY <1>a, <1>b, <1>c, <2>1, <2>2 DEF AddRef
<1>5. CASE FindKey(t)
  <2>1. PICK found \in SameKey(t) : refs' = AddRef(found, 1) /\ rec' = [rec EXCEPT ![t] = found]
    BY <1>5 DEF FindKey
  <2>2. pc[t] = "body" /\ pc'[t] = "holding" /\ rec'[t] = found
    BY <1>5, <2>1 DEF FindKey, TypeOK
  <2>3. Contents' = Contents
    BY <1>5, ContentsSame DEF FindKey, InsertUpdate, InsertNew, Inserts, DeleteFound, Deletes,
                              ClearRecord
  <2>4. found \in Record
    BY DataType
  <2>5. IF r = found THEN InUse(r)' = InUse(r) \cup {t} /\ t \notin InUse(r)
                     ELSE InUse(r)' = InUse(r)
    BY <2>2, Frame DEF InUse
  <2>6. Cardinality(InUse(r)') = Cardinality(InUse(r)) + (IF r = found THEN 1 ELSE 0)
    BY <2>5, <1>b, InUseFacts, FS_AddElement
  <2> QED BY <1>a, <1>b, <2>1, <2>3, <2>4, <2>6 DEF AddRef
<1>6. CASE Release(t)
  <2>1. pc[t] = "holding" /\ pc'[t] = "idle" /\ refs' = AddRef(rec[t], -1) /\ rec[t] \in Record
    BY <1>6 DEF Release, TypeOK, PInv, IInv, CallInv
  <2>2. Contents' = Contents
    BY <1>6, ContentsSame DEF Release, InsertUpdate, InsertNew, DeleteFound, ClearRecord
  <2>3. IF r = rec[t] THEN InUse(r)' = InUse(r) \ {t} /\ t \in InUse(r)
                      ELSE InUse(r)' = InUse(r)
    <3>1. rec' = rec
      BY <1>6 DEF Release
    <3> QED BY <2>1, <3>1, Frame DEF InUse
  <2>4. Cardinality(InUse(r)') = Cardinality(InUse(r)) - (IF r = rec[t] THEN 1 ELSE 0)
    BY <2>3, <1>b, InUseFacts, FS_RemoveElement
  <2> QED BY <1>a, <1>b, <2>1, <2>2, <2>4 DEF AddRef
<1>7. CASE /\ ~InsertUpdate(t) /\ ~InsertNew(t) /\ ~DeleteFound(t) /\ ~ClearRecord(t)
           /\ ~FindKey(t) /\ ~Release(t)
  <2>1. refs' = refs /\ Contents' = Contents
    BY <1>7, ReferencesKept, ContentsSame
  <2> QED BY <1>7, <1>b, <1>c, <2>1
<1> QED BY <1>1, <1>2, <1>3, <1>4, <1>5, <1>6, <1>7

LEMMA InitialContents ==
  ASSUME Init
  PROVE  Contents = InitialRecords
<1>1. PInv
  BY InitPInv
<1>2. IInv /\ TypeOK /\ HasDirectory
  BY <1>1 DEF Init, PInv, IInv, NoTableInv, IsUsable
<1>3. /\ \A t \in Thread : pc[t] = "idle"
      /\ SettledIdx = iExpansionIdx
      /\ \A a \in Addr : bucket[a] = {r \in InitialRecords :
                            BucketAddress(Sig(r), dwBktAddrMask0, iExpansionIdx) = a}
  BY DEF Init, SettledIdx, Contraction, Contracting
<1>4. ASSUME NEW r \in InitialRecords PROVE r \in Contents
  <2>1. Settled(r) \in Addr
    BY <1>2, SettledFacts, WorkloadAssumption
  <2>2. r \in bucket[Settled(r)]
    BY <1>3, <2>1 DEF Settled
  <2> QED BY <2>1, <2>2, ContentsMembers
<1>5. ASSUME NEW r \in Contents PROVE r \in InitialRecords
  BY <1>3, ContentsMembers
<1> QED BY <1>4, <1>5

LEMMA InitRef ==
  ASSUME Init
  PROVE  RefInv
<1>1. Contents = InitialRecords
  BY InitialContents
<1>2. \A r : InUse(r) = {}
  BY DEF Init, InUse
<1>3. \A r : Cardinality(InUse(r)) = 0
  BY <1>2, FS_EmptySet
<1>4. refs = [r \in Record |-> IF r \in InitialRecords THEN 1 ELSE 0]
  BY DEF Init
<1> HIDE DEF InUse, Contents
<1> QED BY <1>1, <1>3, <1>4 DEF RefInv

LEMMA RefUnchanged ==
  ASSUME RefInv, UNCHANGED vars
  PROVE  RefInv'
BY DEF RefInv, InUse, Contents, Merging

LEMMA RefsAreExact ==
  ASSUME PInv, RefInv
  PROVE  ReferencesExact
<1>1. ASSUME NEW r \in Record, r \notin Contents PROVE Chains(r) = 0
  <2>1. {a \in Addr : r \in bucket[a]} = {} /\ {t \in Merging : r \in moved[t]} = {}
    BY <1>1, ContentsMembers DEF Merging
  <2>2. Cardinality({a \in Addr : r \in bucket[a]}) = 0
    BY <2>1, FS_EmptySet
  <2>3. Cardinality({t \in Merging : r \in moved[t]}) = 0
    BY <2>1, FS_EmptySet
  <2> QED BY <2>2, <2>3 DEF Chains
<1>2. \A r \in Contents : Chains(r) = 1
  BY OneChain
<1>3. \A r \in Record : refs[r] = Chains(r) + Cardinality(InUse(r))
  BY <1>1, <1>2 DEF RefInv
<1> QED BY <1>3 DEF ReferencesExact, InUse

(***************************************************************************)
(* A record's count is its references: one of the table that holds it, and *)
(* one of each caller that _FindKey has handed it out to and that has not  *)
(* given it back.                                                          *)
(***************************************************************************)
THEOREM ReferencesAlwaysExact == Spec => []ReferencesExact
<1>1. Init => PInv /\ RefInv
  BY InitPInv, InitRef
<1>2. PInv /\ RefInv /\ [Next]_vars => PInv' /\ RefInv'
  <2> SUFFICES ASSUME PInv, RefInv, [Next]_vars PROVE RefInv'
    BY StepPInv
  <2>1. CASE \E t \in Thread : Call(t) \/ Step(t)
    BY <2>1, RefStep
  <2>2. CASE UNCHANGED vars
    BY <2>2, RefUnchanged
  <2> QED BY <2>1, <2>2 DEF Next, Done
<1>3. PInv /\ RefInv => ReferencesExact
  BY RefsAreExact
<1> QED BY <1>1, <1>2, <1>3, PTL DEF Spec

-----------------------------------------------------------------------------
(* A CheckTable and a Clear under way *)

\* CheckTable finds the records of an unlocked bucket in their place.
LEMMA BucketChecked ==
  ASSUME PInv, NEW t \in Thread, pc[t] = "checkBucket", scan[t] < cActiveBuckets,
         bktWriter[scan[t]] = NoThread
  PROVE  /\ scan[t] \in Addr
         /\ \A r \in bucket[scan[t]] : Place(r) = scan[t]
<1> TypeOK /\ IInv /\ BucketLockInv
  BY DEF PInv, IInv
<1>1. HasDirectory /\ Reading(t) /\ ~Contraction
  BY OneResizer DEF PInv, NoTableInv, Outside, Reading
<1>2. scan[t] \in Addr
  <2>1. cActiveBuckets <= AddrLimit /\ cActiveBuckets \in Nat /\ scan[t] \in Nat
    BY <1>1, TableBounds DEF IInv, TypeOK
  <2> QED BY <2>1, SizeFacts DEF Addr
<1>3. ASSUME NEW r \in bucket[scan[t]] PROVE Settled(r) = scan[t]
  <2>1. ASSUME NEW u \in Thread, pc[u] = "split", home[u] = scan[t] PROVE FALSE
    BY <2>1, <1>2, ThreadAssumption DEF BucketLockInv, HoldsForWrite
  <2> QED BY <2>1, <1>2 DEF PInv, PlaceInv, PlaceOK
<1>4. \A r : Place(r) = Settled(r)
  BY <1>1 DEF Place, Settled, SettledIdx
<1> QED BY <1>2, <1>3, <1>4

LEMMA MisplacedStep ==
  ASSUME PInv, NoneMisplaced, NEW t \in Thread, Call(t) \/ Step(t)
  PROVE  NoneMisplaced'
<1> TypeOK
  BY DEF PInv, IInv
<1>a. /\ result[t] # "MISPLACED" /\ lkrcState # "MISPLACED" /\ pc \in [Thread -> PC]
      /\ \A v : v # "MISPLACED" =>
           (result' = [result EXCEPT ![t] = v] => result'[t] # "MISPLACED")
  BY DEF NoneMisplaced, TypeOK
<1>b. \A u \in Thread \ {t} : result'[u] # "MISPLACED"
  BY Frame DEF NoneMisplaced
<1> SUFFICES result'[t] # "MISPLACED"
  BY <1>b DEF NoneMisplaced
<1>1. CASE Call(t)
  BY <1>1, <1>a DEF Call
<1>2. CASE LockTable(t)
  BY <1>2, <1>a DEF LockTable
<1>3. CASE LockTableWithoutDirectory(t)
  BY <1>3, <1>a DEF LockTableWithoutDirectory
<1>4. CASE LockBucket(t)
  BY <1>4, <1>a DEF LockBucket
<1>5. CASE InsertExisting(t)
  BY <1>5, <1>a DEF InsertExisting
<1>6. CASE InsertUpdate(t)
  BY <1>6, <1>a DEF InsertUpdate
<1>7. CASE InsertNew(t)
  BY <1>7, <1>a DEF InsertNew
<1>8. CASE InsertNoMemory(t)
  BY <1>8, <1>a DEF InsertNoMemory
<1>9. CASE DeleteFound(t)
  BY <1>9, <1>a DEF DeleteFound
<1>10. CASE DeleteMissing(t)
  BY <1>10, <1>a DEF DeleteMissing
<1>11. CASE FindKey(t)
  BY <1>11, <1>a DEF FindKey
<1>12. CASE FindOther(t)
  BY <1>12, <1>a DEF FindOther
<1>13. CASE Release(t)
  BY <1>13, <1>a DEF Release
<1>14. CASE Grow(t)
  BY <1>14, <1>a DEF Grow
<1>15. CASE ExpandTable(t)
  BY <1>15, <1>a DEF ExpandTable
<1>16. CASE ExpandNoDirectory(t)
  BY <1>16, <1>a DEF ExpandNoDirectory
<1>17. CASE ExpandNoSegment(t)
  BY <1>17, <1>a DEF ExpandNoSegment
<1>18. CASE ExpandOld(t)
  BY <1>18, <1>a DEF ExpandOld
<1>19. CASE ExpandNew(t)
  BY <1>19, <1>a DEF ExpandNew
<1>20. CASE ExpandNoClump(t)
  BY <1>20, <1>a DEF ExpandNoClump
<1>21. CASE Split(t)
  BY <1>21, <1>a DEF Split
<1>22. CASE Abandon(t)
  BY <1>22, <1>a DEF Abandon
<1>23. CASE Snapshot(t)
  BY <1>23, <1>a DEF Snapshot
<1>24. CASE Shrink(t)
  BY <1>24, <1>a DEF Shrink
<1>25. CASE ContractTable(t)
  BY <1>25, <1>a DEF ContractTable
<1>26. CASE ContractMinimal(t)
  BY <1>26, <1>a DEF ContractMinimal
<1>27. CASE ContractLast(t)
  BY <1>27, <1>a DEF ContractLast
<1>28. CASE ContractTarget(t)
  BY <1>28, <1>a DEF ContractTarget
<1>29. CASE ContractNoClump(t)
  BY <1>29, <1>a DEF ContractNoClump
<1>30. CASE Merge(t)
  BY <1>30, <1>a DEF Merge
<1>31. CASE ClearNothing(t)
  BY <1>31, <1>a DEF ClearNothing
<1>32. CASE ClearTable(t)
  BY <1>32, <1>a DEF ClearTable
<1>33. CASE ClearBucket(t)
  BY <1>33, <1>a DEF ClearBucket
<1>34. CASE ClearRecord(t)
  BY <1>34, <1>a DEF ClearRecord
<1>35. CASE ClearCount(t)
  BY <1>35, <1>a DEF ClearCount
<1>36. CASE ClearNext(t)
  BY <1>36, <1>a DEF ClearNext
<1>37. CASE ClearReset(t)
  BY <1>37, <1>a DEF ClearReset
<1>38. CASE CheckInvalid(t)
  BY <1>38, <1>a DEF CheckInvalid
<1>39. CASE CheckTable(t)
  BY <1>39, <1>a DEF CheckTable
<1>40. CASE CheckBucket(t)
  <2>1. \A r \in bucket[scan[t]] : Place(r) = scan[t]
    BY <1>40, BucketChecked DEF CheckBucket
  <2> QED BY <1>40, <1>a, <2>1 DEF CheckBucket
<1>41. CASE CheckCount(t)
  BY <1>41, <1>a DEF CheckCount
<1> QED BY <1>1, <1>2, <1>3, <1>4, <1>5, <1>6, <1>7, <1>8, <1>9, <1>10, <1>11, <1>12,
         <1>13, <1>14, <1>15, <1>16, <1>17, <1>18, <1>19, <1>20, <1>21, <1>22, <1>23,
         <1>24, <1>25, <1>26, <1>27, <1>28, <1>29, <1>30, <1>31, <1>32, <1>33, <1>34,
         <1>35, <1>36, <1>37, <1>38, <1>39, <1>40, <1>41
         DEF Step, Body, Expand, Contract, Clear, Check

\* What a thread that clears does, and who else changes what was cleared.
LEMMA ClearingStep ==
  ASSUME TypeOK, NEW t \in Thread, Call(t) \/ Step(t)
  PROVE  /\ pc[t] \in {"clearBucket", "clearLoad", "clearStore"} =>
              \/ ClearBucket(t) \/ ClearRecord(t) \/ ClearCount(t)
              \/ ClearNext(t) \/ ClearReset(t)
         /\ ~ClearRecord(t) /\ ~ClearReset(t) => cleared' = cleared
<1>a. pc \in [Thread -> PC]
  BY DEF TypeOK
<1>1. CASE Call(t)
  BY <1>1, <1>a DEF Call
<1>2. CASE LockTable(t)
  BY <1>2, <1>a DEF LockTable
<1>3. CASE LockTableWithoutDirectory(t)
  BY <1>3, <1>a DEF LockTableWithoutDirectory
<1>4. CASE LockBucket(t)
  BY <1>4, <1>a DEF LockBucket
<1>5. CASE InsertExisting(t)
  BY <1>5, <1>a DEF InsertExisting
<1>6. CASE InsertUpdate(t)
  BY <1>6, <1>a DEF InsertUpdate
<1>7. CASE InsertNew(t)
  BY <1>7, <1>a DEF InsertNew
<1>8. CASE InsertNoMemory(t)
  BY <1>8, <1>a DEF InsertNoMemory
<1>9. CASE DeleteFound(t)
  BY <1>9, <1>a DEF DeleteFound
<1>10. CASE DeleteMissing(t)
  BY <1>10, <1>a DEF DeleteMissing
<1>11. CASE FindKey(t)
  BY <1>11, <1>a DEF FindKey
<1>12. CASE FindOther(t)
  BY <1>12, <1>a DEF FindOther
<1>13. CASE Release(t)
  BY <1>13, <1>a DEF Release
<1>14. CASE Grow(t)
  BY <1>14, <1>a DEF Grow
<1>15. CASE ExpandTable(t)
  BY <1>15, <1>a DEF ExpandTable
<1>16. CASE ExpandNoDirectory(t)
  BY <1>16, <1>a DEF ExpandNoDirectory
<1>17. CASE ExpandNoSegment(t)
  BY <1>17, <1>a DEF ExpandNoSegment
<1>18. CASE ExpandOld(t)
  BY <1>18, <1>a DEF ExpandOld
<1>19. CASE ExpandNew(t)
  BY <1>19, <1>a DEF ExpandNew
<1>20. CASE ExpandNoClump(t)
  BY <1>20, <1>a DEF ExpandNoClump
<1>21. CASE Split(t)
  BY <1>21, <1>a DEF Split
<1>22. CASE Abandon(t)
  BY <1>22, <1>a DEF Abandon
<1>23. CASE Snapshot(t)
  BY <1>23, <1>a DEF Snapshot
<1>24. CASE Shrink(t)
  BY <1>24, <1>a DEF Shrink
<1>25. CASE ContractTable(t)
  BY <1>25, <1>a DEF ContractTable
<1>26. CASE ContractMinimal(t)
  BY <1>26, <1>a DEF ContractMinimal
<1>27. CASE ContractLast(t)
  BY <1>27, <1>a DEF ContractLast
<1>28. CASE ContractTarget(t)
  BY <1>28, <1>a DEF ContractTarget
<1>29. CASE ContractNoClump(t)
  BY <1>29, <1>a DEF ContractNoClump
<1>30. CASE Merge(t)
  BY <1>30, <1>a DEF Merge
<1>31. CASE ClearNothing(t)
  BY <1>31, <1>a DEF ClearNothing
<1>32. CASE ClearTable(t)
  BY <1>32, <1>a DEF ClearTable
<1>33. CASE ClearBucket(t)
  BY <1>33, <1>a DEF ClearBucket
<1>34. CASE ClearRecord(t)
  BY <1>34
<1>35. CASE ClearCount(t)
  BY <1>35, <1>a DEF ClearCount
<1>36. CASE ClearNext(t)
  BY <1>36, <1>a DEF ClearNext
<1>37. CASE ClearReset(t)
  BY <1>37
<1>38. CASE CheckInvalid(t)
  BY <1>38, <1>a DEF CheckInvalid
<1>39. CASE CheckTable(t)
  BY <1>39, <1>a DEF CheckTable
<1>40. CASE CheckBucket(t)
  BY <1>40, <1>a DEF CheckBucket
<1>41. CASE CheckCount(t)
  BY <1>41, <1>a DEF CheckCount
<1> QED BY <1>1, <1>2, <1>3, <1>4, <1>5, <1>6, <1>7, <1>8, <1>9, <1>10, <1>11, <1>12,
         <1>13, <1>14, <1>15, <1>16, <1>17, <1>18, <1>19, <1>20, <1>21, <1>22, <1>23,
         <1>24, <1>25, <1>26, <1>27, <1>28, <1>29, <1>30, <1>31, <1>32, <1>33, <1>34,
         <1>35, <1>36, <1>37, <1>38, <1>39, <1>40, <1>41
         DEF Step, Body, Expand, Contract, Clear, Check

LEMMA ClearedStep ==
  ASSUME PInv, IInv', ClearedInv, NEW t \in Thread, Call(t) \/ Step(t)
  PROVE  ClearedInv'
<1> TypeOK /\ IInv /\ TableLockInv
  BY DEF PInv, IInv
<1>a. /\ pc \in [Thread -> PC] /\ scan \in [Thread -> Nat] /\ cleared \subseteq Record
  BY DEF TypeOK
<1>b. ASSUME NEW u \in Thread, pc[u] \notin Outside, NEW r \in Record
      PROVE  Settled(r) \in Nat
  <2>1. HasDirectory
    BY <1>b DEF PInv, NoTableInv
  <2> QED BY <2>1, SettledFacts DEF Addr
<1>1. CASE ClearReset(t)
  BY <1>1 DEF ClearReset, ClearedInv
<1>2. CASE ~ClearReset(t)
  <2>1. ASSUME pc[t] \in {"clearBucket", "clearLoad", "clearStore"}
        PROVE  /\ SettledSame
               /\ \/ pc[t] = "clearBucket" /\ pc'[t] = "clearLoad" /\ scan'[t] = scan[t]
                  \/ pc[t] = "clearLoad" /\ pc'[t] = "clearStore" /\ scan'[t] = scan[t]
                  \/ pc[t] = "clearStore" /\ pc'[t] = "clearLoad" /\ scan'[t] = scan[t]
                  \/ pc[t] = "clearLoad" /\ pc'[t] = "clearBucket" /\ scan'[t] = scan[t] + 1
    <3>1. ClearBucket(t) \/ ClearRecord(t) \/ ClearCount(t) \/ ClearNext(t)
      BY <1>2, <2>1, ClearingStep
    <3>2. ~ExpandNew(t) /\ ~ContractTarget(t)
      BY <2>1 DEF ExpandNew, ContractTarget
    <3>3. SettledSame
      BY <1>2, <3>2, SettledStep
    <3> QED BY <3>1, <3>3, <1>a DEF ClearBucket, ClearRecord, ClearCount, ClearNext
  <2>2. ASSUME NEW r \in cleared PROVE
          \E u \in Thread : \/ pc'[u] = "clearBucket" /\ Settled(r)' < scan'[u]
                            \/ pc'[u] \in {"clearLoad", "clearStore"} /\ Settled(r)' <= scan'[u]
    <3> PICK u \in Thread : \/ pc[u] = "clearBucket" /\ Settled(r) < scan[u]
                            \/ pc[u] \in {"clearLoad", "clearStore"} /\ Settled(r) <= scan[u]
      BY DEF ClearedInv
    <3>1. r \in Record /\ Settled(r) \in Nat
      BY <1>a, <1>b DEF Outside
    <3>2. CASE u = t
      <4>1. Settled(r)' = Settled(r)
        BY <2>1, <3>1, <3>2 DEF SettledSame
      <4> QED BY <2>1, <3>1, <3>2, <4>1, <1>a
    <3>3. CASE u # t
      <4>1. Settled(r)' = Settled(r)
        BY <3>1, <3>3, SettledForHolder DEF Writing, SettledSame
      <4> QED BY <3>3, <4>1, Frame
    <3> QED BY <3>2, <3>3
  <2>3. CASE ClearRecord(t)
    <3>1. PICK x \in Contents : Settled(x) = scan[t] /\ cleared' = cleared \cup {x}
      BY <2>3, ClearRecordContents
    <3>2. pc[t] = "clearLoad" /\ pc'[t] = "clearStore" /\ scan'[t] = scan[t]
      BY <2>3, <1>a DEF ClearRecord
    <3>3. x \in Record /\ Settled(x)' = Settled(x) /\ Settled(x) \in Nat
      BY <1>b, <2>1, <3>2, ContentsType DEF SettledSame, Outside
    <3> QED BY <2>2, <3>1, <3>2, <3>3, <1>a DEF ClearedInv
  <2>4. CASE ~ClearRecord(t)
    <3>1. cleared' = cleared
      BY <1>2, <2>4, ClearingStep
    <3> QED BY <2>2, <3>1 DEF ClearedInv
  <2> QED BY <2>3, <2>4
<1> QED BY <1>1, <1>2

LEMMA InitRInv ==
  ASSUME Init
  PROVE  RInv
<1>1. /\ \A t \in Thread : pc[t] = "idle" /\ op[t] = "CheckTable" /\ result[t] = "NONE"
      /\ cleared = {}
  BY DEF Init
<1> QED BY <1>1, InitPInv DEF RInv, OpInv, OpOK, ClearedInv, NoneMisplaced, ClearPoints

LEMMA StepRInv ==
  ASSUME RInv, [Next]_vars
  PROVE  RInv'
<1>1. PInv /\ PInv' /\ IInv /\ IInv'
  BY StepPInv DEF RInv, PInv
<1>2. CASE \E t \in Thread : Call(t) \/ Step(t)
  BY <1>1, <1>2, OpStep, MisplacedStep, ClearedStep DEF RInv
<1>3. CASE UNCHANGED vars
  <2>1. OpInv' /\ NoneMisplaced'
    BY <1>3 DEF RInv, OpInv, OpOK, NoneMisplaced
  <2>2. \A r : Settled(r)' = Settled(r)
    BY <1>3 DEF Settled, SettledIdx, Contraction
  <2>3. ClearedInv'
    BY <1>3, <2>2 DEF RInv, ClearedInv
  <2> QED BY <1>1, <2>1, <2>3 DEF RInv
<1> QED BY <1>2, <1>3 DEF Next, Done

-----------------------------------------------------------------------------
(* The count of the records, when no one clears the table *)

\* While a CheckTable has the table lock no bucket is locked for writing anew.
LEMMA NoNewWriter ==
  ASSUME PInv, NEW t \in Thread, Call(t) \/ Step(t), NEW u \in Thread \ {t}, Reading(u),
         NEW a \in Addr, bktWriter[a] = NoThread
  PROVE  bktWriter'[a] = NoThread /\ bucket'[a] = bucket[a]
<1> TypeOK /\ TableLockInv /\ BucketLockInv
  BY DEF PInv, IInv
<1>a. /\ pc \in [Thread -> PC] /\ bktWriter \in [Addr -> Thread \cup {NoThread}]
      /\ home[t] \in Addr /\ other[t] \in Addr
  BY DEF TypeOK
<1>b. bucket'[a] = bucket[a]
  <2>1. ~HoldsForWrite(t, a)
    BY ThreadAssumption DEF BucketLockInv
  <2> QED BY <2>1, BucketWritten
<1>c. /\ pc[t] \notin {"expandOld", "expandNew", "contractLast", "contractTarget",
                       "clearBucket", "clearLoad", "clearStore"}
      /\ pc[t] = "lockBucket" => op[t] \in Finds
  BY ReaderExcludes DEF Writing
<1>d. \A A : UnlockBuckets(t, A) => bktWriter'[a] = NoThread
  BY DEF UnlockBuckets
<1> SUFFICES bktWriter'[a] = NoThread
  BY <1>b
<1>1. CASE Call(t)
  BY <1>1, <1>c, <1>d DEF Call
<1>2. CASE LockTable(t)
  BY <1>2, <1>c, <1>d DEF LockTable
<1>3. CASE LockTableWithoutDirectory(t)
  BY <1>3, <1>c, <1>d DEF LockTableWithoutDirectory
<1>4. CASE LockBucket(t)
  BY <1>4, <1>c DEF LockBucket, LockBucketForRead
<1>5. CASE InsertExisting(t)
  BY <1>5, <1>c, <1>d DEF InsertExisting
<1>6. CASE InsertUpdate(t)
  BY <1>6, <1>c, <1>d DEF InsertUpdate
<1>7. CASE InsertNew(t)
  BY <1>7, <1>c, <1>d DEF InsertNew
<1>8. CASE InsertNoMemory(t)
  BY <1>8, <1>c, <1>d DEF InsertNoMemory
<1>9. CASE DeleteFound(t)
  BY <1>9, <1>c, <1>d DEF DeleteFound
<1>10. CASE DeleteMissing(t)
  BY <1>10, <1>c, <1>d DEF DeleteMissing
<1>11. CASE FindKey(t)
  BY <1>11, <1>c, <1>d DEF FindKey
<1>12. CASE FindOther(t)
  BY <1>12, <1>c, <1>d DEF FindOther
<1>13. CASE Release(t)
  BY <1>13, <1>c, <1>d DEF Release
<1>14. CASE Grow(t)
  BY <1>14, <1>c, <1>d DEF Grow
<1>15. CASE ExpandTable(t)
  BY <1>15, <1>c, <1>d DEF ExpandTable
<1>16. CASE ExpandNoDirectory(t)
  BY <1>16, <1>c, <1>d DEF ExpandNoDirectory
<1>17. CASE ExpandNoSegment(t)
  BY <1>17, <1>c, <1>d DEF ExpandNoSegment
<1>18. CASE ExpandOld(t)
  BY <1>18, <1>c, <1>d DEF ExpandOld
<1>19. CASE ExpandNew(t)
  BY <1>19, <1>c, <1>d DEF ExpandNew
<1>20. CASE ExpandNoClump(t)
  BY <1>20, <1>c, <1>d DEF ExpandNoClump
<1>21. CASE Split(t)
  BY <1>21, <1>c, <1>d DEF Split
<1>22. CASE Abandon(t)
  BY <1>22, <1>c, <1>d DEF Abandon
<1>23. CASE Snapshot(t)
  BY <1>23, <1>c, <1>d DEF Snapshot
<1>24. CASE Shrink(t)
  BY <1>24, <1>c, <1>d DEF Shrink
<1>25. CASE ContractTable(t)
  BY <1>25, <1>c, <1>d DEF ContractTable
<1>26. CASE ContractMinimal(t)
  BY <1>26, <1>c, <1>d DEF ContractMinimal
<1>27. CASE ContractLast(t)
  BY <1>27, <1>c, <1>d DEF ContractLast
<1>28. CASE ContractTarget(t)
  BY <1>28, <1>c, <1>d DEF ContractTarget
<1>29. CASE ContractNoClump(t)
  BY <1>29, <1>c, <1>d DEF ContractNoClump
<1>30. CASE Merge(t)
  BY <1>30, <1>c, <1>d DEF Merge
<1>31. CASE ClearNothing(t)
  BY <1>31, <1>c, <1>d DEF ClearNothing
<1>32. CASE ClearTable(t)
  BY <1>32, <1>c, <1>d DEF ClearTable
<1>33. CASE ClearBucket(t)
  BY <1>33, <1>c, <1>d DEF ClearBucket
<1>34. CASE ClearRecord(t)
  BY <1>34, <1>c, <1>d DEF ClearRecord
<1>35. CASE ClearCount(t)
  BY <1>35, <1>c, <1>d DEF ClearCount
<1>36. CASE ClearNext(t)
  BY <1>36, <1>c, <1>d DEF ClearNext
<1>37. CASE ClearReset(t)
  BY <1>37, <1>c, <1>d DEF ClearReset
<1>38. CASE CheckInvalid(t)
  BY <1>38, <1>c, <1>d DEF CheckInvalid
<1>39. CASE CheckTable(t)
  BY <1>39, <1>c, <1>d DEF CheckTable
<1>40. CASE CheckBucket(t)
  BY <1>40, <1>c, <1>d DEF CheckBucket
<1>41. CASE CheckCount(t)
  BY <1>41, <1>c, <1>d DEF CheckCount
<1> QED BY <1>1, <1>2, <1>3, <1>4, <1>5, <1>6, <1>7, <1>8, <1>9, <1>10, <1>11, <1>12,
         <1>13, <1>14, <1>15, <1>16, <1>17, <1>18, <1>19, <1>20, <1>21, <1>22, <1>23,
         <1>24, <1>25, <1>26, <1>27, <1>28, <1>29, <1>30, <1>31, <1>32, <1>33, <1>34,
         <1>35, <1>36, <1>37, <1>38, <1>39, <1>40, <1>41
         DEF Step, Body, Expand, Contract, Clear, Check

LEMMA CountedFacts ==
  ASSUME TypeOK, NEW n \in Nat
  PROVE  /\ Counted(n) \subseteq Record /\ IsFiniteSet(Counted(n))
         /\ Cardinality(Counted(n)) \in Nat
<1>1. Counted(n) \subseteq Record
  BY DEF Counted
<1> QED BY <1>1, RecordAssumption, FS_Subset, FS_CardinalityType

\* Others leave alone what CheckTable has been through.
LEMMA CountOthers ==
  ASSUME PInv, NEW t \in Thread, Call(t) \/ Step(t), NEW u \in Thread \ {t}, CountOK(u)
  PROVE  CountOK(u)'
<1> TypeOK
  BY DEF PInv, IInv
<1>1. pc'[u] = pc[u] /\ tally'[u] = tally[u] /\ scan'[u] = scan[u]
  BY Frame
<1> SUFFICES ASSUME pc[u] = "checkBucket" PROVE CountOK(u)'
  BY <1>1 DEF CountOK
<1>2. /\ tally[u] = Cardinality(Counted(scan[u]))
      /\ \A a \in Addr : a < scan[u] => bktWriter[a] = NoThread
  BY DEF CountOK
<1>3. \A a \in Addr : a < scan[u] => bktWriter'[a] = NoThread /\ bucket'[a] = bucket[a]
  BY <1>2, NoNewWriter DEF Reading
<1>4. Counted(scan[u])' = Counted(scan[u])
  BY <1>1, <1>3 DEF Counted
<1> QED BY <1>1, <1>2, <1>3, <1>4 DEF CountOK

\* A bucket is added to what CheckTable has counted.
LEMMA CountBucket ==
  ASSUME PInv, NEW t \in Thread, CountOK(t), CheckBucket(t)
  PROVE  CountOK(t)'
<1> TypeOK
  BY DEF PInv, IInv
<1>1. /\ pc[t] = "checkBucket" /\ scan[t] < cActiveBuckets /\ bktWriter[scan[t]] = NoThread
      /\ scan[t] \in Nat /\ scan'[t] = scan[t] + 1
      /\ tally'[t] = tally[t] + Cardinality(bucket[scan[t]])
      /\ bucket' = bucket /\ bktWriter' = bktWriter
  BY DEF CheckBucket, TypeOK
<1>2. scan[t] \in Addr
  BY <1>1, BucketChecked
<1>3. /\ tally[t] = Cardinality(Counted(scan[t]))
      /\ \A a \in Addr : a < scan[t] => bktWriter[a] = NoThread
  BY <1>1 DEF CountOK
<1> DEFINE B == bucket[scan[t]]
           C == Counted(scan[t])
<1>4. /\ Counted(scan[t] + 1) = C \cup B /\ C \cap B = {}
  <2>1. \A a \in Addr : a < scan[t] + 1 <=> a < scan[t] \/ a = scan[t]
    BY <1>1 DEF Addr
  <2>2. Counted(scan[t] + 1) = C \cup B
    BY <1>2, <2>1 DEF Counted, TypeOK
  <2>3. ASSUME NEW r \in C, r \in B PROVE FALSE
    <3>1. PICK a \in Addr : a < scan[t] /\ r \in bucket[a]
      BY DEF Counted
    <3> QED BY <1>1, <1>2, <2>3, <3>1, OnePlace
  <2> QED BY <2>2, <2>3
<1>5. /\ IsFiniteSet(C) /\ Cardinality(C) \in Nat
      /\ IsFiniteSet(B) /\ Cardinality(B) \in Nat
  <2>1. B \subseteq Record
    BY <1>2 DEF TypeOK
  <2> QED BY <1>1, <2>1, CountedFacts, RecordAssumption, FS_Subset, FS_CardinalityType
<1>6. Cardinality(C \cup B) = Cardinality(C) + Cardinality(B)
  <2>1. Cardinality(C \cup B) = Cardinality(C) + Cardinality(B) - Cardinality(C \cap B)
    BY <1>5, FS_Union
  <2>2. Cardinality(C \cap B) = 0
    BY <1>4, FS_EmptySet
  <2> QED BY <1>5, <2>1, <2>2
<1>7. Counted(scan[t])' = Counted(scan[t] + 1)
  BY <1>1 DEF Counted
<1>8. tally'[t] = Cardinality(Counted(scan[t])')
  BY <1>1, <1>3, <1>4, <1>6, <1>7
<1>9. \A a \in Addr : a < scan'[t] => bktWriter'[a] = NoThread
  BY <1>1, <1>3 DEF Addr
<1> QED BY <1>8, <1>9 DEF CountOK

\* At the end, CheckTable has counted the table.
LEMMA CountedAll ==
  ASSUME PInv, NEW t \in Thread, CountOK(t), pc[t] = "checkBucket", scan[t] = cActiveBuckets
  PROVE  tally[t] = Cardinality(Contents)
<1> TypeOK /\ IInv /\ TableLockInv /\ BucketLockInv
  BY DEF PInv, IInv
<1>1. /\ tally[t] = Cardinality(Counted(scan[t]))
      /\ \A a \in Addr : a < scan[t] => bktWriter[a] = NoThread
  BY DEF CountOK
<1>2. HasDirectory /\ Reading(t) /\ ~Contraction
  BY OneResizer DEF PInv, NoTableInv, Outside, Reading
<1>3. SettledBuckets <= cActiveBuckets
  BY <1>2, SettledFacts, TableBounds DEF IInv, TypeOK
<1>4. ASSUME NEW r \in Contents PROVE r \in Counted(scan[t])
  <2>1. r \in Record /\ Settled(r) \in Addr
    BY <1>2, ContentsType, SettledFacts
  <2>2. Settled(r) < scan[t]
    BY <1>2, <1>3, <2>1, SettledFacts DEF TypeOK, Addr
  <2>3. bktWriter[Settled(r)] = NoThread
    BY <1>1, <2>1, <2>2
  <2>4. ASSUME NEW u \in Thread PROVE ~HoldsForWrite(u, Settled(r))
    BY <2>1, <2>3, ThreadAssumption DEF BucketLockInv
  <2>5. r \in bucket[Settled(r)]
    <3>1. ASSUME NEW u \in Thread, pc[u] = "split", Settled(r) = other[u] PROVE FALSE
      BY <3>1, <2>4 DEF HoldsForWrite
    <3>2. ASSUME NEW u \in Thread, pc[u] = "merge", Settled(r) = home[u] PROVE FALSE
      BY <3>2, <2>4 DEF HoldsForWrite
    <3> QED BY <3>1, <3>2, WhereRecordsAre
  <2> QED BY <2>1, <2>2, <2>5 DEF Counted
<1>5. ASSUME NEW r \in Counted(scan[t]) PROVE r \in Contents
  BY ContentsMembers DEF Counted
<1>6. Counted(scan[t]) = Contents
  BY <1>4, <1>5
<1> QED BY <1>1, <1>6

\* Who changes the count, and that nobody clears.
LEMMA CountKept ==
  ASSUME TypeOK, "Clear" \notin Ops, NEW t \in Thread, Call(t) \/ Step(t), pc[t] \notin ClearPoints
  PROVE  /\ pc'[t] \notin ClearPoints
         /\ pc'[t] = "checkBucket" => CheckTable(t) \/ CheckBucket(t)
         /\ result'[t] # "MISCOUNTED" \/ result'[t] = result[t] \/ CheckCount(t)
         /\ ~InsertNew(t) /\ ~DeleteFound(t) => cRecords' = cRecords
<1>a. /\ pc \in [Thread -> PC] /\ pc[t] \notin ClearPoints
      /\ \A v : result' = [result EXCEPT ![t] = v] => result'[t] = v
      /\ lkrcState # "MISCOUNTED"
  BY DEF TypeOK
<1> USE DEF ClearPoints
<1>1. CASE Call(t)
  <2>1. PICK o \in Ops, r \in Record :
          /\ pc' = [pc EXCEPT ![t] = CASE o = "Clear" -> "clearTable"
                                      [] o # "Clear" /\ ~IsUsable -> "idle"
                                      [] o = "CheckTable" /\ IsUsable -> "checkTable"
                                      [] OTHER -> "lockTable"]
          /\ result' = [result EXCEPT ![t] = IF o # "Clear" /\ ~IsUsable THEN lkrcState ELSE "NONE"]
    BY <1>1 DEF Call
  <2>2. o # "Clear"
    OBVIOUS
  <2>3. pc'[t] \in {"idle", "checkTable", "lockTable"}
    BY <1>a, <2>1, <2>2
  <2>4. result'[t] # "MISCOUNTED" /\ cRecords' = cRecords
    BY <1>a, <1>1, <2>1 DEF Call
  <2> QED BY <2>3, <2>4
<1>2. CASE LockTable(t)
  BY <1>2, <1>a DEF LockTable
<1>3. CASE LockTableWithoutDirectory(t)
  BY <1>3, <1>a DEF LockTableWithoutDirectory
<1>4. CASE LockBucket(t)
  BY <1>4, <1>a DEF LockBucket
<1>5. CASE InsertExisting(t)
  BY <1>5, <1>a DEF InsertExisting
<1>6. CASE InsertUpdate(t)
  BY <1>6, <1>a DEF InsertUpdate
<1>7. CASE InsertNew(t)
  BY <1>7, <1>a DEF InsertNew
<1>8. CASE InsertNoMemory(t)
  BY <1>8, <1>a DEF InsertNoMemory
<1>9. CASE DeleteFound(t)
  BY <1>9, <1>a DEF DeleteFound
<1>10. CASE DeleteMissing(t)
  BY <1>10, <1>a DEF DeleteMissing
<1>11. CASE FindKey(t)
  BY <1>11, <1>a DEF FindKey
<1>12. CASE FindOther(t)
  BY <1>12, <1>a DEF FindOther
<1>13. CASE Release(t)
  BY <1>13, <1>a DEF Release
<1>14. CASE Grow(t)
  BY <1>14, <1>a DEF Grow
<1>15. CASE ExpandTable(t)
  BY <1>15, <1>a DEF ExpandTable
<1>16. CASE ExpandNoDirectory(t)
  BY <1>16, <1>a DEF ExpandNoDirectory
<1>17. CASE ExpandNoSegment(t)
  BY <1>17, <1>a DEF ExpandNoSegment
<1>18. CASE ExpandOld(t)
  BY <1>18, <1>a DEF ExpandOld
<1>19. CASE ExpandNew(t)
  BY <1>19, <1>a DEF ExpandNew
<1>20. CASE ExpandNoClump(t)
  BY <1>20, <1>a DEF ExpandNoClump
<1>21. CASE Split(t)
  BY <1>21, <1>a DEF Split
<1>22. CASE Abandon(t)
  BY <1>22, <1>a DEF Abandon
<1>23. CASE Snapshot(t)
  BY <1>23, <1>a DEF Snapshot
<1>24. CASE Shrink(t)
  BY <1>24, <1>a DEF Shrink
<1>25. CASE ContractTable(t)
  BY <1>25, <1>a DEF ContractTable
<1>26. CASE ContractMinimal(t)
  BY <1>26, <1>a DEF ContractMinimal
<1>27. CASE ContractLast(t)
  BY <1>27, <1>a DEF ContractLast
<1>28. CASE ContractTarget(t)
  BY <1>28, <1>a DEF ContractTarget
<1>29. CASE ContractNoClump(t)
  BY <1>29, <1>a DEF ContractNoClump
<1>30. CASE Merge(t)
  BY <1>30, <1>a DEF Merge
<1>31. CASE ClearNothing(t)
  BY <1>31, <1>a DEF ClearNothing
<1>32. CASE ClearTable(t)
  BY <1>32, <1>a DEF ClearTable
<1>33. CASE ClearBucket(t)
  BY <1>33, <1>a DEF ClearBucket
<1>34. CASE ClearRecord(t)
  BY <1>34, <1>a DEF ClearRecord
<1>35. CASE ClearCount(t)
  BY <1>35, <1>a DEF ClearCount
<1>36. CASE ClearNext(t)
  BY <1>36, <1>a DEF ClearNext
<1>37. CASE ClearReset(t)
  BY <1>37, <1>a DEF ClearReset
<1>38. CASE CheckInvalid(t)
  BY <1>38, <1>a DEF CheckInvalid
<1>39. CASE CheckTable(t)
  BY <1>39, <1>a DEF CheckTable
<1>40. CASE CheckBucket(t)
  BY <1>40, <1>a DEF CheckBucket, TypeOK
<1>41. CASE CheckCount(t)
  BY <1>41, <1>a DEF CheckCount, TypeOK
<1> QED BY <1>1, <1>2, <1>3, <1>4, <1>5, <1>6, <1>7, <1>8, <1>9, <1>10, <1>11, <1>12,
         <1>13, <1>14, <1>15, <1>16, <1>17, <1>18, <1>19, <1>20, <1>21, <1>22, <1>23,
         <1>24, <1>25, <1>26, <1>27, <1>28, <1>29, <1>30, <1>31, <1>32, <1>33, <1>34,
         <1>35, <1>36, <1>37, <1>38, <1>39, <1>40, <1>41
         DEF Step, Body, Expand, Contract, Clear, Check

LEMMA CountStep ==
  ASSUME PInv, CountInv, "Clear" \notin Ops, Cardinality(Record) < CountModulus,
         NEW t \in Thread, Call(t) \/ Step(t)
  PROVE  CountInv'
<1> TypeOK
  BY DEF PInv, IInv
<1>a. /\ cRecords = Cardinality(Contents) /\ pc[t] \notin ClearPoints
      /\ result[t] # "MISCOUNTED" /\ CountOK(t)
      /\ \A u \in Thread : pc[u] \notin ClearPoints /\ result[u] # "MISCOUNTED" /\ CountOK(u)
  BY DEF CountInv
<1>b. Contents \subseteq Record /\ Contents' \subseteq Record
  <2>1. TypeOK'
    BY TypeStep DEF PInv
  <2>2. Contents' \subseteq Record
    BY <2>1, ContentsMembersNext DEF TypeOK
  <2> QED BY <2>2, ContentsType
<1>c. /\ IsFiniteSet(Contents) /\ Cardinality(Contents) \in Nat
      /\ Cardinality(Contents') \in Nat /\ Cardinality(Contents') < CountModulus
      /\ CountModulus \in Nat
  BY <1>b, RecordAssumption, FS_Subset, FS_CardinalityType, SizeFacts
<1>1. cRecords' = Cardinality(Contents')
  <2>1. CASE InsertNew(t)
    <3>1. Cardinality(Contents') = Cardinality(Contents) + 1
      BY <2>1, <1>c, InsertNewContents, FS_AddElement
    <3>2. cRecords' = (cRecords + 1) % CountModulus
      BY <2>1 DEF InsertNew
    <3> QED BY <1>a, <1>c, <3>1, <3>2
  <2>2. CASE DeleteFound(t)
    <3>1. Cardinality(Contents') = Cardinality(Contents) - 1
      BY <2>2, <1>c, DeleteFoundContents, FS_RemoveElement
    <3>2. cRecords' = (cRecords + CountModulus - 1) % CountModulus
      BY <2>2 DEF DeleteFound
    <3>3. cRecords + CountModulus - 1 = Cardinality(Contents') + CountModulus
      BY <1>a, <1>c, <3>1
    <3>4. (Cardinality(Contents') + CountModulus) % CountModulus = Cardinality(Contents')
      BY <1>c
    <3> QED BY <3>2, <3>3, <3>4
  <2>3. CASE InsertUpdate(t)
    <3>1. PICK old \in Contents : /\ rec[t] \in Contents => rec[t] = old
                                  /\ Contents' = (Contents \ {old}) \cup {rec[t]}
      BY <2>3, InsertUpdateContents
    <3>2. IsFiniteSet(Contents \ {old}) /\ Cardinality(Contents \ {old}) = Cardinality(Contents) - 1
      BY <1>c, FS_RemoveElement
    <3>3. rec[t] \notin Contents \ {old}
      BY <3>1
    <3>4. Cardinality(Contents') = Cardinality(Contents)
      <4> DEFINE S == Contents \ {old}
      <4>1. IsFiniteSet(S) /\ Cardinality(S) = Cardinality(Contents) - 1 /\ rec[t] \notin S
        BY <3>2, <3>3
      <4>2. Contents' = S \cup {rec[t]}
        BY <3>1
      <4> HIDE DEF S, Contents
      <4>3. Cardinality(S \cup {rec[t]}) = Cardinality(S) + 1
        BY <4>1, FS_AddElement
      <4> QED BY <1>c, <4>1, <4>2, <4>3
    <3> QED BY <1>a, <2>3, <3>4 DEF InsertUpdate
  <2>4. CASE ~InsertNew(t) /\ ~DeleteFound(t) /\ ~InsertUpdate(t)
    <3>1. ~ClearRecord(t)
      BY <1>a DEF ClearRecord, ClearPoints
    <3> QED BY <1>a, <2>4, <3>1, CountKept, ContentsSame
  <2> QED BY <2>1, <2>2, <2>3, <2>4
<1>2. CountOK(t)'
  <2>1. CASE CheckTable(t)
    <3>1. pc'[t] = "checkBucket" /\ scan'[t] = 0 /\ tally'[t] = 0
      BY <2>1 DEF CheckTable, TypeOK
    <3>2. Counted(scan[t])' = {}
      BY <3>1 DEF Counted, Addr
    <3>3. \A a \in Addr : ~(a < scan'[t])
      BY <3>1 DEF Addr
    <3> QED BY <3>1, <3>2, <3>3, FS_EmptySet DEF CountOK
  <2>2. CASE CheckBucket(t)
    BY <1>a, <2>2, CountBucket
  <2>3. CASE ~CheckTable(t) /\ ~CheckBucket(t)
    BY <1>a, <2>3, CountKept DEF CountOK
  <2> QED BY <2>1, <2>2, <2>3
<1>3. result'[t] # "MISCOUNTED"
  <2>1. CASE CheckCount(t)
    <3>1. pc[t] = "checkBucket" /\ scan[t] = cActiveBuckets
      BY <2>1 DEF CheckCount
    <3>2. tally[t] = cRecords
      BY <1>a, <3>1, CountedAll
    <3> QED BY <2>1, <3>2 DEF CheckCount, TypeOK
  <2>2. CASE ~CheckCount(t)
    BY <1>a, <2>2, CountKept
  <2> QED BY <2>1, <2>2
<1>4. pc'[t] \notin ClearPoints
  BY <1>a, CountKept
<1>5. ASSUME NEW u \in Thread \ {t}
      PROVE  pc'[u] \notin ClearPoints /\ result'[u] # "MISCOUNTED" /\ CountOK(u)'
  BY <1>a, Frame, CountOthers
<1> QED BY <1>1, <1>2, <1>3, <1>4, <1>5 DEF CountInv

LEMMA InitCount ==
  ASSUME Init
  PROVE  CountInv
<1>1. Contents = InitialRecords
  BY InitialContents
<1>2. /\ cRecords = Cardinality(InitialRecords)
      /\ \A t \in Thread : pc[t] = "idle" /\ result[t] = "NONE"
  BY DEF Init
<1> QED BY <1>1, <1>2 DEF CountInv, CountOK, ClearPoints

LEMMA CountUnchanged ==
  ASSUME CountInv, UNCHANGED vars
  PROVE  CountInv'
BY DEF CountInv, CountOK, Counted, Contents, Merging

(***************************************************************************)
(* While nobody clears the table, m_cRecords is the number of its records  *)
(* and CheckTable finds it so, and every record in its place, however many *)
(* threads insert, delete, split and merge beside it.                      *)
(***************************************************************************)
THEOREM CheckTableAlwaysConsistent ==
  ASSUME "Clear" \notin Ops, Cardinality(Record) < CountModulus
  PROVE  Spec => []CheckTableConsistent
<1>1. Init => RInv /\ CountInv
  BY InitRInv, InitCount
<1>2. RInv /\ CountInv /\ [Next]_vars => RInv' /\ CountInv'
  <2> SUFFICES ASSUME RInv, CountInv, [Next]_vars PROVE CountInv'
    BY StepRInv
  <2>1. PInv
    BY DEF RInv
  <2>2. CASE \E t \in Thread : Call(t) \/ Step(t)
    BY <2>1, <2>2, CountStep
  <2>3. CASE UNCHANGED vars
    BY <2>3, CountUnchanged
  <2> QED BY <2>2, <2>3 DEF Next, Done
<1>3. RInv /\ CountInv => CheckTableConsistent
  BY DEF RInv, NoneMisplaced, CountInv, CheckTableConsistent
<1> QED BY <1>1, <1>2, <1>3, PTL DEF Spec

-----------------------------------------------------------------------------
(* The table implements RecordTable *)

PhaseOf(p) == CASE p = "idle" -> "idle"
                [] p \in CalledAt -> "called"
                [] OTHER -> "done"

\* One thread's step changes that thread's phase.
LEMMA PhaseStep ==
  ASSUME TypeOK, NEW t \in Thread, Call(t) \/ Step(t)
  PROVE  /\ Phase[t] = PhaseOf(pc[t])
         /\ Phase' = [Phase EXCEPT ![t] = PhaseOf(pc'[t])]
<1>1. Phase = [u \in Thread |-> PhaseOf(pc[u])] /\ Phase' = [u \in Thread |-> PhaseOf(pc'[u])]
  BY DEF Phase, PhaseOf
<1>2. \A u \in Thread \ {t} : pc'[u] = pc[u]
  BY Frame
<1> HIDE DEF PhaseOf
<1> QED BY <1>1, <1>2

\* What a Clear has removed is not in the bucket another thread works on.
LEMMA BodyNotCleared ==
  ASSUME PInv, ClearedInv, NEW t \in Thread, pc[t] = "body", NEW r \in cleared
  PROVE  Settled(r) # home[t]
<1> TypeOK /\ BucketLockInv
  BY DEF PInv, IInv
<1>1. /\ home[t] \in Addr /\ home[t] \in Nat
      /\ HoldsForWrite(t, home[t]) \/ HoldsForRead(t, home[t])
  BY InBody DEF Addr
<1> SUFFICES ASSUME Settled(r) = home[t] PROVE FALSE
  OBVIOUS
<1> PICK u \in Thread : \/ pc[u] = "clearBucket" /\ Settled(r) < scan[u]
                        \/ pc[u] \in {"clearLoad", "clearStore"} /\ Settled(r) <= scan[u]
  BY DEF ClearedInv
<1>2. CASE home[t] < scan[u]
  <2>1. BucketFree(home[t])
    BY <1>1, <1>2 DEF PInv, ScanInv, ScanOK
  <2> QED BY <1>1, <2>1, BucketFreeExcludes
<1>3. CASE pc[u] \in {"clearLoad", "clearStore"} /\ scan[u] = home[t]
  <2>1. HoldsForWrite(u, home[t]) /\ u # t
    BY <1>3 DEF HoldsForWrite
  <2> QED BY <1>1, <2>1, BucketExcludes
<1>4. scan[u] \in Nat
  BY DEF TypeOK
<1>5. home[t] < scan[u] \/ (pc[u] \in {"clearLoad", "clearStore"} /\ scan[u] = home[t])
  BY <1>1, <1>4
<1> QED BY <1>2, <1>3, <1>5

\* What a thread finds in its bucket is what RecordTable finds in the table.
LEMMA BodySees ==
  ASSUME PInv, ClearedInv, NEW t \in Thread, pc[t] = "body"
  PROVE  /\ Abstract!SameKey(t) = SameKey(t)
         /\ Table \cap {rec[t]} = bucket[home[t]] \cap {rec[t]}
         /\ Abstract!Victims(t) = Victims(t)
<1>1. ASSUME NEW r \in cleared, KeyOf[r] = KeyOf[rec[t]] PROVE FALSE
  <2>1. Settled(r) = Settled(rec[t])
    BY <1>1 DEF Settled, Sig
  <2> QED BY <1>1, <2>1, InBody, BodyNotCleared
<1>2. Abstract!SameKey(t) = SameKey(t)
  BY <1>1, SameKeyComplete DEF Table, Abstract!SameKey
<1>3. Table \cap {rec[t]} = bucket[home[t]] \cap {rec[t]}
  BY <1>1, SameKeyComplete DEF Table
<1> QED BY <1>2, <1>3 DEF Victims, Abstract!Victims

\* Whoever finds the table lock free finds no Clear in progress.
LEMMA NothingCleared ==
  ASSUME IInv, ClearedInv, TableFree
  PROVE  cleared = {}
BY FreeExcludes DEF IInv, ClearedInv, Writing

\* Where a Clear returns at once, it has seen an empty table: what m_cRecords
\* and m_lkrc tell it is right.
ClearKnowsEmpty ==
  \A t \in Thread :
    pc[t] = "clearTable" /\ TableFree /\ (~IsUsable \/ cRecords = 0) => Contents = {}

\* The steps that RecordTable does not see.
LEMMA Stutter ==
  ASSUME TypeOK, NEW t \in Thread, Call(t) \/ Step(t),
         UNCHANGED <<op, rec, result>>, Table' = Table, PhaseOf(pc'[t]) = PhaseOf(pc[t])
  PROVE  UNCHANGED Abstract!vars
<1>1. Phase' = [Phase EXCEPT ![t] = Phase[t]]
  BY PhaseStep
<1>2. Phase' = Phase
  BY <1>1 DEF Phase
<1> QED BY <1>2 DEF Abstract!vars

\* The steps with which an operation ends that has taken effect already.
LEMMA Returns ==
  ASSUME TypeOK, NEW t \in Thread, Call(t) \/ Step(t),
         UNCHANGED <<op, rec, result>>, Table' = Table,
         PhaseOf(pc[t]) = "done", pc'[t] = "idle"
  PROVE  Abstract!Return(t)
<1>1. PhaseOf(pc'[t]) = "idle"
  BY DEF PhaseOf, CalledAt
<1> QED BY <1>1, PhaseStep DEF Abstract!Return

LEMMA TableSame ==
  ASSUME PInv, NEW t \in Thread, Call(t) \/ Step(t),
         ~InsertUpdate(t), ~InsertNew(t), ~DeleteFound(t), ~ClearReset(t)
  PROVE  Table' = Table
<1> TypeOK
  BY DEF PInv, IInv
<1>1. CASE ClearRecord(t)
  <2> PICK r \in Contents : Contents' = Contents \ {r} /\ cleared' = cleared \cup {r}
    BY <1>1, ClearRecordContents
  <2> QED BY DEF Table
<1>2. CASE ~ClearRecord(t)
  BY <1>2, ContentsSame, ClearingStep DEF Table
<1> QED BY <1>1, <1>2

\* Every step is a step of RecordTable, or one that it does not see.
LEMMA Implements ==
  ASSUME RInv, ClearKnowsEmpty, NEW t \in Thread, Call(t) \/ Step(t)
  PROVE  Abstract!Next \/ UNCHANGED Abstract!vars
<1> PInv /\ ClearedInv /\ IInv /\ TypeOK
  BY DEF RInv, PInv, IInv
<1>a. /\ pc \in [Thread -> PC] /\ op[t] \in OpNames /\ lkrcState # "CONSISTENT"
      /\ lkrcState \in {"SUCCESS", "ALLOC_FAIL", "UNUSABLE"}
  BY DEF TypeOK
<1>b. /\ pc[t] \in ClearPoints => op[t] = "Clear"
      /\ pc[t] \in {"checkTable", "checkBucket"} => op[t] = "CheckTable"
      /\ result[t] # "MISPLACED"
  BY DEF RInv, OpInv, OpOK, NoneMisplaced
<1>n. /\ Abstract!Invoke(t) \/ Abstract!Return(t) => Abstract!Next
      /\ Abstract!Insert(t) \/ Abstract!Overwrite(t) \/ Abstract!Delete(t) => Abstract!Next
      /\ Abstract!Find(t) \/ Abstract!Clear(t) \/ Abstract!CheckTable(t) => Abstract!Next
      /\ Abstract!Refuse(t) => Abstract!Next
  BY DEF Abstract!Next
<1>p. /\ PhaseOf("idle") = "idle" /\ \A p \in CalledAt : PhaseOf(p) = "called"
      /\ \A p : p \notin CalledAt /\ p # "idle" => PhaseOf(p) = "done"
  BY DEF PhaseOf, CalledAt
<1>t. ASSUME pc[t] # "body", pc[t] # "clearBucket" \/ pc'[t] # "idle"
      PROVE  Table' = Table
  BY <1>a, <1>t, TableSame DEF InsertUpdate, InsertNew, DeleteFound, ClearReset
<1>s. ASSUME pc[t] # "body", pc[t] # "clearBucket" \/ pc'[t] # "idle",
             UNCHANGED <<op, rec, result>>,
             pc[t] = pc'[t] \/ (pc[t] \in CalledAt /\ pc'[t] \in CalledAt)
             \/ (pc[t] \notin CalledAt \cup {"idle"} /\ pc'[t] \notin CalledAt \cup {"idle"})
      PROVE  UNCHANGED Abstract!vars
  <2>1. PhaseOf(pc'[t]) = PhaseOf(pc[t])
    BY <1>p, <1>s
  <2>2. Table' = Table
    BY <1>s, <1>t
  <2> HIDE DEF PhaseOf
  <2> QED BY <1>s, <2>1, <2>2, Stutter
<1>r. ASSUME pc[t] # "body", pc[t] \notin CalledAt \cup {"idle"}, pc'[t] = "idle",
             UNCHANGED <<op, rec, result>>
      PROVE  Abstract!Next
  <2>1. PhaseOf(pc[t]) = "done"
    BY <1>p, <1>r
  <2>2. Table' = Table
    BY <1>r, <1>t DEF CalledAt
  <2> HIDE DEF PhaseOf
  <2> QED BY <1>n, <1>r, <2>1, <2>2, Returns
<1>e. ASSUME pc[t] \in CalledAt, pc'[t] \notin CalledAt
      PROVE  /\ Phase[t] = "called"
             /\ \E p \in {"done", "idle"} : Phase' = [Phase EXCEPT ![t] = p]
  <2>1. PhaseOf(pc[t]) = "called" /\ PhaseOf(pc'[t]) \in {"done", "idle"}
    BY <1>e, <1>p
  <2> HIDE DEF PhaseOf
  <2> QED BY <2>1, PhaseStep
<1>k. pc[t] = "body" => /\ Abstract!SameKey(t) = SameKey(t) /\ Abstract!Victims(t) = Victims(t)
                        /\ Table \cap {rec[t]} = bucket[home[t]] \cap {rec[t]}
  BY BodySees
<1>1. CASE Call(t)
  <2>1. PICK o \in Ops, r \in Record :
          /\ op' = [op EXCEPT ![t] = o] /\ rec' = [rec EXCEPT ![t] = r]
          /\ pc[t] = "idle"
          /\ pc' = [pc EXCEPT ![t] = CASE o = "Clear" -> "clearTable"
                                      [] o # "Clear" /\ ~IsUsable -> "idle"
                                      [] o = "CheckTable" /\ IsUsable -> "checkTable"
                                      [] OTHER -> "lockTable"]
          /\ result' = [result EXCEPT ![t] = IF o # "Clear" /\ ~IsUsable THEN lkrcState ELSE "NONE"]
    BY <1>1 DEF Call
  <2>2. \/ pc'[t] \in CalledAt /\ result' = [result EXCEPT ![t] = "NONE"]
        \/ pc'[t] = "idle" /\ ~IsUsable /\ result' = [result EXCEPT ![t] = lkrcState]
    BY <2>1, <1>a DEF CalledAt
  <2>3. Table' = Table /\ o \in OpNames
    BY <1>t, <2>1, WorkloadAssumption
  <2>4. Phase[t] = "idle" /\ Phase' = [Phase EXCEPT ![t] = PhaseOf(pc'[t])]
    BY <1>p, <2>1, PhaseStep
  <2>5. \/ Phase' = [Phase EXCEPT ![t] = "called"] /\ result' = [result EXCEPT ![t] = "NONE"]
        \/ Phase' = Phase /\ \E e \in Abstract!Refusal : result' = [result EXCEPT ![t] = e]
    <3>1. CASE pc'[t] \in CalledAt /\ result' = [result EXCEPT ![t] = "NONE"]
      BY <1>p, <2>4, <3>1
    <3>2. CASE pc'[t] = "idle" /\ ~IsUsable /\ result' = [result EXCEPT ![t] = lkrcState]
      <4>1. Phase' = Phase
        BY <1>p, <2>4, <3>2 DEF Phase
      <4>2. lkrcState \in Abstract!Refusal
        BY <1>a, <3>2 DEF IsUsable, Abstract!Refusal
      <4> QED BY <3>2, <4>1, <4>2
    <3> QED BY <2>2, <3>1, <3>2
  <2>6. Abstract!Invoke(t)
    BY <2>1, <2>3, <2>4, <2>5 DEF Abstract!Invoke
  <2> QED BY <1>n, <2>6
<1>2. CASE LockTable(t)
  BY <1>2, <1>a, <1>s DEF LockTable, CalledAt
<1>3. CASE LockTableWithoutDirectory(t)
  BY <1>3, <1>a, <1>s DEF LockTableWithoutDirectory, CalledAt
<1>4. CASE LockBucket(t)
  BY <1>4, <1>a, <1>s DEF LockBucket, CalledAt
<1>5. CASE InsertExisting(t)
  <2>1. /\ pc[t] = "body" /\ pc'[t] \notin CalledAt /\ pc'[t] # "clearLoad"
        /\ UNCHANGED <<op, rec>> /\ op[t] = "Insert" /\ SameKey(t) # {}
    BY <1>5, <1>a DEF InsertExisting, CalledAt, Inserts, Deletes, Finds
  <2>2. Abstract!Effect(t, "KEY_EXISTS")
    BY <1>5, <1>e, <2>1 DEF InsertExisting, CalledAt, Abstract!Effect
  <2>3. Table' = Table
    BY <1>5, <2>1, TableSame DEF InsertUpdate, InsertNew, Inserts, DeleteFound, Deletes, ClearReset
  <2> QED BY <1>k, <1>n, <2>1, <2>2, <2>3 DEF Abstract!Insert
<1>6. CASE InsertUpdate(t)
  <2>1. /\ pc[t] = "body" /\ pc'[t] = "grow" /\ UNCHANGED <<op, rec>> /\ op[t] = "Overwrite"
    BY <1>6, <1>a DEF InsertUpdate
  <2>2. Abstract!Effect(t, "SUCCESS")
    BY <1>6, <1>e, <2>1 DEF InsertUpdate, CalledAt, Abstract!Effect
  <2>3. PICK old \in Contents : /\ SameKey(t) = {old} /\ KeyOf[old] = KeyOf[rec[t]]
                                /\ Contents' = (Contents \ {old}) \cup {rec[t]}
    BY <1>6, InsertUpdateContents
  <2>4. cleared' = cleared /\ old \notin cleared
    <3>1. cleared' = cleared
      BY <1>6 DEF InsertUpdate
    <3>2. Settled(old) = Settled(rec[t])
      BY <2>3 DEF Settled, Sig
    <3> QED BY <2>1, <3>1, <3>2, InBody, BodyNotCleared
  <2>5. Table' = (Table \ SameKey(t)) \cup {rec[t]}
    BY <2>3, <2>4 DEF Table
  <2> QED BY <1>k, <1>n, <2>1, <2>2, <2>5 DEF Abstract!Overwrite
<1>7. CASE InsertNew(t)
  <2>1. /\ pc[t] = "body" /\ pc'[t] = "grow" /\ UNCHANGED <<op, rec>>
        /\ op[t] \in {"Insert", "Overwrite"} /\ SameKey(t) = {}
    BY <1>7, <1>a DEF InsertNew, Inserts
  <2>2. Abstract!Effect(t, "SUCCESS")
    BY <1>7, <1>e, <2>1 DEF InsertNew, CalledAt, Abstract!Effect
  <2>3. Contents' = Contents \cup {rec[t]} /\ cleared' = cleared
    BY <1>7, InsertNewContents DEF InsertNew
  <2>4. Table' = Table \cup {rec[t]}
    BY <2>3 DEF Table
  <2> QED BY <1>k, <1>n, <2>1, <2>2, <2>4 DEF Abstract!Insert, Abstract!Overwrite
<1>8. CASE InsertNoMemory(t)
  <2>1. /\ pc[t] = "body" /\ pc'[t] = "idle" /\ UNCHANGED <<op, rec>>
    BY <1>8, <1>a DEF InsertNoMemory
  <2>2. Abstract!Effect(t, "ALLOC_FAIL")
    BY <1>8, <1>e, <2>1 DEF InsertNoMemory, CalledAt, Abstract!Effect
  <2>3. Contents' = Contents /\ cleared' = cleared
    BY <1>8 DEF InsertNoMemory, Contents, Merging
  <2> QED BY <1>n, <2>1, <2>2, <2>3 DEF Abstract!Refuse, Abstract!Refusal, Table
<1>9. CASE DeleteFound(t)
  <2>1. /\ pc[t] = "body" /\ pc'[t] = "snapshot" /\ UNCHANGED <<op, rec>>
        /\ op[t] \in {"DeleteKey", "DeleteRecord"}
    BY <1>9, <1>a DEF DeleteFound, Deletes
  <2>2. Abstract!Effect(t, "SUCCESS")
    BY <1>9, <1>e, <2>1 DEF DeleteFound, CalledAt, Abstract!Effect
  <2>3. PICK victim \in Contents : Victims(t) = {victim} /\ Contents' = Contents \ {victim}
    BY <1>9, DeleteFoundContents
  <2>4. cleared' = cleared /\ victim \notin cleared
    <3>1. cleared' = cleared
      BY <1>9 DEF DeleteFound
    <3>2. KeyOf[victim] = KeyOf[rec[t]]
      BY <2>3 DEF Victims, SameKey
    <3>3. Settled(victim) = Settled(rec[t])
      BY <3>2 DEF Settled, Sig
    <3> QED BY <2>1, <3>1, <3>3, InBody, BodyNotCleared
  <2>5. Table' = Table \ Victims(t)
    BY <2>3, <2>4 DEF Table
  <2>6. Victims(t) # {}
    BY <2>3
  <2> QED BY <1>k, <1>n, <2>1, <2>2, <2>5, <2>6 DEF Abstract!Delete
<1>10. CASE DeleteMissing(t)
  <2>1. /\ pc[t] = "body" /\ pc'[t] = "idle" /\ UNCHANGED <<op, rec>>
        /\ op[t] \in {"DeleteKey", "DeleteRecord"} /\ Victims(t) = {}
    BY <1>10, <1>a DEF DeleteMissing, Deletes
  <2>2. Abstract!Effect(t, "NO_SUCH_KEY")
    BY <1>10, <1>e, <2>1 DEF DeleteMissing, CalledAt, Abstract!Effect
  <2>3. Contents' = Contents /\ cleared' = cleared
    BY <1>10 DEF DeleteMissing, Contents, Merging
  <2>4. Table' = Table \ {}
    BY <2>3 DEF Table
  <2> QED BY <1>k, <1>n, <2>1, <2>2, <2>4 DEF Abstract!Delete
<1>11. CASE FindKey(t)
  <2>1. pc[t] = "body" /\ pc'[t] = "holding" /\ op' = op /\ op[t] = "FindKey"
    BY <1>11, <1>a DEF FindKey
  <2>2. Abstract!Effect(t, "SUCCESS")
    BY <1>11, <1>e, <2>1 DEF FindKey, CalledAt, Abstract!Effect
  <2>3. \E r \in SameKey(t) : rec' = [rec EXCEPT ![t] = r]
    BY <1>11 DEF FindKey
  <2>4. Table' = Table
    BY <2>1, TableSame DEF InsertUpdate, InsertNew, Inserts, DeleteFound, Deletes, ClearReset
  <2> QED BY <1>k, <1>n, <2>1, <2>2, <2>3, <2>4 DEF Abstract!Find
<1>12. CASE FindOther(t)
  <2>1. /\ pc[t] = "body" /\ pc'[t] = "idle" /\ UNCHANGED <<op, rec>>
        /\ \/ op[t] = "FindKey" /\ SameKey(t) = {}
           \/ op[t] = "FindRecord"
    BY <1>12, <1>a DEF FindOther, Finds
  <2>2. Contents' = Contents /\ cleared' = cleared
    BY <1>12 DEF FindOther, Contents, Merging
  <2>3. Table' = Table
    BY <2>2 DEF Table
  <2>4. CASE op[t] = "FindKey"
    <3>1. Abstract!Effect(t, "NO_SUCH_KEY")
      BY <1>12, <1>e, <2>1, <2>4 DEF FindOther, CalledAt, Abstract!Effect
    <3> QED BY <1>k, <1>n, <2>1, <2>3, <2>4, <3>1 DEF Abstract!Find
  <2>5. CASE op[t] = "FindRecord"
    <3>1. rec[t] \in bucket[home[t]] <=> rec[t] \in Table
      BY <1>k, <2>1
    <3>2. Abstract!Effect(t, IF rec[t] \in Table THEN "SUCCESS" ELSE "NO_SUCH_KEY")
      BY <1>12, <1>e, <2>1, <2>5, <3>1 DEF FindOther, CalledAt, Abstract!Effect
    <3> QED BY <1>n, <2>1, <2>3, <2>5, <3>2 DEF Abstract!Find
  <2> QED BY <2>1, <2>4, <2>5
<1>13. CASE Release(t)
  BY <1>13, <1>a, <1>r DEF Release, CalledAt
<1>14. CASE Grow(t)
  <2>1. pc'[t] = "idle" \/ pc'[t] \notin CalledAt \cup {"idle"}
    BY <1>14, <1>a DEF Grow, CalledAt
  <2> QED BY <1>14, <2>1, <1>r, <1>s DEF Grow, CalledAt
<1>15. CASE ExpandTable(t)
  BY <1>15, <1>a, <1>s DEF ExpandTable, CalledAt
<1>16. CASE ExpandNoDirectory(t)
  BY <1>16, <1>a, <1>r DEF ExpandNoDirectory, CalledAt
<1>17. CASE ExpandNoSegment(t)
  BY <1>17, <1>a, <1>r DEF ExpandNoSegment, CalledAt
<1>18. CASE ExpandOld(t)
  BY <1>18, <1>a, <1>s DEF ExpandOld, CalledAt
<1>19. CASE ExpandNew(t)
  BY <1>19, <1>a, <1>s DEF ExpandNew, CalledAt
<1>20. CASE ExpandNoClump(t)
  BY <1>20, <1>a, <1>s DEF ExpandNoClump, CalledAt
<1>21. CASE Split(t)
  BY <1>21, <1>a, <1>s DEF Split, CalledAt
<1>22. CASE Abandon(t)
  BY <1>22, <1>a, <1>r DEF Abandon, CalledAt
<1>23. CASE Snapshot(t)
  BY <1>23, <1>a, <1>s DEF Snapshot, CalledAt
<1>24. CASE Shrink(t)
  <2>1. pc'[t] = "idle" \/ pc'[t] \notin CalledAt \cup {"idle"}
    BY <1>24, <1>a DEF Shrink, CalledAt
  <2> QED BY <1>24, <2>1, <1>r, <1>s DEF Shrink, CalledAt
<1>25. CASE ContractTable(t)
  BY <1>25, <1>a, <1>s DEF ContractTable, CalledAt
<1>26. CASE ContractMinimal(t)
  BY <1>26, <1>a, <1>r DEF ContractMinimal, CalledAt
<1>27. CASE ContractLast(t)
  BY <1>27, <1>a, <1>s DEF ContractLast, CalledAt
<1>28. CASE ContractTarget(t)
  BY <1>28, <1>a, <1>s DEF ContractTarget, CalledAt
<1>29. CASE ContractNoClump(t)
  BY <1>29, <1>a, <1>r DEF ContractNoClump, CalledAt
<1>30. CASE Merge(t)
  BY <1>30, <1>a, <1>s DEF Merge, CalledAt
<1>31. CASE ClearNothing(t)
  <2>1. /\ pc[t] = "clearTable" /\ pc'[t] = "idle" /\ UNCHANGED <<op, rec>>
        /\ TableFree /\ (~IsUsable \/ cRecords = 0)
    BY <1>31, <1>a DEF ClearNothing
  <2>2. Abstract!Effect(t, "SUCCESS")
    BY <1>31, <1>e, <2>1 DEF ClearNothing, CalledAt, Abstract!Effect
  <2>3. Contents = {} /\ cleared = {}
    BY <2>1, NothingCleared DEF ClearKnowsEmpty
  <2>4. Table' = {}
    BY <1>t, <2>1, <2>3 DEF Table
  <2> QED BY <1>b, <1>n, <2>1, <2>2, <2>4 DEF Abstract!Clear, ClearPoints
<1>32. CASE ClearTable(t)
  BY <1>32, <1>a, <1>s DEF ClearTable, CalledAt
<1>33. CASE ClearBucket(t)
  BY <1>33, <1>a, <1>s DEF ClearBucket, CalledAt
<1>34. CASE ClearRecord(t)
  BY <1>34, <1>a, <1>s DEF ClearRecord, CalledAt
<1>35. CASE ClearCount(t)
  BY <1>35, <1>a, <1>s DEF ClearCount, CalledAt
<1>36. CASE ClearNext(t)
  BY <1>36, <1>a, <1>s DEF ClearNext, CalledAt
<1>37. CASE ClearReset(t)
  <2>1. pc[t] = "clearBucket" /\ pc'[t] = "idle" /\ UNCHANGED <<op, rec>> /\ cleared' = {}
    BY <1>37, <1>a DEF ClearReset
  <2>2. Abstract!Effect(t, "SUCCESS")
    BY <1>37, <1>e, <2>1 DEF ClearReset, CalledAt, Abstract!Effect
  <2>3. Contents' = {}
    <3>1. /\ \A a \in Addr : bucket[a] = {}
          /\ \A u \in Thread : moved[u] = {}
      BY <1>37, ResetAlone
    <3>2. Contents = {}
      BY <3>1, ContentsMembers
    <3>3. Contents' = Contents
      BY <2>1, ContentsSame DEF InsertUpdate, InsertNew, DeleteFound, ClearRecord
    <3> QED BY <3>2, <3>3
  <2>4. Table' = {}
    BY <2>1, <2>3 DEF Table
  <2> QED BY <1>b, <1>n, <2>1, <2>2, <2>4 DEF Abstract!Clear, ClearPoints
<1>38. CASE CheckInvalid(t)
  <2>1. pc[t] = "checkTable" /\ pc'[t] = "idle" /\ UNCHANGED <<op, rec>>
    BY <1>38, <1>a DEF CheckInvalid
  <2>2. Abstract!Effect(t, "UNUSABLE")
    BY <1>38, <1>e, <2>1 DEF CheckInvalid, CalledAt, Abstract!Effect
  <2>3. Table' = Table
    BY <1>t, <2>1
  <2> QED BY <1>n, <2>1, <2>2, <2>3 DEF Abstract!Refuse, Abstract!Refusal
<1>39. CASE CheckTable(t)
  BY <1>39, <1>a, <1>s DEF CheckTable, CalledAt
<1>40. CASE CheckBucket(t)
  <2>1. /\ pc[t] = "checkBucket" /\ pc'[t] = "checkBucket" /\ UNCHANGED <<op, rec>>
        /\ scan[t] < cActiveBuckets /\ bktWriter[scan[t]] = NoThread
    BY <1>40, <1>a DEF CheckBucket
  <2>2. ~ \E r \in bucket[scan[t]] : Place(r) # scan[t]
    BY <2>1, BucketChecked
  <2>3. result' = result
    BY <1>40, <2>2 DEF CheckBucket
  <2> QED BY <2>1, <2>3, <1>s
<1>41. CASE CheckCount(t)
  <2>1. pc[t] = "checkBucket" /\ pc'[t] = "idle" /\ UNCHANGED <<op, rec>>
    BY <1>41, <1>a DEF CheckCount
  <2>2. PICK res \in {"CONSISTENT", "MISCOUNTED"} : result' = [result EXCEPT ![t] = res]
    BY <1>41, <1>b DEF CheckCount
  <2>3. Abstract!Effect(t, res)
    BY <1>e, <2>1, <2>2 DEF CalledAt, Abstract!Effect
  <2>4. Table' = Table
    BY <1>t, <2>1
  <2> QED BY <1>b, <1>n, <2>1, <2>3, <2>4 DEF Abstract!CheckTable
<1> QED BY <1>1, <1>2, <1>3, <1>4, <1>5, <1>6, <1>7, <1>8, <1>9, <1>10, <1>11, <1>12,
         <1>13, <1>14, <1>15, <1>16, <1>17, <1>18, <1>19, <1>20, <1>21, <1>22, <1>23,
         <1>24, <1>25, <1>26, <1>27, <1>28, <1>29, <1>30, <1>31, <1>32, <1>33, <1>34,
         <1>35, <1>36, <1>37, <1>38, <1>39, <1>40, <1>41
         DEF Step, Body, Expand, Contract, Clear, Check

LEMMA ImplementsInit ==
  ASSUME Init
  PROVE  Abstract!Init
<1>1. PInv /\ cleared = {} /\ \A t \in Thread : pc[t] = "idle"
  BY InitPInv DEF Init
<1>2. \A r, s \in Table : KeyOf[r] = KeyOf[s] => r = s
  BY <1>1 DEF Table, PInv, KeyInv
<1>3. Phase = [t \in Thread |-> "idle"]
  <2>1. \A t \in Thread : PhaseOf(pc[t]) = "idle"
    BY <1>1 DEF PhaseOf, CalledAt
  <2>2. Phase = [t \in Thread |-> PhaseOf(pc[t])]
    BY DEF Phase, PhaseOf
  <2> HIDE DEF PhaseOf
  <2> QED BY <2>1, <2>2
<1>4. result = [t \in Thread |-> "NONE"]
  BY DEF Init
<1> QED BY <1>2, <1>3, <1>4 DEF Abstract!Init

LEMMA ImplementsNext ==
  ASSUME RInv, ClearKnowsEmpty, [Next]_vars
  PROVE  [Abstract!Next]_(Abstract!vars)
<1>1. CASE \E t \in Thread : Call(t) \/ Step(t)
  BY <1>1, Implements
<1>2. CASE UNCHANGED vars
  BY <1>2 DEF Abstract!vars, Table, Phase, Contents, Merging
<1> QED BY <1>1, <1>2 DEF Next, Done

LEMMA RInvariance == Spec => []RInv
<1>1. Init => RInv
  BY InitRInv
<1>2. RInv /\ [Next]_vars => RInv'
  BY StepRInv
<1> QED BY <1>1, <1>2, PTL DEF Spec

(***************************************************************************)
(* The table is linearizable, with whatever mix of operations and failing  *)
(* allocations, in every run in which a Clear that returns at once is      *)
(* right to do so: it trusts m_cRecords and m_lkrc, and the first can be   *)
(* wrong after a Clear that ran beside an insertion or a deletion.         *)
(***************************************************************************)
THEOREM LinearizableWithClear == Spec /\ []ClearKnowsEmpty => Linearizable
<1>1. Init => Abstract!Init
  BY ImplementsInit
<1>2. RInv /\ ClearKnowsEmpty /\ [Next]_vars => [Abstract!Next]_(Abstract!vars)
  BY ImplementsNext
<1> QED BY <1>1, <1>2, RInvariance, PTL DEF Spec, Linearizable, Abstract!Spec

NobodyClears == \A t \in Thread : pc[t] \notin ClearPoints

LEMMA NobodyClearsStep ==
  ASSUME TypeOK, "Clear" \notin Ops, NobodyClears, [Next]_vars
  PROVE  NobodyClears'
<1>1. CASE \E t \in Thread : Call(t) \/ Step(t)
  BY <1>1, CountKept, Frame DEF NobodyClears
<1>2. CASE UNCHANGED vars
  BY <1>2 DEF NobodyClears
<1> QED BY <1>1, <1>2 DEF Next, Done

(***************************************************************************)
(* Insertions, overwrites, deletions, searches and checks of any number of *)
(* threads are linearizable: each takes effect at one moment on a set of   *)
(* records, while the table beneath them splits and merges its buckets.    *)
(***************************************************************************)
THEOREM LinearizableTable ==
  ASSUME "Clear" \notin Ops
  PROVE  Spec => Linearizable
<1>1. Init => NobodyClears
  BY DEF Init, NobodyClears, ClearPoints
<1>2. RInv /\ NobodyClears /\ [Next]_vars => NobodyClears'
  BY NobodyClearsStep DEF RInv, PInv, IInv
<1>3. NobodyClears => ClearKnowsEmpty
  BY DEF NobodyClears, ClearKnowsEmpty, ClearPoints
<1>4. Spec => []NobodyClears
  BY <1>1, <1>2, RInvariance, PTL DEF Spec
<1> QED BY <1>3, <1>4, LinearizableWithClear, PTL
=============================================================================
