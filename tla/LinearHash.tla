----------------------------- MODULE LinearHash -----------------------------
(***************************************************************************)
(* CLKRLinearHashTable: a linear hash table that threads insert into,      *)
(* delete from, search, clear and check concurrently.  A table lock guards *)
(* the address variables and the segment directory; a lock per bucket      *)
(* guards its chain.  An operation finds and locks its bucket under the    *)
(* table lock, gives the table lock back, and works on the bucket; growing *)
(* and shrinking by one bucket lock two buckets the same way.              *)
(*                                                                         *)
(* A step is what the code does between two points where another thread    *)
(* can matter: a lock taken, or a shared field touched without one.  A     *)
(* chain is a set of records, of which every NodesPerClump need a clump.   *)
(***************************************************************************)
EXTENDS Integers, FiniteSets, LinearHashAddress

CONSTANTS
  Thread, NoThread,  \* the threads, and no thread
  Record, NoRecord,  \* the records, and no record
  Key, KeyOf,        \* the keys, and the key of each record
  Hash,              \* the signature of each key
  SegBits,           \* SEGBITS: a segment holds 2^SegBits buckets
  MinDirSize,        \* MIN_DIRSIZE
  MaxDirSize,        \* MAX_DIRSIZE
  InitialBuckets,    \* buckets of a new table
  DefaultBuckets,    \* INITSIZE: buckets of a cleared table
  MaxLoadPercent,    \* m_MaxLoad, in hundredths
  NodesPerClump,     \* NODES_PER_CLUMP
  CountModulus,      \* m_cRecords counts modulo this (2^32 in the code)
  MaxLevel,          \* bound: 1 << m_nLevel stays within a DWORD
  InitialRecords,    \* records put in before the threads start
  Ops,               \* the operations the threads call
  MayFail,           \* the allocations that may fail
  MaxOps             \* bound: how many operations are called

SegSize == 2 ^ SegBits

AddrLimit == 2 ^ (MaxLevel + 1)
Addr == 0 .. AddrLimit - 1

OpNames == {"Insert", "Overwrite", "DeleteKey", "DeleteRecord",
            "FindKey", "FindRecord", "Clear", "CheckTable"}
Inserts == {"Insert", "Overwrite"}
Deletes == {"DeleteKey", "DeleteRecord"}
Finds   == {"FindKey", "FindRecord"}
Sites   == {"directory", "segment", "clump", "setSegVars"}

\* At least one segment, and a directory that has an entry for each segment.
IsTableSize(c) ==
  /\ c \in Nat
  /\ \E l \in SegBits .. MaxLevel : 2 ^ l <= c /\ c < 2 ^ (l + 1)
  /\ InitialDirSize(c, SegBits, MinDirSize, MaxLevel) \in
       {MinDirSize * 2 ^ n : n \in 0 .. MaxLevel}
  /\ c <= InitialDirSize(c, SegBits, MinDirSize, MaxLevel) * SegSize

ASSUME ThreadAssumption == IsFiniteSet(Thread) /\ NoThread \notin Thread
ASSUME RecordAssumption ==
  /\ IsFiniteSet(Record) /\ NoRecord \notin Record
  /\ KeyOf \in [Record -> Key] /\ Hash \in [Key -> Nat]
ASSUME SizeAssumption ==
  /\ SegBits \in Nat /\ SegBits > 0 /\ MaxLevel \in Nat
  /\ MinDirSize \in Nat \ {0} /\ MaxDirSize \in Nat /\ MinDirSize < MaxDirSize
  /\ IsTableSize(InitialBuckets) /\ IsTableSize(DefaultBuckets)
  /\ MaxLoadPercent \in Nat /\ MaxLoadPercent > 100
  /\ NodesPerClump \in Nat \ {0} /\ CountModulus \in Nat \ {0}
ASSUME PowersAssumption ==
  2 ^ 0 = 1 /\ \A n \in 0 .. MaxLevel + 1 :
    /\ 2 ^ n \in Nat \ {0}
    /\ n <= MaxLevel => 2 ^ (n + 1) = 2 * 2 ^ n
    /\ \A k \in 0 .. n : 2 ^ k <= 2 ^ n
ASSUME WorkloadAssumption ==
  /\ InitialRecords \subseteq Record
  /\ \A r, s \in InitialRecords : KeyOf[r] = KeyOf[s] => r = s
  /\ Cardinality(InitialRecords) < CountModulus
  /\ 100 * Cardinality(InitialRecords) <= MaxLoadPercent * InitialBuckets
  /\ Ops \subseteq OpNames /\ MayFail \subseteq Sites /\ MaxOps \in Nat

VARIABLES
  nLevel, dwBktAddrMask0, dwBktAddrMask1, iExpansionIdx, cActiveBuckets,
  cDirSegs,    \* entries of the segment directory
  segs,        \* the entries that hold a segment
  lkrcState,
  cRecords,
  bucket,      \* the records of each bucket
  refs,        \* the reference count of each record
  tblWriter, tblReaders,   \* who holds the table lock
  bktWriter, bktReaders,   \* who holds each bucket lock
  pc, op, rec,   \* per thread: where it is, the operation and its record
  home, other,   \* the bucket it works on; the one split off or given up
  limit,         \* nContractedRecords
  scan, tally,   \* the bucket a scan is at, and its count
  moved,         \* records between two buckets
  result,
  cleared,       \* history: what the Clear in progress has removed
  calls          \* operations called so far

tableVars == <<nLevel, dwBktAddrMask0, dwBktAddrMask1, iExpansionIdx,
               cActiveBuckets, cDirSegs, segs, lkrcState>>
dataVars  == <<cRecords, bucket, refs>>
tblLock   == <<tblWriter, tblReaders>>
bktLocks  == <<bktWriter, bktReaders>>
callVars  == <<op, rec, calls>>
resizeVars == <<other, limit, moved>>
scanVars  == <<scan, tally, cleared>>
vars == <<tableVars, dataVars, tblLock, bktLocks, pc, callVars, home,
          resizeVars, scanVars, result>>

Sig(r) == Hash[KeyOf[r]]
Place(r) == BucketAddress(Sig(r), dwBktAddrMask0, iExpansionIdx)
Segment(a) == SegmentOf(a, SegBits)
SegIndex(a) == a % SegSize

IsUsable == lkrcState = "SUCCESS"
HasDirectory == cDirSegs > 0
IsValid == IsUsable /\ MinDirSize <= cDirSegs /\ cDirSegs <= MaxDirSize /\ cActiveBuckets > 0

PC == {"idle", "lockTable", "lockBucket", "body", "holding",
       "grow", "expandTable", "expandOld", "expandNew", "split", "abandon",
       "snapshot", "shrink", "contractTable", "contractLast", "contractTarget", "merge",
       "clearTable", "clearBucket", "clearLoad", "clearStore",
       "checkTable", "checkBucket", "crashed"}

Init ==
  LET level == InitialLevel(InitialBuckets, SegBits, MaxLevel)
      idx == InitialExpansionIdx(InitialBuckets, level)
  IN
  /\ nLevel = level
  /\ dwBktAddrMask0 = 2 ^ level - 1 /\ dwBktAddrMask1 = 2 ^ (level + 1) - 1
  /\ iExpansionIdx = idx
  /\ cActiveBuckets = InitialBuckets
  /\ cDirSegs = InitialDirSize(InitialBuckets, SegBits, MinDirSize, MaxLevel)
  /\ segs = 0 .. InitialSegments(InitialBuckets, SegBits) - 1
  /\ lkrcState = "SUCCESS"
  /\ bucket = [a \in Addr |->
       {r \in InitialRecords : BucketAddress(Sig(r), 2 ^ level - 1, idx) = a}]
  /\ cRecords = Cardinality(InitialRecords)
  /\ refs = [r \in Record |-> IF r \in InitialRecords THEN 1 ELSE 0]
  /\ tblWriter = NoThread /\ tblReaders = {}
  /\ bktWriter = [a \in Addr |-> NoThread] /\ bktReaders = [a \in Addr |-> {}]
  /\ pc = [t \in Thread |-> "idle"]
  /\ op = [t \in Thread |-> "CheckTable"] /\ rec = [t \in Thread |-> NoRecord]
  /\ home = [t \in Thread |-> 0] /\ other = [t \in Thread |-> 0]
  /\ limit = [t \in Thread |-> 0]
  /\ scan = [t \in Thread |-> 0] /\ tally = [t \in Thread |-> 0]
  /\ moved = [t \in Thread |-> {}]
  /\ result = [t \in Thread |-> "NONE"]
  /\ cleared = {}
  /\ calls = 0

-----------------------------------------------------------------------------
Goto(t, from, to) == pc[t] = from /\ pc' = [pc EXCEPT ![t] = to]
Put(f, t, v) == [f EXCEPT ![t] = v]

(* The table lock and the bucket locks, which exclude as such locks do. *)
TableFree == tblWriter = NoThread /\ tblReaders = {}
\* Fault: a writer does not wait for the readers.
LockTableForWriteOverReaders(t) ==
  tblWriter = NoThread /\ tblWriter' = t /\ UNCHANGED tblReaders
LockTableForWrite(t) == TableFree /\ tblWriter' = t /\ UNCHANGED tblReaders
LockTableForRead(t) ==
  tblWriter = NoThread /\ tblReaders' = tblReaders \cup {t} /\ UNCHANGED tblWriter
UnlockTable(t) ==
  /\ tblWriter' = IF tblWriter = t THEN NoThread ELSE tblWriter
  /\ tblReaders' = tblReaders \ {t}

BucketFree(a) == bktWriter[a] = NoThread /\ bktReaders[a] = {}
\* Fault: the same for a bucket.
LockBucketForWriteOverReaders(t, a) ==
  /\ bktWriter[a] = NoThread
  /\ bktWriter' = Put(bktWriter, a, t) /\ UNCHANGED bktReaders
LockBucketForWrite(t, a) ==
  BucketFree(a) /\ bktWriter' = Put(bktWriter, a, t) /\ UNCHANGED bktReaders
LockBucketForRead(t, a) ==
  /\ bktWriter[a] = NoThread
  /\ bktReaders' = Put(bktReaders, a, bktReaders[a] \cup {t})
  /\ UNCHANGED bktWriter
UnlockBuckets(t, A) ==
  /\ bktWriter' = [a \in Addr |->
       IF a \in A /\ bktWriter[a] = t THEN NoThread ELSE bktWriter[a]]
  /\ bktReaders' = [a \in Addr |-> IF a \in A THEN bktReaders[a] \ {t} ELSE bktReaders[a]]

AllocationFails(site) == site \in MayFail

\* Fault: references are taken and not given back.
AddRefOnly(r, n) == [refs EXCEPT ![r] = IF n > 0 THEN @ + n ELSE @]
AddRef(r, n) == [refs EXCEPT ![r] = @ + n]
InClumps(n) == IF n = 0 THEN 1 ELSE (n + NodesPerClump - 1) \div NodesPerClump

-----------------------------------------------------------------------------
(* A client calls an operation; the public wrappers refuse an unusable     *)
(* table before they take any lock (Clear looks once it has the lock).     *)
Call(t) ==
  /\ calls < MaxOps /\ calls' = calls + 1
  /\ \E o \in Ops, r \in Record :
       /\ o \in {"Clear", "CheckTable"} => r = CHOOSE x \in Record : TRUE
       /\ op' = Put(op, t, o) /\ rec' = Put(rec, t, r)
       /\ Goto(t, "idle", CASE o = "Clear" -> "clearTable"
                            [] o # "Clear" /\ ~IsUsable -> "idle"
                            [] o = "CheckTable" /\ IsUsable -> "checkTable"
                            [] OTHER -> "lockTable")
       /\ result' = Put(result, t, IF o # "Clear" /\ ~IsUsable THEN lkrcState ELSE "NONE")
  /\ UNCHANGED <<tableVars, dataVars, tblLock, bktLocks, home, resizeVars, scanVars>>

(* Insert, delete and find begin alike: the table lock, the bucket's       *)
(* address, the bucket lock, and the table lock given back.  A table that  *)
(* has lost its directory in the meantime is dereferenced all the same.    *)
LockTable(t) ==
  /\ HasDirectory
  /\ Goto(t, "lockTable", "lockBucket")
  /\ IF op[t] \in Finds THEN LockTableForRead(t) ELSE LockTableForWrite(t)
  /\ home' = Put(home, t, Place(rec[t]))
  /\ UNCHANGED <<tableVars, dataVars, bktLocks, callVars, resizeVars, scanVars, result>>

LockTableWithoutDirectory(t) ==
  /\ ~HasDirectory /\ TableFree
  /\ Goto(t, "lockTable", "crashed")
  /\ UNCHANGED <<tableVars, dataVars, tblLock, bktLocks, callVars, home,
                 resizeVars, scanVars, result>>

LockBucket(t) ==
  /\ Goto(t, "lockBucket", "body")
  /\ IF op[t] \in Finds THEN LockBucketForRead(t, home[t]) ELSE LockBucketForWrite(t, home[t])
  /\ UnlockTable(t)
  /\ UNCHANGED <<tableVars, dataVars, callVars, home, resizeVars, scanVars, result>>

\* Fault: records are compared, not their keys.
SameRecord(t) == bucket[home[t]] \cap {rec[t]}

\* The records in t's bucket that have the key of t's record.
SameKey(t) == {r \in bucket[home[t]] : KeyOf[r] = KeyOf[rec[t]]}

(* _InsertRecord, with the bucket locked *)
InsertExisting(t) ==
  /\ op[t] = "Insert" /\ SameKey(t) # {}
  /\ Goto(t, "body", "idle")
  /\ result' = Put(result, t, "KEY_EXISTS")
  /\ UnlockBuckets(t, {home[t]})
  /\ UNCHANGED <<tableVars, dataVars, tblLock, callVars, home, resizeVars, scanVars>>

InsertUpdate(t) ==
  /\ op[t] = "Overwrite"
  /\ Goto(t, "body", "grow")
  /\ \E old \in SameKey(t) :
       /\ bucket' = [bucket EXCEPT ![home[t]] = (@ \ {old}) \cup {rec[t]}]
       /\ refs' = [AddRef(rec[t], 1) EXCEPT ![old] = @ - 1]
  /\ result' = Put(result, t, "SUCCESS")
  /\ UnlockBuckets(t, {home[t]})
  /\ UNCHANGED <<tableVars, cRecords, tblLock, callVars, home, resizeVars, scanVars>>

\* Whether the chain of bucket a has no free slot.
ChainFull(a) == Cardinality(bucket[a]) = NodesPerClump * InClumps(Cardinality(bucket[a]))

InsertNew(t) ==
  /\ op[t] \in Inserts /\ SameKey(t) = {}
  /\ Goto(t, "body", "grow")
  /\ bucket' = [bucket EXCEPT ![home[t]] = @ \cup {rec[t]}]
  /\ refs' = AddRef(rec[t], 1)
  /\ cRecords' = (cRecords + 1) % CountModulus
  /\ result' = Put(result, t, "SUCCESS")
  /\ UnlockBuckets(t, {home[t]})
  /\ UNCHANGED <<tableVars, tblLock, callVars, home, resizeVars, scanVars>>

InsertNoMemory(t) ==
  /\ op[t] \in Inserts /\ SameKey(t) = {}
  /\ ChainFull(home[t]) /\ AllocationFails("clump")
  /\ Goto(t, "body", "idle")
  /\ result' = Put(result, t, "ALLOC_FAIL")
  /\ UnlockBuckets(t, {home[t]})
  /\ UNCHANGED <<tableVars, dataVars, tblLock, callVars, home, resizeVars, scanVars>>

(* _DeleteKey, _DeleteRecord and _DeleteNode *)
Victims(t) == IF op[t] = "DeleteKey" THEN SameKey(t) ELSE bucket[home[t]] \cap {rec[t]}

DeleteFound(t) ==
  /\ op[t] \in Deletes
  /\ Goto(t, "body", "snapshot")
  /\ \E victim \in Victims(t) :
       /\ bucket' = [bucket EXCEPT ![home[t]] = @ \ {victim}]
       /\ refs' = AddRef(victim, -1)
  /\ cRecords' = (cRecords + CountModulus - 1) % CountModulus
  /\ result' = Put(result, t, "SUCCESS")
  /\ UnlockBuckets(t, {home[t]})
  /\ UNCHANGED <<tableVars, tblLock, callVars, home, resizeVars, scanVars>>

\* Fault: a record that is not there is looked for again.
DeleteMissingRetry(t) ==
  /\ op[t] \in Deletes /\ Victims(t) = {}
  /\ Goto(t, "body", "lockTable")
  /\ result' = Put(result, t, "NO_SUCH_KEY")
  /\ UnlockBuckets(t, {home[t]})
  /\ UNCHANGED <<tableVars, dataVars, tblLock, callVars, home, resizeVars, scanVars>>

DeleteMissing(t) ==
  /\ op[t] \in Deletes /\ Victims(t) = {}
  /\ Goto(t, "body", "idle")
  /\ result' = Put(result, t, "NO_SUCH_KEY")
  /\ UnlockBuckets(t, {home[t]})
  /\ UNCHANGED <<tableVars, dataVars, tblLock, callVars, home, resizeVars, scanVars>>

(* _FindKey hands out the record with a reference, which the caller gives  *)
(* back when it is done (the step Release); _FindRecord only looks.        *)
FindKey(t) ==
  /\ op[t] = "FindKey"
  /\ \E r \in SameKey(t) :
       /\ refs' = AddRef(r, 1)
       /\ rec' = Put(rec, t, r)
  /\ Goto(t, "body", "holding")
  /\ result' = Put(result, t, "SUCCESS")
  /\ UnlockBuckets(t, {home[t]})
  /\ UNCHANGED <<tableVars, cRecords, bucket, tblLock, op, calls, home, resizeVars, scanVars>>

Release(t) ==
  /\ Goto(t, "holding", "idle")
  /\ refs' = AddRef(rec[t], -1)
  /\ UNCHANGED <<tableVars, cRecords, bucket, tblLock, bktLocks, callVars, home,
                 resizeVars, scanVars, result>>

FindOther(t) ==
  /\ op[t] \in Finds
  /\ op[t] = "FindKey" => SameKey(t) = {}
  /\ Goto(t, "body", "idle")
  /\ result' = Put(result, t, IF op[t] = "FindRecord" /\ rec[t] \in bucket[home[t]]
                              THEN "SUCCESS" ELSE "NO_SUCH_KEY")
  /\ UnlockBuckets(t, {home[t]})
  /\ UNCHANGED <<tableVars, dataVars, tblLock, callVars, home, resizeVars, scanVars>>

-----------------------------------------------------------------------------
(* _Expand: the loop that ends an insertion, and the split of one bucket.  *)
(* Whether the table may still grow is decided before the lock is taken.   *)
Grow(t) ==
  /\ Goto(t, "grow", IF /\ 100 * cRecords > MaxLoadPercent * cActiveBuckets
                        /\ cActiveBuckets < MaxDirSize * SegSize - 1
                     THEN "expandTable" ELSE "idle")
  /\ UNCHANGED <<tableVars, dataVars, tblLock, bktLocks, callVars, home,
                 resizeVars, scanVars, result>>

DirectoryFull == cActiveBuckets >= cDirSegs * SegSize
NewBucket == 2 ^ nLevel + iExpansionIdx

ExpandTable(t) ==
  /\ Goto(t, "expandTable", "expandOld")
  /\ LockTableForWrite(t)
  /\ DirectoryFull => cDirSegs > 0
  /\ cDirSegs' = IF DirectoryFull THEN 2 * cDirSegs ELSE cDirSegs
  /\ nLevel < MaxLevel
  /\ cActiveBuckets' = cActiveBuckets + 1
  /\ home' = Put(home, t, iExpansionIdx)
  /\ other' = Put(other, t, NewBucket)
  /\ segs' = segs \cup {Segment(NewBucket)}
  /\ UNCHANGED <<nLevel, dwBktAddrMask0, dwBktAddrMask1, iExpansionIdx, lkrcState, dataVars,
                 bktLocks, callVars, limit, moved, scanVars, result>>

ExpandNoDirectory(t) ==
  /\ Goto(t, "expandTable", "idle")
  /\ TableFree
  /\ DirectoryFull /\ (cDirSegs = 0 \/ AllocationFails("directory"))
  /\ UNCHANGED <<tableVars, dataVars, tblLock, bktLocks, callVars, home,
                 resizeVars, scanVars, result>>

\* The directory stays doubled.
ExpandNoSegment(t) ==
  /\ Goto(t, "expandTable", "idle")
  /\ TableFree
  /\ DirectoryFull => cDirSegs > 0
  /\ Segment(NewBucket) \notin segs /\ AllocationFails("segment")
  /\ cDirSegs' = IF DirectoryFull THEN 2 * cDirSegs ELSE cDirSegs
  /\ UNCHANGED <<nLevel, dwBktAddrMask0, dwBktAddrMask1, iExpansionIdx, cActiveBuckets, segs,
                 lkrcState, dataVars, tblLock, bktLocks, callVars, home, resizeVars,
                 scanVars, result>>

ExpandOld(t) ==
  /\ Goto(t, "expandOld", "expandNew")
  /\ LockBucketForWrite(t, home[t])
  /\ UNCHANGED <<tableVars, dataVars, tblLock, callVars, home, resizeVars, scanVars, result>>

\* Fault: the level is never raised.
AdvanceWithoutWrap ==
  /\ iExpansionIdx' = iExpansionIdx + 1
  /\ UNCHANGED <<nLevel, dwBktAddrMask0, dwBktAddrMask1>>

\* Advance the expansion index, and double the address space when it wraps.
Advance ==
  IF iExpansionIdx + 1 = 2 ^ nLevel
  THEN /\ nLevel' = nLevel + 1 /\ iExpansionIdx' = 0
       /\ dwBktAddrMask0' = 2 * dwBktAddrMask0 + 1
       /\ dwBktAddrMask1' = 2 * (2 * dwBktAddrMask0 + 1) + 1
  ELSE /\ iExpansionIdx' = iExpansionIdx + 1
       /\ UNCHANGED <<nLevel, dwBktAddrMask0, dwBktAddrMask1>>

\* Fault: the split uses the address variables of before it.
ToMoveByOldAddress(t) == {r \in bucket[home[t]] : Place(r) = other[t]}

\* What the split, which follows, moves: it uses the address variables saved here.
ToMove(t) == {r \in bucket[home[t]] :
                BucketAddress(Sig(r), dwBktAddrMask0', iExpansionIdx') = other[t]}

ExpandNew(t) ==
  /\ Goto(t, "expandNew", "split")
  /\ LockBucketForWrite(t, other[t])
  /\ Advance
  /\ moved' = Put(moved, t, ToMove(t))
  /\ UnlockTable(t)
  /\ UNCHANGED <<cActiveBuckets, cDirSegs, segs, lkrcState, dataVars, callVars, home,
                 other, limit, scanVars, result>>

ExpandNoClump(t) ==
  /\ Goto(t, "expandNew", "abandon")
  /\ InClumps(Cardinality(bucket[home[t]])) > 1 /\ AllocationFails("clump")
  /\ LockBucketForWrite(t, other[t])
  /\ cActiveBuckets' = cActiveBuckets - 1
  /\ UnlockTable(t)
  /\ UNCHANGED <<nLevel, dwBktAddrMask0, dwBktAddrMask1, iExpansionIdx, cDirSegs, segs,
                 lkrcState, dataVars, callVars, home, resizeVars, scanVars, result>>

(* _SplitRecordSet *)
Split(t) ==
  /\ Goto(t, "split", "grow")
  /\ bucket' = [bucket EXCEPT ![home[t]] = @ \ moved[t], ![other[t]] = moved[t]]
  /\ moved' = Put(moved, t, {})
  /\ UnlockBuckets(t, {home[t], other[t]})
  /\ UNCHANGED <<tableVars, cRecords, refs, tblLock, callVars, home, other, limit,
                 scanVars, result>>

Abandon(t) ==
  /\ Goto(t, "abandon", "idle")
  /\ UnlockBuckets(t, {home[t], other[t]})
  /\ UNCHANGED <<tableVars, dataVars, tblLock, callVars, home, resizeVars, scanVars, result>>

-----------------------------------------------------------------------------
(* _Contract: the loop that ends a deletion, and the merge of the last     *)
(* bucket.  The loop aims at the record count it read when it started.     *)
Snapshot(t) ==
  /\ Goto(t, "snapshot", "shrink")
  /\ limit' = Put(limit, t, cRecords + cRecords \div 16)
  /\ UNCHANGED <<tableVars, dataVars, tblLock, bktLocks, callVars, home, other, moved,
                 scanVars, result>>

Shrink(t) ==
  /\ Goto(t, "shrink", IF /\ MaxLoadPercent * cActiveBuckets > 100 * limit[t]
                          /\ cActiveBuckets > SegSize
                       THEN "contractTable" ELSE "idle")
  /\ UNCHANGED <<tableVars, dataVars, tblLock, bktLocks, callVars, home,
                 resizeVars, scanVars, result>>

\* Fault: the mask loses a bit it does not have.
RetreatTooFar ==
  IF iExpansionIdx > 0
  THEN /\ iExpansionIdx' = iExpansionIdx - 1
       /\ UNCHANGED <<nLevel, dwBktAddrMask0, dwBktAddrMask1>>
  ELSE /\ nLevel' = nLevel - 1
       /\ iExpansionIdx' = 2 ^ (nLevel - 1) - 1
       /\ dwBktAddrMask0' = dwBktAddrMask0 - 2 ^ nLevel
       /\ dwBktAddrMask1' = dwBktAddrMask0

\* Move the expansion index back, and halve the address space when it wraps.
Retreat ==
  IF iExpansionIdx > 0
  THEN /\ iExpansionIdx' = iExpansionIdx - 1
       /\ UNCHANGED <<nLevel, dwBktAddrMask0, dwBktAddrMask1>>
  ELSE /\ nLevel' = nLevel - 1
       /\ iExpansionIdx' = 2 ^ (nLevel - 1) - 1
       /\ dwBktAddrMask0' = dwBktAddrMask0 \div 2
       /\ dwBktAddrMask1' = dwBktAddrMask1 \div 2

ContractTable(t) ==
  /\ Goto(t, "contractTable", "contractLast")
  /\ LockTableForWrite(t)
  /\ cActiveBuckets > SegSize
  /\ other' = Put(other, t, cActiveBuckets - 1)
  /\ Retreat
  /\ UNCHANGED <<cActiveBuckets, cDirSegs, segs, lkrcState, dataVars, bktLocks, callVars,
                 home, limit, moved, scanVars, result>>

ContractMinimal(t) ==
  /\ Goto(t, "contractTable", "idle")
  /\ TableFree /\ cActiveBuckets <= SegSize
  /\ UNCHANGED <<tableVars, dataVars, tblLock, bktLocks, callVars, home,
                 resizeVars, scanVars, result>>

ContractLast(t) ==
  /\ Goto(t, "contractLast", "contractTarget")
  /\ LockBucketForWrite(t, other[t])
  /\ cActiveBuckets' = cActiveBuckets - 1
  /\ home' = Put(home, t, iExpansionIdx)
  /\ UNCHANGED <<nLevel, dwBktAddrMask0, dwBktAddrMask1, iExpansionIdx, cDirSegs, segs,
                 lkrcState, dataVars, tblLock, callVars, resizeVars, scanVars, result>>

\* The last bucket is emptied, and its segment freed if it was the first in it.
ContractTarget(t) ==
  /\ Goto(t, "contractTarget", "merge")
  /\ BucketFree(home[t])
  /\ bktWriter' = [bktWriter EXCEPT ![home[t]] = t, ![other[t]] = NoThread]
  /\ moved' = Put(moved, t, bucket[other[t]])
  /\ bucket' = [bucket EXCEPT ![other[t]] = {}]
  /\ LET rest == IF SegIndex(cActiveBuckets) = 0
                 THEN segs \ {Segment(cActiveBuckets)} ELSE segs
     IN  \/ /\ 2 * cActiveBuckets <= cDirSegs * SegSize /\ cDirSegs > MinDirSize
            /\ cDirSegs' = cDirSegs \div 2
            /\ segs' = {s \in rest : s < cDirSegs \div 2}
         \/ /\ \/ 2 * cActiveBuckets > cDirSegs * SegSize
               \/ cDirSegs <= MinDirSize
               \/ AllocationFails("directory")
            /\ cDirSegs' = cDirSegs
            /\ segs' = rest
  /\ UnlockTable(t)
  /\ UNCHANGED <<nLevel, dwBktAddrMask0, dwBktAddrMask1, iExpansionIdx, cActiveBuckets, lkrcState,
                 cRecords, refs, bktReaders, callVars, home, other, limit, scanVars, result>>

FreeSlots(a) == NodesPerClump * InClumps(Cardinality(bucket[a])) - Cardinality(bucket[a])

\* No clump for the surplus: everything is put back as it was.
ContractNoClump(t) ==
  /\ Goto(t, "contractTarget", "idle")
  /\ BucketFree(home[t])
  /\ Cardinality(bucket[other[t]]) > FreeSlots(home[t]) /\ AllocationFails("clump")
  /\ Advance
  /\ cActiveBuckets' = cActiveBuckets + 1
  /\ UnlockBuckets(t, {other[t]})
  /\ UnlockTable(t)
  /\ UNCHANGED <<cDirSegs, segs, lkrcState, dataVars, callVars, home, resizeVars,
                 scanVars, result>>

(* _MergeRecordSets *)
Merge(t) ==
  /\ Goto(t, "merge", "shrink")
  /\ bucket' = [bucket EXCEPT ![home[t]] = @ \cup moved[t]]
  /\ moved' = Put(moved, t, {})
  /\ UnlockBuckets(t, {home[t]})
  /\ UNCHANGED <<tableVars, cRecords, refs, tblLock, callVars, home, other, limit,
                 scanVars, result>>

-----------------------------------------------------------------------------
(* Clear: every bucket in turn is locked and emptied under the table lock, *)
(* m_cRecords being decremented by a load and a store; then the segments   *)
(* are freed and the table is set up anew.                                 *)
ClearNothing(t) ==
  /\ Goto(t, "clearTable", "idle")
  /\ TableFree
  /\ ~IsUsable \/ cRecords = 0
  /\ result' = Put(result, t, "SUCCESS")
  /\ UNCHANGED <<tableVars, dataVars, tblLock, bktLocks, callVars, home, resizeVars, scanVars>>

ClearTable(t) ==
  /\ Goto(t, "clearTable", "clearBucket")
  /\ LockTableForWrite(t)
  /\ IsUsable /\ cRecords # 0
  /\ scan' = Put(scan, t, 0)
  /\ UNCHANGED <<tableVars, dataVars, bktLocks, callVars, home, resizeVars, tally, cleared, result>>

ClearBucket(t) ==
  /\ Goto(t, "clearBucket", "clearLoad")
  /\ scan[t] < cActiveBuckets
  /\ LockBucketForWrite(t, scan[t])
  /\ UNCHANGED <<tableVars, dataVars, tblLock, callVars, home, resizeVars, scanVars, result>>

ClearRecord(t) ==
  /\ Goto(t, "clearLoad", "clearStore")
  /\ \E r \in bucket[scan[t]] :
       /\ bucket' = [bucket EXCEPT ![scan[t]] = @ \ {r}]
       /\ refs' = AddRef(r, -1)
       /\ cleared' = cleared \cup {r}
  /\ tally' = Put(tally, t, cRecords)
  /\ UNCHANGED <<tableVars, cRecords, tblLock, bktLocks, callVars, home, resizeVars, scan, result>>

ClearCount(t) ==
  /\ Goto(t, "clearStore", "clearLoad")
  /\ cRecords' = (tally[t] + CountModulus - 1) % CountModulus
  /\ UNCHANGED <<tableVars, bucket, refs, tblLock, bktLocks, callVars, home, resizeVars,
                 scanVars, result>>

\* Fault: a bucket is left before it is empty.
ClearNextTooSoon(t) ==
  /\ Goto(t, "clearLoad", "clearBucket")
  /\ UnlockBuckets(t, {scan[t]})
  /\ scan' = Put(scan, t, scan[t] + 1)
  /\ UNCHANGED <<tableVars, dataVars, tblLock, callVars, home, resizeVars, tally, cleared, result>>

ClearNext(t) ==
  /\ Goto(t, "clearLoad", "clearBucket")
  /\ bucket[scan[t]] = {}
  /\ UnlockBuckets(t, {scan[t]})
  /\ scan' = Put(scan, t, scan[t] + 1)
  /\ UNCHANGED <<tableVars, dataVars, tblLock, callVars, home, resizeVars, tally, cleared, result>>

\* _SetSegVars with the default size, and what is left when it has no memory.
ClearReset(t) ==
  /\ Goto(t, "clearBucket", "idle")
  /\ scan[t] = cActiveBuckets
  /\ nLevel' = InitialLevel(DefaultBuckets, SegBits, MaxLevel)
  /\ dwBktAddrMask0' = 2 ^ nLevel' - 1 /\ dwBktAddrMask1' = 2 ^ (nLevel' + 1) - 1
  /\ \/ /\ iExpansionIdx' = InitialExpansionIdx(DefaultBuckets, nLevel')
        /\ cActiveBuckets' = DefaultBuckets
        /\ cDirSegs' = InitialDirSize(DefaultBuckets, SegBits, MinDirSize, MaxLevel)
        /\ segs' = 0 .. InitialSegments(DefaultBuckets, SegBits) - 1
        /\ UNCHANGED lkrcState
     \/ /\ AllocationFails("setSegVars")
        /\ iExpansionIdx' = 0 /\ cActiveBuckets' = 0 /\ cDirSegs' = 0 /\ segs' = {}
        /\ lkrcState' = "ALLOC_FAIL"
  /\ cleared' = {}
  /\ result' = Put(result, t, "SUCCESS")
  /\ UnlockTable(t)
  /\ UNCHANGED <<dataVars, bktLocks, callVars, home, resizeVars, scan, tally>>

-----------------------------------------------------------------------------
(* CheckTable: under the table lock, each bucket in turn is locked, its    *)
(* records are counted and their addresses compared with the bucket's.     *)
CheckInvalid(t) ==
  /\ Goto(t, "checkTable", "idle")
  /\ tblWriter = NoThread /\ ~IsValid
  /\ lkrcState' = "UNUSABLE"
  /\ result' = Put(result, t, "UNUSABLE")
  /\ UNCHANGED <<nLevel, dwBktAddrMask0, dwBktAddrMask1, iExpansionIdx, cActiveBuckets, cDirSegs,
                 segs, dataVars, tblLock, bktLocks, callVars, home, resizeVars, scanVars>>

CheckTable(t) ==
  /\ Goto(t, "checkTable", "checkBucket")
  /\ LockTableForRead(t)
  /\ IsValid
  /\ scan' = Put(scan, t, 0) /\ tally' = Put(tally, t, 0)
  /\ UNCHANGED <<tableVars, dataVars, bktLocks, callVars, home, resizeVars, cleared, result>>

CheckBucket(t) ==
  /\ Goto(t, "checkBucket", "checkBucket")
  /\ scan[t] < cActiveBuckets
  /\ bktWriter[scan[t]] = NoThread
  /\ tally' = Put(tally, t, tally[t] + Cardinality(bucket[scan[t]]))
  /\ result' = IF \E r \in bucket[scan[t]] : Place(r) # scan[t]
               THEN Put(result, t, "MISPLACED") ELSE result
  /\ scan' = Put(scan, t, scan[t] + 1)
  /\ UNCHANGED <<tableVars, dataVars, tblLock, bktLocks, callVars, home, resizeVars, cleared>>

CheckCount(t) ==
  /\ Goto(t, "checkBucket", "idle")
  /\ scan[t] = cActiveBuckets
  /\ result' = Put(result, t, CASE result[t] = "MISPLACED" -> "MISPLACED"
                                [] tally[t] # cRecords -> "MISCOUNTED"
                                [] OTHER -> "CONSISTENT")
  /\ UnlockTable(t)
  /\ UNCHANGED <<tableVars, dataVars, bktLocks, callVars, home, resizeVars, scanVars>>

-----------------------------------------------------------------------------
Body(t) ==
  \/ InsertExisting(t) \/ InsertUpdate(t) \/ InsertNew(t) \/ InsertNoMemory(t)
  \/ DeleteFound(t) \/ DeleteMissing(t)
  \/ FindKey(t) \/ FindOther(t)

Expand(t) ==
  \/ Grow(t) \/ ExpandTable(t) \/ ExpandNoDirectory(t) \/ ExpandNoSegment(t)
  \/ ExpandOld(t) \/ ExpandNew(t) \/ ExpandNoClump(t) \/ Split(t) \/ Abandon(t)

Contract(t) ==
  \/ Snapshot(t) \/ Shrink(t) \/ ContractTable(t) \/ ContractMinimal(t)
  \/ ContractLast(t) \/ ContractTarget(t) \/ ContractNoClump(t) \/ Merge(t)

Clear(t) ==
  \/ ClearNothing(t) \/ ClearTable(t) \/ ClearBucket(t) \/ ClearRecord(t)
  \/ ClearCount(t) \/ ClearNext(t) \/ ClearReset(t)

Check(t) == CheckInvalid(t) \/ CheckTable(t) \/ CheckBucket(t) \/ CheckCount(t)

\* A step of an operation that has been called.
Step(t) ==
  \/ LockTable(t) \/ LockTableWithoutDirectory(t) \/ LockBucket(t)
  \/ Body(t) \/ Release(t) \/ Expand(t) \/ Contract(t) \/ Clear(t) \/ Check(t)

\* All calls have returned, or crashed, and no more will be made.
Done ==
  /\ calls = MaxOps /\ \A t \in Thread : pc[t] \in {"idle", "crashed"}
  /\ UNCHANGED vars

Next == (\E t \in Thread : Call(t) \/ Step(t)) \/ Done

Spec == Init /\ [][Next]_vars

(* A running thread keeps running; no operation waits for a client.        *)
FairSpec == Spec /\ \A t \in Thread : WF_vars(Step(t))

-----------------------------------------------------------------------------
(* The fields keep their types. *)
TypeOK ==
  /\ nLevel \in 0 .. MaxLevel
  /\ dwBktAddrMask0 \in Nat /\ dwBktAddrMask1 \in Nat
  /\ iExpansionIdx \in Nat /\ cActiveBuckets \in Nat
  /\ cDirSegs \in Nat /\ segs \subseteq Nat
  /\ lkrcState \in {"SUCCESS", "ALLOC_FAIL", "UNUSABLE"}
  /\ cRecords \in 0 .. CountModulus - 1
  /\ bucket \in [Addr -> SUBSET Record] /\ refs \in [Record -> Int]
  /\ tblWriter \in Thread \cup {NoThread} /\ tblReaders \subseteq Thread
  /\ bktWriter \in [Addr -> Thread \cup {NoThread}]
  /\ bktReaders \in [Addr -> SUBSET Thread]
  /\ pc \in [Thread -> PC] /\ op \in [Thread -> OpNames]
  /\ rec \in [Thread -> Record \cup {NoRecord}]
  /\ home \in [Thread -> Addr] /\ other \in [Thread -> Addr]
  /\ limit \in [Thread -> Nat] /\ scan \in [Thread -> Nat] /\ tally \in [Thread -> Nat]
  /\ moved \in [Thread -> SUBSET Record]
  /\ result \in [Thread -> {"NONE", "SUCCESS", "KEY_EXISTS", "NO_SUCH_KEY", "ALLOC_FAIL",
                           "UNUSABLE", "CONSISTENT", "MISPLACED", "MISCOUNTED"}]
  /\ cleared \subseteq Record
  /\ calls \in 0 .. MaxOps

(***************************************************************************)
(* The assertions of _FindBucket and _Bucket, for every bucket and at      *)
(* every moment: the masks belong to the level, the active buckets are     *)
(* 2^level plus those split so far (one more while a resize holds the      *)
(* table lock), every one of them has a segment in the directory, and no   *)
(* record belongs to a bucket that is not active.                          *)
(***************************************************************************)
BucketInTransit ==
  IF tblWriter # NoThread /\ pc[tblWriter] \in {"expandOld", "expandNew", "contractLast"}
  THEN 1 ELSE 0

AddressesValid ==
  HasDirectory =>
    /\ dwBktAddrMask0 = 2 ^ nLevel - 1 /\ dwBktAddrMask1 = 2 ^ (nLevel + 1) - 1
    /\ iExpansionIdx <= dwBktAddrMask0
    /\ cActiveBuckets = 2 ^ nLevel + iExpansionIdx + BucketInTransit
    /\ cActiveBuckets <= cDirSegs * SegSize
    /\ \A a \in 0 .. cActiveBuckets - 1 : Segment(a) \in segs
    /\ \A r \in Record : Place(r) < cActiveBuckets

(***************************************************************************)
(* A thread that searches a bucket under its lock sees every record that   *)
(* hashes to it: whenever records are away from the bucket their signature *)
(* addresses, the thread that splits or merges holds the lock of that      *)
(* bucket, or the bucket they are in, or on their way to, is about to be   *)
(* given up by a thread that holds the table lock.                         *)
(***************************************************************************)
GivenUp(a) ==
  /\ tblWriter # NoThread /\ other[tblWriter] = a
  /\ pc[tblWriter] \in {"contractLast", "contractTarget"}

RecordsReachable ==
  /\ \A a \in Addr : \A r \in bucket[a] :
       \/ Place(r) = a
       \/ bktWriter[Place(r)] # NoThread /\ bktWriter[Place(r)] = bktWriter[a]
       \/ GivenUp(a)
  /\ \A t \in Thread : \A r \in moved[t] : bktWriter[Place(r)] = t \/ GivenUp(home[t])

(***************************************************************************)
(* No record is in two places, and no two records have the same key, over  *)
(* all buckets and the chains that _Contract has cut off but not merged.   *)
(***************************************************************************)
Merging == {t \in Thread : pc[t] = "merge"}
Contents == (UNION {bucket[a] : a \in Addr}) \cup (UNION {moved[t] : t \in Merging})
Chains(r) == Cardinality({a \in Addr : r \in bucket[a]})
             + Cardinality({t \in Merging : r \in moved[t]})

KeysUnique ==
  \A r, s \in Contents : Chains(r) = 1 /\ (KeyOf[r] = KeyOf[s] => r = s)

(***************************************************************************)
(* A record's reference count is one for the table that holds it and one   *)
(* for each finder that has not given it back: a record in use is never    *)
(* destroyed and none is leaked.                                           *)
(***************************************************************************)
ReferencesExact ==
  \A r \in Record :
    refs[r] = Chains(r) + Cardinality({t \in Thread : pc[t] = "holding" /\ rec[t] = r})

(***************************************************************************)
(* The assertion of _Contract and the assumption of Clear: no thread holds *)
(* the lock of a bucket whose segment has been freed.                      *)
(***************************************************************************)
LockedBucketsExist ==
  /\ \A a \in Addr : BucketFree(a) \/ Segment(a) \in segs
  /\ \A t \in Thread :
       pc[t] = "clearBucket" /\ scan[t] = cActiveBuckets => \A a \in Addr : BucketFree(a)

(* CheckTable returns 0, whatever was under way when it was called. *)
CheckTableConsistent == \A t \in Thread : result[t] \notin {"MISPLACED", "MISCOUNTED"}

(***************************************************************************)
(* The table is linearizable: it implements RecordTable.  An operation     *)
(* takes effect while it holds its bucket's lock; a Clear takes effect all *)
(* at once when it is over, what it has removed so far counting until      *)
(* then; and resizing changes nothing.                                     *)
(***************************************************************************)
CalledAt == {"lockTable", "lockBucket", "body", "crashed", "clearTable", "clearBucket",
             "clearLoad", "clearStore", "checkTable", "checkBucket"}

Table == Contents \cup cleared
Phase == [t \in Thread |-> CASE pc[t] = "idle" -> "idle"
                             [] pc[t] \in CalledAt -> "called"
                             [] OTHER -> "done"]

Abstract == INSTANCE RecordTable WITH table <- Table, phase <- Phase

Linearizable == Abstract!Spec

(***************************************************************************)
(* Every operation that is called returns, the loops of _Expand and        *)
(* _Contract at its end included, unless it meets a table without a        *)
(* directory (see ValidInsideLock).                                        *)
(***************************************************************************)
OperationsReturn == \A t \in Thread : pc[t] # "idle" ~> pc[t] \in {"idle", "crashed"}

-----------------------------------------------------------------------------
(* Assertions of the code that other threads or a failed allocation defeat *)

(* TestLKRHashing.cpp, _Clear: m_cRecords == 0 once all buckets are empty. *)
ClearCountsToZero ==
  \A t \in Thread : pc[t] = "clearBucket" /\ scan[t] = cActiveBuckets => cRecords = 0

(* TestLKRHashing.cpp, _InsertRecord and its like: the table is valid      *)
(* inside the lock once the wrapper has found it usable.                   *)
ValidInsideLock == \A t \in Thread : pc[t] # "crashed"
=============================================================================
