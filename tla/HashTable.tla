----------------------------- MODULE HashTable -----------------------------
(***************************************************************************)
(* HASH_TABLE (IISLib/hashtable.h): buckets of records in ascending order  *)
(* of their hashes.  Insertions run under the shared lock, side by side,   *)
(* and link their node with a compare-and-swap on the pointer they expect  *)
(* to replace; deletions, Clear and the growing of the table take the lock *)
(* exclusively.  The lock is one that excludes (SRWLOCK; RWLock shows what *)
(* the form for Windows XP lacks).  A walk along a chain is one step: under*)
(* the shared lock nodes are only added, so that it finds the chain as it  *)
(* is when the last pointer is read.                                       *)
(***************************************************************************)
EXTENDS Integers, SequencesExt

CONSTANTS
  Thread, Record, NoRecord,
  Key, KeyOf, Hash,    \* the key of a record, the hash of a key
  InitialBuckets, Primes,
  OpNames,             \* the operations that clients call
  InitialTable,        \* the records that are in the table to begin with
  MaxCalls             \* bound: calls started

HashTableAssumption ==
  /\ NoRecord \notin Record
  /\ KeyOf \in [Record -> Key] /\ Hash \in [Key -> Nat]
  /\ InitialBuckets \in Nat \ {0} /\ Primes \subseteq Nat \ {0}
  /\ OpNames \subseteq {"Insert", "FindKey", "Apply", "DeleteKey", "DeleteIf", "Clear"}
  /\ InitialTable \subseteq Record /\ IsFiniteSet(InitialTable)
  /\ \A r, s \in InitialTable : KeyOf[r] = KeyOf[s] => r = s
  /\ MaxCalls \in Nat

VARIABLES
  buckets,          \* _ppBuckets: a chain of records for each residue
  nItems,           \* _nItems
  sharers, writer,  \* who holds _tableLock
  references,       \* references taken for the table and for FindKey's callers
  held,             \* of those, the ones FindKey's callers got
  op, rec, result,  \* each thread's operation, its record, what it returns
  pc, prev, next,   \* ppPreviousNodeNextPointer, pNextNode; Apply's bucket and node
  toApply,          \* what Apply has still to meet
  calls

locals == <<prev, next, toApply>>
lock == <<sharers, writer>>
call == <<op, rec, result>>
vars == <<buckets, nItems, lock, references, held, call, pc, locals, calls>>

\* The first prime that is large enough; the number itself if there is none.
GetPrime(n) ==
  LET enough == {p \in Primes : p >= n}
  IN  IF enough = {} THEN n ELSE CHOOSE p \in enough : \A q \in enough : q >= p

nBuckets == Cardinality(DOMAIN buckets)
HashOf(r) == Hash[KeyOf[r]]
Chain(r) == buckets[HashOf(r) % nBuckets]
Table == UNION {ToSet(buckets[i]) : i \in DOMAIN buckets}

\* How many nodes of the chain a search for the hash passes.
\* Fault: it stops in front of equal hashes.
PassedStoppingEarly(chain, h) ==
  CHOOSE k \in 0 .. Len(chain) :
    /\ \A i \in 1 .. k : Hash[KeyOf[chain[i]]] < h
    /\ k < Len(chain) => Hash[KeyOf[chain[k + 1]]] >= h

Passed(chain, h) ==
  CHOOSE k \in 0 .. Len(chain) :
    /\ \A i \in 1 .. k : Hash[KeyOf[chain[i]]] <= h
    /\ k < Len(chain) => Hash[KeyOf[chain[k + 1]]] > h

WithNode(chain, r) == InsertAt(chain, Passed(chain, HashOf(r)) + 1, r)

\* A chain of the records whose residue it is, inserted one after the other.
Adding(records, n, i, k, chain) ==
  IF HashOf(records[k]) % n = i THEN WithNode(chain, records[k]) ELSE chain
Filled(records, n, i) ==
  LET chain[k \in 0 .. Len(records)] ==
        IF k = 0 THEN <<>> ELSE Adding(records, n, i, k, chain[k - 1])
  IN  chain[Len(records)]
Distribute(records, n) == [i \in 0 .. n - 1 |-> Filled(records, n, i)]

\* The chain without the nodes that are taken out of it.
Keeping(chain, gone, k, kept) == IF chain[k] \in gone THEN kept ELSE Append(kept, chain[k])
Without(chain, gone) ==
  LET kept[k \in 0 .. Len(chain)] ==
        IF k = 0 THEN <<>> ELSE Keeping(chain, gone, k, kept[k - 1])
  IN  kept[Len(chain)]

Found(r) == {s \in ToSet(SubSeq(Chain(r), 1, Passed(Chain(r), HashOf(r)))) : KeyOf[s] = KeyOf[r]}

\* The node behind p, or the first one if p is the bucket itself.
Behind(chain, p) ==
  LET i == IF p = NoRecord THEN 1 ELSE 1 + CHOOSE k \in DOMAIN chain : chain[k] = p
  IN  IF i \in DOMAIN chain THEN chain[i] ELSE NoRecord

Init ==
  /\ buckets = Distribute(SetToSeq(InitialTable), InitialBuckets)
  /\ nItems = Cardinality(InitialTable)
  /\ sharers = {} /\ writer = {}
  /\ references = [r \in Record |-> IF r \in InitialTable THEN 1 ELSE 0]
  /\ held = [r \in Record |-> 0]
  /\ op = [t \in Thread |-> "NONE"] /\ result = [t \in Thread |-> "NONE"]
  /\ rec = [t \in Thread |-> CHOOSE r \in Record : TRUE]
  /\ pc = [t \in Thread |-> "idle"]
  /\ prev = [t \in Thread |-> NoRecord] /\ next = [t \in Thread |-> NoRecord]
  /\ toApply = [t \in Thread |-> {}]
  /\ calls = 0

Goto(t, from, to) == pc[t] = from /\ pc' = [pc EXCEPT ![t] = to]
Return(t, res) == result' = [result EXCEPT ![t] = res]

-----------------------------------------------------------------------------
Shared == {"Insert", "FindKey", "Apply"}

\* A record is inserted by one thread at a time, which owns it.
Invoke(t, o, r) ==
  /\ calls < MaxCalls /\ calls' = calls + 1
  /\ o = "Insert" =>
       r \notin Table /\ \A u \in Thread : ~(pc[u] # "idle" /\ op[u] = "Insert" /\ rec[u] = r)
  /\ o \in {"Apply", "DeleteIf", "Clear"} => r = rec[t]
  /\ Goto(t, "idle", IF o \in Shared THEN "lockShared" ELSE "lockExclusive")
  /\ op' = [op EXCEPT ![t] = o] /\ rec' = [rec EXCEPT ![t] = r] /\ Return(t, "NONE")
  /\ UNCHANGED <<buckets, nItems, lock, references, held, locals>>

NoNode(t) ==
  /\ op[t] = "Insert" /\ Goto(t, "lockShared", "idle") /\ Return(t, "ALLOC_FAIL")
  /\ UNCHANGED <<buckets, nItems, lock, references, held, op, rec, locals, calls>>

LockShared(t) ==
  /\ Goto(t, "lockShared", op[t])
  /\ writer = {} /\ sharers' = sharers \cup {t}
  /\ IF op[t] = "Apply"
     THEN /\ prev' = [prev EXCEPT ![t] = 0] /\ next' = [next EXCEPT ![t] = Behind(buckets[0], NoRecord)]
          /\ toApply' = [toApply EXCEPT ![t] = Table]
     ELSE UNCHANGED locals
  /\ UNCHANGED <<buckets, nItems, writer, references, held, call, calls>>

UnlockShared(t) ==
  /\ Goto(t, "unlockShared", IF op[t] = "Insert" /\ result[t] = "SUCCESS" THEN "checkSize" ELSE "idle")
  /\ sharers' = sharers \ {t}
  /\ prev' = [prev EXCEPT ![t] = NoRecord] /\ next' = [next EXCEPT ![t] = NoRecord]
  /\ UNCHANGED <<buckets, nItems, writer, references, held, call, toApply, calls>>

LockExclusive(t) ==
  /\ Goto(t, "lockExclusive", op[t])
  /\ sharers = {} /\ writer = {} /\ writer' = {t}
  /\ UNCHANGED <<buckets, nItems, sharers, references, held, call, locals, calls>>

UnlockExclusive(t) ==
  /\ Goto(t, "unlockExclusive", "idle")
  /\ writer' = {}
  /\ UNCHANGED <<buckets, nItems, sharers, references, held, call, locals, calls>>

-----------------------------------------------------------------------------
(* Under the shared lock                                                   *)
SearchToInsert(t) ==
  /\ \/ /\ Goto(t, "Insert", "unlockShared")
        /\ Found(rec[t]) # {} /\ Return(t, "KEY_EXISTS")
        /\ UNCHANGED locals
     \/ /\ Goto(t, "Insert", "link")
        /\ Found(rec[t]) = {}
        /\ LET k == Passed(Chain(rec[t]), HashOf(rec[t]))
               p == IF k = 0 THEN NoRecord ELSE Chain(rec[t])[k]
           IN  /\ prev' = [prev EXCEPT ![t] = p]
               /\ next' = [next EXCEPT ![t] = Behind(Chain(rec[t]), p)]
        /\ UNCHANGED <<result, toApply>>
  /\ UNCHANGED <<buckets, nItems, lock, references, held, op, rec, calls>>

Place(t) ==
  LET chain == Chain(rec[t])
      k == IF prev[t] = NoRecord THEN 1 ELSE 1 + CHOOSE i \in DOMAIN chain : chain[i] = prev[t]
  IN  buckets' = [buckets EXCEPT ![HashOf(rec[t]) % nBuckets] = InsertAt(chain, k, rec[t])]

\* Fault: the pointer is written without comparing it.
LinkBlindly(t) ==
  /\ Goto(t, "link", "reference") /\ Place(t) /\ Return(t, "SUCCESS")
  /\ UNCHANGED <<nItems, lock, references, held, op, rec, locals, calls>>

\* The compare-and-swap; if another node came in between the search is repeated.
Link(t) ==
  /\ \/ /\ Goto(t, "link", "reference")
        /\ Behind(Chain(rec[t]), prev[t]) = next[t]
        /\ Place(t) /\ Return(t, "SUCCESS")
     \/ /\ Goto(t, "link", "Insert")
        /\ Behind(Chain(rec[t]), prev[t]) # next[t]
        /\ UNCHANGED <<buckets, result>>
  /\ UNCHANGED <<nItems, lock, references, held, op, rec, locals, calls>>

Reference(t) ==
  /\ Goto(t, "reference", "count")
  /\ references' = [references EXCEPT ![rec[t]] = @ + 1]
  /\ UNCHANGED <<buckets, nItems, lock, held, call, locals, calls>>

IncrementItems(t) ==
  /\ Goto(t, "count", "unlockShared")
  /\ nItems' = nItems + 1
  /\ UNCHANGED <<buckets, lock, references, held, call, locals, calls>>

SearchToFind(t) ==
  /\ \/ /\ Goto(t, "FindKey", "unlockShared")
        /\ Found(rec[t]) = {} /\ Return(t, "NO_SUCH_KEY")
        /\ UNCHANGED rec
     \/ /\ Goto(t, "FindKey", "take") /\ Return(t, "SUCCESS")
        /\ \E r \in Found(rec[t]) : rec' = [rec EXCEPT ![t] = r]
  /\ UNCHANGED <<buckets, nItems, lock, references, held, op, locals, calls>>

Take(t) ==
  /\ Goto(t, "take", "unlockShared")
  /\ references' = [references EXCEPT ![rec[t]] = @ + 1]
  /\ held' = [held EXCEPT ![rec[t]] = @ + 1]
  /\ UNCHANGED <<buckets, nItems, lock, call, locals, calls>>

\* Apply visits the node it stands at, or goes on to the next bucket.
ApplyNode(t) ==
  /\ pc[t] = "Apply" /\ next[t] # NoRecord /\ UNCHANGED <<pc, result, prev>>
  /\ toApply' = [toApply EXCEPT ![t] = @ \ {next[t]}]
  /\ next' = [next EXCEPT ![t] = Behind(buckets[prev[t]], @)]
  /\ UNCHANGED <<buckets, nItems, lock, references, held, op, rec, calls>>

\* Fault: the last bucket is left out.
ApplyBucketButLast(t) ==
  /\ pc[t] = "Apply" /\ next[t] = NoRecord
  /\ \/ /\ prev[t] + 2 < nBuckets /\ UNCHANGED pc
        /\ prev' = [prev EXCEPT ![t] = @ + 1]
        /\ next' = [next EXCEPT ![t] = Behind(buckets[prev'[t]], NoRecord)]
        /\ UNCHANGED result
     \/ /\ prev[t] + 2 >= nBuckets /\ Goto(t, "Apply", "unlockShared")
        /\ Return(t, "SUCCESS")
        /\ UNCHANGED <<prev, next>>
  /\ UNCHANGED <<buckets, nItems, lock, references, held, op, rec, toApply, calls>>

ApplyBucket(t) ==
  /\ pc[t] = "Apply" /\ next[t] = NoRecord
  /\ \/ /\ prev[t] + 1 < nBuckets /\ UNCHANGED pc
        /\ prev' = [prev EXCEPT ![t] = @ + 1]
        /\ next' = [next EXCEPT ![t] = Behind(buckets[prev'[t]], NoRecord)]
        /\ UNCHANGED result
     \/ /\ prev[t] + 1 = nBuckets /\ Goto(t, "Apply", "unlockShared")
        /\ Return(t, "SUCCESS")
        /\ UNCHANGED <<prev, next>>
  /\ UNCHANGED <<buckets, nItems, lock, references, held, op, rec, toApply, calls>>

-----------------------------------------------------------------------------
(* Under the exclusive lock                                                *)

\* Fault: the reference the table held is kept.
TakeOutKeepingReference(t, gone) ==
  /\ buckets' = [i \in DOMAIN buckets |-> Without(buckets[i], gone)]
  /\ UNCHANGED references

TakeOut(t, gone) ==
  /\ buckets' = [i \in DOMAIN buckets |-> Without(buckets[i], gone)]
  /\ references' = [r \in Record |-> references[r] - (IF r \in gone THEN 1 ELSE 0)]

DeleteKey(t) ==
  /\ Goto(t, "DeleteKey", "unlockExclusive")
  /\ TakeOut(t, Found(rec[t]))
  /\ nItems' = nItems - Cardinality(Found(rec[t]))
  /\ Return(t, IF Found(rec[t]) = {} THEN "NO_SUCH_KEY" ELSE "SUCCESS")
  /\ UNCHANGED <<lock, held, op, rec, locals, calls>>

DeleteIf(t) ==
  /\ Goto(t, "DeleteIf", "unlockExclusive")
  /\ \E gone \in SUBSET Table :
       TakeOut(t, gone) /\ nItems' = nItems - Cardinality(gone)
  /\ Return(t, "SUCCESS")
  /\ UNCHANGED <<lock, held, op, rec, locals, calls>>

Clear(t) ==
  /\ Goto(t, "Clear", "unlockExclusive")
  /\ TakeOut(t, Table) /\ nItems' = 0
  /\ Return(t, "SUCCESS")
  /\ UNCHANGED <<lock, held, op, rec, locals, calls>>

-----------------------------------------------------------------------------
(* RehashTableIfNeeded, at the end of a successful insertion               *)
CheckSize(t) ==
  /\ Goto(t, "checkSize", IF nItems <= GetPrime(2 * nBuckets) THEN "idle" ELSE "lockExclusive")
  /\ op' = IF pc'[t] = "idle" THEN op ELSE [op EXCEPT ![t] = "Rehash"]
  /\ UNCHANGED <<buckets, nItems, lock, references, held, rec, result, locals, calls>>

\* The size is tested again under the lock; the new buckets may not be available.
Rehash(t) ==
  LET nodes == FlattenSeq([i \in 1 .. nBuckets |-> buckets[i - 1]])
  IN  /\ Goto(t, "Rehash", "unlockExclusive")
      /\ \/ /\ nItems > GetPrime(2 * nBuckets)
            /\ buckets' = Distribute(nodes, GetPrime(2 * nBuckets))
         \/ UNCHANGED buckets
      /\ UNCHANGED <<nItems, lock, references, held, call, locals, calls>>

Step(t) ==
  \/ NoNode(t) \/ LockShared(t) \/ UnlockShared(t) \/ LockExclusive(t) \/ UnlockExclusive(t)
  \/ SearchToInsert(t) \/ Link(t) \/ Reference(t) \/ IncrementItems(t)
  \/ SearchToFind(t) \/ Take(t) \/ ApplyNode(t) \/ ApplyBucket(t)
  \/ DeleteKey(t) \/ DeleteIf(t) \/ Clear(t) \/ CheckSize(t) \/ Rehash(t)

Next ==
  \E t \in Thread :
    \/ \E o \in OpNames, r \in Record : Invoke(t, o, r)
    \/ Step(t)

Spec == Init /\ [][Next]_vars

-----------------------------------------------------------------------------
TypeOK ==
  /\ DOMAIN buckets = 0 .. nBuckets - 1
  /\ \A i \in DOMAIN buckets : buckets[i] \in Seq(Record)
  /\ nItems \in Nat
  /\ sharers \subseteq Thread /\ writer \subseteq Thread
  /\ references \in [Record -> Nat] /\ held \in [Record -> Nat]

(***************************************************************************)
(* The order that the compare-and-swap relies on: in every chain the       *)
(* hashes ascend, every record is in the bucket of its hash, and no key is *)
(* there twice, whichever insertions run side by side.                     *)
(***************************************************************************)
ChainsInOrder ==
  \A i \in DOMAIN buckets : \A j, k \in DOMAIN buckets[i] :
    /\ HashOf(buckets[i][j]) % nBuckets = i
    /\ j < k => /\ HashOf(buckets[i][j]) <= HashOf(buckets[i][k])
                /\ KeyOf[buckets[i][j]] # KeyOf[buckets[i][k]]

(***************************************************************************)
(* A node that a thread goes on from after its search is still in the      *)
(* table: nobody frees it while the thread is inside the lock.             *)
(***************************************************************************)
NodesInUseRemain ==
  \A t \in Thread :
    /\ pc[t] = "link" => prev[t] \in Table \cup {NoRecord}
    /\ pc[t] = "take" => rec[t] \in Table
    /\ pc[t] = "Apply" => next[t] \in Table \cup {NoRecord}

(***************************************************************************)
(* The table holds one reference to every record in it and none to others, *)
(* apart from the insertion that has linked its node and not yet got to    *)
(* the reference.                                                          *)
(***************************************************************************)
TableReferences ==
  \A r \in Record :
    references[r] = held[r] + (IF r \in Table THEN 1 ELSE 0)
                    - Cardinality({t \in Thread : pc[t] = "reference" /\ rec[t] = r})

(* _nItems counts the records, up to the insertions that are about to.     *)
ItemsCounted ==
  nItems = Cardinality(Table) - Cardinality({t \in Thread : pc[t] \in {"reference", "count"}})

(***************************************************************************)
(* Apply meets every record that was in the table when it took the lock,   *)
(* while insertions go on around it.                                       *)
(***************************************************************************)
ApplyMeetsRecords ==
  \A t \in Thread : pc[t] = "unlockShared" /\ op[t] = "Apply" => toApply[t] = {}

(***************************************************************************)
(* The table implements the same set of records with distinct keys as      *)
(* CLKRLinearHashTable does: operations take effect at the compare-and-    *)
(* swap, at the search that decides, or under the exclusive lock.          *)
(***************************************************************************)
Before == {"lockShared", "Insert", "link", "FindKey", "Apply", "DeleteKey", "DeleteIf", "Clear"}

Phase == [t \in Thread |->
            CASE pc[t] = "idle" -> "idle"
              [] pc[t] \in Before \/ (pc[t] = "lockExclusive" /\ op[t] # "Rehash") -> "called"
              [] OTHER -> "done"]
Operation == [t \in Thread |-> IF op[t] = "Rehash" THEN "Insert" ELSE op[t]]

Abstract == INSTANCE RecordTable WITH table <- Table, op <- Operation, phase <- Phase

ImplementsRecordTable == Abstract!Spec
=============================================================================
