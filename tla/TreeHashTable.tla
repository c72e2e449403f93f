--------------------------- MODULE TreeHashTable ---------------------------
(***************************************************************************)
(* TREE_HASH_TABLE (IISLib/treehash.h): a hash table of paths that also    *)
(* links every path to its parent path.  An insertion adds the ancestors   *)
(* that are missing, as nodes without a record, from the top down; it runs *)
(* under the shared lock, beside other insertions, and publishes each node *)
(* with a compare-and-swap first in its bucket and then in its parent's    *)
(* list of children.  Deletions take whole subtrees under the exclusive    *)
(* lock.  As in HashTable the lock excludes, and a walk along a chain is   *)
(* one step.  A node in the table is named by its path.                    *)
(***************************************************************************)
EXTENDS Integers, SequencesExt

CONSTANTS
  Thread, Record, NoRecord,
  Path, NoPath,
  ParentOf,            \* the path up to the last separator, or NoPath
  PathOf, Hash,        \* GetKey and CalcHash
  InitialBuckets, Primes,
  OpNames, MaxCalls    \* the operations clients call; bound: calls started

TreeAssumption ==
  /\ NoRecord \notin Record /\ NoPath \notin Path
  /\ ParentOf \in [Path -> Path \cup {NoPath}]
  /\ PathOf \in [Record -> Path] /\ Hash \in [Path -> Nat]
  /\ IsFiniteSet(Path)
  /\ InitialBuckets \in Nat \ {0} /\ Primes \subseteq Nat \ {0} /\ MaxCalls \in Nat
  /\ OpNames \subseteq {"Insert", "FindKey", "Apply", "DeleteKey", "DeleteIf", "Clear"}

VARIABLES
  buckets,          \* _ppBuckets: chains of nodes
  payload,          \* _pRecord of each node
  parentLink,       \* _pParentNode of each node
  children,         \* _pFirstChild of each node and the _pNextSibling from there
  nItems,
  sharers, writer,  \* who holds _tableLock
  references, held, \* all references taken, and those of them FindKey's callers got
  op, rec, result,  \* each thread's operation, its record, what it returns
  pc,
  path, parent,     \* the partial path an insertion is at, and pParentNode
  prev, next,       \* what the compare-and-swap expects; next is also Apply's node,
  atBucket,         \* in this bucket
  toApply,          \* history: the records Apply has still to meet
  calls

tree == <<buckets, payload, parentLink, children>>
lock == <<sharers, writer>>
counts == <<references, held>>
call == <<op, rec, result>>
walk == <<atBucket, toApply>>
locals == <<path, parent, prev, next, walk>>
vars == <<tree, nItems, lock, counts, call, pc, locals, calls>>

\* The first prime that is large enough; the number itself if there is none.
GetPrime(n) ==
  LET enough == {p \in Primes : p >= n}
  IN  IF enough = {} THEN n ELSE CHOOSE p \in enough : \A q \in enough : q >= p
nBuckets == Cardinality(DOMAIN buckets)
Nodes == UNION {ToSet(buckets[i]) : i \in DOMAIN buckets}
Chain(p) == buckets[Hash[p] % nBuckets]
KeyPath(t) == PathOf[rec[t]]

Passed(chain, h) ==
  CHOOSE k \in 0 .. Len(chain) :
    /\ \A i \in 1 .. k : Hash[chain[i]] <= h
    /\ k < Len(chain) => Hash[chain[k + 1]] > h
WithNode(chain, p) == InsertAt(chain, Passed(chain, Hash[p]) + 1, p)

\* A chain of the nodes whose residue it is, inserted one after the other.
Adding(nodes, n, i, k, chain) ==
  IF Hash[nodes[k]] % n = i THEN WithNode(chain, nodes[k]) ELSE chain
Filled(nodes, n, i) ==
  LET chain[k \in 0 .. Len(nodes)] ==
        IF k = 0 THEN <<>> ELSE Adding(nodes, n, i, k, chain[k - 1])
  IN  chain[Len(nodes)]
Distribute(nodes, n) == [i \in 0 .. n - 1 |-> Filled(nodes, n, i)]

\* A chain, or a list of children, without the nodes that are taken out of it.
Keeping(chain, gone, k, kept) == IF chain[k] \in gone THEN kept ELSE Append(kept, chain[k])
Without(chain, gone) ==
  LET kept[k \in 0 .. Len(chain)] ==
        IF k = 0 THEN <<>> ELSE Keeping(chain, gone, k, kept[k - 1])
  IN  kept[Len(chain)]

Behind(chain, p) ==
  LET i == IF p = NoPath THEN 1 ELSE 1 + CHOOSE k \in DOMAIN chain : chain[k] = p
  IN  IF i \in DOMAIN chain THEN chain[i] ELSE NoPath

\* The paths that are reached from the first ones in any number of steps.
Reaching(from, steps) == from \cup UNION {steps[q] : q \in from}
Closure(first, steps) ==
  LET reached[n \in 0 .. Cardinality(Path)] ==
        IF n = 0 THEN first ELSE Reaching(reached[n - 1], steps)
  IN  reached[Cardinality(Path)]

\* The ancestor of key, or key itself, whose parent is p.
Upwards == [q \in Path |-> {ParentOf[q]} \ {NoPath}]
TowardsKey(p, key) == CHOOSE q \in Closure({key}, Upwards) : ParentOf[q] = p

Init ==
  /\ buckets = [i \in 0 .. InitialBuckets - 1 |-> <<>>]
  /\ payload = [p \in Path |-> NoRecord] /\ parentLink = [p \in Path |-> NoPath]
  /\ children = [p \in Path |-> <<>>]
  /\ nItems = 0 /\ sharers = {} /\ writer = {}
  /\ references = [r \in Record |-> 0] /\ held = [r \in Record |-> 0]
  /\ op = [t \in Thread |-> "NONE"] /\ result = [t \in Thread |-> "NONE"]
  /\ rec = [t \in Thread |-> CHOOSE r \in Record : TRUE]
  /\ pc = [t \in Thread |-> "idle"]
  /\ path = [t \in Thread |-> NoPath] /\ parent = [t \in Thread |-> NoPath]
  /\ prev = [t \in Thread |-> NoPath] /\ next = [t \in Thread |-> NoPath]
  /\ atBucket = [t \in Thread |-> 0] /\ toApply = [t \in Thread |-> {}]
  /\ calls = 0

Goto(t, from, to) == pc[t] = from /\ pc' = [pc EXCEPT ![t] = to]
Return(t, res) == result' = [result EXCEPT ![t] = res]

-----------------------------------------------------------------------------
Invoke(t, o, r) ==
  /\ calls < MaxCalls /\ calls' = calls + 1
  /\ o = "Insert" => /\ \A p \in Path : payload[p] # r
                     /\ \A u \in Thread : ~(pc[u] # "idle" /\ op[u] = "Insert" /\ rec[u] = r)
  /\ o \in {"Apply", "DeleteIf", "Clear"} => r = rec[t]
  /\ Goto(t, "idle", IF o \in {"Insert", "FindKey", "Apply"} THEN "lockShared" ELSE "lockExclusive")
  /\ op' = [op EXCEPT ![t] = o] /\ rec' = [rec EXCEPT ![t] = r] /\ Return(t, "NONE")
  /\ UNCHANGED <<tree, nItems, lock, counts, locals>>

LockShared(t) ==
  /\ Goto(t, "lockShared", op[t]) /\ op[t] # "Apply"
  /\ writer = {} /\ sharers' = sharers \cup {t}
  /\ path' = [path EXCEPT ![t] = KeyPath(t)] /\ parent' = [parent EXCEPT ![t] = NoPath]
  /\ UNCHANGED <<tree, nItems, writer, counts, call, prev, next, walk, calls>>

UnlockShared(t) ==
  /\ Goto(t, "unlockShared", IF op[t] = "Insert" /\ result[t] = "SUCCESS" THEN "checkSize" ELSE "idle")
  /\ sharers' = sharers \ {t}
  /\ path' = [path EXCEPT ![t] = NoPath] /\ parent' = [parent EXCEPT ![t] = NoPath]
  /\ prev' = [prev EXCEPT ![t] = NoPath] /\ next' = [next EXCEPT ![t] = NoPath]
  /\ UNCHANGED <<tree, nItems, writer, counts, call, walk, calls>>

LockExclusive(t) ==
  /\ Goto(t, "lockExclusive", op[t])
  /\ sharers = {} /\ writer = {} /\ writer' = {t}
  /\ UNCHANGED <<tree, nItems, sharers, counts, call, locals, calls>>

UnlockExclusive(t) ==
  /\ Goto(t, "unlockExclusive", "idle")
  /\ writer' = {}
  /\ UNCHANGED <<tree, nItems, sharers, counts, call, locals, calls>>

FindNode(t) ==
  /\ \/ /\ Goto(t, "FindKey", "unlockShared")
        /\ KeyPath(t) \notin Nodes \/ payload[KeyPath(t)] = NoRecord
        /\ Return(t, "NO_SUCH_KEY") /\ UNCHANGED rec
     \/ /\ Goto(t, "FindKey", "take")
        /\ KeyPath(t) \in Nodes /\ payload[KeyPath(t)] # NoRecord
        /\ Return(t, "SUCCESS") /\ rec' = [rec EXCEPT ![t] = payload[KeyPath(t)]]
  /\ UNCHANGED <<tree, nItems, lock, counts, op, locals, calls>>

\* The records, without the nodes that are ancestors only.
RecordsInTable == {payload[p] : p \in Nodes} \ {NoRecord}

StartApply(t) ==
  /\ Goto(t, "lockShared", "Apply") /\ op[t] = "Apply"
  /\ writer = {} /\ sharers' = sharers \cup {t}
  /\ atBucket' = [atBucket EXCEPT ![t] = 0] /\ next' = [next EXCEPT ![t] = Behind(buckets[0], NoPath)]
  /\ toApply' = [toApply EXCEPT ![t] = RecordsInTable]
  /\ UNCHANGED <<tree, nItems, writer, counts, call, path, parent, prev, calls>>

ApplyNode(t) ==
  /\ pc[t] = "Apply" /\ next[t] # NoPath
  /\ toApply' = [toApply EXCEPT ![t] = @ \ {payload[next[t]]}]
  /\ next' = [next EXCEPT ![t] = Behind(buckets[atBucket[t]], @)]
  /\ UNCHANGED <<tree, nItems, lock, counts, call, pc, path, parent, prev, atBucket, calls>>

ApplyBucket(t) ==
  /\ pc[t] = "Apply" /\ next[t] = NoPath
  /\ \/ /\ atBucket[t] + 1 < nBuckets /\ UNCHANGED <<pc, result>>
        /\ atBucket' = [atBucket EXCEPT ![t] = @ + 1]
        /\ next' = [next EXCEPT ![t] = Behind(buckets[atBucket'[t]], NoPath)]
     \/ /\ atBucket[t] + 1 = nBuckets /\ Goto(t, "Apply", "unlockShared") /\ Return(t, "SUCCESS")
        /\ atBucket' = [atBucket EXCEPT ![t] = 0] /\ UNCHANGED next
  /\ UNCHANGED <<tree, nItems, lock, counts, op, rec, path, parent, prev, toApply, calls>>

Take(t) ==
  /\ Goto(t, "take", "unlockShared")
  /\ references' = [references EXCEPT ![rec[t]] = @ + 1]
  /\ held' = [held EXCEPT ![rec[t]] = @ + 1]
  /\ UNCHANGED <<tree, nItems, lock, call, locals, calls>>

-----------------------------------------------------------------------------
(* InsertRecord: first up to the lowest ancestor that is there ...         *)
Ascend(t) ==
  LET above == ParentOf[path[t]]
  IN  /\ \/ /\ Goto(t, "Insert", "add") /\ above \in Nodes \cup {NoPath}
            /\ parent' = [parent EXCEPT ![t] = above]
            /\ UNCHANGED path
         \/ /\ Goto(t, "Insert", "Insert") /\ above \notin Nodes \cup {NoPath}
            /\ path' = [path EXCEPT ![t] = above]
            /\ UNCHANGED parent
      /\ UNCHANGED <<tree, nItems, lock, counts, call, prev, next, walk, calls>>

(* ... then down again, AddNodeInternal adding a node for every path.      *)
Allocate(t) ==
  /\ \/ Goto(t, "add", "search") /\ UNCHANGED result
     \/ Goto(t, "add", "unlockShared") /\ Return(t, "ALLOC_FAIL")
  /\ UNCHANGED <<tree, nItems, lock, counts, op, rec, locals, calls>>

Search(t) ==
  /\ \/ /\ Goto(t, "search", "setRecord") /\ path[t] \in Nodes
        /\ UNCHANGED <<prev, next>>
     \/ /\ Goto(t, "search", "link") /\ path[t] \notin Nodes
        /\ LET k == Passed(Chain(path[t]), Hash[path[t]])
               p == IF k = 0 THEN NoPath ELSE Chain(path[t])[k]
           IN  /\ prev' = [prev EXCEPT ![t] = p]
               /\ next' = [next EXCEPT ![t] = Behind(Chain(path[t]), p)]
  /\ UNCHANGED <<tree, nItems, lock, counts, call, path, parent, walk, calls>>

\* On to the next path, whose parent is this one, or the insertion is over.
Descend(t, from) ==
  IF path[t] = KeyPath(t)
  THEN Goto(t, from, "unlockShared") /\ UNCHANGED <<path, parent>>
  ELSE /\ Goto(t, from, "add")
       /\ parent' = [parent EXCEPT ![t] = path[t]]
       /\ path' = [path EXCEPT ![t] = TowardsKey(path[t], KeyPath(t))]

\* The node is there already.
PassNode(t) ==
  /\ path[t] = KeyPath(t) => payload[KeyPath(t)] # NoRecord
  /\ Descend(t, "setRecord")
  /\ result' = IF path[t] = KeyPath(t) THEN [result EXCEPT ![t] = "KEY_EXISTS"] ELSE result
  /\ UNCHANGED <<tree, nItems, lock, counts, op, rec, prev, next, walk, calls>>

\* Fault: the record of another insertion is replaced.
SetRecordBlindly(t) ==
  /\ Goto(t, "setRecord", "referenceSet") /\ path[t] = KeyPath(t)
  /\ payload' = [payload EXCEPT ![path[t]] = rec[t]]
  /\ Return(t, "SUCCESS")
  /\ UNCHANGED <<buckets, parentLink, children, nItems, lock, counts, op, rec, locals, calls>>

\* It has no record, and gets this one by a compare-and-swap with NULL.
SetRecord(t) ==
  /\ Goto(t, "setRecord", "referenceSet") /\ path[t] = KeyPath(t)
  /\ payload[path[t]] = NoRecord /\ payload' = [payload EXCEPT ![path[t]] = rec[t]]
  /\ Return(t, "SUCCESS")
  /\ UNCHANGED <<buckets, parentLink, children, nItems, lock, counts, op, rec, locals, calls>>

ReferenceSet(t) ==
  /\ Goto(t, "referenceSet", "unlockShared")
  /\ references' = [references EXCEPT ![rec[t]] = @ + 1]
  /\ UNCHANGED <<tree, nItems, lock, held, call, locals, calls>>

\* The node is linked if nothing came in behind prev; else the search is repeated.
LinkNode(t) ==
  LET p == path[t]  atKey == p = KeyPath(t)
      k == IF prev[t] = NoPath THEN 1 ELSE 1 + CHOOSE i \in DOMAIN Chain(p) : Chain(p)[i] = prev[t]
  IN  /\ Goto(t, "link", IF atKey THEN "reference" ELSE "count")
      /\ Behind(Chain(p), prev[t]) = next[t]
      /\ buckets' = [buckets EXCEPT ![Hash[p] % nBuckets] = InsertAt(@, k, p)]
      /\ payload' = [payload EXCEPT ![p] = IF atKey THEN rec[t] ELSE NoRecord]
      /\ parentLink' = [parentLink EXCEPT ![p] = parent[t]]
      /\ children' = [children EXCEPT ![p] = <<>>]
      /\ IF atKey THEN Return(t, "SUCCESS") ELSE UNCHANGED result
      /\ UNCHANGED <<nItems, lock, counts, op, rec, locals, calls>>

Relink(t) ==
  /\ Goto(t, "link", "search")
  /\ Behind(Chain(path[t]), prev[t]) # next[t]
  /\ UNCHANGED <<tree, nItems, lock, counts, call, locals, calls>>

Reference(t) ==
  /\ Goto(t, "reference", "count")
  /\ references' = [references EXCEPT ![rec[t]] = @ + 1]
  /\ UNCHANGED <<tree, nItems, lock, held, call, locals, calls>>

IncrementItems(t) ==
  /\ nItems' = nItems + 1
  /\ IF parent[t] = NoPath THEN Descend(t, "count")
     ELSE Goto(t, "count", "readChild") /\ UNCHANGED <<path, parent>>
  /\ UNCHANGED <<tree, lock, counts, call, prev, next, walk, calls>>

ReadFirstChild(t) ==
  /\ Goto(t, "readChild", "linkChild")
  /\ next' = [next EXCEPT ![t] = Behind(children[parent[t]], NoPath)]
  /\ UNCHANGED <<tree, nItems, lock, counts, call, path, parent, prev, walk, calls>>

\* Fault: the new node's list of siblings is the one read before.
LinkChildBlindly(t) ==
  /\ Descend(t, "linkChild")
  /\ children' = [children EXCEPT ![parent[t]] =
       <<path[t]>> \o (IF next[t] = NoPath THEN <<>>
                       ELSE SubSeq(@, CHOOSE i \in DOMAIN @ : @[i] = next[t], Len(@)))]
  /\ UNCHANGED <<buckets, payload, parentLink, nItems, lock, counts, call, prev, next, walk, calls>>

LinkChild(t) ==
  /\ pc[t] = "linkChild"
  /\ \/ /\ Behind(children[parent[t]], NoPath) = next[t]
        /\ Descend(t, "linkChild")
        /\ children' = [children EXCEPT ![parent[t]] = <<path[t]>> \o @]
     \/ /\ Goto(t, "linkChild", "readChild")
        /\ Behind(children[parent[t]], NoPath) # next[t]
        /\ UNCHANGED <<children, path, parent>>
  /\ UNCHANGED <<buckets, payload, parentLink, nItems, lock, counts, call, prev, next, walk, calls>>
-----------------------------------------------------------------------------
(* Under the exclusive lock                                                *)

\* DeleteNodeInternal goes down the lists of children.
Subtree(p) == Closure({p}, [q \in Path |-> ToSet(children[q])])

\* The nodes that go, and the ones that only lose their records.
TakeOut(gone, emptied) ==
  /\ buckets' = [i \in DOMAIN buckets |-> Without(buckets[i], gone)]
  /\ payload' = [p \in Path |-> IF p \in gone \cup emptied THEN NoRecord ELSE payload[p]]
  /\ parentLink' = [p \in Path |-> IF p \in gone THEN NoPath ELSE parentLink[p]]
  /\ children' = [p \in Path |-> IF p \in gone THEN <<>>
                                 ELSE Without(children[p], gone)]

\* Fault: the records of emptied nodes are not released.
ReleaseGone(gone, emptied) ==
  references' = [r \in Record |->
                   references[r] - Cardinality({p \in gone : payload[p] = r})]

Release(gone, emptied) ==
  references' = [r \in Record |->
                   references[r] - Cardinality({p \in gone \cup emptied : payload[p] = r})]

DeleteKey(t) ==
  LET gone == IF KeyPath(t) \in Nodes THEN Subtree(KeyPath(t)) ELSE {}
  IN  /\ Goto(t, "DeleteKey", "unlockExclusive")
      /\ TakeOut(gone, {}) /\ Release(gone, {})
      /\ nItems' = nItems - Cardinality(gone)
      /\ Return(t, "SUCCESS")
      /\ UNCHANGED <<lock, held, op, rec, locals, calls>>

AllNodes == FlattenSeq([i \in 1 .. nBuckets |-> buckets[i - 1]])

\* DeleteIf meets the nodes bucket by bucket: a node goes if its record is
\* chosen, or it has none, and it has no children left; with children it only
\* loses a record that is chosen.
Meeting(chosen, p, done) ==
  IF payload[p] \in chosen \cup {NoRecord} /\ ToSet(children[p]) \subseteq done.gone
  THEN [done EXCEPT !.gone = @ \cup {p}]
  ELSE IF payload[p] \in chosen THEN [done EXCEPT !.emptied = @ \cup {p}] ELSE done
DeletedIf(chosen) ==
  LET done[k \in 0 .. Len(AllNodes)] ==
        IF k = 0 THEN [gone |-> {}, emptied |-> {}]
        ELSE Meeting(chosen, AllNodes[k], done[k - 1])
  IN  done[Len(AllNodes)]

DeleteIf(t) ==
  /\ Goto(t, "DeleteIf", "unlockExclusive")
  /\ \E chosen \in SUBSET Record :
       LET done == DeletedIf(chosen)
       IN  /\ TakeOut(done.gone, done.emptied) /\ Release(done.gone, done.emptied)
           /\ nItems' = nItems - Cardinality(done.gone)
  /\ Return(t, "SUCCESS")
  /\ UNCHANGED <<lock, held, op, rec, locals, calls>>

Clear(t) ==
  /\ Goto(t, "Clear", "unlockExclusive")
  /\ TakeOut(Nodes, {}) /\ Release(Nodes, {})
  /\ nItems' = 0
  /\ Return(t, "SUCCESS")
  /\ UNCHANGED <<lock, held, op, rec, locals, calls>>

CheckSize(t) ==
  /\ Goto(t, "checkSize", IF nItems <= GetPrime(2 * nBuckets) THEN "idle" ELSE "lockExclusive")
  /\ op' = IF pc'[t] = "idle" THEN op ELSE [op EXCEPT ![t] = "Rehash"]
  /\ UNCHANGED <<tree, nItems, lock, counts, rec, result, locals, calls>>

Rehash(t) ==
  /\ Goto(t, "Rehash", "unlockExclusive")
  /\ \/ /\ nItems > GetPrime(2 * nBuckets)
        /\ buckets' = Distribute(AllNodes, GetPrime(2 * nBuckets))
     \/ UNCHANGED buckets
  /\ UNCHANGED <<payload, parentLink, children, nItems, lock, counts, call, locals, calls>>

Step(t) ==
  \/ LockShared(t) \/ UnlockShared(t) \/ LockExclusive(t) \/ UnlockExclusive(t)
  \/ FindNode(t) \/ Take(t) \/ StartApply(t) \/ ApplyNode(t) \/ ApplyBucket(t)
  \/ Ascend(t) \/ Allocate(t) \/ Search(t) \/ PassNode(t) \/ SetRecord(t) \/ ReferenceSet(t)
  \/ LinkNode(t) \/ Relink(t) \/ Reference(t) \/ IncrementItems(t)
  \/ ReadFirstChild(t) \/ LinkChild(t)
  \/ DeleteKey(t) \/ DeleteIf(t) \/ Clear(t) \/ CheckSize(t) \/ Rehash(t)

Next ==
  \E t \in Thread :
    \/ \E o \in OpNames, r \in Record : Invoke(t, o, r)
    \/ Step(t)

Spec == Init /\ [][Next]_vars

-----------------------------------------------------------------------------
TypeOK ==
  /\ \A i \in DOMAIN buckets : buckets[i] \in Seq(Path)
  /\ payload \in [Path -> Record \cup {NoRecord}]
  /\ parentLink \in [Path -> Path \cup {NoPath}]
  /\ children \in [Path -> Seq(Path)]
  /\ nItems \in Nat /\ sharers \subseteq Thread /\ writer \subseteq Thread
  /\ references \in [Record -> Nat] /\ held \in [Record -> Nat]
  /\ atBucket \in [Thread -> 0 .. nBuckets - 1] /\ toApply \in [Thread -> SUBSET Record]

(***************************************************************************)
(* In every bucket the hashes ascend, and a path has one node only, however*)
(* many insertions needed it as an ancestor at the same time.              *)
(***************************************************************************)
ChainsInOrder ==
  \A i \in DOMAIN buckets : \A j, k \in DOMAIN buckets[i] :
    /\ Hash[buckets[i][j]] % nBuckets = i
    /\ j < k => /\ Hash[buckets[i][j]] <= Hash[buckets[i][k]]
                /\ buckets[i][j] # buckets[i][k]

(***************************************************************************)
(* The tree and the table agree: whatever is found by its hash has its     *)
(* parent path in the table as its parent node, and is on that node's list *)
(* of children exactly once as soon as its insertion got there; and no     *)
(* list names a node that has gone.                                        *)
(***************************************************************************)
Unlinked(p) == \E t \in Thread : path[t] = p /\ pc[t] \in {"reference", "count", "readChild", "linkChild"}

TreeMatchesTable ==
  \A p \in Nodes :
    /\ parentLink[p] = ParentOf[p]
    /\ parentLink[p] # NoPath =>
         /\ parentLink[p] \in Nodes
         /\ \/ Unlinked(p)
            \/ Cardinality({i \in DOMAIN children[parentLink[p]] : children[parentLink[p]][i] = p}) = 1
    /\ \A i \in DOMAIN children[p] : children[p][i] \in Nodes /\ ParentOf[children[p][i]] = p

(* _nItems counts the nodes, up to the insertions that are about to.       *)
ItemsCounted ==
  nItems = Cardinality(Nodes) - Cardinality({t \in Thread : pc[t] \in {"reference", "count"}
                                              /\ path[t] \in Nodes})

(***************************************************************************)
(* The table holds one reference to each record in it, once the insertion  *)
(* got to take it, and none to records it lost with a subtree, to DeleteIf *)
(* or to Clear.                                                            *)
(***************************************************************************)
TableReferences ==
  \A r \in Record :
    references[r] = held[r] + Cardinality({p \in Nodes : payload[p] = r})
      - Cardinality({t \in Thread : pc[t] \in {"reference", "referenceSet"} /\ rec[t] = r})

(***************************************************************************)
(* Apply meets every record that was in the table when it took the lock,   *)
(* while insertions put nodes and records around it.                       *)
(***************************************************************************)
ApplyMeetsRecords ==
  \A t \in Thread : pc[t] = "unlockShared" /\ op[t] = "Apply" => toApply[t] = {}

(***************************************************************************)
(* Nodes without a record, ancestors only, never show: the table implements*)
(* a set of records with distinct keys, a deletion taking several of them. *)
(***************************************************************************)
EffectAhead == {"lockShared", "FindKey", "Insert", "Apply", "add", "search", "link",
                "DeleteKey", "DeleteIf", "Clear"}

Phase == [t \in Thread |->
            CASE pc[t] = "idle" -> "idle"
              [] \/ pc[t] \in EffectAhead
                 \/ pc[t] = "lockExclusive" /\ op[t] # "Rehash"
                 \/ pc[t] \in {"reference", "count", "readChild", "linkChild", "setRecord"}
                    /\ result[t] = "NONE" -> "called"
              [] OTHER -> "done"]
Operation == [t \in Thread |-> CASE op[t] = "Rehash" -> "Insert"
                                 [] op[t] = "DeleteKey" -> "DeleteIf"
                                 [] OTHER -> op[t]]

Abstract == INSTANCE RecordTable WITH
  table <- RecordsInTable, KeyOf <- PathOf, OpNames <- OpNames \cup {"DeleteIf"},
  op <- Operation, phase <- Phase

ImplementsRecordTable == Abstract!Spec
=============================================================================
