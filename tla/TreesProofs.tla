---------------------------- MODULE TreesProofs ----------------------------
(***************************************************************************)
(* Theorems about TREE_HASH_TABLE, of PartSpec, in which the other         *)
(* structures stand still: its chains stay in order, tree and table agree, *)
(* its counts are right, Apply meets every record, and it implements       *)
(* RecordTable.                                                            *)
(***************************************************************************)
EXTENDS TreeChainsProofs

-----------------------------------------------------------------------------
(* The inductive invariant of TREE_HASH_TABLE                              *)

Inserting == {"Insert", "add", "search", "link", "setRecord", "referenceSet", "reference", "count",
              "readChild", "linkChild"}
\* The node is in its bucket, and not yet on its parent's list.
Linking == {"reference", "count", "readChild", "linkChild"}
TreeSharedPcs == Inserting \cup {"FindKey", "take", "Apply", "unlockShared"}
TreePcs == TreeSharedPcs \cup ExclusivePcs \cup {"idle", "lockShared", "lockExclusive", "checkSize"}
SharedOps == {"Insert", "FindKey", "Apply"}

InTree(p) == p \in NodesIn(treeBuckets)
KeyNode(t) == PathOf[treeRec[t]]

TreeCallTypes ==
  /\ treePc \in [Thread -> TreePcs] /\ treeOp \in [Thread -> SharedOps \cup ExclusiveOps \cup {"NONE"}]
  /\ treeRec \in [Thread -> TreeRecord \cup {CHOOSE r \in TreeRecord : TRUE}]
  /\ treeResult \in [Thread -> {"NONE", "ALLOC_FAIL", "KEY_EXISTS", "NO_SUCH_KEY", "SUCCESS"}]
  /\ path \in [Thread -> Path \cup {NoPath}] /\ parent \in [Thread -> Path \cup {NoPath}]
  /\ treePrev \in [Thread -> Path \cup {NoPath}] /\ treeNext \in [Thread -> Path \cup {NoPath}]
  /\ atBucket \in [Thread -> Nat] /\ treeToApply \in [Thread -> SUBSET TreeRecord]

\* Where a thread is goes with its operation.
TreeCallPlaces ==
  \A t \in Thread :
    /\ treePc[t] # "idle" => treeRec[t] \in TreeRecord
    /\ treePc[t] \in Inserting \cup {"checkSize"} => treeOp[t] = "Insert"
    /\ treePc[t] \in {"FindKey", "take"} => treeOp[t] = "FindKey"
    /\ treePc[t] \in ExclusiveOps \cup {"Apply"} => treeOp[t] = treePc[t]
    /\ treePc[t] \in {"lockShared", "unlockShared"} => treeOp[t] \in SharedOps
    /\ treePc[t] \in {"lockExclusive", "unlockExclusive"} => treeOp[t] \in ExclusiveOps

\* An insertion is at a path from its key up, whose parent it knows, and which
\* is in the table, on its way down.
TreePathInv ==
  \A t \in Thread :
    /\ treePc[t] \in {"lockShared", "Insert", "add", "search", "link", "setRecord"} => treeResult[t] = "NONE"
    /\ treePc[t] \in Linking => treeResult[t] = IF path[t] = KeyNode(t) THEN "SUCCESS" ELSE "NONE"
    /\ treePc[t] \in Inserting => path[t] \in Line(KeyNode(t)) /\ path[t] \in Path
    /\ treePc[t] \in Inserting \ {"Insert"} =>
         parent[t] = ParentOf[path[t]] /\ (parent[t] # NoPath => InTree(parent[t]))
    /\ treePc[t] \in {"reference", "referenceSet"} => path[t] = KeyNode(t)
    /\ treePc[t] \in Linking \cup {"setRecord", "referenceSet"} => InTree(path[t])
    /\ treePc[t] \in {"readChild", "linkChild"} => parent[t] # NoPath

TreeLockInv ==
  /\ treeSharers = {t \in Thread : treePc[t] \in TreeSharedPcs}
  /\ treeWriter = {t \in Thread : treePc[t] \in ExclusivePcs}
  /\ treeWriter # {} => treeSharers = {} /\ \A t, u \in treeWriter : t = u

\* A record is at its key's node; a node knows its parent.
NodeInv ==
  /\ payload \in [Path -> TreeRecord \cup {NoRecord}] /\ parentLink \in [Path -> Path \cup {NoPath}]
  /\ \A p \in Path : payload[p] # NoRecord => InTree(p) /\ PathOf[payload[p]] = p
  /\ \A p \in Path : InTree(p) => parentLink[p] = ParentOf[p]

\* A list of children has nodes, and their parent only.
ChildInv ==
  /\ children \in [Path -> Seq(Path)]
  /\ \A p \in Path :
       /\ DistinctPaths(children[p])
       /\ \A c \in PathsIn(children[p]) : InTree(c) /\ InTree(p) /\ ParentOf[c] = p

\* A node is on its parent's list, or one insertion is about to put it there.
FamilyInv ==
  \A p \in Path : InTree(p) /\ ParentOf[p] # NoPath =>
    InTree(ParentOf[p]) /\ (Trees!Unlinked(p) \/ p \in PathsIn(children[ParentOf[p]]))
UnlinkedInv ==
  \A t \in Thread : treePc[t] \in Linking =>
    /\ \A p \in Path : path[t] \notin PathsIn(children[p])
    /\ \A u \in Thread : treePc[u] \in Linking /\ path[u] = path[t] => u = t

TreeSearchInv ==
  \A t \in Thread : treePc[t] = "link" =>
    PathSearchKnows(treeBuckets[PathHome(treeBuckets, path[t])], treePrev[t], treeNext[t], path[t])

\* Whatever Apply has still to meet is ahead of it.
PathAhead(bs, i, q, r) ==
  \/ PathHome(bs, r) > i
  \/ PathHome(bs, r) = i /\ q # NoPath /\ (r = q \/ PathFollows(bs[i], q, r))
TreeHas(r) == payload[PathOf[r]] = r
TreeApplyInv ==
  \A t \in Thread :
    /\ IF treePc[t] # "Apply" THEN atBucket[t] = 0
       ELSE /\ atBucket[t] \in DOMAIN treeBuckets
            /\ treeNext[t] \in PathsIn(treeBuckets[atBucket[t]]) \cup {NoPath}
            /\ \A r \in treeToApply[t] : TreeHas(r) /\ PathAhead(treeBuckets, atBucket[t], treeNext[t], PathOf[r])
    /\ treePc[t] = "unlockShared" /\ treeOp[t] = "Apply" => treeToApply[t] = {}

\* An insertion owns its record, which is in the table when its reference is taken.
TreeOwnInv ==
  \A t \in Thread :
    /\ treePc[t] # "idle" /\ treeOp[t] = "Insert" =>
         \A u \in Thread : treePc[u] # "idle" /\ treeOp[u] = "Insert" /\ treeRec[u] = treeRec[t] => u = t
    /\ treePc[t] \in {"reference", "referenceSet"} => TreeHas(treeRec[t])

TreeReferring(r) == \E t \in Thread : treePc[t] \in {"reference", "referenceSet"} /\ treeRec[t] = r
TreeReferenceInv ==
  /\ treeHeld \in [TreeRecord -> Nat] /\ treeReferences \in [TreeRecord -> Int]
  /\ \A r \in TreeRecord :
       treeReferences[r] = treeHeld[r] + (IF TreeHas(r) /\ ~TreeReferring(r) THEN 1 ELSE 0)

TreeCounting == {t \in Thread : treePc[t] \in {"reference", "count"}}
TreeItemsInv == treeItems = Cardinality(NodesIn(treeBuckets)) - Cardinality(TreeCounting)

TreeCallInv == TreeCallTypes /\ TreeCallPlaces
ShapeInv == NodeInv /\ ChildInv /\ FamilyInv /\ UnlinkedInv
TreeInv ==
  /\ TreeGood(treeBuckets) /\ TreeCallInv /\ TreePathInv /\ TreeLockInv /\ ShapeInv
  /\ TreeSearchInv /\ TreeApplyInv /\ TreeOwnInv /\ TreeReferenceInv /\ TreeItemsInv

-----------------------------------------------------------------------------
(* What the searches find                                                  *)

LEMMA TreeChainIs ==
  ASSUME TreeGood(treeBuckets), NEW r \in Path
  PROVE  Trees!Chain(r) = treeBuckets[PathHome(treeBuckets, r)]
BY NodesAre DEF Trees!Chain, PathHome

\* Where a search for an insertion stops.
LEMMA TreeSearchEnds ==
  ASSUME TreeGood(treeBuckets), NEW r \in Path, ~InTree(r),
         NEW k, k = Trees!Passed(Trees!Chain(r), PathHash[r]),
         NEW p, p = IF k = 0 THEN NoPath ELSE Trees!Chain(r)[k]
  PROVE  PathSearchKnows(treeBuckets[PathHome(treeBuckets, r)], p, Trees!Behind(Trees!Chain(r), p), r)
<1> DEFINE c == treeBuckets[PathHome(treeBuckets, r)]  h == PathHash[r]  q == Trees!Behind(c, p)
<1>1. Trees!Chain(r) = c
  BY TreeChainIs
<1>2. /\ c \in Seq(Path) /\ PathsOrdered(c) /\ h \in Nat /\ Len(c) \in Nat /\ DOMAIN c = 1 .. Len(c)
      /\ PathsIn(c) = {c[i] : i \in DOMAIN c} /\ PathsIn(c) \subseteq NodesIn(treeBuckets)
      /\ NoPath \notin PathsIn(c) /\ \A i \in DOMAIN c : c[i] \in Path /\ PathHashAt(c, i) \in Nat
  BY TreeBucketFacts, TreeConstants, PathChainFacts
<1>3. k \in 0 .. Len(c) /\ \A i \in DOMAIN c : i <= k <=> PathHashAt(c, i) <= h
  <2> HIDE DEF c, h
  <2>1. k = Trees!Passed(c, h)
    BY <1>1 DEF h
  <2> QED BY <1>2, <2>1, PathPassedIs
<1> HIDE DEF c
<1>4. p \in PathsIn(c) \cup {NoPath} /\ (p # NoPath => PathHash[p] <= h)
  BY <1>1, <1>2, <1>3 DEF PathHashAt
<1>5. \A j \in DOMAIN c : PathFollows(c, p, c[j]) => PathHashAt(c, j) > h
  <2> TAKE j \in DOMAIN c
  <2> HAVE PathFollows(c, p, c[j])
  <2>1. j >= PathSpot(c, p)
    BY <1>2, <1>4, PathSpotIs
  <2>2. PathSpot(c, p) = k + 1
    <3>1. CASE k = 0
      BY <3>1 DEF PathSpot
    <3>2. CASE k # 0
      <4>1. k \in DOMAIN c /\ c[k] = p /\ p # NoPath
        BY <1>1, <1>2, <1>3, <3>2
      <4>2. \A x \in DOMAIN c : c[x] = p => x = k
        BY <1>2, <4>1, PathOnePlace
      <4>3. k = CHOOSE x \in DOMAIN c : c[x] = p
        BY <4>1, <4>2
      <4>4. PathSpot(c, p) = 1 + k
        BY <4>1, <4>3, Zenon DEF PathSpot
      <4> QED BY <1>3, <4>4
    <3> QED BY <3>1, <3>2
  <2> QED BY <1>2, <1>3, <2>1, <2>2
<1>6. q \in PathsIn(c) \cup {NoPath} /\ (q # NoPath => PathHash[q] > h)
  <2>1. CASE q = NoPath
    BY <2>1
  <2>2. CASE q # NoPath
    <3>1. q \in PathsIn(c) /\ PathFollows(c, p, q)
      BY <1>2, <1>4, <2>2, PathBehindIs
    <3>2. PICK j \in DOMAIN c : c[j] = q
      BY <1>2, <3>1
    <3> HIDE DEF q
    <3> QED BY <1>5, <3>1, <3>2 DEF PathHashAt
  <2> QED BY <2>1, <2>2
<1>7. \A s \in PathsIn(c) : s # r
  BY <1>2 DEF InTree
<1> QED BY <1>1, <1>4, <1>6, <1>7 DEF PathSearchKnows, c

\* Apply enters a bucket, and leaves it or goes on in it.
LEMMA TreeApplyGoesOn ==
  ASSUME TreeGood(treeBuckets), NEW i \in DOMAIN treeBuckets,
         NEW p \in PathsIn(treeBuckets[i]) \cup {NoPath}, NEW q, q = Trees!Behind(treeBuckets[i], p)
  PROVE  /\ q \in PathsIn(treeBuckets[i]) \cup {NoPath} /\ q \in Path \cup {NoPath}
         /\ \A r \in NodesIn(treeBuckets) :
              (IF p = NoPath THEN PathHome(treeBuckets, r) >= i ELSE r # p /\ PathAhead(treeBuckets, i, p, r))
              => PathAhead(treeBuckets, i, q, r)
<1> DEFINE c == treeBuckets[i]
<1>1. /\ c \in Seq(Path) /\ PathsOrdered(c) /\ PathsIn(c) \subseteq Path /\ NoPath \notin Path
      /\ PathsIn(c) = {c[j] : j \in DOMAIN c}
  BY TreeBucketFacts, TreeConstants, PathChainFacts DEF TreeGood
<1>2. \/ q = NoPath /\ \A s \in Path : ~PathFollows(c, p, s)
      \/ /\ q \in PathsIn(c) /\ PathFollows(c, p, q)
         /\ \A s \in Path : PathFollows(c, p, s) => s = q \/ PathFollows(c, q, s)
  <2> HIDE DEF c
  <2>1. q = Trees!Behind(c, p) /\ p \in PathsIn(c) \cup {NoPath}
    BY DEF c
  <2> QED BY <1>1, <2>1, PathBehindIs
<1>3. ASSUME NEW r \in NodesIn(treeBuckets),
             IF p = NoPath THEN PathHome(treeBuckets, r) >= i ELSE r # p /\ PathAhead(treeBuckets, i, p, r)
      PROVE  PathAhead(treeBuckets, i, q, r)
  <2>1. /\ r \in Path /\ r \in PathsIn(treeBuckets[PathHome(treeBuckets, r)])
        /\ PathHome(treeBuckets, r) \in Int /\ i \in Int
    <3>1. /\ NodesIn(treeBuckets) \subseteq Path /\ DOMAIN treeBuckets = 0 .. TreeSize(treeBuckets) - 1
          /\ \A x \in Path : PathHome(treeBuckets, x) \in DOMAIN treeBuckets
          /\ \A x \in NodesIn(treeBuckets) : x \in PathsIn(treeBuckets[PathHome(treeBuckets, x)])
      BY TreeBucketFacts
    <3>2. TreeSize(treeBuckets) \in Nat
      BY DEF TreeGood
    <3> QED BY <3>1, <3>2
  <2>2. CASE PathHome(treeBuckets, r) = i
    <3>1. PathFollows(c, p, r)
      <4>1. CASE p = NoPath
        <5>1. PICK j \in DOMAIN c : c[j] = r
          BY <1>1, <2>1, <2>2
        <5> QED BY <4>1, <5>1 DEF PathFollows
      <4>2. CASE p # NoPath
        BY <1>3, <2>1, <2>2, <4>2 DEF PathAhead
      <4> QED BY <4>1, <4>2
    <3> QED BY <1>1, <1>2, <2>1, <2>2, <3>1 DEF PathAhead
  <2>3. CASE PathHome(treeBuckets, r) # i
    BY <1>3, <2>1, <2>3 DEF PathAhead
  <2> QED BY <2>2, <2>3
<1> QED BY <1>1, <1>2, <1>3

LEMMA TreeLinkGrows ==
  ASSUME TreeInv, NEW t \in Thread, treePc[t] = "link", Trees!LinkNode(t)
  PROVE  TreeGood(treeBuckets') /\ PathGrown(treeBuckets, treeBuckets', path[t])
<1> DEFINE r == path[t]  c == treeBuckets[PathHome(treeBuckets, r)]
<1>1. /\ r \in Path /\ TreeGood(treeBuckets)
      /\ PathSearchKnows(c, treePrev[t], treeNext[t], r)
  BY DEF TreeInv, TreePathInv, Inserting, TreeSearchInv
<1>2. Trees!Chain(r) = c /\ Trees!nBuckets = TreeSize(treeBuckets)
  BY <1>1, TreeChainIs, NodesAre
<1>3. /\ treeBuckets' = [treeBuckets EXCEPT ![PathHome(treeBuckets, r)] = Trees!InsertAt(@, PathSpot(@, treePrev[t]), r)]
      /\ treeNext[t] = Trees!Behind(c, treePrev[t])
  <2>1. PathSpot(c, treePrev[t]) = IF treePrev[t] = NoPath THEN 1 ELSE 1 + CHOOSE i \in DOMAIN c : c[i] = treePrev[t]
    BY DEF PathSpot
  <2>2. PathHome(treeBuckets, r) = PathHash[r] % Trees!nBuckets
    BY <1>2 DEF PathHome
  <2> QED BY <1>2, <2>1, <2>2 DEF Trees!LinkNode
<1> QED BY <1>1, <1>3, PathPlacedIs

LEMMA TreePrimeIs ==
  ASSUME NEW n \in Nat \ {0}
  PROVE  Trees!GetPrime(n) \in Nat \ {0}
<1> DEFINE E == {p \in Primes : p >= n}
<1>1. E = {} => Trees!GetPrime(n) = n
  BY DEF Trees!GetPrime
<1>2. E # {} => Trees!GetPrime(n) = CHOOSE p \in E : \A q \in E : q >= p
  BY DEF Trees!GetPrime
<1>3. E # {} => \E p \in E : \A q \in E : q >= p
  <2> HAVE E # {}
  <2>1. E \in SUBSET Nat
    BY TreeConstants
  <2> HIDE DEF E
  <2>2. PICK p \in E : \A q \in E : p <= q
    BY <2>1, NatMin
  <2> QED BY <2>1, <2>2
<1>4. E \subseteq Nat \ {0}
  BY TreeConstants
<1> HIDE DEF E
<1> QED BY <1>1, <1>2, <1>3, <1>4

LEMMA TreeRehashIs ==
  ASSUME TreeGood(treeBuckets), NEW t \in Thread, Trees!Rehash(t)
  PROVE  TreeGood(treeBuckets') /\ NodesIn(treeBuckets') = NodesIn(treeBuckets)
<1> DEFINE s == Trees!AllNodes  m == Trees!GetPrime(2 * Trees!nBuckets)
<1>1. Trees!nBuckets \in Nat \ {0}
  BY NodesAre DEF TreeGood
<1>2. treeBuckets' = treeBuckets \/ treeBuckets' = Trees!Distribute(s, m)
  BY DEF Trees!Rehash
<1>3. s \in Seq(Path) /\ DistinctPaths(s) /\ PathsIn(s) = NodesIn(treeBuckets)
  BY AllNodesIs
<1>4. m \in Nat \ {0}
  BY <1>1, TreePrimeIs
<1> HIDE DEF s, m
<1>5. TreeGood(Trees!Distribute(s, m)) /\ NodesIn(Trees!Distribute(s, m)) = PathsIn(s)
  BY <1>3, <1>4, TreeDistributeIs
<1> QED BY <1>2, <1>3, <1>5

\* The nodes under a node.
LEMMA SubtreeIs ==
  ASSUME ChildInv, NEW p \in Path, InTree(p)
  PROVE  /\ Trees!Subtree(p) \subseteq NodesIn(treeBuckets) /\ p \in Trees!Subtree(p)
         /\ \A q \in Trees!Subtree(p) : PathsIn(children[q]) \subseteq Trees!Subtree(p)
<1> DEFINE first == {p}  steps == [q \in Path |-> PathsIn(children[q])]
<1>1. Trees!Subtree(p) = Trees!Closure(first, steps)
  BY Zenon DEF Trees!Subtree, PathsIn
<1>2. /\ first \in SUBSET Path /\ steps \in [Path -> SUBSET Path]
      /\ \A q \in Path : steps[q] = PathsIn(children[q])
      /\ \A q \in Path : \A r \in steps[q] : InTree(r)
  BY PathChainFacts DEF ChildInv
<1>3. \A q \in first : q = p /\ InTree(q)
  OBVIOUS
<1>0. p \in first
  OBVIOUS
<1> HIDE DEF first, steps
<1>4. /\ Trees!Subtree(p) \in SUBSET Path /\ first \subseteq Trees!Subtree(p)
      /\ \A q \in Trees!Subtree(p) : steps[q] \subseteq Trees!Subtree(p)
      /\ \A q \in Trees!Subtree(p) \ first : \E r \in Trees!Subtree(p) : q \in steps[r]
  BY <1>1, <1>2, ClosureIs
<1> QED BY <1>0, <1>2, <1>3, <1>4 DEF InTree

-----------------------------------------------------------------------------
(* The steps of TREE_HASH_TABLE                                            *)

TreeAction(t) == (\E o \in TreeOpNames, r \in TreeRecord : Trees!Invoke(t, o, r)) \/ Trees!Step(t)

\* What a thread has does not change when another one acts.
TreeOthers(t) ==
  \A u \in Thread \ {t} :
    /\ treePc'[u] = treePc[u] /\ treeOp'[u] = treeOp[u] /\ treeRec'[u] = treeRec[u]
    /\ treeResult'[u] = treeResult[u] /\ path'[u] = path[u] /\ parent'[u] = parent[u]
    /\ treePrev'[u] = treePrev[u] /\ treeNext'[u] = treeNext[u]
    /\ atBucket'[u] = atBucket[u] /\ treeToApply'[u] = treeToApply[u]

\* An insertion goes down to the next path, or it is over.
LEMMA DescendIs ==
  ASSUME TreeInv, NEW t \in Thread, treePc[t] \in {"count", "linkChild", "setRecord"},
         Trees!Descend(t, treePc[t])
  PROVE  \/ /\ treePc' = [treePc EXCEPT ![t] = "unlockShared"] /\ path[t] = KeyNode(t)
            /\ path' = path /\ parent' = parent
         \/ /\ treePc' = [treePc EXCEPT ![t] = "add"] /\ path[t] # KeyNode(t)
            /\ parent' = [parent EXCEPT ![t] = path[t]]
            /\ \E q \in Path : /\ path' = [path EXCEPT ![t] = q]
                               /\ q \in Line(KeyNode(t)) /\ ParentOf[q] = path[t]
<1>1. path[t] \in Line(KeyNode(t)) /\ KeyNode(t) \in Path
  <2>1. treeRec[t] \in TreeRecord
    BY DEF TreeInv, TreeCallInv, TreeCallPlaces
  <2> QED BY <2>1, TreeConstants DEF TreeInv, TreePathInv, Inserting, KeyNode
<1>2. Trees!KeyPath(t) = KeyNode(t)
  BY DEF Trees!KeyPath, KeyNode
<1>3. CASE path[t] = KeyNode(t)
  BY <1>2, <1>3 DEF Trees!Descend, Trees!Goto
<1>4. CASE path[t] # KeyNode(t)
  <2> DEFINE q == Trees!TowardsKey(path[t], KeyNode(t))
  <2>1. q \in Line(KeyNode(t)) /\ ParentOf[q] = path[t] /\ q \in Path
    <3> DEFINE key == KeyNode(t)
    <3>1. key \in Path /\ path[t] \in Line(key) /\ path[t] # key
      BY <1>1, <1>4
    <3> HIDE DEF key
    <3>2. Trees!TowardsKey(path[t], key) \in Line(key) /\ ParentOf[Trees!TowardsKey(path[t], key)] = path[t]
          /\ Line(key) \subseteq Path
      BY <3>1, LineIs
    <3> QED BY <3>2 DEF key
  <2>2. /\ treePc' = [treePc EXCEPT ![t] = "add"] /\ parent' = [parent EXCEPT ![t] = path[t]]
        /\ path' = [path EXCEPT ![t] = q]
    BY <1>2, <1>4 DEF Trees!Descend, Trees!Goto
  <2> HIDE DEF q
  <2> QED BY <1>4, <2>1, <2>2
<1> QED BY <1>3, <1>4

LEMMA TreeCallStep ==
  ASSUME TreeInv, NEW t \in Thread, TreeAction(t)
  PROVE  TreeCallInv' /\ TreeOthers(t)
<1>1. /\ TreeCallTypes /\ TreeCallPlaces /\ TreeGood(treeBuckets) /\ TreePathInv /\ NodeInv /\ ChildInv
      /\ Trees!Nodes = NodesIn(treeBuckets) /\ Trees!nBuckets = TreeSize(treeBuckets)
  BY NodesAre DEF TreeInv, TreeCallInv, ShapeInv
<1>2. /\ NodesIn(treeBuckets) \subseteq Path /\ 0 \in DOMAIN treeBuckets /\ NoPath \notin Path
      /\ treePc[t] # "idle" => KeyNode(t) \in Path
  <2>1. NodesIn(treeBuckets) \subseteq Path /\ 0 \in DOMAIN treeBuckets
    BY <1>1, TreeBucketFacts, SMTT(40) DEF TreeGood
  <2> QED BY <1>1, <2>1, TreeConstants DEF TreeCallPlaces, KeyNode
<1>3. CASE \E o \in TreeOpNames, r \in TreeRecord : Trees!Invoke(t, o, r)
  <2>1. PICK o \in TreeOpNames, r \in TreeRecord : Trees!Invoke(t, o, r)
    BY <1>3
  <2>2. o \in {"Insert", "FindKey", "Apply", "DeleteKey", "DeleteIf", "Clear"}
    BY TreeConstants
  <2> QED BY <1>1, <2>1, <2>2 DEF TreeCallInv, TreeCallTypes, TreeCallPlaces, TreeOthers, TreePcs, TreeSharedPcs,
     Inserting, ExclusivePcs, ExclusiveOps, SharedOps, Trees!Invoke, Trees!Goto, Trees!Return, Trees!tree, Trees!lock,
     Trees!counts, Trees!call, Trees!walk, Trees!locals
<1>4. CASE Trees!LockShared(t)
  <2>1. Trees!KeyPath(t) \in Path
    BY <1>1, <1>2, <1>4 DEF Trees!LockShared, Trees!Goto, Trees!KeyPath, KeyNode
  <2> QED BY <1>1, <1>2, <1>4, <2>1 DEF TreeCallInv, TreeCallTypes, TreeCallPlaces, TreeOthers, TreePcs,
     TreeSharedPcs, Inserting, ExclusivePcs, ExclusiveOps, SharedOps, Trees!LockShared, Trees!Goto, Trees!Return,
     Trees!tree, Trees!lock, Trees!counts, Trees!call, Trees!walk, Trees!locals
<1>5. CASE Trees!UnlockShared(t)
  BY <1>1, <1>2, <1>5 DEF TreeCallInv, TreeCallTypes, TreeCallPlaces, TreeOthers, TreePcs, TreeSharedPcs, Inserting,
     ExclusivePcs, ExclusiveOps, SharedOps, Trees!UnlockShared, Trees!Goto, Trees!Return, Trees!tree, Trees!lock,
     Trees!counts, Trees!call, Trees!walk, Trees!locals
<1>6. CASE Trees!LockExclusive(t)
  BY <1>1, <1>2, <1>6 DEF TreeCallInv, TreeCallTypes, TreeCallPlaces, TreeOthers, TreePcs, TreeSharedPcs, Inserting,
     ExclusivePcs, ExclusiveOps, SharedOps, Trees!LockExclusive, Trees!Goto, Trees!Return, Trees!tree, Trees!lock,
     Trees!counts, Trees!call, Trees!walk, Trees!locals
<1>7. CASE Trees!UnlockExclusive(t)
  BY <1>1, <1>2, <1>7 DEF TreeCallInv, TreeCallTypes, TreeCallPlaces, TreeOthers, TreePcs, TreeSharedPcs, Inserting,
     ExclusivePcs, ExclusiveOps, SharedOps, Trees!UnlockExclusive, Trees!Goto, Trees!Return, Trees!tree, Trees!lock,
     Trees!counts, Trees!call, Trees!walk, Trees!locals
<1>8. CASE Trees!FindNode(t)
  <2>1. Trees!KeyPath(t) \in Trees!Nodes /\ payload[Trees!KeyPath(t)] # NoRecord => payload[Trees!KeyPath(t)] \in
     TreeRecord
    BY <1>1, <1>2 DEF NodeInv
  <2> QED BY <1>1, <1>2, <1>8, <2>1 DEF TreeCallInv, TreeCallTypes, TreeCallPlaces, TreeOthers, TreePcs,
     TreeSharedPcs, Inserting, ExclusivePcs, ExclusiveOps, SharedOps, Trees!FindNode, Trees!Goto, Trees!Return,
     Trees!tree, Trees!lock, Trees!counts, Trees!call, Trees!walk, Trees!locals
<1>9. CASE Trees!Take(t)
  BY <1>1, <1>2, <1>9 DEF TreeCallInv, TreeCallTypes, TreeCallPlaces, TreeOthers, TreePcs, TreeSharedPcs, Inserting,
     ExclusivePcs, ExclusiveOps, SharedOps, Trees!Take, Trees!Goto, Trees!Return, Trees!tree, Trees!lock,
     Trees!counts, Trees!call, Trees!walk, Trees!locals
<1>10. CASE Trees!StartApply(t)
  <2>1. Trees!Behind(treeBuckets[0], NoPath) \in Path \cup {NoPath}
    BY <1>1, <1>2, TreeApplyGoesOn
  <2>2. Trees!RecordsInTable \in SUBSET TreeRecord
    BY <1>1, <1>2 DEF NodeInv, Trees!RecordsInTable
  <2> QED BY <1>1, <1>2, <1>10, <2>1, <2>2 DEF TreeCallInv, TreeCallTypes, TreeCallPlaces, TreeOthers, TreePcs,
     TreeSharedPcs, Inserting, ExclusivePcs, ExclusiveOps, SharedOps, Trees!StartApply, Trees!Goto, Trees!Return,
     Trees!tree, Trees!lock, Trees!counts, Trees!call, Trees!walk, Trees!locals
<1>11. CASE Trees!ApplyNode(t)
  <2>1. Trees!Behind(treeBuckets[atBucket[t]], treeNext[t]) \in Path \cup {NoPath}
    <3>1. atBucket[t] \in DOMAIN treeBuckets /\ treeNext[t] \in PathsIn(treeBuckets[atBucket[t]]) \cup {NoPath}
      BY <1>11 DEF TreeInv, TreeApplyInv, Trees!ApplyNode
    <3> QED BY <1>1, <3>1, TreeApplyGoesOn
  <2> QED BY <1>1, <1>2, <1>11, <2>1 DEF TreeCallInv, TreeCallTypes, TreeCallPlaces, TreeOthers, TreePcs,
     TreeSharedPcs, Inserting, ExclusivePcs, ExclusiveOps, SharedOps, Trees!ApplyNode, Trees!Goto, Trees!Return,
     Trees!tree, Trees!lock, Trees!counts, Trees!call, Trees!walk, Trees!locals
<1>12. CASE Trees!ApplyBucket(t)
  <2>1. /\ atBucket[t] \in DOMAIN treeBuckets /\ DOMAIN treeBuckets = 0 .. TreeSize(treeBuckets) - 1
        /\ TreeSize(treeBuckets) \in Nat
    BY <1>1, <1>12, TreeBucketFacts DEF TreeInv, TreeApplyInv, Trees!ApplyBucket, TreeGood
  <2>2. atBucket[t] + 1 < Trees!nBuckets =>
          Trees!Behind(treeBuckets[atBucket[t] + 1], NoPath) \in Path \cup {NoPath}
    <3>1. atBucket[t] + 1 < Trees!nBuckets => atBucket[t] + 1 \in DOMAIN treeBuckets
      BY <1>1, <2>1
    <3> QED BY <1>1, <3>1, TreeApplyGoesOn
  <2>3. /\ treePc[t] = "Apply" /\ UNCHANGED <<treeOp, treeRec, path, parent, treePrev, treeToApply>>
        /\ \/ /\ atBucket[t] + 1 < Trees!nBuckets /\ treePc' = treePc /\ treeResult' = treeResult
              /\ atBucket' = [atBucket EXCEPT ![t] = atBucket[t] + 1]
              /\ treeNext' = [treeNext EXCEPT ![t] = Trees!Behind(treeBuckets[atBucket'[t]], NoPath)]
           \/ /\ treePc' = [treePc EXCEPT ![t] = "unlockShared"]
              /\ treeResult' = [treeResult EXCEPT ![t] = "SUCCESS"]
              /\ atBucket' = [atBucket EXCEPT ![t] = 0] /\ treeNext' = treeNext
    BY <1>12 DEF Trees!ApplyBucket, Trees!Goto, Trees!Return
  <2>4. CASE atBucket[t] + 1 < Trees!nBuckets /\ treePc' = treePc
    <3>1. /\ atBucket' = [atBucket EXCEPT ![t] = atBucket[t] + 1] /\ treeResult' = treeResult
          /\ treeNext' = [treeNext EXCEPT ![t] = Trees!Behind(treeBuckets[atBucket'[t]], NoPath)]
      BY <1>1, <2>3, <2>4 DEF TreeCallTypes
    <3>2. atBucket'[t] = atBucket[t] + 1 /\ atBucket'[t] \in Nat
      BY <1>1, <2>1, <3>1 DEF TreeCallTypes
    <3>3. treeNext'[t] \in Path \cup {NoPath} /\ treeNext' \in [Thread -> Path \cup {NoPath}]
          /\ \A u \in Thread \ {t} : treeNext'[u] = treeNext[u]
      BY <1>1, <2>2, <2>4, <3>1, <3>2 DEF TreeCallTypes
    <3> QED BY <1>1, <2>3, <2>4, <3>1, <3>2, <3>3 DEF TreeCallInv, TreeCallTypes, TreeCallPlaces, TreeOthers
  <2>5. CASE /\ treePc' = [treePc EXCEPT ![t] = "unlockShared"]
             /\ treeResult' = [treeResult EXCEPT ![t] = "SUCCESS"]
             /\ atBucket' = [atBucket EXCEPT ![t] = 0] /\ treeNext' = treeNext
    BY <1>1, <2>3, <2>5 DEF TreeCallInv, TreeCallTypes, TreeCallPlaces, TreeOthers, TreePcs, TreeSharedPcs,
       Inserting, ExclusivePcs, ExclusiveOps, SharedOps
  <2> QED BY <2>3, <2>4, <2>5
<1>13. CASE Trees!Ascend(t)
  <2>1. ParentOf[path[t]] \in Path \cup {NoPath}
    BY <1>1, <1>13, TreeConstants DEF Trees!Ascend, Trees!Goto, TreePathInv, Inserting
  <2> QED BY <1>1, <1>2, <1>13, <2>1 DEF TreeCallInv, TreeCallTypes, TreeCallPlaces, TreeOthers, TreePcs,
     TreeSharedPcs, Inserting, ExclusivePcs, ExclusiveOps, SharedOps, Trees!Ascend, Trees!Goto, Trees!Return,
     Trees!tree, Trees!lock, Trees!counts, Trees!call, Trees!walk, Trees!locals
<1>14. CASE Trees!Allocate(t)
  BY <1>1, <1>2, <1>14 DEF TreeCallInv, TreeCallTypes, TreeCallPlaces, TreeOthers, TreePcs, TreeSharedPcs, Inserting,
     ExclusivePcs, ExclusiveOps, SharedOps, Trees!Allocate, Trees!Goto, Trees!Return, Trees!tree, Trees!lock,
     Trees!counts, Trees!call, Trees!walk, Trees!locals
<1>15. CASE Trees!Search(t)
  <2> DEFINE c == Trees!Chain(path[t])  k == Trees!Passed(c, PathHash[path[t]])
             p == IF k = 0 THEN NoPath ELSE c[k]  q == Trees!Behind(c, p)
  <2>1. path[t] \notin Trees!Nodes => p \in Path \cup {NoPath} /\ q \in Path \cup {NoPath}
    <3> SUFFICES ASSUME ~InTree(path[t]) PROVE p \in Path \cup {NoPath} /\ q \in Path \cup {NoPath}
      BY <1>1 DEF InTree
    <3>1. path[t] \in Path
      BY <1>1, <1>15 DEF Trees!Search, Trees!Goto, TreePathInv, Inserting
    <3>2. PathSearchKnows(treeBuckets[PathHome(treeBuckets, path[t])], p, q, path[t])
      BY <1>1, <3>1, TreeSearchEnds
    <3> QED BY <1>1, <3>1, <3>2, TreeBucketFacts DEF PathSearchKnows
  <2>2. /\ \/ Trees!Goto(t, "search", "setRecord") /\ UNCHANGED <<treePrev, treeNext>>
           \/ /\ Trees!Goto(t, "search", "link") /\ path[t] \notin Trees!Nodes
              /\ treePrev' = [treePrev EXCEPT ![t] = p] /\ treeNext' = [treeNext EXCEPT ![t] = q]
        /\ UNCHANGED <<treeOp, treeRec, treeResult, path, parent, atBucket, treeToApply>>
    BY <1>15 DEF Trees!Search, Trees!call, Trees!walk
  <2> HIDE DEF p, q
  <2> QED BY <1>1, <1>2, <2>1, <2>2 DEF TreeCallInv, TreeCallTypes, TreeCallPlaces, TreeOthers, TreePcs,
     TreeSharedPcs, Inserting, ExclusivePcs, ExclusiveOps, SharedOps, Trees!Goto
<1>16. CASE Trees!PassNode(t)
  <2>1. Trees!Descend(t, "setRecord")
    BY <1>16 DEF Trees!PassNode
  <2>2. /\ UNCHANGED <<treeOp, treeRec, treePrev, treeNext, atBucket, treeToApply>>
        /\ treeResult' \in [Thread -> {"NONE", "ALLOC_FAIL", "KEY_EXISTS", "NO_SUCH_KEY", "SUCCESS"}]
        /\ \A u \in Thread \ {t} : treeResult'[u] = treeResult[u]
    BY <1>1, <1>16 DEF Trees!PassNode, Trees!call, Trees!walk, TreeCallTypes
  <2>4. CASE Trees!Descend(t, "setRecord")
    <3>1. treePc[t] = "setRecord" /\ path[t] \in Path
      BY <1>1, <2>4 DEF Trees!Descend, Trees!Goto, TreePathInv, Inserting
    <3>2. \/ treePc' = [treePc EXCEPT ![t] = "unlockShared"] /\ path' = path /\ parent' = parent
          \/ /\ treePc' = [treePc EXCEPT ![t] = "add"] /\ parent' = [parent EXCEPT ![t] = path[t]]
             /\ \E q \in Path : path' = [path EXCEPT ![t] = q]
      BY <2>4, <3>1, DescendIs
    <3> QED BY <1>1, <2>2, <3>1, <3>2 DEF TreeCallInv, TreeCallTypes, TreeCallPlaces, TreeOthers, TreePcs,
       TreeSharedPcs, Inserting, ExclusivePcs, ExclusiveOps, SharedOps
  <2> QED BY <2>1, <2>4
<1>17. CASE Trees!SetRecord(t)
  BY <1>1, <1>2, <1>17 DEF TreeCallInv, TreeCallTypes, TreeCallPlaces, TreeOthers, TreePcs, TreeSharedPcs, Inserting,
     ExclusivePcs, ExclusiveOps, SharedOps, Trees!SetRecord, Trees!Goto, Trees!Return, Trees!tree, Trees!lock,
     Trees!counts, Trees!call, Trees!walk, Trees!locals
<1>18. CASE Trees!ReferenceSet(t)
  BY <1>1, <1>2, <1>18 DEF TreeCallInv, TreeCallTypes, TreeCallPlaces, TreeOthers, TreePcs, TreeSharedPcs, Inserting,
     ExclusivePcs, ExclusiveOps, SharedOps, Trees!ReferenceSet, Trees!Goto, Trees!Return, Trees!tree, Trees!lock,
     Trees!counts, Trees!call, Trees!walk, Trees!locals
<1>19. CASE Trees!LinkNode(t)
  BY <1>1, <1>2, <1>19 DEF TreeCallInv, TreeCallTypes, TreeCallPlaces, TreeOthers, TreePcs, TreeSharedPcs, Inserting,
     ExclusivePcs, ExclusiveOps, SharedOps, Trees!LinkNode, Trees!Goto, Trees!Return, Trees!tree, Trees!lock,
     Trees!counts, Trees!call, Trees!walk, Trees!locals
<1>20. CASE Trees!Relink(t)
  BY <1>1, <1>2, <1>20 DEF TreeCallInv, TreeCallTypes, TreeCallPlaces, TreeOthers, TreePcs, TreeSharedPcs, Inserting,
     ExclusivePcs, ExclusiveOps, SharedOps, Trees!Relink, Trees!Goto, Trees!Return, Trees!tree, Trees!lock,
     Trees!counts, Trees!call, Trees!walk, Trees!locals
<1>21. CASE Trees!Reference(t)
  BY <1>1, <1>2, <1>21 DEF TreeCallInv, TreeCallTypes, TreeCallPlaces, TreeOthers, TreePcs, TreeSharedPcs, Inserting,
     ExclusivePcs, ExclusiveOps, SharedOps, Trees!Reference, Trees!Goto, Trees!Return, Trees!tree, Trees!lock,
     Trees!counts, Trees!call, Trees!walk, Trees!locals
<1>22. CASE Trees!IncrementItems(t)
  <2>1. Trees!Descend(t, "count") \/ (treePc[t] = "count" /\ treePc' = [treePc EXCEPT ![t] = "readChild"] /\ path' =
     path /\ parent' = parent)
    BY <1>22 DEF Trees!IncrementItems, Trees!Goto
  <2>2. /\ UNCHANGED <<treeOp, treeRec, treePrev, treeNext, atBucket, treeToApply>>
        /\ treeResult' \in [Thread -> {"NONE", "ALLOC_FAIL", "KEY_EXISTS", "NO_SUCH_KEY", "SUCCESS"}]
        /\ \A u \in Thread \ {t} : treeResult'[u] = treeResult[u]
    BY <1>1, <1>22 DEF Trees!IncrementItems, Trees!call, Trees!walk, TreeCallTypes
  <2>3. CASE treePc[t] = "count" /\ treePc' = [treePc EXCEPT ![t] = "readChild"] /\ path' = path /\ parent' = parent
    BY <1>1, <2>2, <2>3 DEF TreeCallInv, TreeCallTypes, TreeCallPlaces, TreeOthers, TreePcs, TreeSharedPcs, Inserting,
       ExclusivePcs, ExclusiveOps, SharedOps
  <2>4. CASE Trees!Descend(t, "count")
    <3>1. treePc[t] = "count" /\ path[t] \in Path
      BY <1>1, <2>4 DEF Trees!Descend, Trees!Goto, TreePathInv, Inserting
    <3>2. \/ treePc' = [treePc EXCEPT ![t] = "unlockShared"] /\ path' = path /\ parent' = parent
          \/ /\ treePc' = [treePc EXCEPT ![t] = "add"] /\ parent' = [parent EXCEPT ![t] = path[t]]
             /\ \E q \in Path : path' = [path EXCEPT ![t] = q]
      BY <2>4, <3>1, DescendIs
    <3> QED BY <1>1, <2>2, <3>1, <3>2 DEF TreeCallInv, TreeCallTypes, TreeCallPlaces, TreeOthers, TreePcs,
       TreeSharedPcs, Inserting, ExclusivePcs, ExclusiveOps, SharedOps
  <2> QED BY <2>1, <2>3, <2>4
<1>23. CASE Trees!ReadFirstChild(t)
  <2>1. Trees!Behind(children[parent[t]], NoPath) \in Path \cup {NoPath}
    <3>1. parent[t] \in Path
      BY <1>1, <1>23 DEF Trees!ReadFirstChild, Trees!Goto, TreePathInv, TreeCallTypes
    <3>2. children[parent[t]] \in Seq(Path)
      BY <1>1, <3>1 DEF ChildInv
    <3> QED BY <3>2 DEF Trees!Behind
  <2> QED BY <1>1, <1>2, <1>23, <2>1 DEF TreeCallInv, TreeCallTypes, TreeCallPlaces, TreeOthers, TreePcs,
     TreeSharedPcs, Inserting, ExclusivePcs, ExclusiveOps, SharedOps, Trees!ReadFirstChild, Trees!Goto, Trees!Return,
     Trees!tree, Trees!lock, Trees!counts, Trees!call, Trees!walk, Trees!locals
<1>24. CASE Trees!LinkChild(t)
  <2>1. Trees!Descend(t, "linkChild") \/ (treePc[t] = "linkChild" /\ treePc' = [treePc EXCEPT ![t] = "readChild"] /\
     path' = path /\ parent' = parent)
    BY <1>24 DEF Trees!LinkChild, Trees!Goto
  <2>2. /\ UNCHANGED <<treeOp, treeRec, treePrev, treeNext, atBucket, treeToApply>>
        /\ treeResult' \in [Thread -> {"NONE", "ALLOC_FAIL", "KEY_EXISTS", "NO_SUCH_KEY", "SUCCESS"}]
        /\ \A u \in Thread \ {t} : treeResult'[u] = treeResult[u]
    BY <1>1, <1>24 DEF Trees!LinkChild, Trees!call, Trees!walk, TreeCallTypes
  <2>3. CASE treePc[t] = "linkChild" /\ treePc' = [treePc EXCEPT ![t] = "readChild"] /\ path' = path /\ parent' =
     parent
    BY <1>1, <2>2, <2>3 DEF TreeCallInv, TreeCallTypes, TreeCallPlaces, TreeOthers, TreePcs, TreeSharedPcs, Inserting,
       ExclusivePcs, ExclusiveOps, SharedOps
  <2>4. CASE Trees!Descend(t, "linkChild")
    <3>1. treePc[t] = "linkChild" /\ path[t] \in Path
      BY <1>1, <2>4 DEF Trees!Descend, Trees!Goto, TreePathInv, Inserting
    <3>2. \/ treePc' = [treePc EXCEPT ![t] = "unlockShared"] /\ path' = path /\ parent' = parent
          \/ /\ treePc' = [treePc EXCEPT ![t] = "add"] /\ parent' = [parent EXCEPT ![t] = path[t]]
             /\ \E q \in Path : path' = [path EXCEPT ![t] = q]
      BY <2>4, <3>1, DescendIs
    <3> QED BY <1>1, <2>2, <3>1, <3>2 DEF TreeCallInv, TreeCallTypes, TreeCallPlaces, TreeOthers, TreePcs,
       TreeSharedPcs, Inserting, ExclusivePcs, ExclusiveOps, SharedOps
  <2> QED BY <2>1, <2>3, <2>4
<1>25. CASE Trees!DeleteKey(t)
  BY <1>1, <1>2, <1>25 DEF TreeCallInv, TreeCallTypes, TreeCallPlaces, TreeOthers, TreePcs, TreeSharedPcs, Inserting,
     ExclusivePcs, ExclusiveOps, SharedOps, Trees!DeleteKey, Trees!Goto, Trees!Return, Trees!tree, Trees!lock,
     Trees!counts, Trees!call, Trees!walk, Trees!locals
<1>26. CASE Trees!DeleteIf(t)
  BY <1>1, <1>2, <1>26 DEF TreeCallInv, TreeCallTypes, TreeCallPlaces, TreeOthers, TreePcs, TreeSharedPcs, Inserting,
     ExclusivePcs, ExclusiveOps, SharedOps, Trees!DeleteIf, Trees!Goto, Trees!Return, Trees!tree, Trees!lock,
     Trees!counts, Trees!call, Trees!walk, Trees!locals
<1>27. CASE Trees!Clear(t)
  BY <1>1, <1>2, <1>27 DEF TreeCallInv, TreeCallTypes, TreeCallPlaces, TreeOthers, TreePcs, TreeSharedPcs, Inserting,
     ExclusivePcs, ExclusiveOps, SharedOps, Trees!Clear, Trees!Goto, Trees!Return, Trees!tree, Trees!lock,
     Trees!counts, Trees!call, Trees!walk, Trees!locals
<1>28. CASE Trees!CheckSize(t)
  BY <1>1, <1>2, <1>28 DEF TreeCallInv, TreeCallTypes, TreeCallPlaces, TreeOthers, TreePcs, TreeSharedPcs, Inserting,
     ExclusivePcs, ExclusiveOps, SharedOps, Trees!CheckSize, Trees!Goto, Trees!Return, Trees!tree, Trees!lock,
     Trees!counts, Trees!call, Trees!walk, Trees!locals
<1>29. CASE Trees!Rehash(t)
  BY <1>1, <1>2, <1>29 DEF TreeCallInv, TreeCallTypes, TreeCallPlaces, TreeOthers, TreePcs, TreeSharedPcs, Inserting,
     ExclusivePcs, ExclusiveOps, SharedOps, Trees!Rehash, Trees!Goto, Trees!Return, Trees!tree, Trees!lock,
     Trees!counts, Trees!call, Trees!walk, Trees!locals
<1> QED BY <1>3, <1>4, <1>5, <1>6, <1>7, <1>8, <1>9, <1>10, <1>11, <1>12, <1>13, <1>14, <1>15, <1>16, <1>17, <1>18,
   <1>19, <1>20, <1>21, <1>22, <1>23, <1>24, <1>25, <1>26, <1>27, <1>28, <1>29 DEF TreeAction, Trees!Step

-----------------------------------------------------------------------------
(* What a step of a thread does to the tree and the counts                 *)

Standing ==
  treeBuckets' = treeBuckets /\ payload' = payload /\ parentLink' = parentLink /\ children' = children
Uncounted == treeItems' = treeItems /\ treeReferences' = treeReferences /\ treeHeld' = treeHeld

TreeQuiet(t) ==
  /\ Standing /\ Uncounted
  /\ treePc[t] \notin Linking \cup {"referenceSet"} /\ treePc'[t] \notin Linking \cup {"referenceSet"}
RecordFound(t) ==
  /\ Standing /\ treeItems' = treeItems /\ treePc[t] = "take" /\ treePc'[t] = "unlockShared"
  /\ treeReferences' = [treeReferences EXCEPT ![treeRec[t]] = @ + 1]
  /\ treeHeld' = [treeHeld EXCEPT ![treeRec[t]] = @ + 1]
ChainsRebuilt(t) ==
  /\ TreeGood(treeBuckets') /\ NodesIn(treeBuckets') = NodesIn(treeBuckets)
  /\ payload' = payload /\ parentLink' = parentLink /\ children' = children /\ Uncounted
  /\ treePc[t] = "Rehash" /\ treePc'[t] = "unlockExclusive"
RecordGiven(t) ==
  /\ treeBuckets' = treeBuckets /\ parentLink' = parentLink /\ children' = children /\ Uncounted
  /\ path[t] = KeyNode(t) /\ payload[path[t]] = NoRecord
  /\ payload' = [payload EXCEPT ![path[t]] = treeRec[t]]
  /\ treePc[t] = "setRecord" /\ treePc'[t] = "referenceSet" /\ treeRec'[t] = treeRec[t]
RecordReferenced(t) ==
  /\ Standing /\ treeItems' = treeItems /\ treeHeld' = treeHeld
  /\ treeReferences' = [treeReferences EXCEPT ![treeRec[t]] = @ + 1]
  /\ treeRec'[t] = treeRec[t] /\ path'[t] = path[t]
  /\ \/ treePc[t] = "reference" /\ treePc'[t] = "count"
     \/ treePc[t] = "referenceSet" /\ treePc'[t] = "unlockShared"
NodeLinked(t) ==
  /\ TreeGood(treeBuckets') /\ PathGrown(treeBuckets, treeBuckets', path[t]) /\ Uncounted
  /\ payload' = [payload EXCEPT ![path[t]] = IF path[t] = KeyNode(t) THEN treeRec[t] ELSE NoRecord]
  /\ parentLink' = [parentLink EXCEPT ![path[t]] = parent[t]]
  /\ children' = [children EXCEPT ![path[t]] = <<>>]
  /\ treePc[t] = "link" /\ treePc'[t] = IF path[t] = KeyNode(t) THEN "reference" ELSE "count"
  /\ treeRec'[t] = treeRec[t] /\ path'[t] = path[t]
NodeCounted(t) ==
  /\ Standing /\ treeReferences' = treeReferences /\ treeHeld' = treeHeld /\ treeItems' = treeItems + 1
  /\ treePc[t] = "count"
  /\ \/ treePc'[t] = "readChild" /\ path'[t] = path[t]
     \/ treePc'[t] \in {"unlockShared", "add"} /\ parent[t] = NoPath
ChildRead(t) ==
  /\ Standing /\ Uncounted /\ path'[t] = path[t]
  /\ treePc[t] \in {"readChild", "linkChild"} /\ treePc'[t] \in {"readChild", "linkChild"}
ChildLinked(t) ==
  /\ treeBuckets' = treeBuckets /\ payload' = payload /\ parentLink' = parentLink /\ Uncounted
  /\ children' = [children EXCEPT ![parent[t]] = <<path[t]>> \o @]
  /\ treePc[t] = "linkChild" /\ treePc'[t] \in {"unlockShared", "add"}

\* These nodes went, with the nodes under them, and others lost their records.
Uproots(gone, emptied) ==
  /\ TreeGood(treeBuckets') /\ NodesIn(treeBuckets') = NodesIn(treeBuckets) \ gone
  /\ payload' = [p \in Path |-> IF p \in gone \cup emptied THEN NoRecord ELSE payload[p]]
  /\ parentLink' = [p \in Path |-> IF p \in gone THEN NoPath ELSE parentLink[p]]
  /\ children' = [p \in Path |-> IF p \in gone THEN <<>> ELSE Trees!Without(children[p], gone)]
  /\ treeHeld' = treeHeld
  /\ treeReferences' = [r \in TreeRecord |->
                          treeReferences[r] - Cardinality({p \in gone \cup emptied : payload[p] = r})]
  /\ treeItems' = treeItems - Cardinality(gone) \/ (treeItems' = 0 /\ gone = NodesIn(treeBuckets))
  /\ \A p \in gone : PathsIn(children[p]) \subseteq gone
Uprooted(t) ==
  /\ treePc[t] \in ExclusiveOps /\ treePc'[t] = "unlockExclusive"
  /\ \E gone, emptied \in SUBSET NodesIn(treeBuckets) : Uproots(gone, emptied)

LEMMA UprootsIs ==
  ASSUME TreeGood(treeBuckets), NEW gone, NEW emptied,
         gone \subseteq NodesIn(treeBuckets), emptied \subseteq NodesIn(treeBuckets),
         Trees!TakeOut(gone, emptied), Trees!Release(gone, emptied), treeHeld' = treeHeld,
         treeItems' = treeItems - Cardinality(gone) \/ (treeItems' = 0 /\ gone = NodesIn(treeBuckets)),
         \A p \in gone : PathsIn(children[p]) \subseteq gone
  PROVE  Uproots(gone, emptied)
<1> DEFINE ts == [i \in DOMAIN treeBuckets |-> Trees!Without(treeBuckets[i], gone)]
<1>1. /\ treeBuckets' = ts
      /\ payload' = [p \in Path |-> IF p \in gone \cup emptied THEN NoRecord ELSE payload[p]]
      /\ parentLink' = [p \in Path |-> IF p \in gone THEN NoPath ELSE parentLink[p]]
      /\ children' = [p \in Path |-> IF p \in gone THEN <<>> ELSE Trees!Without(children[p], gone)]
  BY DEF Trees!TakeOut
<1>2. TreeGood(ts) /\ NodesIn(ts) = NodesIn(treeBuckets) \ gone
  BY TreeThinnedIs
<1>3. treeReferences' = [r \in TreeRecord |->
                           treeReferences[r] - Cardinality({p \in gone \cup emptied : payload[p] = r})]
  BY TreeSizes, Zenon DEF Trees!Release
<1> HIDE DEF ts
<1> QED BY <1>1, <1>2, <1>3 DEF Uproots

LEMMA TreeMoves ==
  ASSUME TreeInv, NEW t \in Thread, TreeAction(t)
  PROVE  \/ TreeQuiet(t) \/ RecordFound(t) \/ ChainsRebuilt(t) \/ RecordGiven(t) \/ RecordReferenced(t)
         \/ NodeLinked(t) \/ NodeCounted(t) \/ ChildRead(t) \/ ChildLinked(t) \/ Uprooted(t)
<1>1. /\ TreeCallTypes /\ TreeCallPlaces /\ TreeGood(treeBuckets) /\ TreePathInv /\ ChildInv
      /\ TreeCallTypes' /\ TreeCallPlaces' /\ Trees!Nodes = NodesIn(treeBuckets)
      /\ Trees!KeyPath(t) = KeyNode(t)
  BY TreeCallStep, NodesAre DEF TreeInv, TreeCallInv, ShapeInv, Trees!KeyPath, KeyNode
<1>2. CASE \E o \in TreeOpNames, r \in TreeRecord : Trees!Invoke(t, o, r)
  BY <1>1, <1>2 DEF Trees!Invoke, TreeQuiet, Standing, Uncounted, Linking, TreeCallTypes, Trees!Goto, Trees!Return,
     Trees!tree, Trees!lock, Trees!counts, Trees!call, Trees!walk, Trees!locals
<1>3. CASE Trees!LockShared(t)
  BY <1>1, <1>3 DEF Trees!LockShared, TreeQuiet, Standing, Uncounted, Linking, TreeCallTypes, TreeCallPlaces,
     SharedOps, ExclusiveOps, Trees!Goto, Trees!Return, Trees!tree, Trees!lock, Trees!counts, Trees!call, Trees!walk,
     Trees!locals
<1>4. CASE Trees!UnlockShared(t)
  BY <1>1, <1>4 DEF Trees!UnlockShared, TreeQuiet, Standing, Uncounted, Linking, TreeCallTypes, TreeCallPlaces,
     SharedOps, ExclusiveOps, Trees!Goto, Trees!Return, Trees!tree, Trees!lock, Trees!counts, Trees!call, Trees!walk,
     Trees!locals
<1>5. CASE Trees!LockExclusive(t)
  BY <1>1, <1>5 DEF Trees!LockExclusive, TreeQuiet, Standing, Uncounted, Linking, TreeCallTypes, TreeCallPlaces,
     SharedOps, ExclusiveOps, Trees!Goto, Trees!Return, Trees!tree, Trees!lock, Trees!counts, Trees!call, Trees!walk,
     Trees!locals
<1>6. CASE Trees!UnlockExclusive(t)
  BY <1>1, <1>6 DEF Trees!UnlockExclusive, TreeQuiet, Standing, Uncounted, Linking, TreeCallTypes, TreeCallPlaces,
     SharedOps, ExclusiveOps, Trees!Goto, Trees!Return, Trees!tree, Trees!lock, Trees!counts, Trees!call, Trees!walk,
     Trees!locals
<1>7. CASE Trees!FindNode(t)
  BY <1>1, <1>7 DEF Trees!FindNode, TreeQuiet, Standing, Uncounted, Linking, TreeCallTypes, TreeCallPlaces, SharedOps,
     ExclusiveOps, Trees!Goto, Trees!Return, Trees!tree, Trees!lock, Trees!counts, Trees!call, Trees!walk,
     Trees!locals
<1>8. CASE Trees!Take(t)
  BY <1>1, <1>8 DEF Trees!Take, RecordFound, Standing, TreeCallTypes, Trees!Goto, Trees!Return, Trees!tree,
     Trees!lock, Trees!counts, Trees!call, Trees!walk, Trees!locals
<1>9. CASE Trees!StartApply(t)
  BY <1>1, <1>9 DEF Trees!StartApply, TreeQuiet, Standing, Uncounted, Linking, TreeCallTypes, TreeCallPlaces,
     SharedOps, ExclusiveOps, Trees!Goto, Trees!Return, Trees!tree, Trees!lock, Trees!counts, Trees!call, Trees!walk,
     Trees!locals
<1>10. CASE Trees!ApplyNode(t)
  BY <1>1, <1>10 DEF Trees!ApplyNode, TreeQuiet, Standing, Uncounted, Linking, TreeCallTypes, TreeCallPlaces,
     SharedOps, ExclusiveOps, Trees!Goto, Trees!Return, Trees!tree, Trees!lock, Trees!counts, Trees!call, Trees!walk,
     Trees!locals
<1>11. CASE Trees!ApplyBucket(t)
  BY <1>1, <1>11 DEF Trees!ApplyBucket, TreeQuiet, Standing, Uncounted, Linking, TreeCallTypes, TreeCallPlaces,
     SharedOps, ExclusiveOps, Trees!Goto, Trees!Return, Trees!tree, Trees!lock, Trees!counts, Trees!call, Trees!walk,
     Trees!locals
<1>12. CASE Trees!Ascend(t)
  BY <1>1, <1>12 DEF Trees!Ascend, TreeQuiet, Standing, Uncounted, Linking, TreeCallTypes, TreeCallPlaces, SharedOps,
     ExclusiveOps, Trees!Goto, Trees!Return, Trees!tree, Trees!lock, Trees!counts, Trees!call, Trees!walk,
     Trees!locals
<1>13. CASE Trees!Allocate(t)
  BY <1>1, <1>13 DEF Trees!Allocate, TreeQuiet, Standing, Uncounted, Linking, TreeCallTypes, TreeCallPlaces,
     SharedOps, ExclusiveOps, Trees!Goto, Trees!Return, Trees!tree, Trees!lock, Trees!counts, Trees!call, Trees!walk,
     Trees!locals
<1>14. CASE Trees!Search(t)
  BY <1>1, <1>14 DEF Trees!Search, TreeQuiet, Standing, Uncounted, Linking, TreeCallTypes, TreeCallPlaces, SharedOps,
     ExclusiveOps, Trees!Goto, Trees!Return, Trees!tree, Trees!lock, Trees!counts, Trees!call, Trees!walk,
     Trees!locals
<1>15. CASE Trees!PassNode(t)
  <2>1. /\ treePc[t] = "setRecord" /\ Trees!Descend(t, treePc[t]) /\ Standing /\ Uncounted
    BY <1>15 DEF Trees!PassNode, Trees!Descend, Standing, Uncounted, Trees!Goto, Trees!Return, Trees!tree, Trees!lock,
       Trees!counts, Trees!call, Trees!walk, Trees!locals
  <2>2. treePc' = [treePc EXCEPT ![t] = "unlockShared"] \/ treePc' = [treePc EXCEPT ![t] = "add"]
    BY <2>1, DescendIs
  <2> QED BY <1>1, <2>1, <2>2 DEF TreeQuiet, Linking, TreeCallTypes
<1>16. CASE Trees!SetRecord(t)
  BY <1>1, <1>16 DEF Trees!SetRecord, RecordGiven, Uncounted, TreeCallTypes, Trees!Goto, Trees!Return, Trees!tree,
     Trees!lock, Trees!counts, Trees!call, Trees!walk, Trees!locals
<1>17. CASE Trees!ReferenceSet(t)
  BY <1>1, <1>17 DEF Trees!ReferenceSet, RecordReferenced, Standing, TreeCallTypes, Trees!Goto, Trees!Return,
     Trees!tree, Trees!lock, Trees!counts, Trees!call, Trees!walk, Trees!locals
<1>18. CASE Trees!LinkNode(t)
  <2>1. /\ treePc[t] = "link" /\ treePc'[t] = IF path[t] = KeyNode(t) THEN "reference" ELSE "count"
        /\ payload' = [payload EXCEPT ![path[t]] = IF path[t] = KeyNode(t) THEN treeRec[t] ELSE NoRecord]
        /\ parentLink' = [parentLink EXCEPT ![path[t]] = parent[t]]
        /\ children' = [children EXCEPT ![path[t]] = <<>>]
        /\ Uncounted /\ treeRec' = treeRec /\ path' = path
    BY <1>1, <1>18 DEF Trees!LinkNode, Uncounted, TreeCallTypes, Trees!Goto, Trees!Return, Trees!tree, Trees!lock,
       Trees!counts, Trees!call, Trees!walk, Trees!locals
  <2>2. TreeGood(treeBuckets') /\ PathGrown(treeBuckets, treeBuckets', path[t])
    BY <1>18, <2>1, TreeLinkGrows
  <2> QED BY <2>1, <2>2 DEF NodeLinked
<1>19. CASE Trees!Relink(t)
  BY <1>1, <1>19 DEF Trees!Relink, TreeQuiet, Standing, Uncounted, Linking, TreeCallTypes, TreeCallPlaces, SharedOps,
     ExclusiveOps, Trees!Goto, Trees!Return, Trees!tree, Trees!lock, Trees!counts, Trees!call, Trees!walk,
     Trees!locals
<1>20. CASE Trees!Reference(t)
  BY <1>1, <1>20 DEF Trees!Reference, RecordReferenced, Standing, TreeCallTypes, Trees!Goto, Trees!Return, Trees!tree,
     Trees!lock, Trees!counts, Trees!call, Trees!walk, Trees!locals
<1>21. CASE Trees!IncrementItems(t)
  <2>1. /\ treePc[t] = "count" /\ Standing /\ treeReferences' = treeReferences /\ treeHeld' = treeHeld
        /\ treeItems' = treeItems + 1
    BY <1>1, <1>21 DEF Trees!IncrementItems, Trees!Descend, Standing, Trees!Goto, Trees!Return, Trees!tree,
       Trees!lock, Trees!counts, Trees!call, Trees!walk, Trees!locals
  <2>2. CASE parent[t] = NoPath
    <3>1. Trees!Descend(t, treePc[t])
      BY <1>21, <2>1, <2>2 DEF Trees!IncrementItems
    <3>2. treePc' = [treePc EXCEPT ![t] = "unlockShared"] \/ treePc' = [treePc EXCEPT ![t] = "add"]
      BY <2>1, <3>1, DescendIs
    <3> QED BY <1>1, <2>1, <2>2, <3>2 DEF NodeCounted, TreeCallTypes
  <2>3. CASE parent[t] # NoPath
    BY <1>1, <1>21, <2>1, <2>3 DEF Trees!IncrementItems, NodeCounted, TreeCallTypes, Trees!Goto
  <2> QED BY <2>2, <2>3
<1>22. CASE Trees!ReadFirstChild(t)
  BY <1>1, <1>22 DEF Trees!ReadFirstChild, ChildRead, Standing, Uncounted, TreeCallTypes, Trees!Goto, Trees!Return,
     Trees!tree, Trees!lock, Trees!counts, Trees!call, Trees!walk, Trees!locals
<1>23. CASE Trees!LinkChild(t)
  <2>1. CASE Trees!Behind(children[parent[t]], NoPath) # treeNext[t]
    BY <1>1, <1>23, <2>1 DEF Trees!LinkChild, ChildRead, Standing, Uncounted, TreeCallTypes, Trees!Goto, Trees!Return,
       Trees!tree, Trees!lock, Trees!counts, Trees!call, Trees!walk, Trees!locals
  <2>2. CASE Trees!Behind(children[parent[t]], NoPath) = treeNext[t]
    <3>1. /\ treePc[t] = "linkChild" /\ Trees!Descend(t, treePc[t])
          /\ children' = [children EXCEPT ![parent[t]] = <<path[t]>> \o @]
          /\ treeBuckets' = treeBuckets /\ payload' = payload /\ parentLink' = parentLink /\ Uncounted
      BY <1>23, <2>2 DEF Trees!LinkChild, Uncounted, Trees!counts
    <3>2. treePc' = [treePc EXCEPT ![t] = "unlockShared"] \/ treePc' = [treePc EXCEPT ![t] = "add"]
      BY <3>1, DescendIs
    <3> QED BY <1>1, <3>1, <3>2 DEF ChildLinked, TreeCallTypes
  <2> QED BY <2>1, <2>2
<1>24. CASE Trees!DeleteKey(t)
  <2> DEFINE gone == IF KeyNode(t) \in Trees!Nodes THEN Trees!Subtree(KeyNode(t)) ELSE {}
  <2>1. /\ treePc[t] = "DeleteKey" /\ treePc'[t] = "unlockExclusive" /\ treeHeld' = treeHeld
        /\ Trees!TakeOut(gone, {}) /\ Trees!Release(gone, {})
        /\ treeItems' = treeItems - Cardinality(gone)
    BY <1>1, <1>24, TreeSizes DEF Trees!DeleteKey, Trees!Goto, TreeCallTypes
  <2>2. gone \subseteq NodesIn(treeBuckets) /\ \A p \in gone : PathsIn(children[p]) \subseteq gone
    <3>1. KeyNode(t) \in Path
      BY <1>1, <2>1, TreeConstants DEF TreeCallPlaces, KeyNode
    <3> QED BY <1>1, <3>1, SubtreeIs DEF InTree
  <2> HIDE DEF gone
  <2>3. Uproots(gone, {})
    <3> DEFINE none == {}
    <3>1. none \subseteq NodesIn(treeBuckets) /\ Trees!TakeOut(gone, none) /\ Trees!Release(gone, none)
      BY <2>1
    <3> HIDE DEF none
    <3>2. Uproots(gone, none)
      BY <1>1, <2>1, <2>2, <3>1, UprootsIs
    <3> QED BY <3>2 DEF none
  <2> QED BY <2>1, <2>2, <2>3 DEF Uprooted, ExclusiveOps
<1>25. CASE Trees!DeleteIf(t)
  <2>1. PICK chosen \in SUBSET TreeRecord :
          /\ Trees!TakeOut(Trees!DeletedIf(chosen).gone, Trees!DeletedIf(chosen).emptied)
          /\ Trees!Release(Trees!DeletedIf(chosen).gone, Trees!DeletedIf(chosen).emptied)
          /\ treeItems' = treeItems - Cardinality(Trees!DeletedIf(chosen).gone)
    BY <1>25, TreeSizes DEF Trees!DeleteIf
  <2>2. treePc[t] = "DeleteIf" /\ treePc'[t] = "unlockExclusive" /\ treeHeld' = treeHeld
    BY <1>1, <1>25 DEF Trees!DeleteIf, Trees!Goto, TreeCallTypes
  <2> DEFINE gone == Trees!DeletedIf(chosen).gone  emptied == Trees!DeletedIf(chosen).emptied
  <2>3. /\ gone \subseteq NodesIn(treeBuckets) /\ emptied \subseteq NodesIn(treeBuckets)
        /\ \A p \in gone : PathsIn(children[p]) \subseteq gone
        /\ Trees!TakeOut(gone, emptied) /\ Trees!Release(gone, emptied)
        /\ treeItems' = treeItems - Cardinality(gone)
    BY <1>1, <2>1, DeletedIfIs
  <2> HIDE DEF gone, emptied
  <2>4. Uproots(gone, emptied)
    BY <1>1, <2>2, <2>3, UprootsIs
  <2> QED BY <2>2, <2>3, <2>4 DEF Uprooted, ExclusiveOps
<1>26. CASE Trees!Clear(t)
  <2> DEFINE gone == NodesIn(treeBuckets)  none == {}
  <2>1. /\ treePc[t] = "Clear" /\ treePc'[t] = "unlockExclusive" /\ treeHeld' = treeHeld
        /\ Trees!TakeOut(gone, none) /\ Trees!Release(gone, none) /\ treeItems' = 0
    BY <1>1, <1>26 DEF Trees!Clear, Trees!Goto, TreeCallTypes
  <2>2. /\ gone = NodesIn(treeBuckets) /\ none \subseteq NodesIn(treeBuckets) /\ gone \subseteq NodesIn(treeBuckets)
        /\ \A p \in gone : PathsIn(children[p]) \subseteq gone
    BY <1>1, TreeBucketFacts DEF ChildInv, InTree
  <2> HIDE DEF gone, none
  <2>3. Uproots(gone, none)
    BY <1>1, <2>1, <2>2, UprootsIs
  <2> QED BY <2>1, <2>2, <2>3 DEF Uprooted, ExclusiveOps
<1>27. CASE Trees!CheckSize(t)
  BY <1>1, <1>27 DEF Trees!CheckSize, TreeQuiet, Standing, Uncounted, Linking, TreeCallTypes, TreeCallPlaces,
     SharedOps, ExclusiveOps, Trees!Goto, Trees!Return, Trees!tree, Trees!lock, Trees!counts, Trees!call, Trees!walk,
     Trees!locals
<1>28. CASE Trees!Rehash(t)
  <2>1. TreeGood(treeBuckets') /\ NodesIn(treeBuckets') = NodesIn(treeBuckets)
    BY <1>1, <1>28, TreeRehashIs
  <2> QED BY <1>1, <1>28, <2>1 DEF Trees!Rehash, ChainsRebuilt, Uncounted, TreeCallTypes, Trees!Goto, Trees!Return,
     Trees!tree, Trees!lock, Trees!counts, Trees!call, Trees!walk, Trees!locals
<1> QED BY <1>2, <1>3, <1>4, <1>5, <1>6, <1>7, <1>8, <1>9, <1>10, <1>11, <1>12, <1>13, <1>14, <1>15, <1>16, <1>17,
   <1>18, <1>19, <1>20, <1>21, <1>22, <1>23, <1>24, <1>25, <1>26, <1>27, <1>28 DEF TreeAction, Trees!Step

\* No node goes while others are in the table.
LEMMA TreeGrows ==
  ASSUME TreeInv, NEW t \in Thread, TreeAction(t)
  PROVE  /\ TreeGood(treeBuckets')
         /\ treePc[t] \notin ExclusiveOps => NodesIn(treeBuckets) \subseteq NodesIn(treeBuckets')
<1>1. TreeGood(treeBuckets)
  BY DEF TreeInv
<1> QED BY <1>1, TreeMoves DEF TreeQuiet, RecordFound, ChainsRebuilt, RecordGiven, RecordReferenced, NodeLinked,
           NodeCounted, ChildRead, ChildLinked, Uprooted, Uproots, Standing, PathGrown

LEMMA TreeAlone ==
  ASSUME TreeInv, NEW t \in Thread, treePc[t] \in ExclusivePcs
  PROVE  \A u \in Thread : treePc[u] \notin TreeSharedPcs /\ (treePc[u] \in ExclusivePcs => u = t)
BY DEF TreeInv, TreeLockInv

LEMMA TreeLockStep ==
  ASSUME TreeInv, NEW t \in Thread, TreeAction(t)
  PROVE  TreeLockInv'
<1>1. /\ TreeCallTypes /\ TreeCallPlaces /\ TreeLockInv /\ TreeCallTypes' /\ TreeCallPlaces'
      /\ \A u \in Thread \ {t} : treePc'[u] = treePc[u]
  BY TreeCallStep DEF TreeInv, TreeCallInv, TreeOthers
<1>2. ASSUME UNCHANGED Trees!lock, treePc'[t] \in TreeSharedPcs <=> treePc[t] \in TreeSharedPcs,
             treePc'[t] \in ExclusivePcs <=> treePc[t] \in ExclusivePcs
      PROVE  TreeLockInv'
  BY <1>1, <1>2 DEF TreeLockInv, Trees!lock
<1>3. CASE \E o \in TreeOpNames, r \in TreeRecord : Trees!Invoke(t, o, r)
  <2>1. UNCHANGED Trees!lock /\ treePc[t] = "idle" /\ treePc'[t] \in {"lockShared", "lockExclusive"}
    BY <1>1, <1>3 DEF Trees!Invoke, Trees!Goto, TreeCallTypes
  <2> QED BY <1>2, <2>1 DEF TreeSharedPcs, Inserting, ExclusivePcs, ExclusiveOps
<1>4. CASE Trees!LockShared(t)
  BY <1>1, <1>4 DEF Trees!LockShared, Trees!Goto, TreeCallTypes, TreeCallPlaces, SharedOps, TreeLockInv,
     TreeSharedPcs, Inserting, ExclusivePcs, ExclusiveOps
<1>5. CASE Trees!UnlockShared(t)
  BY <1>1, <1>5 DEF Trees!UnlockShared, Trees!Goto, TreeCallTypes, TreeCallPlaces, SharedOps, TreeLockInv,
     TreeSharedPcs, Inserting, ExclusivePcs, ExclusiveOps
<1>6. CASE Trees!LockExclusive(t)
  BY <1>1, <1>6 DEF Trees!LockExclusive, Trees!Goto, TreeCallTypes, TreeCallPlaces, SharedOps, TreeLockInv,
     TreeSharedPcs, Inserting, ExclusivePcs, ExclusiveOps
<1>7. CASE Trees!UnlockExclusive(t)
  BY <1>1, <1>7 DEF Trees!UnlockExclusive, Trees!Goto, TreeCallTypes, TreeCallPlaces, SharedOps, TreeLockInv,
     TreeSharedPcs, Inserting, ExclusivePcs, ExclusiveOps
<1>8. CASE Trees!FindNode(t)
  <2>1. /\ UNCHANGED Trees!lock
        /\ treePc'[t] \in TreeSharedPcs <=> treePc[t] \in TreeSharedPcs
        /\ treePc'[t] \in ExclusivePcs <=> treePc[t] \in ExclusivePcs
    BY <1>1, <1>8 DEF Trees!FindNode, Trees!Goto, TreeCallTypes, TreeSharedPcs, Inserting, ExclusivePcs, ExclusiveOps
  <2> QED BY <1>2, <2>1
<1>9. CASE Trees!Take(t)
  <2>1. /\ UNCHANGED Trees!lock
        /\ treePc'[t] \in TreeSharedPcs <=> treePc[t] \in TreeSharedPcs
        /\ treePc'[t] \in ExclusivePcs <=> treePc[t] \in ExclusivePcs
    BY <1>1, <1>9 DEF Trees!Take, Trees!Goto, TreeCallTypes, TreeSharedPcs, Inserting, ExclusivePcs, ExclusiveOps
  <2> QED BY <1>2, <2>1
<1>10. CASE Trees!StartApply(t)
  BY <1>1, <1>10 DEF Trees!StartApply, Trees!Goto, TreeCallTypes, TreeCallPlaces, SharedOps, TreeLockInv,
     TreeSharedPcs, Inserting, ExclusivePcs, ExclusiveOps
<1>11. CASE Trees!ApplyNode(t)
  <2>1. /\ UNCHANGED Trees!lock
        /\ treePc'[t] \in TreeSharedPcs <=> treePc[t] \in TreeSharedPcs
        /\ treePc'[t] \in ExclusivePcs <=> treePc[t] \in ExclusivePcs
    BY <1>1, <1>11 DEF Trees!ApplyNode, Trees!Goto, TreeCallTypes, TreeSharedPcs, Inserting, ExclusivePcs,
       ExclusiveOps
  <2> QED BY <1>2, <2>1
<1>12. CASE Trees!ApplyBucket(t)
  <2>1. /\ UNCHANGED Trees!lock
        /\ treePc'[t] \in TreeSharedPcs <=> treePc[t] \in TreeSharedPcs
        /\ treePc'[t] \in ExclusivePcs <=> treePc[t] \in ExclusivePcs
    BY <1>1, <1>12 DEF Trees!ApplyBucket, Trees!Goto, TreeCallTypes, TreeSharedPcs, Inserting, ExclusivePcs,
       ExclusiveOps
  <2> QED BY <1>2, <2>1
<1>13. CASE Trees!Ascend(t)
  <2>1. /\ UNCHANGED Trees!lock
        /\ treePc'[t] \in TreeSharedPcs <=> treePc[t] \in TreeSharedPcs
        /\ treePc'[t] \in ExclusivePcs <=> treePc[t] \in ExclusivePcs
    BY <1>1, <1>13 DEF Trees!Ascend, Trees!Goto, TreeCallTypes, TreeSharedPcs, Inserting, ExclusivePcs, ExclusiveOps
  <2> QED BY <1>2, <2>1
<1>14. CASE Trees!Allocate(t)
  <2>1. /\ UNCHANGED Trees!lock
        /\ treePc'[t] \in TreeSharedPcs <=> treePc[t] \in TreeSharedPcs
        /\ treePc'[t] \in ExclusivePcs <=> treePc[t] \in ExclusivePcs
    BY <1>1, <1>14 DEF Trees!Allocate, Trees!Goto, TreeCallTypes, TreeSharedPcs, Inserting, ExclusivePcs, ExclusiveOps
  <2> QED BY <1>2, <2>1
<1>15. CASE Trees!Search(t)
  <2>1. /\ UNCHANGED Trees!lock
        /\ treePc'[t] \in TreeSharedPcs <=> treePc[t] \in TreeSharedPcs
        /\ treePc'[t] \in ExclusivePcs <=> treePc[t] \in ExclusivePcs
    BY <1>1, <1>15 DEF Trees!Search, Trees!Goto, TreeCallTypes, TreeSharedPcs, Inserting, ExclusivePcs, ExclusiveOps
  <2> QED BY <1>2, <2>1
<1>16. CASE Trees!PassNode(t)
  <2>1. /\ UNCHANGED Trees!lock /\ treePc[t] = "setRecord"
        /\ (Trees!Descend(t, treePc[t]))
    BY <1>16 DEF Trees!PassNode, Trees!Goto, Trees!Descend, Trees!lock
  <2>2. treePc'[t] \in {"unlockShared", "add", "readChild"}
    BY <1>1, <2>1, DescendIs DEF TreeCallTypes
  <2> QED BY <1>2, <2>1, <2>2 DEF TreeSharedPcs, Inserting, ExclusivePcs, ExclusiveOps
<1>17. CASE Trees!SetRecord(t)
  <2>1. /\ UNCHANGED Trees!lock
        /\ treePc'[t] \in TreeSharedPcs <=> treePc[t] \in TreeSharedPcs
        /\ treePc'[t] \in ExclusivePcs <=> treePc[t] \in ExclusivePcs
    BY <1>1, <1>17 DEF Trees!SetRecord, Trees!Goto, TreeCallTypes, TreeSharedPcs, Inserting, ExclusivePcs,
       ExclusiveOps
  <2> QED BY <1>2, <2>1
<1>18. CASE Trees!ReferenceSet(t)
  <2>1. /\ UNCHANGED Trees!lock
        /\ treePc'[t] \in TreeSharedPcs <=> treePc[t] \in TreeSharedPcs
        /\ treePc'[t] \in ExclusivePcs <=> treePc[t] \in ExclusivePcs
    BY <1>1, <1>18 DEF Trees!ReferenceSet, Trees!Goto, TreeCallTypes, TreeSharedPcs, Inserting, ExclusivePcs,
       ExclusiveOps
  <2> QED BY <1>2, <2>1
<1>19. CASE Trees!LinkNode(t)
  <2>1. /\ UNCHANGED Trees!lock
        /\ treePc'[t] \in TreeSharedPcs <=> treePc[t] \in TreeSharedPcs
        /\ treePc'[t] \in ExclusivePcs <=> treePc[t] \in ExclusivePcs
    BY <1>1, <1>19 DEF Trees!LinkNode, Trees!Goto, TreeCallTypes, TreeSharedPcs, Inserting, ExclusivePcs, ExclusiveOps
  <2> QED BY <1>2, <2>1
<1>20. CASE Trees!Relink(t)
  <2>1. /\ UNCHANGED Trees!lock
        /\ treePc'[t] \in TreeSharedPcs <=> treePc[t] \in TreeSharedPcs
        /\ treePc'[t] \in ExclusivePcs <=> treePc[t] \in ExclusivePcs
    BY <1>1, <1>20 DEF Trees!Relink, Trees!Goto, TreeCallTypes, TreeSharedPcs, Inserting, ExclusivePcs, ExclusiveOps
  <2> QED BY <1>2, <2>1
<1>21. CASE Trees!Reference(t)
  <2>1. /\ UNCHANGED Trees!lock
        /\ treePc'[t] \in TreeSharedPcs <=> treePc[t] \in TreeSharedPcs
        /\ treePc'[t] \in ExclusivePcs <=> treePc[t] \in ExclusivePcs
    BY <1>1, <1>21 DEF Trees!Reference, Trees!Goto, TreeCallTypes, TreeSharedPcs, Inserting, ExclusivePcs,
       ExclusiveOps
  <2> QED BY <1>2, <2>1
<1>22. CASE Trees!IncrementItems(t)
  <2>1. /\ UNCHANGED Trees!lock /\ treePc[t] = "count"
        /\ (Trees!Descend(t, treePc[t]) \/ treePc' = [treePc EXCEPT ![t] = "readChild"])
    BY <1>22 DEF Trees!IncrementItems, Trees!Goto, Trees!Descend, Trees!lock
  <2>2. treePc'[t] \in {"unlockShared", "add", "readChild"}
    BY <1>1, <2>1, DescendIs DEF TreeCallTypes
  <2> QED BY <1>2, <2>1, <2>2 DEF TreeSharedPcs, Inserting, ExclusivePcs, ExclusiveOps
<1>23. CASE Trees!ReadFirstChild(t)
  <2>1. /\ UNCHANGED Trees!lock
        /\ treePc'[t] \in TreeSharedPcs <=> treePc[t] \in TreeSharedPcs
        /\ treePc'[t] \in ExclusivePcs <=> treePc[t] \in ExclusivePcs
    BY <1>1, <1>23 DEF Trees!ReadFirstChild, Trees!Goto, TreeCallTypes, TreeSharedPcs, Inserting, ExclusivePcs,
       ExclusiveOps
  <2> QED BY <1>2, <2>1
<1>24. CASE Trees!LinkChild(t)
  <2>1. /\ UNCHANGED Trees!lock /\ treePc[t] = "linkChild"
        /\ (Trees!Descend(t, treePc[t]) \/ treePc' = [treePc EXCEPT ![t] = "readChild"])
    BY <1>24 DEF Trees!LinkChild, Trees!Goto, Trees!Descend, Trees!lock
  <2>2. treePc'[t] \in {"unlockShared", "add", "readChild"}
    BY <1>1, <2>1, DescendIs DEF TreeCallTypes
  <2> QED BY <1>2, <2>1, <2>2 DEF TreeSharedPcs, Inserting, ExclusivePcs, ExclusiveOps
<1>25. CASE Trees!DeleteKey(t)
  <2>1. /\ UNCHANGED Trees!lock
        /\ treePc'[t] \in TreeSharedPcs <=> treePc[t] \in TreeSharedPcs
        /\ treePc'[t] \in ExclusivePcs <=> treePc[t] \in ExclusivePcs
    BY <1>1, <1>25 DEF Trees!DeleteKey, Trees!Goto, TreeCallTypes, TreeSharedPcs, Inserting, ExclusivePcs,
       ExclusiveOps
  <2> QED BY <1>2, <2>1
<1>26. CASE Trees!DeleteIf(t)
  <2>1. /\ UNCHANGED Trees!lock
        /\ treePc'[t] \in TreeSharedPcs <=> treePc[t] \in TreeSharedPcs
        /\ treePc'[t] \in ExclusivePcs <=> treePc[t] \in ExclusivePcs
    BY <1>1, <1>26 DEF Trees!DeleteIf, Trees!Goto, TreeCallTypes, TreeSharedPcs, Inserting, ExclusivePcs, ExclusiveOps
  <2> QED BY <1>2, <2>1
<1>27. CASE Trees!Clear(t)
  <2>1. /\ UNCHANGED Trees!lock
        /\ treePc'[t] \in TreeSharedPcs <=> treePc[t] \in TreeSharedPcs
        /\ treePc'[t] \in ExclusivePcs <=> treePc[t] \in ExclusivePcs
    BY <1>1, <1>27 DEF Trees!Clear, Trees!Goto, TreeCallTypes, TreeSharedPcs, Inserting, ExclusivePcs, ExclusiveOps
  <2> QED BY <1>2, <2>1
<1>28. CASE Trees!CheckSize(t)
  <2>1. /\ UNCHANGED Trees!lock
        /\ treePc'[t] \in TreeSharedPcs <=> treePc[t] \in TreeSharedPcs
        /\ treePc'[t] \in ExclusivePcs <=> treePc[t] \in ExclusivePcs
    BY <1>1, <1>28 DEF Trees!CheckSize, Trees!Goto, TreeCallTypes, TreeSharedPcs, Inserting, ExclusivePcs,
       ExclusiveOps
  <2> QED BY <1>2, <2>1
<1>29. CASE Trees!Rehash(t)
  <2>1. /\ UNCHANGED Trees!lock
        /\ treePc'[t] \in TreeSharedPcs <=> treePc[t] \in TreeSharedPcs
        /\ treePc'[t] \in ExclusivePcs <=> treePc[t] \in ExclusivePcs
    BY <1>1, <1>29 DEF Trees!Rehash, Trees!Goto, TreeCallTypes, TreeSharedPcs, Inserting, ExclusivePcs, ExclusiveOps
  <2> QED BY <1>2, <2>1
<1> QED BY <1>3, <1>4, <1>5, <1>6, <1>7, <1>8, <1>9, <1>10, <1>11, <1>12, <1>13, <1>14, <1>15, <1>16, <1>17, <1>18,
   <1>19, <1>20, <1>21, <1>22, <1>23, <1>24, <1>25, <1>26, <1>27, <1>28, <1>29 DEF TreeAction, Trees!Step

\* Where an insertion may be, with what it knows of its path.
TreePlace(place, res, q, up, key, nodes) ==
  /\ place \in {"lockShared", "Insert", "add", "search", "link", "setRecord"} => res = "NONE"
  /\ place \in Linking => res = IF q = key THEN "SUCCESS" ELSE "NONE"
  /\ place \in Inserting => q \in Line(key) /\ q \in Path
  /\ place \in Inserting \ {"Insert"} => up = ParentOf[q] /\ (up # NoPath => up \in nodes)
  /\ place \in {"reference", "referenceSet"} => q = key
  /\ place \in Linking \cup {"setRecord", "referenceSet"} => q \in nodes
  /\ place \in {"readChild", "linkChild"} => up # NoPath

LEMMA TreePathStep ==
  ASSUME TreeInv, NEW t \in Thread, TreeAction(t)
  PROVE  TreePathInv'
<1> DEFINE nodes == NodesIn(treeBuckets)
           Now(u) == TreePlace(treePc[u], treeResult[u], path[u], parent[u], PathOf[treeRec[u]], nodes)
           Then(u) == TreePlace(treePc'[u], treeResult'[u], path'[u], parent'[u], PathOf[treeRec'[u]],
                                NodesIn(treeBuckets'))
<1>1. /\ TreeCallTypes /\ TreeCallPlaces /\ TreeGood(treeBuckets) /\ Trees!Nodes = nodes /\ TreeOthers(t)
      /\ TreeCallTypes' /\ TreeCallPlaces' /\ NoPath \notin Path
      /\ treePc[t] # "idle" => KeyNode(t) \in Path
  BY TreeCallStep, NodesAre, TreeConstants DEF TreeInv, TreeCallInv, TreeCallPlaces, KeyNode
<1>2. \A u \in Thread : Now(u)
  BY DEF TreeInv, TreePathInv, TreePlace, KeyNode, InTree
<1>3. SUFFICES \A u \in Thread : Then(u)
  BY DEF TreePathInv, TreePlace, KeyNode, InTree
<1>4. ASSUME NEW u \in Thread \ {t} PROVE Then(u)
  <2>1. CASE treePc[u] \in Inserting
    <3>1. treePc[t] \notin ExclusiveOps
      BY <2>1, TreeAlone DEF TreeSharedPcs, ExclusivePcs
    <3>2. nodes \subseteq NodesIn(treeBuckets')
      BY <3>1, TreeGrows
    <3> QED BY <1>1, <1>2, <3>2 DEF TreeOthers, TreePlace
  <2>2. CASE treePc[u] \notin Inserting
    BY <1>1, <1>2, <2>2 DEF TreeOthers, TreePlace, Inserting, Linking
  <2> QED BY <2>1, <2>2
<1>5. treePc[t] \notin ExclusiveOps => nodes \subseteq NodesIn(treeBuckets')
  BY TreeGrows
<1>6. Now(t)
  BY <1>2
<1> HIDE DEF nodes
\* Nothing is left to show where the thread is in no insertion.
<1>7. ASSUME treePc'[t] \notin Inserting \cup {"lockShared"} PROVE Then(t)
  BY <1>7 DEF TreePlace, Inserting, Linking
<1>8. ASSUME \E o \in TreeOpNames, r \in TreeRecord : Trees!Invoke(t, o, r) PROVE Then(t)
  <2>1. treePc'[t] \in {"lockShared", "lockExclusive"} /\ treeResult'[t] = "NONE"
    BY <1>1, <1>8 DEF Trees!Invoke, Trees!Goto, Trees!Return, TreeCallTypes
  <2> QED BY <2>1 DEF TreePlace, Inserting, Linking
<1>9. ASSUME Trees!LockShared(t) PROVE Then(t)
  <2>1. /\ treePc[t] = "lockShared" /\ treePc'[t] = treeOp[t] /\ treeOp[t] \in {"Insert", "FindKey"}
        /\ treeResult'[t] = treeResult[t] /\ treeRec'[t] = treeRec[t] /\ path'[t] = KeyNode(t)
    BY <1>1, <1>9 DEF Trees!LockShared, Trees!Goto, Trees!call, Trees!KeyPath, KeyNode, TreeCallTypes, TreeCallPlaces,
       SharedOps
  <2>2. KeyNode(t) \in Line(KeyNode(t))
    <3> DEFINE key == KeyNode(t)
    <3>1. key \in Path
      BY <1>1, <2>1
    <3> HIDE DEF key
    <3>2. key \in Line(key)
      BY <3>1, LineIs
    <3> QED BY <3>2 DEF key
  <2> QED BY <1>1, <1>6, <2>1, <2>2 DEF TreePlace, Inserting, Linking, KeyNode
<1>10. ASSUME Trees!UnlockShared(t) PROVE Then(t)
  <2>1. treePc'[t] \notin Inserting \cup {"lockShared"}
    BY <1>1, <1>10 DEF Trees!UnlockShared, Trees!Goto, TreeCallTypes, TreeCallPlaces, ExclusiveOps, Inserting
  <2> QED BY <1>7, <2>1
<1>11. ASSUME Trees!LockExclusive(t) PROVE Then(t)
  <2>1. treePc'[t] \notin Inserting \cup {"lockShared"}
    BY <1>1, <1>11 DEF Trees!LockExclusive, Trees!Goto, TreeCallTypes, TreeCallPlaces, ExclusiveOps, Inserting
  <2> QED BY <1>7, <2>1
<1>12. ASSUME Trees!UnlockExclusive(t) PROVE Then(t)
  <2>1. treePc'[t] \notin Inserting \cup {"lockShared"}
    BY <1>1, <1>12 DEF Trees!UnlockExclusive, Trees!Goto, TreeCallTypes, TreeCallPlaces, ExclusiveOps, Inserting
  <2> QED BY <1>7, <2>1
<1>13. ASSUME Trees!FindNode(t) PROVE Then(t)
  <2>1. treePc'[t] \notin Inserting \cup {"lockShared"}
    BY <1>1, <1>13 DEF Trees!FindNode, Trees!Goto, TreeCallTypes, TreeCallPlaces, ExclusiveOps, Inserting
  <2> QED BY <1>7, <2>1
<1>14. ASSUME Trees!Take(t) PROVE Then(t)
  <2>1. treePc'[t] \notin Inserting \cup {"lockShared"}
    BY <1>1, <1>14 DEF Trees!Take, Trees!Goto, TreeCallTypes, TreeCallPlaces, ExclusiveOps, Inserting
  <2> QED BY <1>7, <2>1
<1>15. ASSUME Trees!StartApply(t) PROVE Then(t)
  <2>1. treePc'[t] \notin Inserting \cup {"lockShared"}
    BY <1>1, <1>15 DEF Trees!StartApply, Trees!Goto, TreeCallTypes, TreeCallPlaces, ExclusiveOps, Inserting
  <2> QED BY <1>7, <2>1
<1>16. ASSUME Trees!ApplyNode(t) PROVE Then(t)
  <2>1. treePc'[t] \notin Inserting \cup {"lockShared"}
    BY <1>1, <1>16 DEF Trees!ApplyNode, Trees!Goto, TreeCallTypes, TreeCallPlaces, ExclusiveOps, Inserting
  <2> QED BY <1>7, <2>1
<1>17. ASSUME Trees!ApplyBucket(t) PROVE Then(t)
  <2>1. treePc'[t] \notin Inserting \cup {"lockShared"}
    BY <1>1, <1>17 DEF Trees!ApplyBucket, Trees!Goto, TreeCallTypes, TreeCallPlaces, ExclusiveOps, Inserting
  <2> QED BY <1>7, <2>1
<1>18. ASSUME Trees!Ascend(t) PROVE Then(t)
  <2>1. /\ treePc[t] = "Insert" /\ treeResult'[t] = treeResult[t] /\ treeRec'[t] = treeRec[t]
        /\ treeBuckets' = treeBuckets
        /\ \/ /\ treePc'[t] = "add" /\ ParentOf[path[t]] \in nodes \cup {NoPath}
              /\ parent'[t] = ParentOf[path[t]] /\ path'[t] = path[t]
           \/ /\ treePc'[t] = "Insert" /\ ParentOf[path[t]] \notin nodes \cup {NoPath}
              /\ path'[t] = ParentOf[path[t]]
    BY <1>1, <1>18 DEF Trees!Ascend, Trees!Goto, Trees!call, Trees!tree, TreeCallTypes
  <2>2. ParentOf[path[t]] # NoPath => ParentOf[path[t]] \in Line(KeyNode(t)) /\ ParentOf[path[t]] \in Path
    <3> DEFINE key == KeyNode(t)
    <3>1. key \in Path /\ path[t] \in Line(key)
      BY <1>1, <1>6, <2>1 DEF TreePlace, Inserting, KeyNode
    <3> HIDE DEF key
    <3>2. Line(key) \subseteq Path /\ (ParentOf[path[t]] # NoPath => ParentOf[path[t]] \in Line(key))
      BY <3>1, LineIs
    <3> QED BY <3>2 DEF key
  <2> QED BY <1>6, <2>1, <2>2 DEF TreePlace, Inserting, Linking, KeyNode, nodes
<1>19. ASSUME Trees!Allocate(t) PROVE Then(t)
  BY <1>1, <1>6, <1>7, <1>19 DEF Trees!Allocate, TreePlace, Inserting, Linking, nodes, KeyNode, Trees!KeyPath,
     TreeCallTypes, Trees!Goto, Trees!Return, Trees!tree, Trees!lock, Trees!counts, Trees!call, Trees!walk,
     Trees!locals
<1>20. ASSUME Trees!Search(t) PROVE Then(t)
  BY <1>1, <1>6, <1>7, <1>20 DEF Trees!Search, TreePlace, Inserting, Linking, nodes, KeyNode, Trees!KeyPath,
     TreeCallTypes, Trees!Goto, Trees!Return, Trees!tree, Trees!lock, Trees!counts, Trees!call, Trees!walk,
     Trees!locals
<1>21. ASSUME Trees!PassNode(t) PROVE Then(t)
  <2>1. /\ treePc[t] = "setRecord" /\ treeRec'[t] = treeRec[t] /\ treeBuckets' = treeBuckets
        /\ treePc'[t] \in {"add", "readChild"} /\ path[t] # KeyNode(t) => treeResult'[t] = treeResult[t]
        /\ \/ Trees!Descend(t, treePc[t])
    BY <1>1, <1>21 DEF Trees!PassNode, Trees!Goto, Trees!Descend, Trees!call, Trees!tree, Trees!KeyPath, KeyNode,
       TreeCallTypes
  <2>2. CASE Trees!Descend(t, treePc[t])
    <3>1. \/ treePc'[t] = "unlockShared"
          \/ /\ treePc'[t] = "add" /\ path[t] # KeyNode(t) /\ parent'[t] = path[t]
             /\ path'[t] \in Line(KeyNode(t)) /\ path'[t] \in Path /\ ParentOf[path'[t]] = path[t]
      BY <1>1, <2>1, <2>2, DescendIs DEF TreeCallTypes
    <3>2. CASE treePc'[t] = "unlockShared"
      BY <1>7, <3>2 DEF Inserting
    <3> QED BY <1>1, <1>6, <2>1, <3>1, <3>2 DEF TreePlace, Inserting, Linking, KeyNode, nodes
  <2> QED BY <2>1, <2>2
<1>22. ASSUME Trees!SetRecord(t) PROVE Then(t)
  BY <1>1, <1>6, <1>7, <1>22 DEF Trees!SetRecord, TreePlace, Inserting, Linking, nodes, KeyNode, Trees!KeyPath,
     TreeCallTypes, Trees!Goto, Trees!Return, Trees!tree, Trees!lock, Trees!counts, Trees!call, Trees!walk,
     Trees!locals
<1>23. ASSUME Trees!ReferenceSet(t) PROVE Then(t)
  <2>1. treePc'[t] \notin Inserting \cup {"lockShared"}
    BY <1>1, <1>23 DEF Trees!ReferenceSet, Trees!Goto, TreeCallTypes, TreeCallPlaces, ExclusiveOps, Inserting
  <2> QED BY <1>7, <2>1
<1>24. ASSUME Trees!LinkNode(t) PROVE Then(t)
  <2>1. /\ treePc[t] = "link" /\ treePc'[t] = IF path[t] = KeyNode(t) THEN "reference" ELSE "count"
        /\ treeResult'[t] = (IF path[t] = KeyNode(t) THEN "SUCCESS" ELSE treeResult[t])
        /\ treeRec'[t] = treeRec[t] /\ path'[t] = path[t] /\ parent'[t] = parent[t]
    BY <1>1, <1>24 DEF Trees!LinkNode, Trees!Goto, Trees!Return, Trees!KeyPath, KeyNode, Trees!locals, TreeCallTypes
  <2>2. path[t] \in NodesIn(treeBuckets') /\ nodes \subseteq NodesIn(treeBuckets')
    BY <1>24, <2>1, TreeLinkGrows DEF PathGrown, nodes
  <2> QED BY <1>6, <2>1, <2>2 DEF TreePlace, Inserting, Linking, KeyNode
<1>25. ASSUME Trees!Relink(t) PROVE Then(t)
  BY <1>1, <1>6, <1>7, <1>25 DEF Trees!Relink, TreePlace, Inserting, Linking, nodes, KeyNode, Trees!KeyPath,
     TreeCallTypes, Trees!Goto, Trees!Return, Trees!tree, Trees!lock, Trees!counts, Trees!call, Trees!walk,
     Trees!locals
<1>26. ASSUME Trees!Reference(t) PROVE Then(t)
  BY <1>1, <1>6, <1>7, <1>26 DEF Trees!Reference, TreePlace, Inserting, Linking, nodes, KeyNode, Trees!KeyPath,
     TreeCallTypes, Trees!Goto, Trees!Return, Trees!tree, Trees!lock, Trees!counts, Trees!call, Trees!walk,
     Trees!locals
<1>27. ASSUME Trees!IncrementItems(t) PROVE Then(t)
  <2>1. /\ treePc[t] = "count" /\ treeRec'[t] = treeRec[t] /\ treeBuckets' = treeBuckets
        /\ treePc'[t] \in {"add", "readChild"} /\ path[t] # KeyNode(t) => treeResult'[t] = treeResult[t]
        /\ \/ Trees!Descend(t, treePc[t])
           \/ /\ treePc'[t] = "readChild" /\ path'[t] = path[t] /\ parent'[t] = parent[t]
              /\ parent[t] # NoPath /\ treeResult'[t] = treeResult[t]
    BY <1>1, <1>27 DEF Trees!IncrementItems, Trees!Goto, Trees!Descend, Trees!call, Trees!tree, Trees!KeyPath,
       KeyNode,
       TreeCallTypes
  <2>2. CASE Trees!Descend(t, treePc[t])
    <3>1. \/ treePc'[t] = "unlockShared"
          \/ /\ treePc'[t] = "add" /\ path[t] # KeyNode(t) /\ parent'[t] = path[t]
             /\ path'[t] \in Line(KeyNode(t)) /\ path'[t] \in Path /\ ParentOf[path'[t]] = path[t]
      BY <1>1, <2>1, <2>2, DescendIs DEF TreeCallTypes
    <3>2. CASE treePc'[t] = "unlockShared"
      BY <1>7, <3>2 DEF Inserting
    <3> QED BY <1>1, <1>6, <2>1, <3>1, <3>2 DEF TreePlace, Inserting, Linking, KeyNode, nodes
  <2>3. CASE treePc'[t] = "readChild" /\ path'[t] = path[t] /\ parent'[t] = parent[t]
    BY <1>6, <2>1, <2>2, <2>3 DEF TreePlace, Inserting, Linking, KeyNode, nodes
  <2> QED BY <2>1, <2>2, <2>3
<1>28. ASSUME Trees!ReadFirstChild(t) PROVE Then(t)
  BY <1>1, <1>6, <1>7, <1>28 DEF Trees!ReadFirstChild, TreePlace, Inserting, Linking, nodes, KeyNode, Trees!KeyPath,
     TreeCallTypes, Trees!Goto, Trees!Return, Trees!tree, Trees!lock, Trees!counts, Trees!call, Trees!walk,
     Trees!locals
<1>29. ASSUME Trees!LinkChild(t) PROVE Then(t)
  <2>1. /\ treePc[t] = "linkChild" /\ treeRec'[t] = treeRec[t] /\ treeBuckets' = treeBuckets
        /\ treePc'[t] \in {"add", "readChild"} /\ path[t] # KeyNode(t) => treeResult'[t] = treeResult[t]
        /\ \/ Trees!Descend(t, treePc[t])
           \/ /\ treePc'[t] = "readChild" /\ path'[t] = path[t] /\ parent'[t] = parent[t]
              /\ treeResult'[t] = treeResult[t]
    BY <1>1, <1>29 DEF Trees!LinkChild, Trees!Goto, Trees!Descend, Trees!call, Trees!tree, Trees!KeyPath, KeyNode,
       TreeCallTypes
  <2>2. CASE Trees!Descend(t, treePc[t])
    <3>1. \/ treePc'[t] = "unlockShared"
          \/ /\ treePc'[t] = "add" /\ path[t] # KeyNode(t) /\ parent'[t] = path[t]
             /\ path'[t] \in Line(KeyNode(t)) /\ path'[t] \in Path /\ ParentOf[path'[t]] = path[t]
      BY <1>1, <2>1, <2>2, DescendIs DEF TreeCallTypes
    <3>2. CASE treePc'[t] = "unlockShared"
      BY <1>7, <3>2 DEF Inserting
    <3> QED BY <1>1, <1>6, <2>1, <3>1, <3>2 DEF TreePlace, Inserting, Linking, KeyNode, nodes
  <2>3. CASE treePc'[t] = "readChild" /\ path'[t] = path[t] /\ parent'[t] = parent[t]
    BY <1>6, <2>1, <2>2, <2>3 DEF TreePlace, Inserting, Linking, KeyNode, nodes
  <2> QED BY <2>1, <2>2, <2>3
<1>30. ASSUME Trees!DeleteKey(t) PROVE Then(t)
  <2>1. treePc'[t] \notin Inserting \cup {"lockShared"}
    BY <1>1, <1>30 DEF Trees!DeleteKey, Trees!Goto, TreeCallTypes, TreeCallPlaces, ExclusiveOps, Inserting
  <2> QED BY <1>7, <2>1
<1>31. ASSUME Trees!DeleteIf(t) PROVE Then(t)
  <2>1. treePc'[t] \notin Inserting \cup {"lockShared"}
    BY <1>1, <1>31 DEF Trees!DeleteIf, Trees!Goto, TreeCallTypes, TreeCallPlaces, ExclusiveOps, Inserting
  <2> QED BY <1>7, <2>1
<1>32. ASSUME Trees!Clear(t) PROVE Then(t)
  <2>1. treePc'[t] \notin Inserting \cup {"lockShared"}
    BY <1>1, <1>32 DEF Trees!Clear, Trees!Goto, TreeCallTypes, TreeCallPlaces, ExclusiveOps, Inserting
  <2> QED BY <1>7, <2>1
<1>33. ASSUME Trees!CheckSize(t) PROVE Then(t)
  <2>1. treePc'[t] \notin Inserting \cup {"lockShared"}
    BY <1>1, <1>33 DEF Trees!CheckSize, Trees!Goto, TreeCallTypes, TreeCallPlaces, ExclusiveOps, Inserting
  <2> QED BY <1>7, <2>1
<1>34. ASSUME Trees!Rehash(t) PROVE Then(t)
  <2>1. treePc'[t] \notin Inserting \cup {"lockShared"}
    BY <1>1, <1>34 DEF Trees!Rehash, Trees!Goto, TreeCallTypes, TreeCallPlaces, ExclusiveOps, Inserting
  <2> QED BY <1>7, <2>1
<1>100. Then(t)
  BY <1>8, <1>9, <1>10, <1>11, <1>12, <1>13, <1>14, <1>15, <1>16, <1>17, <1>18, <1>19, <1>20, <1>21, <1>22, <1>23,
     <1>24, <1>25, <1>26, <1>27, <1>28, <1>29, <1>30, <1>31, <1>32, <1>33, <1>34 DEF TreeAction, Trees!Step
<1> HIDE DEF Then
<1> QED BY <1>4, <1>100

-----------------------------------------------------------------------------
(* The tree agrees with the table                                          *)

LEMMA TreeNodeStep ==
  ASSUME TreeInv, NEW t \in Thread, TreeAction(t)
  PROVE  NodeInv'
<1>1. /\ TreeCallTypes /\ TreeCallPlaces /\ TreeGood(treeBuckets) /\ NodeInv /\ TreePathInv
      /\ NoRecord \notin TreeRecord /\ NoPath \notin Path /\ PathOf \in [TreeRecord -> Path]
  BY TreeConstants DEF TreeInv, TreeCallInv, ShapeInv
<1>2. ASSUME payload' = payload, parentLink' = parentLink, NodesIn(treeBuckets') = NodesIn(treeBuckets)
      PROVE  NodeInv'
  BY <1>1, <1>2 DEF NodeInv, InTree
<1>3. CASE TreeQuiet(t) \/ RecordFound(t) \/ ChainsRebuilt(t) \/ RecordReferenced(t) \/ NodeCounted(t)
           \/ ChildRead(t) \/ ChildLinked(t)
  <2>1. payload' = payload /\ parentLink' = parentLink /\ NodesIn(treeBuckets') = NodesIn(treeBuckets)
    BY <1>3 DEF TreeQuiet, RecordFound, ChainsRebuilt, RecordReferenced, NodeCounted, ChildRead, ChildLinked,
       Standing
  <2> QED BY <1>2, <2>1
<1>4. CASE RecordGiven(t)
  <2>1. /\ treeRec[t] \in TreeRecord /\ path[t] \in Path /\ path[t] \in NodesIn(treeBuckets)
        /\ PathOf[treeRec[t]] = path[t]
    BY <1>1, <1>4 DEF RecordGiven, TreeCallPlaces, TreePathInv, Inserting, InTree, KeyNode
  <2> QED BY <1>1, <1>4, <2>1 DEF RecordGiven, NodeInv, InTree
<1>5. CASE NodeLinked(t)
  <2>1. /\ treeRec[t] \in TreeRecord /\ path[t] \in Path /\ parent[t] = ParentOf[path[t]]
        /\ parent[t] \in Path \cup {NoPath}
    BY <1>1, <1>5 DEF NodeLinked, TreeCallPlaces, TreePathInv, Inserting, TreeCallTypes
  <2>2. NodesIn(treeBuckets') = NodesIn(treeBuckets) \cup {path[t]}
    BY <1>5 DEF NodeLinked, PathGrown
  <2>3. \A p \in Path : p # path[t] => payload'[p] = payload[p] /\ parentLink'[p] = parentLink[p]
    BY <1>1, <1>5, <2>1 DEF NodeLinked, NodeInv
  <2>4. /\ payload'[path[t]] = (IF path[t] = KeyNode(t) THEN treeRec[t] ELSE NoRecord)
        /\ parentLink'[path[t]] = parent[t]
        /\ payload' \in [Path -> TreeRecord \cup {NoRecord}] /\ parentLink' \in [Path -> Path \cup {NoPath}]
    BY <1>1, <1>5, <2>1 DEF NodeLinked, NodeInv
  <2> QED BY <1>1, <2>1, <2>2, <2>3, <2>4 DEF NodeInv, InTree, KeyNode
<1>6. CASE Uprooted(t)
  <2>1. PICK gone, emptied \in SUBSET NodesIn(treeBuckets) : Uproots(gone, emptied)
    BY <1>6 DEF Uprooted
  <2>2. /\ NodesIn(treeBuckets') = NodesIn(treeBuckets) \ gone
        /\ payload' = [p \in Path |-> IF p \in gone \cup emptied THEN NoRecord ELSE payload[p]]
        /\ parentLink' = [p \in Path |-> IF p \in gone THEN NoPath ELSE parentLink[p]]
    BY <2>1 DEF Uproots
  <2> QED BY <1>1, <2>2 DEF NodeInv, InTree
<1> QED BY <1>3, <1>4, <1>5, <1>6, TreeMoves

LEMMA TreeChildStep ==
  ASSUME TreeInv, NEW t \in Thread, TreeAction(t)
  PROVE  ChildInv'
<1>1. TreeCallTypes /\ TreePathInv /\ ChildInv /\ UnlinkedInv
  BY DEF TreeInv, TreeCallInv, ShapeInv
<1>2. ASSUME children' = children, NodesIn(treeBuckets') = NodesIn(treeBuckets)
      PROVE  ChildInv'
  BY <1>1, <1>2 DEF ChildInv, InTree
<1>3. CASE TreeQuiet(t) \/ RecordFound(t) \/ ChainsRebuilt(t) \/ RecordGiven(t) \/ RecordReferenced(t)
           \/ NodeCounted(t) \/ ChildRead(t)
  <2>1. children' = children /\ NodesIn(treeBuckets') = NodesIn(treeBuckets)
    BY <1>3 DEF TreeQuiet, RecordFound, ChainsRebuilt, RecordGiven, RecordReferenced, NodeCounted, ChildRead,
       Standing
  <2> QED BY <1>2, <2>1
\* What has to be shown of one list.
<1> DEFINE Fine(p) == /\ children'[p] \in Seq(Path) /\ DistinctPaths(children'[p])
                      /\ \A c \in PathsIn(children'[p]) :
                           c \in NodesIn(treeBuckets') /\ p \in NodesIn(treeBuckets') /\ ParentOf[c] = p
<1>4. ASSUME DOMAIN children' = Path, children' = [p \in Path |-> children'[p]], \A p \in Path : Fine(p)
      PROVE  ChildInv'
  <2>1. children' \in [Path -> Seq(Path)]
    BY <1>4
  <2> QED BY <1>4, <2>1 DEF ChildInv, InTree
<1>5. \A p \in Path : /\ children[p] \in Seq(Path) /\ DistinctPaths(children[p])
                      /\ \A c \in PathsIn(children[p]) :
                           c \in NodesIn(treeBuckets) /\ p \in NodesIn(treeBuckets) /\ ParentOf[c] = p
  BY <1>1 DEF ChildInv, InTree
<1>6. children \in [Path -> Seq(Path)]
  BY <1>1 DEF ChildInv
<1>7. PathsIn(<<>>) = {} /\ DistinctPaths(<<>>) /\ <<>> \in Seq(Path)
  BY DEF PathsIn, DistinctPaths, Trees!ToSet
<1>8. CASE NodeLinked(t)
  <2>1. NodesIn(treeBuckets') = NodesIn(treeBuckets) \cup {path[t]} /\ path[t] \in Path
    BY <1>1, <1>8 DEF NodeLinked, PathGrown, TreePathInv, Inserting
  <2>2. children' = [children EXCEPT ![path[t]] = <<>>]
    BY <1>8 DEF NodeLinked
  <2>3. \A p \in Path : children'[p] = IF p = path[t] THEN <<>> ELSE children[p]
    BY <1>6, <2>1, <2>2
  <2>4. \A p \in Path : Fine(p)
    BY <1>5, <1>7, <2>1, <2>3
  <2> HIDE DEF Fine
  <2> QED BY <1>4, <1>6, <2>2, <2>4
<1>9. CASE ChildLinked(t)
  <2>1. /\ path[t] \in Path /\ parent[t] = ParentOf[path[t]] /\ parent[t] \in Path
        /\ path[t] \in NodesIn(treeBuckets) /\ parent[t] \in NodesIn(treeBuckets)
        /\ path[t] \notin PathsIn(children[parent[t]])
    <3>1. treePc[t] = "linkChild"
      BY <1>9 DEF ChildLinked
    <3>2. path[t] \in Path /\ parent[t] = ParentOf[path[t]] /\ parent[t] \in Path
      BY <1>1, <3>1 DEF TreePathInv, Inserting, TreeCallTypes
    <3> QED BY <1>1, <3>1, <3>2 DEF TreePathInv, Inserting, Linking, InTree, UnlinkedInv
  <2>2. /\ NodesIn(treeBuckets') = NodesIn(treeBuckets)
        /\ children' = [children EXCEPT ![parent[t]] = <<path[t]>> \o children[parent[t]]]
    BY <1>9 DEF ChildLinked
  <2> DEFINE d == <<path[t]>> \o children[parent[t]]
  <2>3. d \in Seq(Path) /\ PathsIn(d) = PathsIn(children[parent[t]]) \cup {path[t]} /\ DistinctPaths(d)
    <3>1. PICK c, p : c = children[parent[t]] /\ p = path[t]
      OBVIOUS
    <3>2. c \in Seq(Path) /\ DistinctPaths(c) /\ p \in Path /\ p \notin PathsIn(c)
      BY <1>5, <2>1, <3>1
    <3>3. LET e == <<p>> \o c IN e \in Seq(Path) /\ PathsIn(e) = PathsIn(c) \cup {p} /\ DistinctPaths(e)
      BY <3>2, ChildAdded
    <3> QED BY <3>1, <3>3
  <2> HIDE DEF d
  <2>4. \A p \in Path : children'[p] = IF p = parent[t] THEN d ELSE children[p]
    BY <1>6, <2>1, <2>2 DEF d
  <2>5. \A p \in Path : Fine(p)
    BY <1>5, <2>1, <2>2, <2>3, <2>4
  <2> HIDE DEF Fine
  <2> QED BY <1>4, <1>6, <2>2, <2>5
<1>10. CASE Uprooted(t)
  <2>1. PICK gone, emptied \in SUBSET NodesIn(treeBuckets) : Uproots(gone, emptied)
    BY <1>10 DEF Uprooted
  <2>2. /\ NodesIn(treeBuckets') = NodesIn(treeBuckets) \ gone
        /\ children' = [p \in Path |-> IF p \in gone THEN <<>> ELSE Trees!Without(children[p], gone)]
        /\ \A p \in gone : PathsIn(children[p]) \subseteq gone
    BY <2>1 DEF Uproots
  <2>3. ASSUME NEW p \in Path PROVE Fine(p)
    <3>1. CASE p \in gone
      BY <1>7, <2>2, <3>1
    <3>2. CASE p \notin gone
      <4> DEFINE d == Trees!Without(children[p], gone)
      <4>1. children'[p] = d
        BY <2>2, <3>2
      <4>2. d \in Seq(Path) /\ PathsIn(d) = PathsIn(children[p]) \ gone /\ DistinctPaths(d)
        <5>1. PICK c : c = children[p]
          OBVIOUS
        <5>2. c \in Seq(Path) /\ DistinctPaths(c)
          BY <1>5, <5>1
        <5>3. LET e == Trees!Without(c, gone)
              IN  e \in Seq(Path) /\ PathsIn(e) = PathsIn(c) \ gone /\ DistinctPaths(e)
          BY <5>2, ChildrenThinned
        <5> QED BY <5>1, <5>3
      <4> HIDE DEF d
      <4> QED BY <1>5, <2>2, <3>2, <4>1, <4>2
    <3> QED BY <3>1, <3>2
  <2> HIDE DEF Fine
  <2> QED BY <1>4, <2>2, <2>3
<1> QED BY <1>3, <1>8, <1>9, <1>10, TreeMoves

\* Who is about to put a node on its parent's list.
LinksOf(u, p) == treePc[u] \in Linking /\ path[u] = p

LEMMA UnlinkedIs ==
  ASSUME NEW p
  PROVE  /\ Trees!Unlinked(p) <=> \E u \in Thread : LinksOf(u, p)
         /\ Trees!Unlinked(p)' <=> \E u \in Thread : treePc'[u] \in Linking /\ path'[u] = p
BY DEF Trees!Unlinked, LinksOf, Linking

LEMMA TreeFamilyStep ==
  ASSUME TreeInv, NEW t \in Thread, TreeAction(t)
  PROVE  FamilyInv'
<1>1. /\ TreeCallTypes /\ TreePathInv /\ ChildInv /\ FamilyInv /\ TreeOthers(t)
      /\ ParentOf \in [Path -> Path \cup {NoPath}] /\ NoPath \notin Path
  BY TreeCallStep, TreeConstants DEF TreeInv, TreeCallInv, ShapeInv
<1> DEFINE Then(u, p) == treePc'[u] \in Linking /\ path'[u] = p
           Fine(p) == /\ ParentOf[p] \in NodesIn(treeBuckets')
                      /\ (\E u \in Thread : Then(u, p)) \/ p \in PathsIn(children'[ParentOf[p]])
<1>2. SUFFICES ASSUME NEW p \in Path, p \in NodesIn(treeBuckets'), ParentOf[p] # NoPath PROVE Fine(p)
  <2>1. ASSUME \A p \in Path : p \in NodesIn(treeBuckets') /\ ParentOf[p] # NoPath => Fine(p)
        PROVE  FamilyInv'
    <3>1. \A p \in Path : Trees!Unlinked(p)' <=> \E u \in Thread : Then(u, p)
      BY UnlinkedIs
    <3> HIDE DEF Then
    <3> QED BY <2>1, <3>1 DEF FamilyInv, InTree
  <2> QED BY <2>1
<1>3. p \in NodesIn(treeBuckets) =>
        /\ ParentOf[p] \in NodesIn(treeBuckets)
        /\ (\E u \in Thread : LinksOf(u, p)) \/ p \in PathsIn(children[ParentOf[p]])
  BY <1>1, <1>2, UnlinkedIs DEF FamilyInv, InTree
<1>4. \A u \in Thread \ {t} : Then(u, p) <=> LinksOf(u, p)
  BY <1>1 DEF TreeOthers, LinksOf
<1>5. ParentOf[p] \in Path
  BY <1>1, <1>2
\* The others go on, and so does this thread if it was about to link the node.
<1>6. ASSUME LinksOf(t, p) => Then(t, p), NodesIn(treeBuckets') = NodesIn(treeBuckets), children' = children
      PROVE  Fine(p)
  <2> HIDE DEF Then
  <2>1. (\E u \in Thread : LinksOf(u, p)) => \E u \in Thread : Then(u, p)
    BY <1>4, <1>6
  <2> QED BY <1>2, <1>3, <1>6, <2>1
<1>7. CASE TreeQuiet(t) \/ RecordFound(t) \/ ChainsRebuilt(t) \/ RecordGiven(t) \/ RecordReferenced(t)
           \/ ChildRead(t)
  <2>1. NodesIn(treeBuckets') = NodesIn(treeBuckets) /\ children' = children
    BY <1>7 DEF TreeQuiet, RecordFound, ChainsRebuilt, RecordGiven, RecordReferenced, ChildRead, Standing
  <2>2. LinksOf(t, p) => Then(t, p)
    BY <1>7 DEF TreeQuiet, RecordFound, ChainsRebuilt, RecordGiven, RecordReferenced, ChildRead, LinksOf, Linking
  <2> QED BY <1>6, <2>1, <2>2
<1>8. CASE NodeCounted(t)
  <2>1. NodesIn(treeBuckets') = NodesIn(treeBuckets) /\ children' = children
    BY <1>8 DEF NodeCounted, Standing
  <2>2. parent[t] = ParentOf[path[t]]
    BY <1>1, <1>8 DEF NodeCounted, TreePathInv, Inserting
  <2>3. LinksOf(t, p) => Then(t, p)
    BY <1>2, <1>8, <2>2 DEF NodeCounted, LinksOf, Linking
  <2> QED BY <1>6, <2>1, <2>3
<1>9. CASE NodeLinked(t)
  <2>1. /\ path[t] \in Path /\ parent[t] = ParentOf[path[t]] /\ path[t] \notin NodesIn(treeBuckets)
        /\ parent[t] # NoPath => parent[t] \in NodesIn(treeBuckets)
        /\ NodesIn(treeBuckets') = NodesIn(treeBuckets) \cup {path[t]}
        /\ ~LinksOf(t, p) /\ (p = path[t] => Then(t, p))
    BY <1>1, <1>9 DEF NodeLinked, PathGrown, TreePathInv, Inserting, InTree, LinksOf, Linking
  <2>2. CASE p = path[t]
    BY <1>2, <2>1, <2>2
  <2>3. CASE p # path[t]
    <3>1. children'[ParentOf[p]] = children[ParentOf[p]]
      <4>1. ParentOf[p] # path[t]
        BY <1>2, <1>3, <2>1, <2>3
      <4> QED BY <1>1, <1>5, <1>9, <4>1 DEF NodeLinked, ChildInv
    <3>2. (\E u \in Thread : LinksOf(u, p)) => \E u \in Thread : Then(u, p)
      <4> HIDE DEF Then
      <4> QED BY <1>4, <2>1
    <3> HIDE DEF Then
    <3> QED BY <1>2, <1>3, <2>1, <2>3, <3>1, <3>2
  <2> QED BY <2>2, <2>3
<1>10. CASE ChildLinked(t)
  <2>1. /\ path[t] \in Path /\ parent[t] = ParentOf[path[t]] /\ parent[t] \in Path
        /\ treeBuckets' = treeBuckets /\ treePc[t] = "linkChild"
        /\ children' = [children EXCEPT ![parent[t]] = <<path[t]>> \o children[parent[t]]]
    BY <1>1, <1>10 DEF ChildLinked, TreePathInv, Inserting, TreeCallTypes
  <2>2. \A q \in Path : PathsIn(children'[q]) = PathsIn(children[q]) \cup (IF q = parent[t] THEN {path[t]} ELSE {})
    <3> TAKE q \in Path
    <3>1. CASE q # parent[t]
      BY <1>1, <2>1, <3>1 DEF ChildInv
    <3>2. CASE q = parent[t]
      <4>1. PICK c, s : c = children[q] /\ s = path[t]
        OBVIOUS
      <4>2. c \in Seq(Path) /\ DistinctPaths(c) /\ s \in Path /\ s \notin PathsIn(c)
        BY <1>1, <2>1, <4>1 DEF ChildInv, TreeInv, ShapeInv, UnlinkedInv, Linking
      <4>3. LET e == <<s>> \o c IN e \in Seq(Path) /\ PathsIn(e) = PathsIn(c) \cup {s} /\ DistinctPaths(e)
        BY <4>2, ChildAdded
      <4>4. children'[q] = <<s>> \o c
        BY <1>1, <2>1, <3>2, <4>1 DEF ChildInv
      <4> QED BY <3>2, <4>1, <4>3, <4>4
    <3> QED BY <3>1, <3>2
  <2>3. LinksOf(t, p) => p = path[t]
    BY DEF LinksOf
  <2> HIDE DEF Then
  <2>4. (\E u \in Thread : LinksOf(u, p)) => (\E u \in Thread : Then(u, p)) \/ p = path[t]
    BY <1>4, <2>3
  <2> QED BY <1>2, <1>3, <1>5, <2>1, <2>2, <2>4
<1>11. CASE Uprooted(t)
  <2>1. PICK gone, emptied \in SUBSET NodesIn(treeBuckets) : Uproots(gone, emptied)
    BY <1>11 DEF Uprooted
  <2>2. /\ NodesIn(treeBuckets') = NodesIn(treeBuckets) \ gone
        /\ children' = [q \in Path |-> IF q \in gone THEN <<>> ELSE Trees!Without(children[q], gone)]
        /\ \A q \in gone : PathsIn(children[q]) \subseteq gone
    BY <2>1 DEF Uproots
  <2>3. \A u \in Thread : ~LinksOf(u, p)
    BY <1>11, TreeAlone DEF Uprooted, ExclusivePcs, TreeSharedPcs, Inserting, Linking, LinksOf
  <2>4. /\ p \in PathsIn(children[ParentOf[p]]) /\ ParentOf[p] \in NodesIn(treeBuckets') /\ p \notin gone
        /\ ParentOf[p] \notin gone
    BY <1>2, <1>3, <2>2, <2>3
  <2>5. p \in PathsIn(children'[ParentOf[p]])
    <3>1. PICK c : c = children[ParentOf[p]]
      OBVIOUS
    <3>2. c \in Seq(Path) /\ DistinctPaths(c)
      BY <1>1, <1>5, <3>1 DEF ChildInv
    <3>3. LET e == Trees!Without(c, gone)
          IN  e \in Seq(Path) /\ PathsIn(e) = PathsIn(c) \ gone /\ DistinctPaths(e)
      BY <3>2, ChildrenThinned
    <3>4. children'[ParentOf[p]] = Trees!Without(c, gone)
      BY <1>5, <2>2, <2>4, <3>1
    <3> QED BY <2>4, <3>1, <3>3, <3>4
  <2> QED BY <2>4, <2>5
<1> QED BY <1>7, <1>8, <1>9, <1>10, <1>11, TreeMoves

LEMMA TreeUnlinkedStep ==
  ASSUME TreeInv, NEW t \in Thread, TreeAction(t)
  PROVE  UnlinkedInv'
<1>1. TreeCallTypes /\ TreePathInv /\ ChildInv /\ UnlinkedInv /\ TreeOthers(t)
  BY TreeCallStep DEF TreeInv, TreeCallInv, ShapeInv
<1> DEFINE Links(u) == treePc[u] \in Linking  Then(u) == treePc'[u] \in Linking
<1>2. /\ \A u \in Thread : Links(u) => \A p \in Path : path[u] \notin PathsIn(children[p])
      /\ \A u, v \in Thread : Links(u) /\ Links(v) /\ path[u] = path[v] => u = v
  BY <1>1 DEF UnlinkedInv
<1>3. SUFFICES /\ \A u \in Thread : Then(u) => \A p \in Path : path'[u] \notin PathsIn(children'[p])
               /\ \A u, v \in Thread : Then(u) /\ Then(v) /\ path'[u] = path'[v] => u = v
  BY DEF UnlinkedInv
<1>4. \A u \in Thread \ {t} : (Then(u) <=> Links(u)) /\ path'[u] = path[u]
  BY <1>1 DEF TreeOthers
<1>5. CASE TreeQuiet(t) \/ RecordFound(t) \/ ChainsRebuilt(t) \/ RecordGiven(t) \/ RecordReferenced(t)
           \/ ChildRead(t) \/ NodeCounted(t)
  <2>1. children' = children
    BY <1>5 DEF TreeQuiet, RecordFound, ChainsRebuilt, RecordGiven, RecordReferenced, ChildRead, NodeCounted,
       Standing
  <2>2. Then(t) => Links(t) /\ path'[t] = path[t]
    BY <1>5 DEF TreeQuiet, RecordFound, ChainsRebuilt, RecordGiven, RecordReferenced, ChildRead, NodeCounted, Linking
  <2> HIDE DEF Links, Then
  <2> QED BY <1>2, <1>4, <2>1, <2>2
<1>6. CASE NodeLinked(t)
  <2>1. /\ path[t] \in Path /\ path[t] \notin NodesIn(treeBuckets) /\ path'[t] = path[t]
        /\ children' = [children EXCEPT ![path[t]] = <<>>]
    BY <1>1, <1>6 DEF NodeLinked, PathGrown, TreePathInv, Inserting
  <2>2. \A p \in Path : PathsIn(children'[p]) \subseteq PathsIn(children[p])
    <3> TAKE p \in Path
    <3>1. children'[p] = IF p = path[t] THEN <<>> ELSE children[p]
      BY <1>1, <2>1 DEF ChildInv
    <3>2. PathsIn(<<>>) = {}
      BY DEF PathsIn, Trees!ToSet
    <3> QED BY <3>1, <3>2
  <2>3. \A p \in Path : path[t] \notin PathsIn(children[p])
    BY <1>1, <2>1 DEF ChildInv, InTree
  <2>4. \A u \in Thread \ {t} : Links(u) => path[u] # path[t]
    BY <1>1, <2>1 DEF TreePathInv, InTree
  <2> HIDE DEF Links, Then
  <2> QED BY <1>2, <1>4, <2>1, <2>2, <2>3, <2>4
<1>7. CASE ChildLinked(t)
  <2>1. /\ path[t] \in Path /\ parent[t] \in Path /\ ~Then(t) /\ Links(t)
        /\ children' = [children EXCEPT ![parent[t]] = <<path[t]>> \o children[parent[t]]]
    BY <1>1, <1>7 DEF ChildLinked, TreePathInv, Inserting, TreeCallTypes, Linking
  <2>2. \A q \in Path : PathsIn(children'[q]) \subseteq PathsIn(children[q]) \cup {path[t]}
    <3> TAKE q \in Path
    <3>1. CASE q # parent[t]
      BY <1>1, <2>1, <3>1 DEF ChildInv
    <3>2. CASE q = parent[t]
      <4>1. PICK c, s : c = children[q] /\ s = path[t]
        OBVIOUS
      <4>2. c \in Seq(Path) /\ DistinctPaths(c) /\ s \in Path /\ s \notin PathsIn(c)
        BY <1>1, <1>2, <2>1, <4>1 DEF ChildInv
      <4>3. LET e == <<s>> \o c IN e \in Seq(Path) /\ PathsIn(e) = PathsIn(c) \cup {s} /\ DistinctPaths(e)
        BY <4>2, ChildAdded
      <4>4. children'[q] = <<s>> \o c
        BY <1>1, <2>1, <3>2, <4>1 DEF ChildInv
      <4> QED BY <4>1, <4>3, <4>4
    <3> QED BY <3>1, <3>2
  <2>3. \A u \in Thread \ {t} : Links(u) => path[u] # path[t]
    BY <1>2, <2>1
  <2> HIDE DEF Links, Then
  <2> QED BY <1>2, <1>4, <2>1, <2>2, <2>3
<1>8. CASE Uprooted(t)
  <2>1. \A u \in Thread : ~Links(u)
    BY <1>8, TreeAlone DEF Uprooted, ExclusivePcs, TreeSharedPcs, Inserting, Linking
  <2>2. ~Then(t)
    BY <1>8 DEF Uprooted, Linking
  <2> HIDE DEF Links, Then
  <2> QED BY <1>4, <2>1, <2>2
<1> QED BY <1>5, <1>6, <1>7, <1>8, TreeMoves

-----------------------------------------------------------------------------
(* Insertions and walks beside each other                                  *)

\* Which steps lead where, and keep what a call is about.
Walking(t) == Trees!StartApply(t) \/ Trees!ApplyNode(t) \/ Trees!ApplyBucket(t)
GoesOn(t) ==
  /\ treePc[t] \notin {"idle", "Apply"}
  /\ treePc'[t] = "link" => Trees!Search(t)
  /\ atBucket' = atBucket /\ treePc'[t] # "Apply"
  /\ ~(treePc'[t] = "unlockShared" /\ treeOp'[t] = "Apply")
  /\ treeOp'[t] = "Insert" => treeOp[t] = "Insert" /\ treeRec'[t] = treeRec[t]
Called(t) ==
  \E o \in TreeOpNames, r \in TreeRecord :
    Trees!Invoke(t, o, r)

LEMMA TreeGoesOn ==
  ASSUME TreeInv, NEW t \in Thread, TreeAction(t)
  PROVE  GoesOn(t) \/ Walking(t) \/ Called(t)
<1>1. TreeCallTypes /\ TreeCallPlaces
  BY DEF TreeInv, TreeCallInv
<1>2. CASE \E o \in TreeOpNames, r \in TreeRecord : Trees!Invoke(t, o, r)
  BY <1>2 DEF Called
<1>3. CASE Trees!LockShared(t)
  BY <1>1, <1>3 DEF GoesOn, Inserting, ExclusiveOps, SharedOps, TreeCallTypes, TreeCallPlaces, Trees!LockShared,
     Trees!Goto, Trees!Return, Trees!tree, Trees!lock, Trees!counts, Trees!call, Trees!walk, Trees!locals
<1>4. CASE Trees!UnlockShared(t)
  BY <1>1, <1>4 DEF GoesOn, Inserting, ExclusiveOps, SharedOps, TreeCallTypes, TreeCallPlaces, Trees!UnlockShared,
     Trees!Goto, Trees!Return, Trees!tree, Trees!lock, Trees!counts, Trees!call, Trees!walk, Trees!locals
<1>5. CASE Trees!LockExclusive(t)
  BY <1>1, <1>5 DEF GoesOn, Inserting, ExclusiveOps, SharedOps, TreeCallTypes, TreeCallPlaces, Trees!LockExclusive,
     Trees!Goto, Trees!Return, Trees!tree, Trees!lock, Trees!counts, Trees!call, Trees!walk, Trees!locals
<1>6. CASE Trees!UnlockExclusive(t)
  BY <1>1, <1>6 DEF GoesOn, Inserting, ExclusiveOps, SharedOps, TreeCallTypes, TreeCallPlaces, Trees!UnlockExclusive,
     Trees!Goto, Trees!Return, Trees!tree, Trees!lock, Trees!counts, Trees!call, Trees!walk, Trees!locals
<1>7. CASE Trees!FindNode(t)
  BY <1>1, <1>7 DEF GoesOn, Inserting, ExclusiveOps, SharedOps, TreeCallTypes, TreeCallPlaces, Trees!FindNode,
     Trees!Goto, Trees!Return, Trees!tree, Trees!lock, Trees!counts, Trees!call, Trees!walk, Trees!locals
<1>8. CASE Trees!Take(t)
  BY <1>1, <1>8 DEF GoesOn, Inserting, ExclusiveOps, SharedOps, TreeCallTypes, TreeCallPlaces, Trees!Take, Trees!Goto,
     Trees!Return, Trees!tree, Trees!lock, Trees!counts, Trees!call, Trees!walk, Trees!locals
<1>9. CASE Trees!StartApply(t)
  BY <1>9 DEF Walking
<1>10. CASE Trees!ApplyNode(t)
  BY <1>10 DEF Walking
<1>11. CASE Trees!ApplyBucket(t)
  BY <1>11 DEF Walking
<1>12. CASE Trees!Ascend(t)
  BY <1>1, <1>12 DEF GoesOn, Inserting, ExclusiveOps, SharedOps, TreeCallTypes, TreeCallPlaces, Trees!Ascend,
     Trees!Goto, Trees!Return, Trees!tree, Trees!lock, Trees!counts, Trees!call, Trees!walk, Trees!locals
<1>13. CASE Trees!Allocate(t)
  BY <1>1, <1>13 DEF GoesOn, Inserting, ExclusiveOps, SharedOps, TreeCallTypes, TreeCallPlaces, Trees!Allocate,
     Trees!Goto, Trees!Return, Trees!tree, Trees!lock, Trees!counts, Trees!call, Trees!walk, Trees!locals
<1>14. CASE Trees!Search(t)
  BY <1>1, <1>14 DEF GoesOn, Inserting, ExclusiveOps, SharedOps, TreeCallTypes, TreeCallPlaces, Trees!Search,
     Trees!Goto, Trees!Return, Trees!tree, Trees!lock, Trees!counts, Trees!call, Trees!walk, Trees!locals
<1>15. CASE Trees!PassNode(t)
  <2>1. /\ treePc[t] = "setRecord" /\ treeOp' = treeOp /\ treeRec' = treeRec /\ atBucket' = atBucket
        /\ (Trees!Descend(t, treePc[t]))
    BY <1>15 DEF Trees!PassNode, Trees!Goto, Trees!Descend, Trees!call, Trees!walk
  <2>2. treePc'[t] \in {"unlockShared", "add", "readChild"} /\ treeOp[t] = "Insert"
    BY <1>1, <2>1, DescendIs DEF TreeCallTypes, TreeCallPlaces, Inserting
  <2> QED BY <2>1, <2>2 DEF GoesOn
<1>16. CASE Trees!SetRecord(t)
  BY <1>1, <1>16 DEF GoesOn, Inserting, ExclusiveOps, SharedOps, TreeCallTypes, TreeCallPlaces, Trees!SetRecord,
     Trees!Goto, Trees!Return, Trees!tree, Trees!lock, Trees!counts, Trees!call, Trees!walk, Trees!locals
<1>17. CASE Trees!ReferenceSet(t)
  BY <1>1, <1>17 DEF GoesOn, Inserting, ExclusiveOps, SharedOps, TreeCallTypes, TreeCallPlaces, Trees!ReferenceSet,
     Trees!Goto, Trees!Return, Trees!tree, Trees!lock, Trees!counts, Trees!call, Trees!walk, Trees!locals
<1>18. CASE Trees!LinkNode(t)
  BY <1>1, <1>18 DEF GoesOn, Inserting, ExclusiveOps, SharedOps, TreeCallTypes, TreeCallPlaces, Trees!LinkNode,
     Trees!Goto, Trees!Return, Trees!tree, Trees!lock, Trees!counts, Trees!call, Trees!walk, Trees!locals
<1>19. CASE Trees!Relink(t)
  BY <1>1, <1>19 DEF GoesOn, Inserting, ExclusiveOps, SharedOps, TreeCallTypes, TreeCallPlaces, Trees!Relink,
     Trees!Goto, Trees!Return, Trees!tree, Trees!lock, Trees!counts, Trees!call, Trees!walk, Trees!locals
<1>20. CASE Trees!Reference(t)
  BY <1>1, <1>20 DEF GoesOn, Inserting, ExclusiveOps, SharedOps, TreeCallTypes, TreeCallPlaces, Trees!Reference,
     Trees!Goto, Trees!Return, Trees!tree, Trees!lock, Trees!counts, Trees!call, Trees!walk, Trees!locals
<1>21. CASE Trees!IncrementItems(t)
  <2>1. /\ treePc[t] = "count" /\ treeOp' = treeOp /\ treeRec' = treeRec /\ atBucket' = atBucket
        /\ (Trees!Descend(t, treePc[t]) \/ treePc' = [treePc EXCEPT ![t] = "readChild"])
    BY <1>21 DEF Trees!IncrementItems, Trees!Goto, Trees!Descend, Trees!call, Trees!walk
  <2>2. treePc'[t] \in {"unlockShared", "add", "readChild"} /\ treeOp[t] = "Insert"
    BY <1>1, <2>1, DescendIs DEF TreeCallTypes, TreeCallPlaces, Inserting
  <2> QED BY <2>1, <2>2 DEF GoesOn
<1>22. CASE Trees!ReadFirstChild(t)
  BY <1>1, <1>22 DEF GoesOn, Inserting, ExclusiveOps, SharedOps, TreeCallTypes, TreeCallPlaces, Trees!ReadFirstChild,
     Trees!Goto, Trees!Return, Trees!tree, Trees!lock, Trees!counts, Trees!call, Trees!walk, Trees!locals
<1>23. CASE Trees!LinkChild(t)
  <2>1. /\ treePc[t] = "linkChild" /\ treeOp' = treeOp /\ treeRec' = treeRec /\ atBucket' = atBucket
        /\ (Trees!Descend(t, treePc[t]) \/ treePc' = [treePc EXCEPT ![t] = "readChild"])
    BY <1>23 DEF Trees!LinkChild, Trees!Goto, Trees!Descend, Trees!call, Trees!walk
  <2>2. treePc'[t] \in {"unlockShared", "add", "readChild"} /\ treeOp[t] = "Insert"
    BY <1>1, <2>1, DescendIs DEF TreeCallTypes, TreeCallPlaces, Inserting
  <2> QED BY <2>1, <2>2 DEF GoesOn
<1>24. CASE Trees!DeleteKey(t)
  BY <1>1, <1>24 DEF GoesOn, Inserting, ExclusiveOps, SharedOps, TreeCallTypes, TreeCallPlaces, Trees!DeleteKey,
     Trees!Goto, Trees!Return, Trees!tree, Trees!lock, Trees!counts, Trees!call, Trees!walk, Trees!locals
<1>25. CASE Trees!DeleteIf(t)
  BY <1>1, <1>25 DEF GoesOn, Inserting, ExclusiveOps, SharedOps, TreeCallTypes, TreeCallPlaces, Trees!DeleteIf,
     Trees!Goto, Trees!Return, Trees!tree, Trees!lock, Trees!counts, Trees!call, Trees!walk, Trees!locals
<1>26. CASE Trees!Clear(t)
  BY <1>1, <1>26 DEF GoesOn, Inserting, ExclusiveOps, SharedOps, TreeCallTypes, TreeCallPlaces, Trees!Clear,
     Trees!Goto, Trees!Return, Trees!tree, Trees!lock, Trees!counts, Trees!call, Trees!walk, Trees!locals
<1>27. CASE Trees!CheckSize(t)
  BY <1>1, <1>27 DEF GoesOn, Inserting, ExclusiveOps, SharedOps, TreeCallTypes, TreeCallPlaces, Trees!CheckSize,
     Trees!Goto, Trees!Return, Trees!tree, Trees!lock, Trees!counts, Trees!call, Trees!walk, Trees!locals
<1>28. CASE Trees!Rehash(t)
  BY <1>1, <1>28 DEF GoesOn, Inserting, ExclusiveOps, SharedOps, TreeCallTypes, TreeCallPlaces, Trees!Rehash,
     Trees!Goto, Trees!Return, Trees!tree, Trees!lock, Trees!counts, Trees!call, Trees!walk, Trees!locals
<1> QED BY <1>2, <1>3, <1>4, <1>5, <1>6, <1>7, <1>8, <1>9, <1>10, <1>11, <1>12, <1>13, <1>14, <1>15, <1>16, <1>17,
   <1>18, <1>19, <1>20, <1>21, <1>22, <1>23, <1>24, <1>25, <1>26, <1>27, <1>28 DEF TreeAction, Trees!Step

\* The chains change only by the insertion of a node while the lock is shared.
LEMMA TreeChainsStep ==
  ASSUME TreeInv, NEW t \in Thread, TreeAction(t), treePc[t] \notin ExclusiveOps
  PROVE  treeBuckets' = treeBuckets \/ NodeLinked(t)
BY TreeMoves DEF TreeQuiet, RecordFound, ChainsRebuilt, RecordGiven, RecordReferenced, NodeCounted, ChildRead,
   ChildLinked, Uprooted, Standing, ExclusiveOps

LEMMA TreeSearchStep ==
  ASSUME TreeInv, NEW t \in Thread, TreeAction(t)
  PROVE  TreeSearchInv'
<1>1. /\ TreeCallTypes /\ TreeCallPlaces /\ TreeSearchInv /\ TreePathInv /\ TreeCallTypes' /\ TreeCallPlaces'
      /\ TreeOthers(t) /\ TreeGood(treeBuckets) /\ TreeGood(treeBuckets')
  BY TreeCallStep, TreeGrows DEF TreeInv, TreeCallInv
<1> DEFINE Then(u) == PathSearchKnows(treeBuckets'[PathHome(treeBuckets', path'[u])], treePrev'[u], treeNext'[u], path'[u])
<1>2. ASSUME NEW u \in Thread \ {t}, treePc[u] = "link"
      PROVE  Then(u)
  <2>1. /\ path[u] \in Path /\ path'[u] = path[u] /\ treePrev'[u] = treePrev[u] /\ treeNext'[u] = treeNext[u]
        /\ PathSearchKnows(treeBuckets[PathHome(treeBuckets, path[u])], treePrev[u], treeNext[u], path[u])
    BY <1>1, <1>2 DEF TreePathInv, TreeSearchInv, Inserting, TreeOthers
  <2>2. treePc[t] \notin ExclusiveOps
    BY <1>2, TreeAlone DEF TreeSharedPcs, ExclusivePcs, Inserting
  <2>3. CASE treeBuckets' = treeBuckets
    BY <2>1, <2>3
  <2>4. CASE NodeLinked(t)
    <3> DEFINE h == PathHome(treeBuckets, path[u])  c == treeBuckets[h]  d == treeBuckets'[h]  p == treePrev[u]
               r == path[u]  s == path[t]
    <3>0. PathGrown(treeBuckets, treeBuckets', s)
      BY <2>4 DEF NodeLinked
    <3>1. h \in DOMAIN treeBuckets /\ PathHome(treeBuckets', r) = h /\ s \in Path
      BY <1>1, <2>1, <2>4, <3>0, TreeBucketFacts DEF PathHome, PathGrown, NodeLinked, TreePathInv, Inserting
    <3>2. PathsIn(c) \subseteq PathsIn(d) /\ \A x, y \in Path \cup {NoPath} : PathFollows(c, x, y) => PathFollows(d, x, y)
      BY <3>0, <3>1 DEF PathGrown
    <3>3. PathsIn(c) \subseteq Path /\ p \in Path \cup {NoPath}
      BY <1>1, <2>1, <3>1, TreeBucketFacts DEF PathSearchKnows
    <3>4. ASSUME r \in PathsIn(d) PROVE PathFollows(d, p, r)
      <4>1. CASE r \in PathsIn(c)
        <5>1. PathFollows(c, p, r)
          BY <2>1, <4>1 DEF PathSearchKnows
        <5> QED BY <3>2, <3>3, <4>1, <5>1
      <4>2. CASE r \notin PathsIn(c)
        <5>1. r = s /\ h = PathHome(treeBuckets, s)
          <6>1. PathHome(treeBuckets, s) # h => d = c
            BY <3>0, <3>1 DEF PathGrown
          <6> QED BY <3>0, <3>4, <4>2, <6>1 DEF PathGrown
        <5>2. CASE p = NoPath
          <6>1. d \in Seq(Path)
            <7>1. h \in DOMAIN treeBuckets'
              BY <3>0, <3>1 DEF PathGrown
            <7> QED BY <1>1, <7>1 DEF TreeGood
          <6> HIDE DEF d, r
          <6>2. PICK j \in DOMAIN d : d[j] = r
            BY <3>4, <6>1, PathChainFacts
          <6> QED BY <5>2, <6>2 DEF PathFollows
        <5>3. CASE p # NoPath
          <6>1. p \in PathsIn(c) /\ PathHash[p] <= PathHash[r]
            BY <2>1, <5>3 DEF PathSearchKnows
          <6> QED BY <3>0, <5>1, <6>1 DEF PathGrown
        <5> QED BY <5>2, <5>3
      <4> QED BY <4>1, <4>2
    <3>5. \A x \in PathsIn(d) : x = r => PathFollows(d, p, x)
      BY <3>4
    <3>6. PathSearchKnows(d, p, treeNext[u], r)
      BY <2>1, <3>2, <3>5 DEF PathSearchKnows
    <3> QED BY <2>1, <3>1, <3>6
  <2> QED BY <2>2, <2>3, <2>4, TreeChainsStep
<1>3. ASSUME treePc'[t] = "link"
      PROVE  Then(t)
  <2>1. Trees!Search(t)
    <3>1. CASE Called(t)
      BY <1>1, <1>3, <3>1 DEF Called, Trees!Invoke, Trees!Goto, TreeCallTypes
    <3>2. CASE Walking(t)
      BY <1>1, <1>3, <3>2 DEF Walking, Trees!StartApply, Trees!ApplyNode, Trees!ApplyBucket, Trees!Goto, TreeCallTypes
    <3> QED BY <1>3, <3>1, <3>2, TreeGoesOn DEF GoesOn
  <2> DEFINE r == path[t]  k == Trees!Passed(Trees!Chain(r), PathHash[r])
             p == IF k = 0 THEN NoPath ELSE Trees!Chain(r)[k]
  <2>2. /\ r \notin Trees!Nodes /\ treePc[t] = "search" /\ treeBuckets' = treeBuckets /\ path' = path
        /\ treePrev'[t] = p /\ treeNext'[t] = Trees!Behind(Trees!Chain(r), p)
    BY <1>1, <1>3, <2>1 DEF Trees!Search, Trees!Goto, Trees!tree, TreeCallTypes
  <2>3. r \in Path /\ ~InTree(r)
    BY <1>1, <2>2, NodesAre DEF TreePathInv, Inserting, InTree
  <2>4. PathSearchKnows(treeBuckets[PathHome(treeBuckets, r)], p, Trees!Behind(Trees!Chain(r), p), r)
    <3> HIDE DEF r
    <3> QED BY <1>1, <2>3, TreeSearchEnds
  <2> QED BY <2>2, <2>4
<1>4. \A u \in Thread : treePc'[u] = "link" => Then(u)
  <2> HIDE DEF Then
  <2> QED BY <1>1, <1>2, <1>3 DEF TreeOthers
<1> QED BY <1>4 DEF TreeSearchInv

\* A record that is at its node stays there while the lock is shared.
LEMMA TreeKeeps ==
  ASSUME TreeInv, NEW t \in Thread, TreeAction(t), treePc[t] \notin ExclusiveOps, NEW r \in TreeRecord, TreeHas(r)
  PROVE  TreeHas(r)'
<1>1. /\ PathOf[r] \in Path /\ payload[PathOf[r]] = r /\ r # NoRecord /\ NodeInv /\ TreePathInv /\ InTree(PathOf[r])
  BY TreeConstants DEF TreeInv, ShapeInv, TreeHas, NodeInv
<1>2. CASE payload' = payload
  BY <1>1, <1>2 DEF TreeHas
<1>3. CASE RecordGiven(t)
  BY <1>1, <1>3 DEF RecordGiven, NodeInv, TreeHas
<1>4. CASE NodeLinked(t)
  <2>1. PathOf[r] # path[t]
    BY <1>1, <1>4 DEF NodeLinked, PathGrown, InTree
  <2> QED BY <1>1, <1>4, <2>1 DEF NodeLinked, NodeInv, TreeHas
<1> QED BY <1>2, <1>3, <1>4, TreeMoves DEF TreeQuiet, RecordFound, ChainsRebuilt, RecordReferenced, NodeCounted,
           ChildRead, ChildLinked, Uprooted, Standing, ExclusiveOps

\* What is ahead stays ahead while nodes come in.
LEMMA StaysAhead ==
  ASSUME NEW bs, NEW ds, NEW s, PathGrown(bs, ds, s), NEW i \in DOMAIN bs, NEW q \in Path \cup {NoPath},
         NEW r \in Path, PathAhead(bs, i, q, r)
  PROVE  PathAhead(ds, i, q, r)
<1>1. PathHome(ds, r) = PathHome(bs, r) /\ (PathFollows(bs[i], q, r) => PathFollows(ds[i], q, r))
  BY DEF PathGrown, PathHome
<1> QED BY <1>1 DEF PathAhead

LEMMA TreeApplyStep ==
  ASSUME TreeInv, NEW t \in Thread, TreeAction(t)
  PROVE  TreeApplyInv'
<1>1. /\ TreeCallTypes /\ TreeCallPlaces /\ TreeApplyInv /\ TreeCallTypes' /\ TreeCallPlaces' /\ TreeOthers(t)
      /\ TreeGood(treeBuckets) /\ NodeInv
      /\ Trees!Nodes = NodesIn(treeBuckets) /\ Trees!nBuckets = TreeSize(treeBuckets)
  BY TreeCallStep, NodesAre DEF TreeInv, TreeCallInv, ShapeInv
<1>2. /\ NodesIn(treeBuckets) \subseteq Path /\ TreeSize(treeBuckets) \in Nat \ {0}
      /\ DOMAIN treeBuckets = 0 .. TreeSize(treeBuckets) - 1
      /\ \A r \in Path : PathHome(treeBuckets, r) \in 0 .. TreeSize(treeBuckets) - 1
      /\ NoPath \notin Path /\ NoRecord \notin TreeRecord /\ PathOf \in [TreeRecord -> Path]
  <2>1. /\ NodesIn(treeBuckets) \subseteq Path /\ DOMAIN treeBuckets = 0 .. TreeSize(treeBuckets) - 1
        /\ \A r \in Path : PathHome(treeBuckets, r) \in DOMAIN treeBuckets
    BY <1>1, TreeBucketFacts
  <2> QED BY <1>1, <2>1, TreeConstants DEF TreeGood
<1>3. \A r \in TreeRecord : TreeHas(r) => PathOf[r] \in NodesIn(treeBuckets) /\ PathOf[r] \in Path
  BY <1>1, <1>2 DEF TreeHas, NodeInv, InTree
<1> DEFINE Has(r) == payload'[PathOf[r]] = r
           Walks(u) ==
             /\ atBucket[u] \in DOMAIN treeBuckets
             /\ treeNext[u] \in PathsIn(treeBuckets[atBucket[u]]) \cup {NoPath}
             /\ \A r \in treeToApply[u] : TreeHas(r) /\ PathAhead(treeBuckets, atBucket[u], treeNext[u], PathOf[r])
           WalksOn(u) ==
             /\ atBucket'[u] \in DOMAIN treeBuckets'
             /\ treeNext'[u] \in PathsIn(treeBuckets'[atBucket'[u]]) \cup {NoPath}
             /\ \A r \in treeToApply'[u] : Has(r) /\ PathAhead(treeBuckets', atBucket'[u], treeNext'[u], PathOf[r])
           Then(u) == /\ IF treePc'[u] # "Apply" THEN atBucket'[u] = 0 ELSE WalksOn(u)
                      /\ treePc'[u] = "unlockShared" /\ treeOp'[u] = "Apply" => treeToApply'[u] = {}
<1>4. \A u \in Thread : /\ IF treePc[u] # "Apply" THEN atBucket[u] = 0 ELSE Walks(u)
                        /\ treePc[u] = "unlockShared" /\ treeOp[u] = "Apply" => treeToApply[u] = {}
  BY <1>1 DEF TreeApplyInv
<1>5. SUFFICES \A u \in Thread : Then(u)
  <2>1. ASSUME \A u \in Thread : Then(u) PROVE TreeApplyInv'
    BY <2>1 DEF TreeApplyInv, TreeHas
  <2> HIDE DEF Then
  <2> QED BY <2>1
<1>6. ASSUME NEW u \in Thread \ {t}, treePc[u] = "Apply" PROVE WalksOn(u)
  <2>1. treePc[t] \notin ExclusiveOps
    BY <1>6, TreeAlone DEF TreeSharedPcs, ExclusivePcs
  <2>2. /\ atBucket'[u] = atBucket[u] /\ treeNext'[u] = treeNext[u] /\ treeToApply'[u] = treeToApply[u] /\ Walks(u)
        /\ treeToApply[u] \subseteq TreeRecord
    BY <1>1, <1>4, <1>6 DEF TreeOthers, TreeCallTypes
  <2>3. \A r \in treeToApply[u] : Has(r)
    BY <2>1, <2>2, TreeKeeps DEF TreeHas
  <2>4. CASE treeBuckets' = treeBuckets
    BY <2>2, <2>3, <2>4
  <2>5. CASE NodeLinked(t)
    <3>0. PathGrown(treeBuckets, treeBuckets', path[t])
      BY <2>5 DEF NodeLinked
    <3>1. atBucket[u] \in DOMAIN treeBuckets' /\ treeNext[u] \in PathsIn(treeBuckets'[atBucket[u]]) \cup {NoPath}
      BY <2>2, <3>0 DEF PathGrown
    <3>2. ASSUME NEW r \in treeToApply[u] PROVE PathAhead(treeBuckets', atBucket[u], treeNext[u], PathOf[r])
      <4>1. PathAhead(treeBuckets, atBucket[u], treeNext[u], PathOf[r]) /\ PathOf[r] \in Path
        BY <1>3, <2>2, <3>2
      <4>2. treeNext[u] \in Path \cup {NoPath} /\ atBucket[u] \in DOMAIN treeBuckets
        BY <1>1, <2>2 DEF TreeCallTypes
      <4> QED BY <3>0, <4>1, <4>2, StaysAhead
    <3> QED BY <2>2, <2>3, <3>1, <3>2
  <2> QED BY <2>1, <2>4, <2>5, TreeChainsStep
<1>7. ASSUME NEW u \in Thread \ {t} PROVE Then(u)
  <2>1. treePc'[u] = treePc[u] /\ treeOp'[u] = treeOp[u] /\ treeToApply'[u] = treeToApply[u] /\ atBucket'[u] = atBucket[u]
    BY <1>1 DEF TreeOthers
  <2> HIDE DEF Walks, WalksOn
  <2> QED BY <1>4, <1>6, <2>1
<1>8. Then(t)
  <2>1. ASSUME Trees!StartApply(t) PROVE Then(t)
    <3>1. /\ treePc'[t] = "Apply" /\ atBucket'[t] = 0 /\ treeNext'[t] = Trees!Behind(treeBuckets[0], NoPath)
          /\ treeToApply'[t] = Trees!RecordsInTable /\ treeBuckets' = treeBuckets /\ payload' = payload
      BY <1>1, <2>1 DEF Trees!StartApply, Trees!Goto, Trees!tree, TreeCallTypes
    <3>2. 0 \in DOMAIN treeBuckets
      BY <1>2
    <3>3. /\ treeNext'[t] \in PathsIn(treeBuckets[0]) \cup {NoPath}
          /\ \A r \in NodesIn(treeBuckets) :
               PathHome(treeBuckets, r) >= 0 => PathAhead(treeBuckets, 0, treeNext'[t], r)
      <4> PICK q : q = treeNext'[t]
        OBVIOUS
      <4>1. q = Trees!Behind(treeBuckets[0], NoPath)
        BY <3>1
      <4> QED BY <1>1, <3>2, <4>1, TreeApplyGoesOn
    <3>4. \A r \in Trees!RecordsInTable : r \in TreeRecord /\ TreeHas(r)
      BY <1>1, <1>2 DEF Trees!RecordsInTable, NodeInv, TreeHas
    <3>5. \A r \in NodesIn(treeBuckets) : PathHome(treeBuckets, r) >= 0
      BY <1>2
    <3> QED BY <1>3, <3>1, <3>2, <3>3, <3>4, <3>5 DEF TreeHas
  <2>2. ASSUME Trees!ApplyNode(t) PROVE Then(t)
    <3>1. /\ treePc[t] = "Apply" /\ treePc' = treePc /\ treeNext[t] # NoPath /\ atBucket' = atBucket
          /\ treeBuckets' = treeBuckets /\ payload' = payload
          /\ treeToApply'[t] = treeToApply[t] \ {payload[treeNext[t]]}
          /\ treeNext'[t] = Trees!Behind(treeBuckets[atBucket[t]], treeNext[t])
      BY <1>1, <2>2 DEF Trees!ApplyNode, Trees!tree, TreeCallTypes
    <3>2. Walks(t) /\ treeToApply[t] \subseteq TreeRecord
      BY <1>1, <1>4, <3>1 DEF TreeCallTypes
    <3>3. /\ treeNext'[t] \in PathsIn(treeBuckets[atBucket[t]]) \cup {NoPath}
          /\ \A r \in NodesIn(treeBuckets) :
               r # treeNext[t] /\ PathAhead(treeBuckets, atBucket[t], treeNext[t], r) =>
               PathAhead(treeBuckets, atBucket[t], treeNext'[t], r)
      <4> PICK q, p, i : q = treeNext'[t] /\ p = treeNext[t] /\ i = atBucket[t]
        OBVIOUS
      <4>1. /\ q = Trees!Behind(treeBuckets[i], p) /\ i \in DOMAIN treeBuckets /\ p # NoPath
            /\ p \in PathsIn(treeBuckets[i]) \cup {NoPath}
        BY <3>1, <3>2
      <4> QED BY <1>1, <4>1, TreeApplyGoesOn
    <3>4. \A r \in treeToApply'[t] : r \in treeToApply[t] /\ TreeHas(r) /\ PathOf[r] # treeNext[t]
                                     /\ PathOf[r] \in NodesIn(treeBuckets)
      BY <1>3, <3>1, <3>2 DEF TreeHas
    <3> QED BY <3>1, <3>2, <3>3, <3>4 DEF TreeHas
  <2>3. ASSUME Trees!ApplyBucket(t) PROVE Then(t)
    <3>1. /\ treePc[t] = "Apply" /\ treeNext[t] = NoPath /\ treeToApply' = treeToApply /\ treeBuckets' = treeBuckets
          /\ treeOp' = treeOp /\ payload' = payload
      BY <2>3 DEF Trees!ApplyBucket, Trees!tree
    <3>2. Walks(t) /\ treeToApply[t] \subseteq TreeRecord
      BY <1>1, <1>4, <3>1 DEF TreeCallTypes
    <3>3. \A r \in treeToApply[t] : /\ TreeHas(r) /\ PathOf[r] \in NodesIn(treeBuckets) /\ PathOf[r] \in Path
                                    /\ PathHome(treeBuckets, PathOf[r]) > atBucket[t]
      BY <1>3, <3>1, <3>2 DEF PathAhead
    <3>4. ASSUME atBucket[t] + 1 < Trees!nBuckets PROVE Then(t)
      <4> DEFINE i == atBucket[t] + 1
      <4>0. atBucket'[t] = i /\ treePc' = treePc
        BY <1>1, <1>2, <2>3, <3>1, <3>2, <3>4 DEF Trees!ApplyBucket, TreeCallTypes
      <4>1. /\ treePc'[t] = "Apply" /\ atBucket'[t] = i /\ treeNext'[t] = Trees!Behind(treeBuckets[i], NoPath)
        <5>1. treeNext' = [treeNext EXCEPT ![t] = Trees!Behind(treeBuckets[atBucket'[t]], NoPath)]
          BY <1>1, <1>2, <2>3, <3>1, <3>2, <3>4 DEF Trees!ApplyBucket
        <5> HIDE DEF i
        <5> QED BY <1>1, <3>1, <4>0, <5>1 DEF TreeCallTypes
      <4>2. i \in DOMAIN treeBuckets
        BY <1>1, <1>2, <3>2, <3>4
      <4>4. \A r \in treeToApply[t] : PathHome(treeBuckets, PathOf[r]) >= i
        BY <1>2, <3>2, <3>3
      <4> HIDE DEF i
      <4>3. /\ treeNext'[t] \in PathsIn(treeBuckets[i]) \cup {NoPath}
            /\ \A r \in NodesIn(treeBuckets) : PathHome(treeBuckets, r) >= i => PathAhead(treeBuckets, i, treeNext'[t], r)
        <5> PICK q, j : q = treeNext'[t] /\ j = i
          OBVIOUS
        <5>1. q = Trees!Behind(treeBuckets[j], NoPath) /\ j \in DOMAIN treeBuckets
          BY <4>1, <4>2
        <5> QED BY <1>1, <5>1, TreeApplyGoesOn
      <4> QED BY <3>1, <3>3, <4>1, <4>2, <4>3, <4>4 DEF TreeHas
    <3>5. ASSUME atBucket[t] + 1 = Trees!nBuckets PROVE Then(t)
      <4>1. treePc'[t] = "unlockShared" /\ atBucket'[t] = 0
        BY <1>1, <1>2, <2>3, <3>1, <3>2, <3>5 DEF Trees!ApplyBucket, Trees!Goto, TreeCallTypes
      <4>2. treeToApply[t] = {}
        BY <1>1, <1>2, <3>2, <3>3, <3>5
      <4> QED BY <3>1, <4>1, <4>2
    <3> HIDE DEF Then
    <3> QED BY <2>3, <3>4, <3>5 DEF Trees!ApplyBucket
  <2>4. ASSUME Called(t) PROVE Then(t)
    <3>1. treePc[t] = "idle" /\ treePc'[t] \in {"lockShared", "lockExclusive"} /\ atBucket' = atBucket
      BY <1>1, <2>4 DEF Called, Trees!Invoke, Trees!Goto, Trees!locals, Trees!walk, TreeCallTypes
    <3> QED BY <1>4, <3>1
  <2>5. ASSUME GoesOn(t) PROVE Then(t)
    <3>1. treePc[t] # "Apply" /\ atBucket' = atBucket /\ treePc'[t] # "Apply"
          /\ ~(treePc'[t] = "unlockShared" /\ treeOp'[t] = "Apply")
      BY <2>5 DEF GoesOn
    <3> QED BY <1>4, <3>1
  <2> HIDE DEF Then
  <2> QED BY <2>1, <2>2, <2>3, <2>4, <2>5, TreeGoesOn DEF Walking
<1> HIDE DEF Then
<1> QED BY <1>7, <1>8

LEMMA TreeOwnStep ==
  ASSUME TreeInv, NEW t \in Thread, TreeAction(t)
  PROVE  TreeOwnInv'
<1>1. /\ TreeCallTypes /\ TreeCallPlaces /\ TreeOwnInv /\ TreeCallTypes' /\ TreeCallPlaces' /\ TreeOthers(t)
      /\ NodeInv /\ TreePathInv
  BY TreeCallStep DEF TreeInv, TreeCallInv, ShapeInv
<1> DEFINE Now(u) == treePc[u] # "idle" /\ treeOp[u] = "Insert"
           Then(u) == treePc'[u] # "idle" /\ treeOp'[u] = "Insert"
           Has(u) == payload'[PathOf[treeRec'[u]]] = treeRec'[u]
<1>2. SUFFICES /\ \A u, v \in Thread : Then(u) /\ Then(v) /\ treeRec'[v] = treeRec'[u] => v = u
               /\ \A u \in Thread : treePc'[u] \in {"reference", "referenceSet"} => Has(u)
  BY DEF TreeOwnInv, TreeHas
<1>3. /\ \A u, v \in Thread : Now(u) /\ Now(v) /\ treeRec[v] = treeRec[u] => v = u
      /\ \A u \in Thread : treePc[u] \in {"reference", "referenceSet"} => TreeHas(treeRec[u])
  BY <1>1 DEF TreeOwnInv
<1>4. \A u \in Thread \ {t} : (Then(u) <=> Now(u)) /\ treeRec'[u] = treeRec[u] /\ treePc'[u] = treePc[u]
  BY <1>1 DEF TreeOthers
<1>5. \A u, v \in Thread : Then(u) /\ Then(v) /\ treeRec'[v] = treeRec'[u] => v = u
  <2>1. CASE Called(t)
    <3>1. PICK o \in TreeOpNames, r \in TreeRecord : Trees!Invoke(t, o, r)
      BY <2>1 DEF Called
    <3>2. /\ treeRec'[t] = r /\ treeOp'[t] = o
          /\ o = "Insert" => \A u \in Thread : ~(Now(u) /\ treeRec[u] = r)
      BY <1>1, <3>1 DEF Trees!Invoke, TreeCallTypes
    <3> HIDE DEF Now
    <3>3. Then(t) => \A u \in Thread : ~(Now(u) /\ treeRec[u] = r)
      BY <3>2
    <3> HIDE DEF Then
    <3> QED BY <1>3, <1>4, <3>2, <3>3
  <2>2. CASE ~Called(t)
    <3>1. Then(t) => Now(t) /\ treeRec'[t] = treeRec[t]
      <4>1. CASE GoesOn(t)
        BY <4>1 DEF GoesOn
      <4>2. CASE Walking(t)
        <5>1. treeOp' = treeOp /\ treeRec' = treeRec /\ treePc[t] # "idle"
          BY <1>1, <4>2 DEF Walking, Trees!StartApply, Trees!ApplyNode, Trees!ApplyBucket, Trees!Goto, Trees!call
        <5> QED BY <5>1
      <4> QED BY <2>2, <4>1, <4>2, TreeGoesOn
    <3> HIDE DEF Now, Then
    <3> QED BY <1>3, <1>4, <3>1
  <2> QED BY <2>1, <2>2
<1>6. ASSUME NEW u \in Thread, treePc'[u] \in {"reference", "referenceSet"} PROVE Has(u)
  <2>1. CASE u # t
    <3>1. /\ treePc[u] = treePc'[u] /\ treeRec'[u] = treeRec[u] /\ TreeHas(treeRec[u]) /\ treeRec[u] \in TreeRecord
      BY <1>1, <1>3, <1>4, <1>6, <2>1 DEF TreeCallPlaces
    <3>2. treePc[t] \notin ExclusiveOps
      BY <1>6, <3>1, TreeAlone DEF TreeSharedPcs, ExclusivePcs, Inserting
    <3>3. PICK r \in TreeRecord : r = treeRec[u]
      BY <3>1
    <3>4. TreeHas(r)'
      BY <3>1, <3>2, <3>3, TreeKeeps
    <3> QED BY <3>1, <3>3, <3>4 DEF TreeHas
  <2>2. CASE u = t
    <3>1. RecordGiven(t) \/ (NodeLinked(t) /\ path[t] = KeyNode(t))
      BY <1>6, <2>2, TreeMoves DEF TreeQuiet, RecordFound, ChainsRebuilt, RecordReferenced, NodeLinked, NodeCounted,
         ChildRead, ChildLinked, Uprooted, Linking
    <3>2. payload'[path[t]] = treeRec[t] /\ treeRec'[t] = treeRec[t] /\ path[t] = KeyNode(t)
      <4>1. path[t] \in Path /\ payload \in [Path -> TreeRecord \cup {NoRecord}]
        BY <1>1, <3>1 DEF RecordGiven, NodeLinked, TreePathInv, Inserting, NodeInv
      <4> QED BY <3>1, <4>1 DEF RecordGiven, NodeLinked
    <3> QED BY <2>2, <3>2 DEF KeyNode
  <2> QED BY <2>1, <2>2
<1> HIDE DEF Now, Then, Has
<1> QED BY <1>5, <1>6

-----------------------------------------------------------------------------
(* The counts                                                              *)

\* The nodes with a record among those that go.
LEMMA TreeGoneIs ==
  ASSUME NodeInv, NEW gone, gone \subseteq Path, NEW r \in TreeRecord
  PROVE  Cardinality({p \in gone : payload[p] = r}) = IF TreeHas(r) /\ PathOf[r] \in gone THEN 1 ELSE 0
<1>1. \A p \in gone : payload[p] = r => p = PathOf[r]
  BY TreeConstants DEF NodeInv
<1>2. CASE TreeHas(r) /\ PathOf[r] \in gone
  <2>1. {p \in gone : payload[p] = r} = {PathOf[r]}
    BY <1>1, <1>2 DEF TreeHas
  <2> QED BY <1>2, <2>1, FS_Singleton
<1>3. CASE ~(TreeHas(r) /\ PathOf[r] \in gone)
  <2>1. {p \in gone : payload[p] = r} = {}
    BY <1>1, <1>3 DEF TreeHas
  <2> QED BY <1>3, <2>1, FS_EmptySet
<1> QED BY <1>2, <1>3

LEMMA TreeReferenceStep ==
  ASSUME TreeInv, NEW t \in Thread, TreeAction(t)
  PROVE  TreeReferenceInv'
<1>1. /\ TreeCallTypes /\ TreeCallPlaces /\ TreeOwnInv /\ TreeReferenceInv /\ TreeOthers(t) /\ NodeInv /\ TreePathInv
      /\ TreeGood(treeBuckets) /\ NoRecord \notin TreeRecord /\ PathOf \in [TreeRecord -> Path]
  BY TreeCallStep, TreeConstants DEF TreeInv, TreeCallInv, ShapeInv
<1> DEFINE At(u, r) == treePc[u] \in {"reference", "referenceSet"} /\ treeRec[u] = r
           Then(u, r) == treePc'[u] \in {"reference", "referenceSet"} /\ treeRec'[u] = r
           Owed(r) == \E u \in Thread : Then(u, r)
           Has(r) == payload'[PathOf[r]] = r
           Right(r) == treeReferences'[r] = treeHeld'[r] + (IF Has(r) /\ ~Owed(r) THEN 1 ELSE 0)
<1>2. /\ treeHeld \in [TreeRecord -> Nat] /\ treeReferences \in [TreeRecord -> Int]
      /\ \A r \in TreeRecord :
           treeReferences[r] = treeHeld[r] + (IF TreeHas(r) /\ ~TreeReferring(r) THEN 1 ELSE 0)
      /\ \A r \in TreeRecord : treeHeld[r] \in Int /\ treeReferences[r] \in Int
  BY <1>1 DEF TreeReferenceInv
<1>3. ASSUME treeHeld' \in [TreeRecord -> Nat], treeReferences' \in [TreeRecord -> Int], \A r \in TreeRecord : Right(r)
      PROVE  TreeReferenceInv'
  <2>1. \A r \in TreeRecord : TreeReferring(r)' <=> Owed(r)
    BY DEF TreeReferring
  <2> HIDE DEF Owed
  <2> QED BY <1>3, <2>1 DEF TreeReferenceInv, TreeHas
<1>4. \A r \in TreeRecord : \A u \in Thread \ {t} : Then(u, r) <=> At(u, r)
  BY <1>1 DEF TreeOthers
<1>5. \A r \in TreeRecord : TreeReferring(r) <=> \E u \in Thread : At(u, r)
  BY DEF TreeReferring
<1>6. \A r \in TreeRecord : (Then(t, r) <=> At(t, r)) => (Owed(r) <=> TreeReferring(r))
  <2> HIDE DEF Then, At
  <2> QED BY <1>4, <1>5
\* Nothing but the counts of a record that was found changes.
<1>7. ASSUME payload' = payload, \A r \in TreeRecord : ~At(t, r) /\ ~Then(t, r),
             treeHeld' \in [TreeRecord -> Nat], treeReferences' \in [TreeRecord -> Int],
             \A r \in TreeRecord : treeReferences'[r] - treeHeld'[r] = treeReferences[r] - treeHeld[r]
      PROVE  TreeReferenceInv'
  <2>1. ASSUME NEW r \in TreeRecord PROVE Right(r)
    <3>1. Owed(r) <=> TreeReferring(r)
      BY <1>6, <1>7
    <3>2. Has(r) <=> TreeHas(r)
      BY <1>7 DEF TreeHas
    <3>3. treeHeld'[r] \in Int /\ treeReferences'[r] \in Int
      BY <1>7
    <3>4. treeReferences'[r] - treeHeld'[r] = treeReferences[r] - treeHeld[r]
      BY <1>7
    <3> HIDE DEF Owed, Has
    <3> QED BY <1>2, <3>1, <3>2, <3>3, <3>4
  <2> HIDE DEF Right
  <2> QED BY <1>3, <1>7, <2>1
<1>8. CASE TreeQuiet(t) \/ ChainsRebuilt(t) \/ NodeCounted(t) \/ ChildRead(t) \/ ChildLinked(t)
  <2>1. payload' = payload /\ treeHeld' = treeHeld /\ treeReferences' = treeReferences
    BY <1>8 DEF TreeQuiet, ChainsRebuilt, NodeCounted, ChildRead, ChildLinked, Standing, Uncounted
  <2>2. \A r \in TreeRecord : ~At(t, r) /\ ~Then(t, r)
    BY <1>8 DEF TreeQuiet, ChainsRebuilt, NodeCounted, ChildRead, ChildLinked, Linking
  <2> HIDE DEF At, Then
  <2> QED BY <1>2, <1>7, <2>1, <2>2
<1>9. CASE RecordFound(t)
  <2>1. /\ payload' = payload /\ treeRec[t] \in TreeRecord
        /\ treeReferences' = [treeReferences EXCEPT ![treeRec[t]] = @ + 1]
        /\ treeHeld' = [treeHeld EXCEPT ![treeRec[t]] = @ + 1]
    BY <1>1, <1>9 DEF RecordFound, Standing, TreeCallPlaces
  <2>2. \A r \in TreeRecord : ~At(t, r) /\ ~Then(t, r)
    BY <1>9 DEF RecordFound
  <2>3. treeHeld' \in [TreeRecord -> Nat] /\ treeReferences' \in [TreeRecord -> Int]
    BY <1>2, <2>1
  <2>4. \A r \in TreeRecord : treeReferences'[r] - treeHeld'[r] = treeReferences[r] - treeHeld[r]
    BY <1>2, <2>1
  <2> HIDE DEF At, Then
  <2> QED BY <1>7, <2>1, <2>2, <2>3, <2>4
\* A record that comes in is not yet referenced.
<1>10. ASSUME treeRec[t] \in TreeRecord, path[t] \in Path, path[t] = KeyNode(t), payload[path[t]] = NoRecord,
              payload' = [payload EXCEPT ![path[t]] = treeRec[t]], treeRec'[t] = treeRec[t],
              treeHeld' = treeHeld, treeReferences' = treeReferences,
              treePc[t] \in {"setRecord", "link"}, treePc'[t] \in {"reference", "referenceSet"}
       PROVE  TreeReferenceInv'
  <2>1. ASSUME NEW r \in TreeRecord PROVE Right(r)
    <3>1. CASE r = treeRec[t]
      <4>1. ~TreeHas(r)
        BY <1>1, <1>10, <3>1 DEF TreeHas, KeyNode
      <4>2. Owed(r)
        BY <1>10, <3>1
      <4> HIDE DEF Owed, Has
      <4> QED BY <1>2, <1>10, <4>1, <4>2
    <3>2. CASE r # treeRec[t]
      <4>1. Has(r) <=> TreeHas(r)
        BY <1>1, <1>10, <3>2 DEF NodeInv, TreeHas
      <4>2. ~At(t, r) /\ ~Then(t, r)
        BY <1>10, <3>2
      <4>3. Owed(r) <=> TreeReferring(r)
        BY <1>6, <4>2
      <4> HIDE DEF Owed, Has
      <4> QED BY <1>2, <1>10, <4>1, <4>3
    <3> QED BY <3>1, <3>2
  <2> HIDE DEF Right
  <2> QED BY <1>2, <1>3, <1>10, <2>1
<1>11. CASE RecordGiven(t)
  <2>1. treeRec[t] \in TreeRecord /\ path[t] \in Path
    BY <1>1, <1>11 DEF RecordGiven, TreeCallPlaces, TreePathInv, Inserting
  <2> QED BY <1>10, <1>11, <2>1 DEF RecordGiven, Uncounted
<1>12. CASE NodeLinked(t)
  <2>1. treeRec[t] \in TreeRecord /\ path[t] \in Path /\ payload[path[t]] = NoRecord
    BY <1>1, <1>12 DEF NodeLinked, TreeCallPlaces, TreePathInv, Inserting, NodeInv, InTree, PathGrown
  <2>2. CASE path[t] = KeyNode(t)
    BY <1>10, <1>12, <2>1, <2>2 DEF NodeLinked, Uncounted
  <2>3. CASE path[t] # KeyNode(t)
    <3>1. payload' = payload /\ treeHeld' = treeHeld /\ treeReferences' = treeReferences
      BY <1>1, <1>12, <2>1, <2>3 DEF NodeLinked, Uncounted, NodeInv
    <3>2. \A r \in TreeRecord : ~At(t, r) /\ ~Then(t, r)
      BY <1>12, <2>3 DEF NodeLinked
    <3> HIDE DEF At, Then
    <3> QED BY <1>2, <1>7, <3>1, <3>2
  <2> QED BY <2>2, <2>3
<1>13. CASE RecordReferenced(t)
  <2>1. /\ payload' = payload /\ treeHeld' = treeHeld /\ treeRec[t] \in TreeRecord /\ TreeHas(treeRec[t])
        /\ treeReferences' = [treeReferences EXCEPT ![treeRec[t]] = @ + 1] /\ treePc[t] \in {"reference", "referenceSet"}
    BY <1>1, <1>13 DEF RecordReferenced, Standing, TreeCallPlaces, Inserting, TreeOwnInv
  <2>2. \A r \in TreeRecord : ~Then(t, r)
    BY <1>13 DEF RecordReferenced
  <2>3. \A u \in Thread \ {t} : ~At(u, treeRec[t])
    <3>1. \A u \in Thread : treePc[u] \in {"reference", "referenceSet"} => treePc[u] # "idle" /\ treeOp[u] = "Insert"
      BY <1>1 DEF TreeCallPlaces, Inserting
    <3> QED BY <1>1, <2>1, <3>1 DEF TreeOwnInv
  <2>4. ASSUME NEW r \in TreeRecord PROVE Right(r)
    <3>1. Has(r) <=> TreeHas(r)
      BY <2>1 DEF TreeHas
    <3>2. CASE r = treeRec[t]
      <4>1. TreeReferring(r)
        BY <2>1, <3>2 DEF TreeReferring
      <4>2. ~Owed(r)
        <5> HIDE DEF At, Then
        <5> QED BY <1>4, <2>2, <2>3, <3>2
      <4> HIDE DEF Owed, Has
      <4> QED BY <1>2, <2>1, <3>1, <3>2, <4>1, <4>2
    <3>3. CASE r # treeRec[t]
      <4>1. ~At(t, r)
        BY <3>3
      <4>2. Owed(r) <=> TreeReferring(r)
        <5> HIDE DEF At, Then, Owed
        <5> QED BY <1>6, <2>2, <4>1
      <4> HIDE DEF Owed, Has
      <4> QED BY <1>2, <2>1, <3>1, <3>3, <4>2
    <3> QED BY <3>2, <3>3
  <2>5. treeReferences' \in [TreeRecord -> Int]
    BY <1>2, <2>1
  <2> HIDE DEF Right
  <2> QED BY <1>2, <1>3, <2>1, <2>4, <2>5
<1>14. CASE Uprooted(t)
  <2>1. PICK gone, emptied \in SUBSET NodesIn(treeBuckets) : Uproots(gone, emptied)
    BY <1>14 DEF Uprooted
  <2> DEFINE lost == gone \cup emptied
  <2>2. /\ payload' = [p \in Path |-> IF p \in lost THEN NoRecord ELSE payload[p]] /\ treeHeld' = treeHeld
        /\ treeReferences' = [r \in TreeRecord |->
                                treeReferences[r] - Cardinality({p \in lost : payload[p] = r})]
    BY <2>1 DEF Uproots
  <2>3. lost \subseteq Path
    BY <1>1, TreeBucketFacts
  <2> HIDE DEF lost
  <2>4. \A r \in TreeRecord : Cardinality({p \in lost : payload[p] = r}) = IF TreeHas(r) /\ PathOf[r] \in lost THEN 1 ELSE 0
    BY <1>1, <2>3, TreeGoneIs
  <2>5. \A u \in Thread : \A r \in TreeRecord : ~At(u, r)
    BY <1>14, TreeAlone DEF Uprooted, ExclusivePcs, TreeSharedPcs, Inserting
  <2>6. \A r \in TreeRecord : ~Then(t, r)
    BY <1>14 DEF Uprooted
  <2>7. \A r \in TreeRecord : ~TreeReferring(r) /\ ~Owed(r)
    <3> HIDE DEF At, Then
    <3> QED BY <1>4, <1>5, <2>5, <2>6
  <2>8. ASSUME NEW r \in TreeRecord PROVE Right(r) /\ treeReferences'[r] \in Int
    <3>1. Has(r) <=> TreeHas(r) /\ PathOf[r] \notin lost
      BY <1>1, <2>2 DEF TreeHas
    <3>2. treeReferences'[r] = treeReferences[r] - (IF TreeHas(r) /\ PathOf[r] \in lost THEN 1 ELSE 0)
      BY <2>2, <2>4
    <3> HIDE DEF Owed, Has
    <3> QED BY <1>2, <2>2, <2>7, <3>1, <3>2
  <2>9. treeReferences' \in [TreeRecord -> Int]
    BY <2>2, <2>8
  <2> HIDE DEF Right
  <2> QED BY <1>2, <1>3, <2>2, <2>8, <2>9
<1> QED BY <1>8, <1>9, <1>11, <1>12, <1>13, <1>14, TreeMoves

LEMMA TreeItemsStep ==
  ASSUME TreeInv, NEW t \in Thread, TreeAction(t)
  PROVE  TreeItemsInv'
<1>1. /\ TreeCallTypes /\ TreeItemsInv /\ TreeOthers(t) /\ TreePathInv
      /\ TreeGood(treeBuckets) /\ TreeGood(treeBuckets')
  BY TreeCallStep, TreeGrows DEF TreeInv, TreeCallInv
<1> DEFINE nodes == NodesIn(treeBuckets)  then == NodesIn(treeBuckets')
<1>2. /\ IsFiniteSet(nodes) /\ Cardinality(nodes) \in Nat
      /\ IsFiniteSet(TreeCounting) /\ Cardinality(TreeCounting) \in Nat
  <2>1. IsFiniteSet(TreeCounting)
    BY CacheAssumption, FS_Subset DEF TreeCounting
  <2> QED BY <1>1, <2>1, TreeBucketFacts, FS_CardinalityType
<1> DEFINE Counts(u) == treePc[u] \in {"reference", "count"}
           Then(u) == treePc'[u] \in {"reference", "count"}
<1>3. /\ \A u \in Thread \ {t} : Then(u) <=> Counts(u)
      /\ TreeCounting = {u \in Thread : Counts(u)} /\ TreeCounting' = {u \in Thread : Then(u)}
  BY <1>1 DEF TreeOthers, TreeCounting
<1> HIDE DEF Counts, Then
<1>4. treeItems = Cardinality(nodes) - Cardinality(TreeCounting)
  BY <1>1 DEF TreeItemsInv
<1>5. ASSUME treeItems' = Cardinality(then) - Cardinality(TreeCounting') PROVE TreeItemsInv'
  BY <1>5 DEF TreeItemsInv
<1> HIDE DEF nodes, then
<1>6. CASE TreeQuiet(t) \/ RecordFound(t) \/ ChainsRebuilt(t) \/ RecordGiven(t) \/ RecordReferenced(t)
           \/ ChildRead(t) \/ ChildLinked(t)
  <2>1. treeItems' = treeItems /\ then = nodes
    BY <1>6 DEF TreeQuiet, RecordFound, ChainsRebuilt, RecordGiven, RecordReferenced, ChildRead, ChildLinked,
       Standing, Uncounted, nodes, then
  <2>2. Counts(t) <=> Then(t)
    BY <1>6 DEF TreeQuiet, RecordFound, ChainsRebuilt, RecordGiven, RecordReferenced, ChildRead, ChildLinked,
       Linking, Counts, Then
  <2>3. TreeCounting' = TreeCounting
    BY <1>3, <2>2
  <2> QED BY <1>4, <1>5, <2>1, <2>3
<1>7. CASE NodeLinked(t)
  <2>1. ~Counts(t) /\ Then(t)
    BY <1>7 DEF NodeLinked, Counts, Then
  <2>2. TreeCounting' = TreeCounting \cup {t} /\ t \notin TreeCounting
    BY <1>3, <2>1
  <2>3. Cardinality(TreeCounting') = Cardinality(TreeCounting) + 1
    BY <1>2, <2>2, FS_AddElement
  <2>4. then = nodes \cup {path[t]} /\ path[t] \notin nodes /\ treeItems' = treeItems
    BY <1>7 DEF NodeLinked, PathGrown, Uncounted, nodes, then
  <2>5. Cardinality(then) = Cardinality(nodes) + 1
    BY <1>2, <2>4, FS_AddElement
  <2> QED BY <1>2, <1>4, <1>5, <2>3, <2>4, <2>5
<1>8. CASE NodeCounted(t)
  <2>1. Counts(t) /\ ~Then(t)
    BY <1>8 DEF NodeCounted, Counts, Then
  <2>2. TreeCounting' = TreeCounting \ {t} /\ t \in TreeCounting
    BY <1>3, <2>1
  <2>3. Cardinality(TreeCounting') = Cardinality(TreeCounting) - 1
    BY <1>2, <2>2, FS_RemoveElement
  <2>4. then = nodes /\ treeItems' = treeItems + 1
    BY <1>8 DEF NodeCounted, Standing, nodes, then
  <2> QED BY <1>2, <1>4, <1>5, <2>3, <2>4
<1>9. CASE Uprooted(t)
  <2>1. PICK gone, emptied \in SUBSET NodesIn(treeBuckets) : Uproots(gone, emptied)
    BY <1>9 DEF Uprooted
  <2>2. /\ then = nodes \ gone /\ gone \subseteq nodes
        /\ treeItems' = treeItems - Cardinality(gone) \/ (treeItems' = 0 /\ gone = nodes)
    BY <2>1 DEF Uproots, nodes, then
  <2>3. TreeCounting = {}
    BY <1>9, TreeAlone DEF Uprooted, ExclusivePcs, TreeSharedPcs, Inserting, TreeCounting
  <2>4. ~Then(t)
    BY <1>9 DEF Uprooted, Then
  <2>5. TreeCounting' = {}
    BY <1>3, <2>3, <2>4
  <2>6. Cardinality(TreeCounting) = 0 /\ Cardinality(TreeCounting') = 0
    BY <2>3, <2>5, FS_EmptySet
  <2>7. Cardinality(then) = Cardinality(nodes) - Cardinality(gone) /\ Cardinality(gone) \in Nat
    <3>1. IsFiniteSet(gone)
      BY <1>2, <2>2, FS_Subset
    <3>2. nodes \cap gone = gone
      BY <2>2
    <3>3. Cardinality(nodes \ gone) = Cardinality(nodes) - Cardinality(nodes \cap gone)
      BY <1>2, FS_Difference
    <3>4. Cardinality(gone) \in Nat
      BY <3>1, FS_CardinalityType
    <3> QED BY <2>2, <3>2, <3>3, <3>4
  <2>8. CASE treeItems' = treeItems - Cardinality(gone)
    BY <1>2, <1>4, <1>5, <2>6, <2>7, <2>8
  <2>9. CASE treeItems' = 0 /\ gone = nodes
    BY <1>2, <1>5, <2>6, <2>7, <2>9
  <2> QED BY <2>2, <2>8, <2>9
<1> QED BY <1>6, <1>7, <1>8, <1>9, TreeMoves

-----------------------------------------------------------------------------
(* The invariant holds, and what follows from it                           *)

LEMMA TreeStart ==
  ASSUME Trees!Init
  PROVE  TreeInv
<1>1. /\ treeBuckets = [i \in 0 .. InitialBuckets - 1 |-> <<>>]
      /\ payload = [p \in Path |-> NoRecord] /\ parentLink = [p \in Path |-> NoPath]
      /\ children = [p \in Path |-> <<>>]
      /\ treeItems = 0 /\ treeSharers = {} /\ treeWriter = {}
      /\ treeReferences = [r \in TreeRecord |-> 0] /\ treeHeld = [r \in TreeRecord |-> 0]
      /\ treeOp = [t \in Thread |-> "NONE"] /\ treeResult = [t \in Thread |-> "NONE"]
      /\ treeRec = [t \in Thread |-> CHOOSE r \in TreeRecord : TRUE]
      /\ treePc = [t \in Thread |-> "idle"]
      /\ path = [t \in Thread |-> NoPath] /\ parent = [t \in Thread |-> NoPath]
      /\ treePrev = [t \in Thread |-> NoPath] /\ treeNext = [t \in Thread |-> NoPath]
      /\ atBucket = [t \in Thread |-> 0] /\ treeToApply = [t \in Thread |-> {}]
  BY DEF Trees!Init
<1>2. /\ InitialBuckets \in Nat \ {0} /\ NoRecord \notin TreeRecord /\ NoPath \notin Path
      /\ PathOf \in [TreeRecord -> Path]
  BY TreeConstants
<1>3. /\ PathsIn(<<>>) = {} /\ DistinctPaths(<<>>) /\ <<>> \in Seq(Path) /\ PathsOrdered(<<>>)
  BY DEF PathsIn, DistinctPaths, Trees!ToSet, PathsOrdered
<1>4. TreeGood(treeBuckets) /\ NodesIn(treeBuckets) = {}
  <2>1. DOMAIN treeBuckets = 0 .. InitialBuckets - 1
    BY <1>1
  <2>2. PICK bs, n : bs = treeBuckets /\ n = InitialBuckets
    OBVIOUS
  <2>3. TreeSize(bs) = InitialBuckets
    BY <1>2, <2>1, <2>2, TreeSizeIs
  <2>4. \A i \in DOMAIN treeBuckets : treeBuckets[i] = <<>>
    BY <1>1
  <2> QED BY <1>1, <1>2, <1>3, <2>1, <2>2, <2>3, <2>4 DEF TreeGood, NodesIn
<1>5. TreeCallTypes
  BY <1>1 DEF TreeCallTypes, TreePcs
<1>6. TreeCallPlaces
  BY <1>1 DEF TreeCallPlaces, TreeSharedPcs, Inserting, ExclusivePcs, ExclusiveOps
<1>7. TreePathInv
  BY <1>1 DEF TreePathInv, Inserting, Linking
<1>8. TreeLockInv
  BY <1>1 DEF TreeLockInv, TreeSharedPcs, Inserting, ExclusivePcs, ExclusiveOps
<1>9. NodeInv /\ FamilyInv
  BY <1>1, <1>4 DEF NodeInv, FamilyInv, InTree
<1>10. ChildInv
  <2>1. \A p \in Path : children[p] = <<>>
    BY <1>1
  <2>2. children \in [Path -> Seq(Path)]
    BY <1>1, <1>3
  <2> QED BY <1>3, <2>1, <2>2 DEF ChildInv
<1>11. UnlinkedInv /\ TreeSearchInv /\ TreeApplyInv
  BY <1>1 DEF UnlinkedInv, TreeSearchInv, TreeApplyInv, Linking
<1>12. TreeOwnInv
  BY <1>1 DEF TreeOwnInv
<1>13. TreeReferenceInv
  <2>1. \A r \in TreeRecord : ~TreeHas(r)
    BY <1>1, <1>2 DEF TreeHas
  <2> QED BY <1>1, <2>1 DEF TreeReferenceInv
<1>14. TreeItemsInv
  <2>1. TreeCounting = {}
    BY <1>1 DEF TreeCounting
  <2>2. Cardinality(TreeCounting) = 0 /\ Cardinality(NodesIn(treeBuckets)) = 0
    BY <1>4, <2>1, FS_EmptySet
  <2> QED BY <1>1, <2>2 DEF TreeItemsInv
<1> QED BY <1>4, <1>5, <1>6, <1>7, <1>8, <1>9, <1>10, <1>11, <1>12, <1>13, <1>14 DEF TreeInv, TreeCallInv, ShapeInv

LEMMA TreeKept ==
  ASSUME TreeInv, [Trees!Next]_(Trees!vars)
  PROVE  TreeInv'
<1>1. CASE Trees!Next
  <2>1. PICK t \in Thread : TreeAction(t)
    BY <1>1 DEF Trees!Next, TreeAction
  <2> QED BY <2>1, TreeCallStep, TreeGrows, TreePathStep, TreeLockStep, TreeNodeStep, TreeChildStep, TreeFamilyStep,
             TreeUnlinkedStep, TreeSearchStep, TreeApplyStep, TreeOwnStep, TreeReferenceStep, TreeItemsStep
             DEF TreeInv, ShapeInv
<1>2. CASE UNCHANGED Trees!vars
  <2>1. /\ treeBuckets' = treeBuckets /\ treeItems' = treeItems /\ treeSharers' = treeSharers
        /\ treeWriter' = treeWriter /\ treeReferences' = treeReferences /\ treeHeld' = treeHeld
        /\ treeOp' = treeOp /\ treeRec' = treeRec /\ treeResult' = treeResult /\ treePc' = treePc
        /\ treePrev' = treePrev /\ treeNext' = treeNext /\ treeToApply' = treeToApply
        /\ path' = path /\ parent' = parent /\ atBucket' = atBucket
        /\ payload' = payload /\ parentLink' = parentLink /\ children' = children
    BY <1>2 DEF Trees!vars, Trees!tree, Trees!lock, Trees!counts, Trees!call, Trees!walk, Trees!locals
  <2>2. TreeCallInv' /\ TreeLockInv' /\ TreePathInv'
    BY <2>1 DEF TreeInv, TreeCallInv, TreeCallTypes, TreeCallPlaces, TreeLockInv, TreePathInv, KeyNode, InTree
  <2>3. NodeInv' /\ ChildInv'
    BY <2>1 DEF TreeInv, ShapeInv, NodeInv, ChildInv, InTree
  <2>4. FamilyInv' /\ UnlinkedInv'
    BY <2>1 DEF TreeInv, ShapeInv, FamilyInv, UnlinkedInv, InTree, Trees!Unlinked
  <2>5. TreeSearchInv' /\ TreeApplyInv' /\ TreeOwnInv'
    BY <2>1 DEF TreeInv, TreeSearchInv, TreeApplyInv, TreeOwnInv, TreeHas
  <2>6. TreeReferenceInv' /\ TreeItemsInv' /\ TreeGood(treeBuckets')
    BY <2>1 DEF TreeInv, TreeReferenceInv, TreeReferring, TreeHas, TreeItemsInv, TreeCounting
  <2> QED BY <2>2, <2>3, <2>4, <2>5, <2>6 DEF TreeInv, ShapeInv
<1> QED BY <1>1, <1>2

LEMMA TreeSteps ==
  ASSUME [PartNext]_partVars
  PROVE  [Trees!Next]_(Trees!vars)
BY Zenon DEF PartNext, partVars, treeVars, Trees!vars, Trees!tree, Trees!lock, Trees!counts, Trees!call, Trees!walk,
   Trees!locals

\* TREE_HASH_TABLE's invariant holds always.
THEOREM TreeInvAlways == PartSpec => []TreeInv
<1>1. PartInit => TreeInv
  BY TreeStart DEF PartInit
<1>2. TreeInv /\ [PartNext]_partVars => TreeInv'
  BY TreeSteps, TreeKept
<1> QED BY <1>1, <1>2, PTL DEF PartSpec

\* However many insertions need a path at the same time, its node is in the
\* table once, in the order of the hashes, and TREE_HASH_TABLE's tree agrees with
\* the table (treehash.h, AddNodeInternal): each node knows its parent, which is
\* there, and is on its list once, as soon as its insertion got there.
THEOREM TreeAlwaysMatches == PartSpec => []TreeMatchesTable
<1>1. ASSUME TreeInv PROVE Trees!ChainsInOrder
  <2>1. TreeGood(treeBuckets) /\ Trees!nBuckets = TreeSize(treeBuckets)
    BY <1>1, NodesAre DEF TreeInv
  <2> SUFFICES ASSUME NEW i \in DOMAIN treeBuckets, NEW j \in DOMAIN treeBuckets[i], NEW k \in DOMAIN treeBuckets[i]
               PROVE  /\ PathHash[treeBuckets[i][j]] % Trees!nBuckets = i
                      /\ j < k => /\ PathHash[treeBuckets[i][j]] <= PathHash[treeBuckets[i][k]]
                                  /\ treeBuckets[i][j] # treeBuckets[i][k]
    BY DEF Trees!ChainsInOrder
  <2>2. treeBuckets[i] \in Seq(Path) /\ PathsOrdered(treeBuckets[i])
    BY <2>1 DEF TreeGood
  <2>3. treeBuckets[i][j] \in PathsIn(treeBuckets[i])
    BY <2>2, PathChainFacts
  <2>4. PathHome(treeBuckets, treeBuckets[i][j]) = i
    BY <2>1, <2>3 DEF TreeGood
  <2> QED BY <2>1, <2>2, <2>4 DEF PathHome, PathsOrdered, PathHashAt
<1>2. ASSUME TreeInv PROVE Trees!TreeMatchesTable
  <2>1. /\ TreeGood(treeBuckets) /\ Trees!Nodes = NodesIn(treeBuckets) /\ NodeInv /\ ChildInv /\ FamilyInv
        /\ NodesIn(treeBuckets) \subseteq Path /\ ParentOf \in [Path -> Path \cup {NoPath}] /\ NoPath \notin Path
    BY <1>2, NodesAre, TreeBucketFacts, TreeConstants DEF TreeInv, ShapeInv
  <2> SUFFICES ASSUME NEW p \in NodesIn(treeBuckets)
               PROVE  /\ parentLink[p] = ParentOf[p]
                      /\ parentLink[p] # NoPath =>
                           /\ parentLink[p] \in Trees!Nodes
                           /\ \/ Trees!Unlinked(p)
                              \/ Trees!Cardinality({i \in DOMAIN children[parentLink[p]] :
                                                      children[parentLink[p]][i] = p}) = 1
                      /\ \A i \in DOMAIN children[p] :
                           children[p][i] \in Trees!Nodes /\ ParentOf[children[p][i]] = p
    BY <2>1 DEF Trees!TreeMatchesTable
  <2>2. parentLink[p] = ParentOf[p] /\ p \in Path
    BY <2>1 DEF NodeInv, InTree
  <2>3. ASSUME ParentOf[p] # NoPath, ~Trees!Unlinked(p)
        PROVE  Trees!Cardinality({i \in DOMAIN children[ParentOf[p]] : children[ParentOf[p]][i] = p}) = 1
    <3>1. PICK c : c = children[ParentOf[p]]
      OBVIOUS
    <3>2. c \in Seq(Path) /\ DistinctPaths(c) /\ p \in PathsIn(c)
      BY <2>1, <2>2, <2>3, <3>1 DEF ChildInv, FamilyInv, InTree
    <3>3. PICK k \in DOMAIN c : c[k] = p
      BY <3>2, PathChainFacts
    <3>4. {i \in DOMAIN c : c[i] = p} = {k}
      BY <3>2, <3>3 DEF DistinctPaths
    <3>5. Cardinality({i \in DOMAIN c : c[i] = p}) = 1
      BY <3>4, FS_Singleton
    <3> QED BY <3>1, <3>5, TreeSizes
  <2>4. ParentOf[p] # NoPath => ParentOf[p] \in Trees!Nodes
    BY <2>1, <2>2 DEF FamilyInv, InTree
  <2>5. \A i \in DOMAIN children[p] : children[p][i] \in Trees!Nodes /\ ParentOf[children[p][i]] = p
    <3>1. PICK c : c = children[p]
      OBVIOUS
    <3>2. c \in Seq(Path) /\ \A q \in PathsIn(c) : q \in NodesIn(treeBuckets) /\ ParentOf[q] = p
      BY <2>1, <2>2, <3>1 DEF ChildInv, InTree
    <3>3. \A i \in DOMAIN c : c[i] \in PathsIn(c)
      BY <3>2, PathChainFacts
    <3> QED BY <2>1, <3>1, <3>2, <3>3
  <2> QED BY <2>2, <2>3, <2>4, <2>5
<1>3. TreeInv => TreeMatchesTable
  BY <1>1, <1>2 DEF TreeMatchesTable
<1> QED BY <1>3, TreeInvAlways, PTL

\* The references that TREE_HASH_TABLE and its clients hold are those of the
\* records in it, and none of records that went with a subtree; nItems counts
\* the nodes, ancestors without a record too, up to insertions that have linked
\* theirs and not yet counted it (treehash.h, InsertRecord, DeleteNodeInternal,
\* DeleteIf and Clear).
THEOREM TreeCountsAlwaysRight == PartSpec => []TreeCountsRight
<1>1. ASSUME TreeInv PROVE Trees!TableReferences
  <2>1. /\ Trees!Nodes = NodesIn(treeBuckets) /\ NodesIn(treeBuckets) \subseteq Path
        /\ TreeOwnInv /\ TreeCallPlaces /\ TreeReferenceInv /\ NodeInv /\ NoRecord \notin TreeRecord
        /\ PathOf \in [TreeRecord -> Path]
    BY <1>1, NodesAre, TreeBucketFacts, TreeConstants DEF TreeInv, TreeCallInv, ShapeInv
  <2> DEFINE T(r) == {t \in Thread : treePc[t] \in {"reference", "referenceSet"} /\ treeRec[t] = r}
             there == NodesIn(treeBuckets)
  <2> SUFFICES ASSUME NEW r \in TreeRecord
               PROVE  treeReferences[r] = treeHeld[r] + Cardinality({p \in there : payload[p] = r})
                        - Cardinality(T(r))
    BY <2>1, TreeSizes DEF Trees!TableReferences
  <2>2. /\ treeReferences[r] = treeHeld[r] + (IF TreeHas(r) /\ ~TreeReferring(r) THEN 1 ELSE 0)
        /\ treeHeld[r] \in Nat
    BY <2>1 DEF TreeReferenceInv
  <2>3. Cardinality({p \in there : payload[p] = r}) = IF TreeHas(r) THEN 1 ELSE 0
    <3>1. TreeHas(r) => PathOf[r] \in there
      BY <2>1 DEF TreeHas, NodeInv, InTree
    <3>2. there \subseteq Path
      BY <2>1
    <3> HIDE DEF there
    <3> QED BY <2>1, <3>1, <3>2, TreeGoneIs
  <2>4. Cardinality(T(r)) = IF TreeReferring(r) THEN 1 ELSE 0
    <3>1. CASE ~TreeReferring(r)
      <4>1. T(r) = {}
        BY <3>1 DEF TreeReferring
      <4> QED BY <3>1, <4>1, FS_EmptySet
    <3>2. CASE TreeReferring(r)
      <4>1. PICK t \in Thread : treePc[t] \in {"reference", "referenceSet"} /\ treeRec[t] = r
        BY <3>2 DEF TreeReferring
      <4>2. \A u \in Thread : treePc[u] \in {"reference", "referenceSet"} => treePc[u] # "idle" /\ treeOp[u] = "Insert"
        BY <2>1 DEF TreeCallPlaces, Inserting
      <4>3. \A u \in Thread : treePc[u] \in {"reference", "referenceSet"} /\ treeRec[u] = r => u = t
        BY <2>1, <4>1, <4>2 DEF TreeOwnInv
      <4>4. T(r) = {t}
        BY <4>1, <4>3
      <4> QED BY <3>2, <4>4, FS_Singleton
    <3> QED BY <3>1, <3>2
  <2>5. TreeReferring(r) => TreeHas(r)
    BY <2>1 DEF TreeReferring, TreeOwnInv
  <2> DEFINE records == Cardinality({p \in there : payload[p] = r})  referring == Cardinality(T(r))
  <2>6. /\ records = IF TreeHas(r) THEN 1 ELSE 0
        /\ referring = IF TreeReferring(r) THEN 1 ELSE 0
    BY <2>3, <2>4
  <2> HIDE DEF records, referring
  <2>7. treeReferences[r] = treeHeld[r] + records - referring
    BY <2>2, <2>5, <2>6
  <2> QED BY <2>7 DEF records, referring
<1>2. ASSUME TreeInv PROVE Trees!ItemsCounted
  <2>1. Trees!Nodes = NodesIn(treeBuckets) /\ TreePathInv /\ TreeItemsInv
    BY <1>2, NodesAre DEF TreeInv
  <2>2. TreeCounting = {t \in Thread : treePc[t] \in {"reference", "count"} /\ path[t] \in Trees!Nodes}
    BY <2>1 DEF TreeCounting, TreePathInv, Linking, InTree
  <2> QED BY <2>1, <2>2, TreeSizes DEF TreeItemsInv, Trees!ItemsCounted
<1>3. TreeInv => TreeCountsRight
  BY <1>1, <1>2 DEF TreeCountsRight
<1> QED BY <1>3, TreeInvAlways, PTL

\* Apply (treehash.h, Apply) meets every record that was in TREE_HASH_TABLE when
\* it took the lock, while insertions put nodes and records around it.
THEOREM TreeAppliesMeetRecords == PartSpec => []Trees!ApplyMeetsRecords
<1>1. TreeInv => Trees!ApplyMeetsRecords
  BY DEF TreeInv, TreeApplyInv, Trees!ApplyMeetsRecords
<1> QED BY <1>1, TreeInvAlways, PTL

\* The table, its tree and its counts have their types: no count runs below zero.
THEOREM TreeTypesOK == PartSpec => []Trees!TypeOK
<1>1. ASSUME TreeInv PROVE Trees!TypeOK
  <2>1. /\ TreeGood(treeBuckets) /\ Trees!nBuckets = TreeSize(treeBuckets) /\ TreeLockInv /\ TreeReferenceInv
        /\ TreePathInv /\ TreeItemsInv /\ TreeCallTypes /\ NodeInv /\ ChildInv /\ UnlinkedInv /\ TreeApplyInv
    BY <1>1, NodesAre DEF TreeInv, TreeCallInv, ShapeInv
  <2>2. treeItems \in Nat
    <3> DEFINE f == [t \in TreeCounting |-> path[t]]
    <3>1. f \in Injection(TreeCounting, NodesIn(treeBuckets))
      <4>1. \A t \in TreeCounting : path[t] \in NodesIn(treeBuckets)
        BY <2>1 DEF TreePathInv, TreeCounting, Linking, InTree
      <4>2. \A t, u \in TreeCounting : path[t] = path[u] => t = u
        BY <2>1 DEF UnlinkedInv, TreeCounting, Linking
      <4> QED BY <4>1, <4>2 DEF Injection, IsInjective
    <3>2. IsFiniteSet(NodesIn(treeBuckets))
      BY <2>1, TreeBucketFacts
    <3> HIDE DEF f
    <3>3. IsFiniteSet(TreeCounting) /\ Cardinality(TreeCounting) <= Cardinality(NodesIn(treeBuckets))
      BY <3>1, <3>2, FS_Injection
    <3>4. Cardinality(TreeCounting) \in Nat /\ Cardinality(NodesIn(treeBuckets)) \in Nat
      BY <3>2, <3>3, FS_CardinalityType
    <3> QED BY <2>1, <3>3, <3>4 DEF TreeItemsInv
  <2>3. treeSharers \subseteq Thread /\ treeWriter \subseteq Thread
    BY <2>1 DEF TreeLockInv
  <2>4. treeHeld \in [TreeRecord -> Nat] /\ treeReferences \in [TreeRecord -> Nat]
    BY <2>1 DEF TreeReferenceInv
  <2>5. /\ DOMAIN treeBuckets = 0 .. TreeSize(treeBuckets) - 1 /\ TreeSize(treeBuckets) \in Nat \ {0}
        /\ \A i \in DOMAIN treeBuckets : treeBuckets[i] \in Seq(Path)
    BY <2>1 DEF TreeGood
  <2>6. /\ payload \in [Path -> TreeRecord \cup {NoRecord}] /\ parentLink \in [Path -> Path \cup {NoPath}]
        /\ children \in [Path -> Seq(Path)] /\ treeToApply \in [Thread -> SUBSET TreeRecord]
    BY <2>1 DEF NodeInv, ChildInv, TreeCallTypes
  <2>7. atBucket \in [Thread -> 0 .. Trees!nBuckets - 1]
    <3>1. \A t \in Thread : atBucket[t] = 0 \/ atBucket[t] \in DOMAIN treeBuckets
      BY <2>1 DEF TreeApplyInv
    <3>2. 0 \in 0 .. Trees!nBuckets - 1
      BY <2>1, <2>5
    <3> QED BY <2>1, <2>5, <3>1, <3>2 DEF TreeCallTypes
  <2> QED BY <2>2, <2>3, <2>4, <2>5, <2>6, <2>7 DEF Trees!TypeOK
<1>2. TreeInv => Trees!TypeOK
  BY <1>1
<1> QED BY <1>2, TreeInvAlways, PTL

-----------------------------------------------------------------------------
(* TREE_HASH_TABLE implements RecordTable                                  *)

\* The records that are in the table, without the nodes that have none.
TreeTable == {r \in TreeRecord : TreeHas(r)}

TreePhase(p, o, res) ==
  CASE p = "idle" -> "idle"
    [] \/ p \in Trees!EffectAhead \/ (p = "lockExclusive" /\ o # "Rehash")
       \/ (p \in {"reference", "count", "readChild", "linkChild", "setRecord"} /\ res = "NONE") -> "called"
    [] OTHER -> "done"
TreeOperation(o) == IF o = "Rehash" THEN "Insert" ELSE IF o = "DeleteKey" THEN "DeleteIf" ELSE o

LEMMA TreePhases ==
  /\ \A o, res : TreePhase("idle", o, res) = "idle"
  /\ \A o, res, p : p \in Trees!EffectAhead => TreePhase(p, o, res) = "called"
  /\ \A o, res : o # "Rehash" => TreePhase("lockExclusive", o, res) = "called"
  /\ \A res : TreePhase("lockExclusive", "Rehash", res) = "done"
  /\ \A o, p : p \in {"reference", "count", "readChild", "linkChild", "setRecord"} =>
       TreePhase(p, o, "NONE") = "called" /\ TreePhase(p, o, "SUCCESS") = "done"
  /\ \A o, res, p : p \in {"referenceSet", "take", "unlockShared", "unlockExclusive", "checkSize", "Rehash"} =>
       TreePhase(p, o, res) = "done"
BY DEF TreePhase, Trees!EffectAhead

LEMMA TreePhaseNow ==
  ASSUME TreeInv, NEW t \in Thread, TreeAction(t)
  PROVE  /\ Trees!Phase[t] = TreePhase(treePc[t], treeOp[t], treeResult[t])
         /\ Trees!Phase' = [Trees!Phase EXCEPT ![t] = TreePhase(treePc'[t], treeOp'[t], treeResult'[t])]
         /\ Trees!Operation[t] = TreeOperation(treeOp[t])
         /\ Trees!Operation' = [Trees!Operation EXCEPT ![t] = TreeOperation(treeOp'[t])]
<1>1. TreeOthers(t)
  BY TreeCallStep
<1>2. /\ Trees!Phase = [u \in Thread |-> TreePhase(treePc[u], treeOp[u], treeResult[u])]
      /\ Trees!Phase' = [u \in Thread |-> TreePhase(treePc'[u], treeOp'[u], treeResult'[u])]
  BY DEF Trees!Phase, TreePhase
<1>3. /\ \A u \in Thread : Trees!Operation[u] = TreeOperation(treeOp[u])
      /\ \A u \in Thread : Trees!Operation'[u] = TreeOperation(treeOp'[u])
      /\ Trees!Operation = [u \in Thread |-> Trees!Operation[u]]
      /\ Trees!Operation' = [u \in Thread |-> Trees!Operation'[u]]
  BY DEF Trees!Operation, TreeOperation
<1> HIDE DEF TreePhase, TreeOperation
<1>4. \A u \in Thread \ {t} : /\ treePc'[u] = treePc[u] /\ treeOp'[u] = treeOp[u]
                              /\ treeResult'[u] = treeResult[u]
  BY <1>1 DEF TreeOthers
<1> QED BY <1>2, <1>3, <1>4

LEMMA TreeTableIs ==
  ASSUME TreeInv
  PROVE  Trees!RecordsInTable = TreeTable
<1>1. NodeInv /\ Trees!Nodes = NodesIn(treeBuckets) /\ NodesIn(treeBuckets) \subseteq Path
      /\ NoRecord \notin TreeRecord /\ PathOf \in [TreeRecord -> Path]
  BY NodesAre, TreeBucketFacts, TreeConstants DEF TreeInv, ShapeInv
<1> QED BY <1>1 DEF Trees!RecordsInTable, TreeTable, TreeHas, NodeInv, InTree

LEMMA TreeTableThen ==
  ASSUME TreeInv'
  PROVE  Trees!RecordsInTable' = TreeTable'
<1>1. /\ NodeInv' /\ TreeGood(treeBuckets') /\ Trees!Nodes' = NodesIn(treeBuckets')
      /\ NoRecord \notin TreeRecord /\ PathOf \in [TreeRecord -> Path]
  BY NodesThen, TreeConstants DEF TreeInv, ShapeInv
<1>2. PICK bs : bs = treeBuckets'
  OBVIOUS
<1>3. NodesIn(treeBuckets') \subseteq Path
  BY <1>1, <1>2, TreeBucketFacts
<1> QED BY <1>1, <1>3 DEF Trees!RecordsInTable, TreeTable, TreeHas, NodeInv, InTree

LEMMA TreeKeptByStep ==
  ASSUME TreeInv, NEW t \in Thread, TreeAction(t)
  PROVE  TreeInv'
BY TreeCallStep, TreeGrows, TreePathStep, TreeLockStep, TreeNodeStep, TreeChildStep, TreeFamilyStep,
   TreeUnlinkedStep, TreeSearchStep, TreeApplyStep, TreeOwnStep, TreeReferenceStep, TreeItemsStep
   DEF TreeInv, ShapeInv

\* Which records come and go.
LEMMA TreeTableStep ==
  ASSUME TreeInv, NEW t \in Thread, TreeAction(t)
  PROVE  /\ Trees!RecordsInTable = TreeTable /\ Trees!RecordsInTable' = TreeTable'
         /\ payload' = payload => TreeTable' = TreeTable
         /\ treePc[t] \in ExclusiveOps => TreeTable' \subseteq TreeTable
         /\ RecordGiven(t) \/ (NodeLinked(t) /\ path[t] = KeyNode(t)) =>
              /\ TreeTable' = TreeTable \cup {treeRec[t]}
              /\ \A r \in TreeTable : PathOf[r] # KeyNode(t)
         /\ NodeLinked(t) /\ path[t] # KeyNode(t) => TreeTable' = TreeTable
<1>1. /\ NodeInv /\ TreePathInv /\ TreeCallPlaces /\ NoRecord \notin TreeRecord /\ PathOf \in [TreeRecord -> Path]
  BY TreeConstants DEF TreeInv, ShapeInv, TreeCallInv
<1>2. Trees!RecordsInTable = TreeTable /\ Trees!RecordsInTable' = TreeTable'
  BY TreeTableIs, TreeTableThen, TreeKeptByStep
<1>3. payload' = payload => TreeTable' = TreeTable
  BY DEF TreeTable, TreeHas
<1>4. ASSUME treePc[t] \in ExclusiveOps PROVE TreeTable' \subseteq TreeTable
  <2>1. CASE payload' = payload
    BY <1>3, <2>1
  <2>2. CASE Uprooted(t)
    <3>1. PICK gone, emptied \in SUBSET NodesIn(treeBuckets) : Uproots(gone, emptied)
      BY <2>2 DEF Uprooted
    <3>2. payload' = [p \in Path |-> IF p \in gone \cup emptied THEN NoRecord ELSE payload[p]]
      BY <3>1 DEF Uproots
    <3> QED BY <1>1, <3>2 DEF TreeTable, TreeHas
  <2> QED BY <1>4, <2>1, <2>2, TreeMoves DEF TreeQuiet, RecordFound, ChainsRebuilt, RecordGiven, RecordReferenced,
             NodeLinked, NodeCounted, ChildRead, ChildLinked, Standing, ExclusiveOps
<1>5. ASSUME RecordGiven(t) \/ NodeLinked(t)
      PROVE  /\ path[t] \in Path /\ treeRec[t] \in TreeRecord /\ payload[path[t]] = NoRecord
             /\ \A p \in Path : p # path[t] => payload'[p] = payload[p]
             /\ path[t] = KeyNode(t) => payload'[path[t]] = treeRec[t]
             /\ path[t] # KeyNode(t) => payload'[path[t]] = NoRecord
  <2>1. path[t] \in Path /\ treeRec[t] \in TreeRecord
    BY <1>1, <1>5 DEF RecordGiven, NodeLinked, TreePathInv, TreeCallPlaces, Inserting
  <2>2. payload[path[t]] = NoRecord
    BY <1>1, <1>5, <2>1 DEF RecordGiven, NodeLinked, PathGrown, NodeInv, InTree
  <2> QED BY <1>1, <1>5, <2>1, <2>2 DEF RecordGiven, NodeLinked, NodeInv
<1>6. ASSUME RecordGiven(t) \/ NodeLinked(t), path[t] = KeyNode(t)
      PROVE  /\ TreeTable' = TreeTable \cup {treeRec[t]}
             /\ \A r \in TreeTable : PathOf[r] # KeyNode(t)
  BY <1>1, <1>5, <1>6 DEF TreeTable, TreeHas, KeyNode
<1>7. ASSUME NodeLinked(t), path[t] # KeyNode(t) PROVE TreeTable' = TreeTable
  BY <1>1, <1>5, <1>7 DEF TreeTable, TreeHas
<1>8. RecordGiven(t) => path[t] = KeyNode(t)
  BY DEF RecordGiven
<1> QED BY <1>2, <1>3, <1>4, <1>6, <1>7, <1>8

\* The steps that RecordTable does not see.
LEMMA TreeStutters ==
  ASSUME TreeInv, NEW t \in Thread, TreeAction(t),
         TreePhase(treePc'[t], treeOp'[t], treeResult'[t]) = TreePhase(treePc[t], treeOp[t], treeResult[t]),
         TreeOperation(treeOp'[t]) = TreeOperation(treeOp[t]), UNCHANGED <<treeRec, treeResult>>,
         TreeTable' = TreeTable
  PROVE  UNCHANGED Trees!Abstract!vars
<1>1. Trees!Phase' = [Trees!Phase EXCEPT ![t] = Trees!Phase[t]]
      /\ Trees!Operation' = [Trees!Operation EXCEPT ![t] = Trees!Operation[t]]
  BY TreePhaseNow
<1>2. UNCHANGED Trees!Phase /\ UNCHANGED Trees!Operation
  BY <1>1 DEF Trees!Phase, Trees!Operation
<1>3. UNCHANGED Trees!RecordsInTable
  BY TreeTableStep
<1> QED BY <1>2, <1>3 DEF Trees!Abstract!vars

\* The steps with which an operation ends that has taken effect already.
LEMMA TreeReturns ==
  ASSUME TreeInv, NEW t \in Thread, TreeAction(t),
         TreePhase(treePc[t], treeOp[t], treeResult[t]) = "done",
         treePc'[t] = "idle", treeOp'[t] = treeOp[t], UNCHANGED <<treeRec, treeResult>>, TreeTable' = TreeTable
  PROVE  Trees!Abstract!Return(t)
<1>1. Trees!Operation' = [Trees!Operation EXCEPT ![t] = Trees!Operation[t]]
  BY TreePhaseNow
<1>2. UNCHANGED Trees!Operation
  BY <1>1 DEF Trees!Operation
<1>3. UNCHANGED Trees!RecordsInTable
  BY TreeTableStep
<1> QED BY <1>2, <1>3, TreePhaseNow, TreePhases DEF Trees!Abstract!Return

\* The steps in which an operation takes effect.
LEMMA TreeEffects ==
  ASSUME TreeInv, NEW t \in Thread, TreeAction(t), NEW res,
         TreePhase(treePc[t], treeOp[t], treeResult[t]) = "called",
         TreePhase(treePc'[t], treeOp'[t], treeResult'[t]) \in {"idle", "done"}, treeOp'[t] = treeOp[t],
         treeResult' = [treeResult EXCEPT ![t] = res]
  PROVE  Trees!Abstract!Effect(t, res)
<1>1. Trees!Operation' = [Trees!Operation EXCEPT ![t] = Trees!Operation[t]]
  BY TreePhaseNow
<1>2. UNCHANGED Trees!Operation
  BY <1>1 DEF Trees!Operation
<1> QED BY <1>2, TreePhaseNow DEF Trees!Abstract!Effect

\* The record at the key's node is the one that RecordTable finds in the table.
LEMMA TreeSeesAll ==
  ASSUME TreeInv, NEW t \in Thread, treePc[t] # "idle"
  PROVE  /\ Trees!Abstract!SameKey(t) = {r \in TreeTable : PathOf[r] = KeyNode(t)}
         /\ Trees!Abstract!SameKey(t) = {payload[KeyNode(t)]} \ {NoRecord}
<1>1. /\ NodeInv /\ NoRecord \notin TreeRecord /\ PathOf \in [TreeRecord -> Path] /\ treeRec[t] \in TreeRecord
      /\ Trees!RecordsInTable = TreeTable
  BY TreeConstants, TreeTableIs DEF TreeInv, ShapeInv, TreeCallInv, TreeCallPlaces
<1>2. Trees!Abstract!SameKey(t) = {r \in TreeTable : PathOf[r] = KeyNode(t)}
  BY <1>1 DEF Trees!Abstract!SameKey, KeyNode
<1>3. {r \in TreeTable : PathOf[r] = KeyNode(t)} = {payload[KeyNode(t)]} \ {NoRecord}
  BY <1>1 DEF TreeTable, TreeHas, NodeInv, KeyNode
<1> QED BY <1>2, <1>3

\* Every step is a step of RecordTable, or one that it does not see.
LEMMA TreeStepImplements ==
  ASSUME TreeInv, NEW t \in Thread, TreeAction(t)
  PROVE  Trees!Abstract!Next \/ UNCHANGED Trees!Abstract!vars
<1>1. /\ TreeCallTypes /\ TreeCallPlaces /\ TreePathInv /\ NodeInv /\ TreeCallTypes'
      /\ Trees!RecordsInTable = TreeTable /\ Trees!RecordsInTable' = TreeTable'
      /\ payload' = payload => TreeTable' = TreeTable
      /\ Trees!KeyPath(t) = KeyNode(t)
  BY TreeTableStep, TreeCallStep DEF TreeInv, TreeCallInv, ShapeInv, Trees!KeyPath, KeyNode
<1>2. /\ Trees!Abstract!Invoke(t) \/ Trees!Abstract!Return(t) \/ Trees!Abstract!Refuse(t) => Trees!Abstract!Next
      /\ Trees!Abstract!Insert(t) \/ Trees!Abstract!Find(t) => Trees!Abstract!Next
      /\ Trees!Abstract!Apply(t) \/ Trees!Abstract!DeleteIf(t) \/ Trees!Abstract!Clear(t) => Trees!Abstract!Next
  BY DEF Trees!Abstract!Next
<1>3. CASE \E o \in TreeOpNames, r \in TreeRecord : Trees!Invoke(t, o, r)
  <2>1. PICK o \in TreeOpNames, r \in TreeRecord : Trees!Invoke(t, o, r)
    BY <1>3
  <2>2. /\ treePc[t] = "idle" /\ treePc'[t] \in {"lockShared", "lockExclusive"} /\ treeOp'[t] = o /\ o # "Rehash"
        /\ treeRec' = [treeRec EXCEPT ![t] = r] /\ treeResult' = [treeResult EXCEPT ![t] = "NONE"]
        /\ payload' = payload
    BY <1>1, <2>1, TreeConstants DEF Trees!Invoke, Trees!Goto, Trees!Return, Trees!tree, TreeCallTypes
  <2>3. /\ Trees!Phase[t] = "idle" /\ Trees!Phase' = [Trees!Phase EXCEPT ![t] = "called"]
        /\ Trees!Operation' = [Trees!Operation EXCEPT ![t] = TreeOperation(o)]
    <3>1. /\ TreePhase(treePc[t], treeOp[t], treeResult[t]) = "idle"
          /\ TreePhase(treePc'[t], treeOp'[t], treeResult'[t]) = "called"
      BY <2>2, TreePhases DEF Trees!EffectAhead
    <3> QED BY <2>2, <3>1, TreePhaseNow
  <2>4. TreeOperation(o) \in TreeOpNames \cup {"DeleteIf"}
    BY <2>2 DEF TreeOperation
  <2> QED BY <1>1, <1>2, <2>2, <2>3, <2>4 DEF Trees!Abstract!Invoke
<1>4. CASE Trees!LockShared(t) \/ Trees!StartApply(t)
  <2>1. /\ treeRec' = treeRec /\ treeOp' = treeOp /\ treeResult' = treeResult /\ payload' = payload
        /\ treePc[t] = "lockShared"
        /\ treePc'[t] \in SharedOps
    BY <1>1, <1>4 DEF Trees!LockShared, Trees!StartApply, Trees!Goto, Trees!tree, Trees!call, TreeCallTypes,
       TreeCallPlaces, SharedOps
  <2>2. TreePhase(treePc'[t], treeOp'[t], treeResult'[t]) = TreePhase(treePc[t], treeOp[t], treeResult[t])
    BY <1>1, <2>1, TreePhases DEF Trees!EffectAhead, SharedOps
  <2> QED BY <1>1, <2>1, <2>2, TreeStutters
<1>5. CASE Trees!LockExclusive(t)
  <2>1. /\ treeRec' = treeRec /\ treeOp' = treeOp /\ treeResult' = treeResult /\ payload' = payload
        /\ treePc[t] = "lockExclusive"
        /\ treePc'[t] = treeOp[t] /\ treeOp[t] \in ExclusiveOps
    BY <1>1, <1>5 DEF Trees!LockExclusive, Trees!Goto, Trees!tree, Trees!call, TreeCallTypes, TreeCallPlaces, SharedOps
  <2>2. TreePhase(treePc'[t], treeOp'[t], treeResult'[t]) = TreePhase(treePc[t], treeOp[t], treeResult[t])
    BY <1>1, <2>1, TreePhases DEF Trees!EffectAhead, ExclusiveOps
  <2> QED BY <1>1, <2>1, <2>2, TreeStutters
<1>6. CASE Trees!UnlockShared(t) \/ Trees!UnlockExclusive(t)
  <2>1. /\ treeRec' = treeRec /\ treeOp' = treeOp /\ treeResult' = treeResult /\ payload' = payload
        /\ treePc'[t] \in {"checkSize", "idle"} /\ treePc[t] \in {"unlockShared", "unlockExclusive"}
    BY <1>1, <1>6 DEF Trees!UnlockShared, Trees!UnlockExclusive, Trees!Goto, Trees!tree, Trees!call, TreeCallTypes
  <2>2. /\ TreePhase(treePc[t], treeOp[t], treeResult[t]) = "done"
        /\ TreePhase("checkSize", treeOp[t], treeResult[t]) = "done"
    BY <2>1, TreePhases
  <2>3. CASE treePc'[t] = "checkSize"
    BY <1>1, <2>1, <2>2, <2>3, TreeStutters
  <2>4. CASE treePc'[t] = "idle"
    BY <1>1, <1>2, <2>1, <2>2, <2>4, TreeReturns
  <2> QED BY <2>1, <2>3, <2>4
<1>7. CASE Trees!FindNode(t)
  <2>1. /\ treePc[t] = "FindKey" /\ treeOp[t] = "FindKey" /\ treeOp' = treeOp /\ payload' = payload
        /\ treePc'[t] \in {"unlockShared", "take"}
        /\ \/ /\ ~InTree(KeyNode(t)) \/ payload[KeyNode(t)] = NoRecord
              /\ treeRec' = treeRec /\ treeResult' = [treeResult EXCEPT ![t] = "NO_SUCH_KEY"]
           \/ /\ payload[KeyNode(t)] # NoRecord
              /\ treeRec' = [treeRec EXCEPT ![t] = payload[KeyNode(t)]]
              /\ treeResult' = [treeResult EXCEPT ![t] = "SUCCESS"]
    BY <1>1, <1>7, NodesAre DEF Trees!FindNode, Trees!Goto, Trees!Return, Trees!tree, TreeCallTypes,
       TreeCallPlaces, InTree
  <2>2. /\ Trees!Abstract!SameKey(t) = {payload[KeyNode(t)]} \ {NoRecord} /\ Trees!Operation[t] = "FindKey"
        /\ KeyNode(t) \in Path
    BY <1>1, <2>1, TreeSeesAll, TreePhaseNow, TreeConstants DEF TreeOperation, TreeCallPlaces, KeyNode
  <2>3. ~InTree(KeyNode(t)) => payload[KeyNode(t)] = NoRecord
    BY <1>1, <2>2 DEF NodeInv
  <2>4. /\ TreePhase(treePc[t], treeOp[t], treeResult[t]) = "called"
        /\ TreePhase(treePc'[t], treeOp'[t], treeResult'[t]) = "done"
    BY <2>1, TreePhases DEF Trees!EffectAhead
  <2>5. \A res : treeResult' = [treeResult EXCEPT ![t] = res] => Trees!Abstract!Effect(t, res)
    BY <2>1, <2>4, TreeEffects
  <2> QED BY <1>1, <1>2, <2>1, <2>2, <2>3, <2>5 DEF Trees!Abstract!Find
<1>8. CASE Trees!Take(t)
  <2>1. /\ treeRec' = treeRec /\ treeOp' = treeOp /\ treeResult' = treeResult /\ payload' = payload
        /\ treePc[t] = "take"
        /\ treePc'[t] = "unlockShared"
    BY <1>1, <1>8 DEF Trees!Take, Trees!Goto, Trees!tree, Trees!call, TreeCallTypes, TreeCallPlaces, SharedOps
  <2>2. TreePhase(treePc'[t], treeOp'[t], treeResult'[t]) = TreePhase(treePc[t], treeOp[t], treeResult[t])
    BY <1>1, <2>1, TreePhases
  <2> QED BY <1>1, <2>1, <2>2, TreeStutters
<1>9. CASE Trees!ApplyNode(t)
  <2>1. /\ treePc' = treePc /\ treeOp' = treeOp /\ treeRec' = treeRec /\ treeResult' = treeResult
        /\ payload' = payload
    BY <1>9 DEF Trees!ApplyNode, Trees!tree, Trees!call
  <2> QED BY <1>1, <2>1, TreeStutters
<1>10. CASE Trees!ApplyBucket(t)
  <2>1. /\ treePc[t] = "Apply" /\ treeOp[t] = "Apply" /\ treeOp' = treeOp /\ treeRec' = treeRec /\ payload' = payload
        /\ \/ treePc' = treePc /\ treeResult' = treeResult
           \/ treePc'[t] = "unlockShared" /\ treeResult' = [treeResult EXCEPT ![t] = "SUCCESS"]
    BY <1>1, <1>10 DEF Trees!ApplyBucket, Trees!Goto, Trees!Return, Trees!tree, TreeCallTypes, TreeCallPlaces
  <2>2. CASE treePc' = treePc /\ treeResult' = treeResult
    BY <1>1, <2>1, <2>2, TreeStutters
  <2>3. CASE treePc'[t] = "unlockShared" /\ treeResult' = [treeResult EXCEPT ![t] = "SUCCESS"]
    <3>1. Trees!Abstract!Effect(t, "SUCCESS")
      <4>1. /\ TreePhase(treePc[t], treeOp[t], treeResult[t]) = "called"
            /\ TreePhase(treePc'[t], treeOp'[t], treeResult'[t]) \in {"idle", "done"}
        BY <2>1, <2>3, TreePhases DEF Trees!EffectAhead
      <4> QED BY <2>1, <2>3, <4>1, TreeEffects
    <3>2. Trees!Operation[t] = "Apply"
      BY <2>1, TreePhaseNow DEF TreeOperation
    <3> QED BY <1>1, <1>2, <2>1, <3>1, <3>2 DEF Trees!Abstract!Apply
  <2> QED BY <2>1, <2>2, <2>3
<1>11. CASE Trees!Ascend(t)
  <2>1. /\ treeRec' = treeRec /\ treeOp' = treeOp /\ treeResult' = treeResult /\ payload' = payload
        /\ treePc[t] = "Insert"
        /\ treePc'[t] \in {"Insert", "add"}
    BY <1>1, <1>11 DEF Trees!Ascend, Trees!Goto, Trees!tree, Trees!call, TreeCallTypes, TreeCallPlaces, SharedOps
  <2>2. TreePhase(treePc'[t], treeOp'[t], treeResult'[t]) = TreePhase(treePc[t], treeOp[t], treeResult[t])
    BY <1>1, <2>1, TreePhases DEF Trees!EffectAhead
  <2> QED BY <1>1, <2>1, <2>2, TreeStutters
<1>12. CASE Trees!Allocate(t)
  <2>1. /\ treePc[t] = "add" /\ treeOp' = treeOp /\ treeRec' = treeRec /\ payload' = payload
        /\ \/ treePc'[t] = "search" /\ treeResult' = treeResult
           \/ treePc'[t] = "unlockShared" /\ treeResult' = [treeResult EXCEPT ![t] = "ALLOC_FAIL"]
    BY <1>1, <1>12 DEF Trees!Allocate, Trees!Goto, Trees!Return, Trees!tree, TreeCallTypes
  <2>2. CASE treePc'[t] = "search" /\ treeResult' = treeResult
    <3>1. TreePhase(treePc'[t], treeOp'[t], treeResult'[t]) = TreePhase(treePc[t], treeOp[t], treeResult[t])
      BY <2>1, <2>2, TreePhases DEF Trees!EffectAhead
    <3> QED BY <1>1, <2>1, <2>2, <3>1, TreeStutters
  <2>3. CASE treePc'[t] = "unlockShared" /\ treeResult' = [treeResult EXCEPT ![t] = "ALLOC_FAIL"]
    <3>1. Trees!Abstract!Effect(t, "ALLOC_FAIL")
      <4>1. /\ TreePhase(treePc[t], treeOp[t], treeResult[t]) = "called"
            /\ TreePhase(treePc'[t], treeOp'[t], treeResult'[t]) \in {"idle", "done"}
        BY <2>1, <2>3, TreePhases DEF Trees!EffectAhead
      <4> QED BY <2>1, <2>3, <4>1, TreeEffects
    <3> QED BY <1>1, <1>2, <2>1, <3>1 DEF Trees!Abstract!Refuse, Trees!Abstract!Refusal
  <2> QED BY <2>1, <2>2, <2>3
<1>13. CASE Trees!Search(t) \/ Trees!Relink(t)
  <2>1. /\ treeRec' = treeRec /\ treeOp' = treeOp /\ treeResult' = treeResult /\ payload' = payload
        /\ treePc[t] \in {"search", "link"} /\ treePc'[t] \in {"setRecord", "link", "search"}
    BY <1>1, <1>13 DEF Trees!Search, Trees!Relink, Trees!Goto, Trees!tree, Trees!call, TreeCallTypes
  <2>2. treeResult[t] = "NONE"
    BY <1>1, <2>1 DEF TreePathInv
  <2>3. TreePhase(treePc'[t], treeOp'[t], treeResult'[t]) = TreePhase(treePc[t], treeOp[t], treeResult[t])
    BY <2>1, <2>2, TreePhases DEF Trees!EffectAhead
  <2> QED BY <1>1, <2>1, <2>3, TreeStutters
<1>14. CASE Trees!PassNode(t)
  <2>1. /\ treePc[t] = "setRecord" /\ treeOp[t] = "Insert" /\ treeOp' = treeOp /\ treeRec' = treeRec
        /\ payload' = payload /\ Trees!Descend(t, treePc[t]) /\ treeResult[t] = "NONE"
        /\ path[t] = KeyNode(t) => /\ payload[KeyNode(t)] # NoRecord
                                   /\ treeResult' = [treeResult EXCEPT ![t] = "KEY_EXISTS"]
        /\ path[t] # KeyNode(t) => treeResult' = treeResult
    BY <1>1, <1>14 DEF Trees!PassNode, Trees!Descend, Trees!Goto, Trees!tree, TreeCallTypes, TreeCallPlaces, Inserting,
       TreePathInv
  <2>2. treePc'[t] = IF path[t] = KeyNode(t) THEN "unlockShared" ELSE "add"
    BY <1>1, <2>1, DescendIs DEF TreeCallTypes
  <2>3. CASE path[t] = KeyNode(t)
    <3>1. Trees!Abstract!Effect(t, "KEY_EXISTS")
      <4>1. /\ TreePhase(treePc[t], treeOp[t], treeResult[t]) = "called"
            /\ TreePhase(treePc'[t], treeOp'[t], treeResult'[t]) \in {"idle", "done"}
        BY <2>1, <2>2, <2>3, TreePhases DEF Trees!EffectAhead
      <4> QED BY <2>1, <2>3, <4>1, TreeEffects
    <3>2. Trees!Abstract!SameKey(t) # {} /\ Trees!Operation[t] = "Insert"
      BY <2>1, <2>3, TreeSeesAll, TreePhaseNow DEF TreeOperation
    <3> QED BY <1>1, <1>2, <2>1, <3>1, <3>2 DEF Trees!Abstract!Insert
  <2>4. CASE path[t] # KeyNode(t)
    <3>1. TreePhase(treePc'[t], treeOp'[t], treeResult'[t]) = TreePhase(treePc[t], treeOp[t], treeResult[t])
      BY <2>1, <2>2, <2>4, TreePhases DEF Trees!EffectAhead
    <3> QED BY <1>1, <2>1, <2>4, <3>1, TreeStutters
  <2> QED BY <2>3, <2>4
<1>15. CASE Trees!SetRecord(t)
  <2>1. /\ treePc[t] = "setRecord" /\ treePc'[t] = "referenceSet" /\ treeOp[t] = "Insert" /\ treeOp' = treeOp
        /\ treeRec' = treeRec /\ treeResult' = [treeResult EXCEPT ![t] = "SUCCESS"] /\ treeResult[t] = "NONE"
    BY <1>1, <1>15 DEF Trees!SetRecord, Trees!Goto, Trees!Return, Trees!call, TreeCallTypes, TreeCallPlaces, Inserting,
       TreePathInv
  <2>2. RecordGiven(t)
    BY <2>1, TreeMoves DEF TreeQuiet, RecordFound, ChainsRebuilt, RecordReferenced, NodeLinked, NodeCounted,
       ChildRead, ChildLinked, Uprooted
  <2>3. TreeTable' = TreeTable \cup {treeRec[t]} /\ \A r \in TreeTable : PathOf[r] # KeyNode(t)
    BY <2>2, TreeTableStep
  <2>4. Trees!Abstract!SameKey(t) = {} /\ Trees!Operation[t] = "Insert"
    BY <2>1, <2>3, TreeSeesAll, TreePhaseNow DEF TreeOperation
  <2>5. Trees!Abstract!Effect(t, "SUCCESS")
    <3>1. /\ TreePhase(treePc[t], treeOp[t], treeResult[t]) = "called"
          /\ TreePhase(treePc'[t], treeOp'[t], treeResult'[t]) \in {"idle", "done"}
      BY <2>1, TreePhases
    <3> QED BY <2>1, <3>1, TreeEffects
  <2> QED BY <1>1, <1>2, <2>1, <2>3, <2>4, <2>5 DEF Trees!Abstract!Insert
<1>16. CASE Trees!ReferenceSet(t)
  <2>1. /\ treeRec' = treeRec /\ treeOp' = treeOp /\ treeResult' = treeResult /\ payload' = payload
        /\ treePc[t] = "referenceSet"
        /\ treePc'[t] = "unlockShared"
    BY <1>1, <1>16 DEF Trees!ReferenceSet, Trees!Goto, Trees!tree, Trees!call, TreeCallTypes, TreeCallPlaces, SharedOps
  <2>2. TreePhase(treePc'[t], treeOp'[t], treeResult'[t]) = TreePhase(treePc[t], treeOp[t], treeResult[t])
    BY <1>1, <2>1, TreePhases
  <2> QED BY <1>1, <2>1, <2>2, TreeStutters
<1>17. CASE Trees!LinkNode(t)
  <2>1. /\ treePc[t] = "link" /\ treeOp[t] = "Insert" /\ treeOp' = treeOp /\ treeRec' = treeRec
        /\ treePc'[t] = (IF path[t] = KeyNode(t) THEN "reference" ELSE "count") /\ treeResult[t] = "NONE"
        /\ path[t] = KeyNode(t) => treeResult' = [treeResult EXCEPT ![t] = "SUCCESS"]
        /\ path[t] # KeyNode(t) => treeResult' = treeResult
    BY <1>1, <1>17 DEF Trees!LinkNode, Trees!Goto, Trees!Return, TreeCallTypes, TreeCallPlaces, Inserting, TreePathInv
  <2>2. NodeLinked(t)
    BY <2>1, TreeMoves DEF TreeQuiet, RecordFound, ChainsRebuilt, RecordReferenced, RecordGiven, NodeCounted,
       ChildRead, ChildLinked, Uprooted, Linking
  <2>3. CASE path[t] = KeyNode(t)
    <3>1. TreeTable' = TreeTable \cup {treeRec[t]} /\ \A r \in TreeTable : PathOf[r] # KeyNode(t)
      BY <2>2, <2>3, TreeTableStep
    <3>2. Trees!Abstract!SameKey(t) = {} /\ Trees!Operation[t] = "Insert"
      BY <2>1, <3>1, TreeSeesAll, TreePhaseNow DEF TreeOperation
    <3>3. Trees!Abstract!Effect(t, "SUCCESS")
      <4>1. /\ TreePhase(treePc[t], treeOp[t], treeResult[t]) = "called"
            /\ TreePhase(treePc'[t], treeOp'[t], treeResult'[t]) \in {"idle", "done"}
        BY <1>1, <2>1, <2>3, TreePhases DEF TreeCallTypes, Trees!EffectAhead
      <4> QED BY <2>1, <2>3, <4>1, TreeEffects
    <3> QED BY <1>1, <1>2, <2>1, <3>1, <3>2, <3>3 DEF Trees!Abstract!Insert
  <2>4. CASE path[t] # KeyNode(t)
    <3>1. TreePhase(treePc'[t], treeOp'[t], treeResult'[t]) = TreePhase(treePc[t], treeOp[t], treeResult[t])
      BY <2>1, <2>4, TreePhases DEF Trees!EffectAhead
    <3>2. TreeTable' = TreeTable
      BY <2>2, <2>4, TreeTableStep
    <3> QED BY <1>1, <2>1, <2>4, <3>1, <3>2, TreeStutters
  <2> QED BY <2>3, <2>4
<1>18. CASE Trees!Reference(t) \/ Trees!ReadFirstChild(t)
  <2>1. /\ treeRec' = treeRec /\ treeOp' = treeOp /\ treeResult' = treeResult /\ payload' = payload
        /\ treePc[t] \in {"reference", "readChild"} /\ treePc'[t] \in {"count", "linkChild"}
    BY <1>1, <1>18 DEF Trees!Reference, Trees!ReadFirstChild, Trees!Goto, Trees!tree, Trees!call, TreeCallTypes
  <2>2. treeResult[t] \in {"NONE", "SUCCESS"}
    BY <1>1, <2>1 DEF TreePathInv, Linking
  <2>3. TreePhase(treePc'[t], treeOp'[t], treeResult'[t]) = TreePhase(treePc[t], treeOp[t], treeResult[t])
    BY <2>1, <2>2, TreePhases
  <2> QED BY <1>1, <2>1, <2>3, TreeStutters
<1>19. CASE Trees!IncrementItems(t)
  <2>1. /\ treeRec' = treeRec /\ treeOp' = treeOp /\ treeResult' = treeResult /\ payload' = payload
        /\ treePc[t] = "count" /\ (Trees!Descend(t, treePc[t]) \/ treePc'[t] = "readChild")
    BY <1>1, <1>19 DEF Trees!IncrementItems, Trees!Descend, Trees!Goto, Trees!tree, Trees!call, TreeCallTypes
  <2>2. treeResult[t] = IF path[t] = KeyNode(t) THEN "SUCCESS" ELSE "NONE"
    BY <1>1, <2>1 DEF TreePathInv, Linking
  <2>3. treePc'[t] = "readChild" \/ treePc'[t] = IF path[t] = KeyNode(t) THEN "unlockShared" ELSE "add"
    BY <1>1, <2>1, DescendIs DEF TreeCallTypes
  <2>4. TreePhase(treePc'[t], treeOp'[t], treeResult'[t]) = TreePhase(treePc[t], treeOp[t], treeResult[t])
    BY <2>1, <2>2, <2>3, TreePhases DEF Trees!EffectAhead
  <2> QED BY <1>1, <2>1, <2>4, TreeStutters
<1>20. CASE Trees!LinkChild(t)
  <2>1. /\ treeRec' = treeRec /\ treeOp' = treeOp /\ treeResult' = treeResult /\ payload' = payload
        /\ treePc[t] = "linkChild" /\ (Trees!Descend(t, treePc[t]) \/ treePc'[t] = "readChild")
    BY <1>1, <1>20 DEF Trees!LinkChild, Trees!Descend, Trees!Goto, Trees!tree, Trees!call, TreeCallTypes
  <2>2. treeResult[t] = IF path[t] = KeyNode(t) THEN "SUCCESS" ELSE "NONE"
    BY <1>1, <2>1 DEF TreePathInv, Linking
  <2>3. treePc'[t] = "readChild" \/ treePc'[t] = IF path[t] = KeyNode(t) THEN "unlockShared" ELSE "add"
    BY <1>1, <2>1, DescendIs DEF TreeCallTypes
  <2>4. TreePhase(treePc'[t], treeOp'[t], treeResult'[t]) = TreePhase(treePc[t], treeOp[t], treeResult[t])
    BY <2>1, <2>2, <2>3, TreePhases DEF Trees!EffectAhead
  <2> QED BY <1>1, <2>1, <2>4, TreeStutters
<1>21. CASE Trees!DeleteKey(t) \/ Trees!DeleteIf(t)
  <2>1. /\ treePc[t] \in {"DeleteKey", "DeleteIf"} /\ treeOp[t] = treePc[t] /\ treePc'[t] = "unlockExclusive"
        /\ treeOp' = treeOp /\ treeRec' = treeRec /\ treeResult' = [treeResult EXCEPT ![t] = "SUCCESS"]
    BY <1>1, <1>21 DEF Trees!DeleteKey, Trees!DeleteIf, Trees!Goto, Trees!Return, TreeCallTypes, TreeCallPlaces,
       ExclusiveOps
  <2>2. TreeTable' \subseteq TreeTable
    BY <2>1, TreeTableStep DEF ExclusiveOps
  <2>3. \E gone \in SUBSET TreeTable : TreeTable' = TreeTable \ gone
    <3>1. TreeTable' = TreeTable \ (TreeTable \ TreeTable')
      BY <2>2
    <3> QED BY <3>1
  <2>4. Trees!Abstract!Effect(t, "SUCCESS") /\ Trees!Operation[t] = "DeleteIf"
    <3>1. /\ TreePhase(treePc[t], treeOp[t], treeResult[t]) = "called"
          /\ TreePhase(treePc'[t], treeOp'[t], treeResult'[t]) \in {"idle", "done"}
      BY <2>1, TreePhases DEF Trees!EffectAhead
    <3>2. Trees!Operation[t] = "DeleteIf"
      BY <2>1, TreePhaseNow DEF TreeOperation
    <3> QED BY <2>1, <3>1, <3>2, TreeEffects
  <2> QED BY <1>1, <1>2, <2>1, <2>3, <2>4 DEF Trees!Abstract!DeleteIf
<1>22. CASE Trees!Clear(t)
  <2>1. /\ treePc[t] = "Clear" /\ treeOp[t] = "Clear" /\ treePc'[t] = "unlockExclusive"
        /\ treeOp' = treeOp /\ treeRec' = treeRec /\ treeResult' = [treeResult EXCEPT ![t] = "SUCCESS"]
        /\ payload' = [p \in Path |-> IF p \in NodesIn(treeBuckets) \cup {} THEN NoRecord ELSE payload[p]]
    BY <1>1, <1>22, NodesAre DEF Trees!Clear, Trees!TakeOut, Trees!Goto, Trees!Return, TreeCallTypes, TreeCallPlaces,
       ExclusiveOps
  <2>2. TreeTable' = {}
    <3>1. \A p \in Path : payload'[p] = NoRecord
      BY <1>1, <2>1 DEF NodeInv, InTree
    <3> QED BY <3>1, TreeConstants DEF TreeTable, TreeHas
  <2>3. Trees!Abstract!Effect(t, "SUCCESS") /\ Trees!Operation[t] = "Clear"
    <3>1. /\ TreePhase(treePc[t], treeOp[t], treeResult[t]) = "called"
          /\ TreePhase(treePc'[t], treeOp'[t], treeResult'[t]) \in {"idle", "done"}
      BY <2>1, TreePhases DEF Trees!EffectAhead
    <3>2. Trees!Operation[t] = "Clear"
      BY <2>1, TreePhaseNow DEF TreeOperation
    <3> QED BY <2>1, <3>1, <3>2, TreeEffects
  <2> QED BY <1>1, <1>2, <2>1, <2>2, <2>3 DEF Trees!Abstract!Clear
<1>23. CASE Trees!CheckSize(t)
  <2>1. /\ treePc[t] = "checkSize" /\ treeOp[t] = "Insert" /\ treeRec' = treeRec /\ treeResult' = treeResult
        /\ payload' = payload
        /\ \/ treePc'[t] = "idle" /\ treeOp' = treeOp
           \/ treePc'[t] = "lockExclusive" /\ treeOp'[t] = "Rehash"
    BY <1>1, <1>23 DEF Trees!CheckSize, Trees!Goto, Trees!tree, TreeCallTypes, TreeCallPlaces
  <2>2. /\ TreePhase(treePc[t], treeOp[t], treeResult[t]) = "done"
        /\ TreePhase("lockExclusive", "Rehash", treeResult[t]) = "done"
        /\ TreeOperation("Rehash") = TreeOperation("Insert")
    BY <2>1, TreePhases DEF TreeOperation
  <2>3. CASE treePc'[t] = "idle" /\ treeOp' = treeOp
    BY <1>1, <1>2, <2>1, <2>2, <2>3, TreeReturns
  <2>4. CASE treePc'[t] = "lockExclusive" /\ treeOp'[t] = "Rehash"
    BY <1>1, <2>1, <2>2, <2>4, TreeStutters
  <2> QED BY <2>1, <2>3, <2>4
<1>24. CASE Trees!Rehash(t)
  <2>1. /\ treePc[t] = "Rehash" /\ treePc'[t] = "unlockExclusive" /\ treeOp' = treeOp /\ treeRec' = treeRec
        /\ treeResult' = treeResult /\ payload' = payload
    BY <1>1, <1>24 DEF Trees!Rehash, Trees!Goto, Trees!call, TreeCallTypes
  <2>2. TreePhase(treePc'[t], treeOp'[t], treeResult'[t]) = TreePhase(treePc[t], treeOp[t], treeResult[t])
    BY <2>1, TreePhases
  <2> QED BY <1>1, <2>1, <2>2, TreeStutters
<1> QED BY <1>3, <1>4, <1>5, <1>6, <1>7, <1>8, <1>9, <1>10, <1>11, <1>12, <1>13, <1>14, <1>15, <1>16, <1>17, <1>18,
   <1>19, <1>20, <1>21, <1>22, <1>23, <1>24, Zenon DEF TreeAction, Trees!Step

\* TREE_HASH_TABLE (treehash.h) implements an atomic set of records with distinct
\* keys, of which a deletion takes several: the ancestors' nodes never show.
THEOREM TreeAlwaysImplements == PartSpec => TreeImplements
<1>1. PartInit => TreeInv /\ Trees!Abstract!Init
  <2> SUFFICES ASSUME Trees!Init PROVE Trees!Abstract!Init
    BY TreeStart DEF PartInit
  <2>1. Trees!RecordsInTable = TreeTable
    BY TreeStart, TreeTableIs
  <2>2. \A u \in Thread : treePc[u] = "idle"
    BY DEF Trees!Init
  <2>3. Trees!Phase = [u \in Thread |-> "idle"]
    <3>1. Trees!Phase = [u \in Thread |-> TreePhase(treePc[u], treeOp[u], treeResult[u])]
      BY DEF Trees!Phase, TreePhase
    <3> HIDE DEF TreePhase
    <3> QED BY <2>2, <3>1, TreePhases
  <2>4. treeResult = [u \in Thread |-> "NONE"]
    BY DEF Trees!Init
  <2>5. \A r, s \in TreeTable : PathOf[r] = PathOf[s] => r = s
    BY DEF TreeTable, TreeHas
  <2> QED BY <2>1, <2>3, <2>4, <2>5 DEF Trees!Abstract!Init
<1>2. TreeInv /\ [PartNext]_partVars => TreeInv'
  BY TreeSteps, TreeKept
<1>3. TreeInv /\ [PartNext]_partVars =>
        [part = "tree" => Trees!Abstract!Next]_(Trees!Abstract!vars)
  <2> SUFFICES ASSUME TreeInv, [PartNext]_partVars
               PROVE  Trees!Abstract!Next \/ UNCHANGED Trees!Abstract!vars
    BY Zenon
  <2>1. [Trees!Next]_(Trees!vars)
    BY TreeSteps
  <2>2. CASE Trees!Next
    BY <2>2, TreeStepImplements DEF Trees!Next, TreeAction
  <2>3. CASE UNCHANGED Trees!vars
    <3>1. /\ treeBuckets' = treeBuckets /\ payload' = payload /\ treeOp' = treeOp /\ treeRec' = treeRec
          /\ treeResult' = treeResult /\ treePc' = treePc
      BY <2>3 DEF Trees!vars, Trees!tree, Trees!call
    <3> QED BY <3>1 DEF Trees!Abstract!vars, Trees!Phase, Trees!Operation, Trees!RecordsInTable, Trees!Nodes
  <2> QED BY <2>1, <2>2, <2>3
<1> QED BY <1>1, <1>2, <1>3, PTL DEF PartSpec, TreeImplements

=============================================================================
