-------------------------- MODULE StructuresProofs --------------------------
(***************************************************************************)
(* Theorems about the data structures of the libraries, of the modules'    *)
(* own specifications and of PartSpec, in which the other structures stand *)
(* still: the allocation cache, the trace log, the set-up of a table and   *)
(* of an array of tables, and the walks of a CLKRHashTable beside its      *)
(* other operations.                                                       *)
(***************************************************************************)
EXTENDS MCStructures, FiniteSetTheorems, TLAPS

(* What each part does in a step of the suite is a step of its module.     *)
LEMMA StructureSteps ==
  ASSUME [PartNext]_partVars
  PROVE  /\ [Log!Next]_(Log!logVars) /\ [Setup!Next]_(Setup!vars)
         /\ [Array!Next]_(Array!arrayVars) /\ [SubTabs!Next]_(SubTabs!vars)
         /\ [Next]_cacheVars
BY Zenon DEF PartNext, partVars, cacheVars, hashVars, treeVars, clumpVars, setupVars, subVars, arrayVars,
   logVars, Log!logVars, Setup!vars, Array!arrayVars, Array!sizes, SubTabs!vars,
   SubTabs!records, SubTabs!tableLocks, SubTabs!call, SubTabs!walk

-----------------------------------------------------------------------------
(* AllocCache: for any number of threads, processors and blocks and any    *)
(* threshold, the free lists stay short although their depth is read       *)
(* before the push, and no block is lost or given twice.                   *)

\* The threads that have read the depth of list p and not yet pushed.
Pushing(p) == {t \in Thread : cachePc[t] = "push" /\ pListHeader[t] = p}

\* What makes DepthBounded inductive: a push takes its thread out of Pushing,
\* and a thread enters it only when the list is below the threshold.
DepthInv ==
  \A p \in Processor :
    Cardinality(freeLists[p]) + Cardinality(Pushing(p)) < nThreshold + Cardinality(Thread)

\* A thread has a block in its hands from StartFree to HeapFree or Push.
HandsInv == \A t \in Thread : block[t] # NoBlock <=> cachePc[t] \in {"queryDepth", "push"}

\* The heap's blocks are those that somebody has, ...
KnownInv ==
  \A b \in Block :
    b \in heapBlocks <=> \/ b \in inUse
                         \/ \E p \in Processor : b \in freeLists[p]
                         \/ \E t \in Thread : b = block[t]

\* ... and each is in one place.
ApartInv ==
  /\ \A p \in Processor : \A b \in freeLists[p] :
       /\ b \notin inUse
       /\ \A q \in Processor : b \in freeLists[q] => q = p
       /\ \A t \in Thread : b # block[t]
  /\ \A t \in Thread : block[t] \notin inUse
  /\ \A t, u \in Thread : block[t] # NoBlock /\ block[t] = block[u] => t = u

\* The destructor runs alone and empties list after list.
CleanInv ==
  \/ toClean = {"no"}
  \/ /\ toClean \in SUBSET Processor
     /\ \A t \in Thread : cachePc[t] = "idle"
     /\ \A p \in Processor \ toClean : freeLists[p] = {}

CacheInv == TypeOK /\ HandsInv /\ DepthInv /\ KnownInv /\ ApartInv /\ CleanInv

-----------------------------------------------------------------------------
(* Sizes                                                                   *)

LEMMA SizesFinite ==
  ASSUME TypeOK, NEW p \in Processor
  PROVE  /\ IsFiniteSet(freeLists[p]) /\ Cardinality(freeLists[p]) \in Nat
         /\ IsFiniteSet(Pushing(p)) /\ Cardinality(Pushing(p)) \in Nat
         /\ Cardinality(Thread) \in Nat
         /\ Cardinality(Pushing(p)) <= Cardinality(Thread)
<1>1. freeLists[p] \in SUBSET Block  BY DEF TypeOK
<1>2. Pushing(p) \in SUBSET Thread  BY DEF Pushing
<1> QED  BY <1>1, <1>2, FS_Subset, FS_CardinalityType, CacheAssumption

\* While the lists are bounded, the depth that the system tells is the length.
LEMMA DepthIsLength ==
  ASSUME TypeOK, DepthInv, NEW p \in Processor
  PROVE  QueryDepthSList(p) = Cardinality(freeLists[p])
<1>1. Cardinality(freeLists[p]) \in Nat /\ Cardinality(Pushing(p)) \in Nat /\ Cardinality(Thread) \in Nat
  BY SizesFinite
<1>2. Cardinality(freeLists[p]) < DepthModulus
  BY <1>1, CacheAssumption, DepthAssumption DEF DepthInv
<1> DEFINE n == Cardinality(freeLists[p])
<1>3. ASSUME NEW k \in Nat, k < DepthModulus PROVE k % DepthModulus = k
  BY <1>3, CacheAssumption, SMT
<1> QED  BY <1>1, <1>2, <1>3 DEF QueryDepthSList

LEMMA CacheStart == Init => CacheInv
<1> SUFFICES ASSUME Init PROVE CacheInv
  OBVIOUS
<1>1. TypeOK /\ HandsInv /\ KnownInv /\ ApartInv /\ CleanInv
  BY CacheAssumption DEF Init, TypeOK, HandsInv, KnownInv, ApartInv, CleanInv
<1>2. ASSUME NEW p \in Processor PROVE freeLists[p] = {} /\ Pushing(p) = {}
  BY <1>2 DEF Init, Pushing
<1>3. Cardinality(Thread) \in Nat /\ Cardinality(Thread) # 0
  BY FS_CardinalityType, FS_EmptySet, CacheAssumption
<1>4. DepthInv
  BY <1>2, <1>3, FS_EmptySet, CacheAssumption DEF DepthInv
<1> QED  BY <1>1, <1>4 DEF CacheInv

-----------------------------------------------------------------------------
(* Types and hands                                                         *)

LEMMA CacheTypeStep == TypeOK /\ HandsInv /\ [Next]_cacheVars => TypeOK' /\ HandsInv'
<1> SUFFICES ASSUME TypeOK, HandsInv, [Next]_cacheVars PROVE TypeOK' /\ HandsInv'
  OBVIOUS
<1> USE DEF TypeOK, HandsInv, Goto, Local
<1>1. ASSUME NEW t \in Thread, CacheStep(t) PROVE TypeOK' /\ HandsInv'
  <2>1. CASE Pop(t)  BY <2>1 DEF Pop
  <2>2. CASE HeapAlloc(t)  BY <2>2 DEF HeapAlloc
  <2>3. CASE KeepBlock(t)  BY <2>3 DEF KeepBlock
  <2>4. CASE HeapFree(t)  BY <2>4 DEF HeapFree
  <2>5. CASE Push(t)
    <3>1. block[t] \in Block  BY <2>5 DEF Push
    <3> QED  BY <2>5, <3>1 DEF Push
  <2> QED  BY <1>1, <2>1, <2>2, <2>3, <2>4, <2>5 DEF CacheStep
<1>2. ASSUME NEW t \in Thread, NEW p \in Processor, StartAlloc(t, p)
      PROVE TypeOK' /\ HandsInv'
  BY <1>2 DEF StartAlloc
<1>3. ASSUME NEW t \in Thread, NEW p \in Processor, NEW b \in Block, StartFree(t, p, b)
      PROVE TypeOK' /\ HandsInv'
  BY <1>3, CacheAssumption DEF StartFree
<1>4. CASE Destruct  BY <1>4 DEF Destruct
<1>5. ASSUME NEW p \in Processor, CleanupLookaside(p) PROVE TypeOK' /\ HandsInv'
  BY <1>5 DEF CleanupLookaside
<1>6. CASE UNCHANGED cacheVars  BY <1>6 DEF cacheVars
<1> QED  BY <1>1, <1>2, <1>3, <1>4, <1>5, <1>6 DEF Next

-----------------------------------------------------------------------------
(* The length of the lists                                                 *)

LEMMA DepthStep == TypeOK /\ HandsInv /\ DepthInv /\ [Next]_cacheVars => DepthInv'
<1> SUFFICES ASSUME TypeOK, HandsInv, DepthInv, [Next]_cacheVars,
                    NEW p \in Processor
             PROVE  (Cardinality(freeLists[p]) + Cardinality(Pushing(p))
                       < nThreshold + Cardinality(Thread))'
  BY DEF DepthInv
<1>0. TypeOK'  BY CacheTypeStep
<1>n. /\ IsFiniteSet(freeLists[p]) /\ Cardinality(freeLists[p]) \in Nat
      /\ IsFiniteSet(Pushing(p)) /\ Cardinality(Pushing(p)) \in Nat
      /\ Cardinality(Thread) \in Nat /\ nThreshold \in Nat
      /\ Cardinality(freeLists[p]) + Cardinality(Pushing(p)) < nThreshold + Cardinality(Thread)
  BY SizesFinite, CacheAssumption DEF DepthInv
\* Most steps add to neither set.
<1>s. ASSUME freeLists'[p] \in SUBSET freeLists[p], Pushing(p)' \in SUBSET Pushing(p)
      PROVE  (Cardinality(freeLists[p]) + Cardinality(Pushing(p))
                < nThreshold + Cardinality(Thread))'
  <2>1. /\ Cardinality(freeLists'[p]) <= Cardinality(freeLists[p])
        /\ IsFiniteSet(freeLists'[p])
    BY <1>n, <1>s, FS_Subset
  <2>2. /\ Cardinality(Pushing(p)') <= Cardinality(Pushing(p))
        /\ IsFiniteSet(Pushing(p)')
    BY <1>n, <1>s, FS_Subset
  <2>3. Cardinality(freeLists'[p]) \in Nat /\ Cardinality(Pushing(p)') \in Nat
    BY <2>1, <2>2, FS_CardinalityType
  <2> QED  BY <2>1, <2>2, <2>3, <1>n
<1>1. ASSUME NEW t \in Thread, CacheStep(t)
      PROVE  (Cardinality(freeLists[p]) + Cardinality(Pushing(p))
                < nThreshold + Cardinality(Thread))'
  <2>1. CASE Pop(t)  BY <2>1, <1>s DEF Pop, Goto, Pushing, TypeOK
  <2>2. CASE HeapAlloc(t)  BY <2>2, <1>s DEF HeapAlloc, Goto, Pushing, TypeOK
  <2>3. CASE KeepBlock(t)
    <3>1. CASE pListHeader[t] = p
      <4>1. Cardinality(freeLists[p]) < nThreshold
        BY <2>3, <3>1, DepthIsLength DEF KeepBlock
      <4>2. freeLists'[p] = freeLists[p]  BY <2>3 DEF KeepBlock
      <4>3. Cardinality(Pushing(p)') <= Cardinality(Thread) /\ Cardinality(Pushing(p)') \in Nat
        <5>1. Pushing(p)' \in SUBSET Thread  BY DEF Pushing
        <5> QED  BY <5>1, FS_Subset, FS_CardinalityType, CacheAssumption
      <4> QED  BY <4>1, <4>2, <4>3, <1>n
    <3>2. CASE pListHeader[t] # p
      BY <2>3, <3>2, <1>s DEF KeepBlock, Goto, Pushing, TypeOK
    <3> QED  BY <3>1, <3>2
  <2>4. CASE HeapFree(t)  BY <2>4, <1>s DEF HeapFree, Goto, Pushing, TypeOK
  <2>5. CASE Push(t)
    <3>1. CASE pListHeader[t] = p
      <4>1. freeLists'[p] = freeLists[p] \cup {block[t]}  BY <2>5, <3>1 DEF Push, TypeOK
      <4>2. t \in Pushing(p) /\ Pushing(p)' = Pushing(p) \ {t}
        BY <2>5, <3>1 DEF Push, Goto, Pushing, TypeOK
      <4>3. /\ Cardinality(freeLists'[p]) <= Cardinality(freeLists[p]) + 1
            /\ Cardinality(freeLists'[p]) \in Nat
        <5>1. /\ IsFiniteSet(freeLists'[p])
              /\ Cardinality(freeLists'[p]) = IF block[t] \in freeLists[p]
                                                THEN Cardinality(freeLists[p])
                                                ELSE Cardinality(freeLists[p]) + 1
          BY <4>1, <1>n, FS_AddElement
        <5> QED  BY <5>1, <1>n, FS_CardinalityType
      <4>4. /\ Cardinality(Pushing(p)') = Cardinality(Pushing(p)) - 1
            /\ Cardinality(Pushing(p)') \in Nat
        BY <4>2, <1>n, FS_RemoveElement, FS_CardinalityType
      <4> QED  BY <4>3, <4>4, <1>n
    <3>2. CASE pListHeader[t] # p
      BY <2>5, <3>2, <1>s DEF Push, Goto, Pushing, TypeOK
    <3> QED  BY <3>1, <3>2
  <2> QED  BY <1>1, <2>1, <2>2, <2>3, <2>4, <2>5 DEF CacheStep
<1>2. ASSUME NEW t \in Thread, NEW q \in Processor, StartAlloc(t, q)
      PROVE  (Cardinality(freeLists[p]) + Cardinality(Pushing(p))
                < nThreshold + Cardinality(Thread))'
  BY <1>2, <1>s DEF StartAlloc, Goto, Local, Pushing, TypeOK
<1>3. ASSUME NEW t \in Thread, NEW q \in Processor, NEW b \in Block, StartFree(t, q, b)
      PROVE  (Cardinality(freeLists[p]) + Cardinality(Pushing(p))
                < nThreshold + Cardinality(Thread))'
  BY <1>3, <1>s DEF StartFree, Goto, Local, Pushing, TypeOK
<1>4. CASE Destruct  BY <1>4, <1>s DEF Destruct, Pushing
<1>5. ASSUME NEW q \in Processor, CleanupLookaside(q)
      PROVE  (Cardinality(freeLists[p]) + Cardinality(Pushing(p))
                < nThreshold + Cardinality(Thread))'
  BY <1>5, <1>s DEF CleanupLookaside, Pushing, TypeOK
<1>6. CASE UNCHANGED cacheVars  BY <1>6, <1>s DEF cacheVars, Pushing
<1> QED  BY <1>1, <1>2, <1>3, <1>4, <1>5, <1>6 DEF Next

-----------------------------------------------------------------------------
(* The blocks                                                              *)

LEMMA BlockStep ==
  TypeOK /\ HandsInv /\ KnownInv /\ ApartInv /\ [Next]_cacheVars => ApartInv'
<1> SUFFICES ASSUME TypeOK, HandsInv, KnownInv, ApartInv, [Next]_cacheVars PROVE ApartInv'
  OBVIOUS
<1>0. TypeOK' /\ HandsInv'  BY CacheTypeStep
<1> USE DEF TypeOK, HandsInv, ApartInv, Goto, Local
<1>1. ASSUME NEW t \in Thread, CacheStep(t) PROVE ApartInv'
  <2>1. CASE Pop(t)
    <3>1. CASE freeLists' = freeLists /\ inUse' = inUse  BY <2>1, <3>1 DEF Pop
    <3>2. ASSUME NEW b \in freeLists[pListHeader[t]],
                 freeLists' = [freeLists EXCEPT ![pListHeader[t]] = @ \ {b}],
                 inUse' = inUse \cup {b}
          PROVE  ApartInv'
      BY <2>1, <3>2 DEF Pop
    <3> QED  BY <2>1, <3>1, <3>2 DEF Pop
  <2>2. CASE HeapAlloc(t)
    <3>1. ASSUME NEW b \in Block \ heapBlocks, inUse' = inUse \cup {b} PROVE ApartInv'
      BY <2>2, <3>1, CacheAssumption DEF HeapAlloc, KnownInv
    <3> QED  BY <2>2, <3>1 DEF HeapAlloc
  <2>3. CASE KeepBlock(t)  BY <2>3 DEF KeepBlock
  <2>4. CASE HeapFree(t)  BY <2>4, CacheAssumption DEF HeapFree
  <2>5. CASE Push(t)
    <3>1. block[t] \in Block /\ block[t] # NoBlock  BY <2>5, CacheAssumption DEF Push
    <3> QED  BY <2>5, <3>1, CacheAssumption DEF Push
  <2> QED  BY <1>1, <2>1, <2>2, <2>3, <2>4, <2>5 DEF CacheStep
<1>2. ASSUME NEW t \in Thread, NEW p \in Processor, StartAlloc(t, p) PROVE ApartInv'
  BY <1>2 DEF StartAlloc
<1>3. ASSUME NEW t \in Thread, NEW p \in Processor, NEW b \in Block, StartFree(t, p, b)
      PROVE ApartInv'
  BY <1>3, CacheAssumption DEF StartFree
<1>4. CASE Destruct  BY <1>4 DEF Destruct
<1>5. ASSUME NEW p \in Processor, CleanupLookaside(p) PROVE ApartInv'
  BY <1>5 DEF CleanupLookaside
<1>6. CASE UNCHANGED cacheVars  BY <1>6 DEF cacheVars
<1> QED  BY <1>1, <1>2, <1>3, <1>4, <1>5, <1>6 DEF Next

\* CleanupLookaside frees the whole list, as the depth is its length.
LEMMA CleanupEmpties ==
  ASSUME TypeOK, DepthInv, NEW p \in Processor, CleanupLookaside(p)
  PROVE  /\ heapBlocks' = heapBlocks \ freeLists[p]
         /\ freeLists' = [freeLists EXCEPT ![p] = {}]
<1>1. PICK freed \in SUBSET freeLists[p] :
        /\ Cardinality(freed) = QueryDepthSList(p)
        /\ heapBlocks' = heapBlocks \ freed
        /\ \E lost \in SUBSET (freeLists[p] \ freed) :
             freeLists' = [freeLists EXCEPT ![p] = @ \ (freed \cup lost)]
  BY DEF CleanupLookaside
<1>2. freed = freeLists[p]
  BY <1>1, DepthIsLength, SizesFinite, FS_Subset
<1>3. PICK lost \in SUBSET (freeLists[p] \ freed) :
        freeLists' = [freeLists EXCEPT ![p] = @ \ (freed \cup lost)]
  BY <1>1
<1>4. freeLists[p] \ (freed \cup lost) = {}  BY <1>2
<1> QED  BY <1>1, <1>2, <1>3, <1>4

LEMMA KnownStep == CacheInv /\ [Next]_cacheVars => KnownInv'
<1> SUFFICES ASSUME CacheInv, [Next]_cacheVars PROVE KnownInv'
  OBVIOUS
<1>0. TypeOK /\ HandsInv /\ DepthInv /\ KnownInv /\ ApartInv /\ TypeOK'
  BY CacheTypeStep DEF CacheInv
<1> USE <1>0 DEF TypeOK, KnownInv, Goto, Local
<1>1. ASSUME NEW t \in Thread, CacheStep(t) PROVE KnownInv'
  <2>1. CASE Pop(t)
    <3>1. CASE freeLists' = freeLists /\ inUse' = inUse  BY <2>1, <3>1 DEF Pop
    <3>2. ASSUME NEW b \in freeLists[pListHeader[t]],
                 freeLists' = [freeLists EXCEPT ![pListHeader[t]] = @ \ {b}],
                 inUse' = inUse \cup {b}
          PROVE  KnownInv'
      BY <2>1, <3>2 DEF Pop
    <3> QED  BY <2>1, <3>1, <3>2 DEF Pop
  <2>2. CASE HeapAlloc(t)  BY <2>2 DEF HeapAlloc
  <2>3. CASE KeepBlock(t)  BY <2>3 DEF KeepBlock
  <2>4. CASE HeapFree(t)
    <3>1. block[t] \in Block /\ block[t] # NoBlock
      BY <2>4, CacheAssumption DEF HeapFree, HandsInv
    <3>2. /\ block[t] \notin inUse
          /\ \A p \in Processor : block[t] \notin freeLists[p]
          /\ \A u \in Thread : u # t => block[u] # block[t]
      BY <3>1 DEF ApartInv
    <3> QED  BY <2>4, <3>1, <3>2, CacheAssumption DEF HeapFree
  <2>5. CASE Push(t)
    <3>1. block[t] \in Block  BY <2>5, CacheAssumption DEF Push, HandsInv
    <3> QED  BY <2>5, <3>1, CacheAssumption DEF Push
  <2> QED  BY <1>1, <2>1, <2>2, <2>3, <2>4, <2>5 DEF CacheStep
<1>2. ASSUME NEW t \in Thread, NEW p \in Processor, StartAlloc(t, p) PROVE KnownInv'
  BY <1>2 DEF StartAlloc
<1>3. ASSUME NEW t \in Thread, NEW p \in Processor, NEW b \in Block, StartFree(t, p, b)
      PROVE KnownInv'
  <2>1. block[t] = NoBlock  BY <1>3, CacheAssumption DEF StartFree, HandsInv
  <2> QED  BY <1>3, <2>1, CacheAssumption DEF StartFree
<1>4. CASE Destruct  BY <1>4 DEF Destruct
<1>5. ASSUME NEW p \in Processor, CleanupLookaside(p) PROVE KnownInv'
  <2>1. /\ heapBlocks' = heapBlocks \ freeLists[p]
        /\ freeLists' = [freeLists EXCEPT ![p] = {}]
    BY <1>5, CleanupEmpties
  <2>2. inUse' = inUse /\ block' = block  BY <1>5 DEF CleanupLookaside
  <2>3. \A b \in freeLists[p] :
          /\ b \notin inUse
          /\ \A q \in Processor : b \in freeLists[q] => q = p
          /\ \A t \in Thread : b # block[t]
    BY DEF ApartInv
  <2> QED  BY <2>1, <2>2, <2>3
<1>6. CASE UNCHANGED cacheVars  BY <1>6 DEF cacheVars
<1> QED  BY <1>1, <1>2, <1>3, <1>4, <1>5, <1>6 DEF Next

LEMMA CleanStep == CacheInv /\ [Next]_cacheVars => CleanInv'
<1> SUFFICES ASSUME CacheInv, [Next]_cacheVars PROVE CleanInv'
  OBVIOUS
<1>0. TypeOK /\ DepthInv /\ CleanInv  BY DEF CacheInv
<1> USE <1>0 DEF TypeOK, CleanInv, Goto, Local
<1>1. ASSUME NEW t \in Thread, CacheStep(t) PROVE CleanInv'
  BY <1>1 DEF CacheStep, Pop, HeapAlloc, KeepBlock, HeapFree, Push
<1>2. ASSUME NEW t \in Thread, NEW p \in Processor, StartAlloc(t, p) PROVE CleanInv'
  BY <1>2 DEF StartAlloc
<1>3. ASSUME NEW t \in Thread, NEW p \in Processor, NEW b \in Block, StartFree(t, p, b)
      PROVE CleanInv'
  BY <1>3 DEF StartFree
<1>4. CASE Destruct  BY <1>4 DEF Destruct
<1>5. ASSUME NEW p \in Processor, CleanupLookaside(p) PROVE CleanInv'
  <2>1. freeLists' = [freeLists EXCEPT ![p] = {}]  BY <1>5, CleanupEmpties
  <2>2. p \in toClean /\ toClean' = toClean \ {p} /\ cachePc' = cachePc
    BY <1>5 DEF CleanupLookaside
  <2>3. toClean # {"no"}  BY <2>2, CacheAssumption
  <2> QED  BY <2>1, <2>2, <2>3
<1>6. CASE UNCHANGED cacheVars  BY <1>6 DEF cacheVars
<1> QED  BY <1>1, <1>2, <1>3, <1>4, <1>5, <1>6 DEF Next

LEMMA CacheKept == CacheInv /\ [Next]_cacheVars => CacheInv'
BY CacheTypeStep, DepthStep, BlockStep, KnownStep, CleanStep DEF CacheInv

LEMMA CacheInvAlways == PartSpec => []CacheInv
<1>1. PartInit => CacheInv  BY CacheStart DEF PartInit
<1>2. CacheInv /\ [PartNext]_partVars => CacheInv'  BY StructureSteps, CacheKept
<1> QED  BY <1>1, <1>2, PTL DEF PartSpec

(* The variables of the cache keep to their types.                         *)
THEOREM CacheTypesOK == PartSpec => []TypeOK
<1>1. CacheInv => TypeOK  BY DEF CacheInv
<1> QED  BY <1>1, CacheInvAlways, PTL

(* However many threads free blocks at once, a list outgrows the threshold *)
(* by less than their number: the depth that Free reads before it pushes   *)
(* is out of date by at most one block per other thread.                   *)
THEOREM ListsStayShort == PartSpec => []DepthBounded
<1>1. CacheInv => DepthBounded
  <2> SUFFICES ASSUME CacheInv, NEW p \in Processor
               PROVE  Cardinality(freeLists[p]) < nThreshold + Cardinality(Thread)
    BY DEF DepthBounded
  <2>1. TypeOK /\ DepthInv  BY DEF CacheInv
  <2> QED  BY <2>1, SizesFinite, CacheAssumption DEF DepthInv
<1> QED  BY <1>1, CacheInvAlways, PTL

(* Every block of the heap is on one list, with one client or with one     *)
(* thread, and when the destructor is through only clients have any: since *)
(* the lists stay short, CleanupLookaside empties each.                    *)
THEOREM NoBlockLost == PartSpec => []BlocksAccounted
<1>1. CacheInv => BlocksAccounted
  <2> SUFFICES ASSUME CacheInv PROVE BlocksAccounted
    OBVIOUS
  <2>0. TypeOK /\ HandsInv /\ KnownInv /\ ApartInv /\ CleanInv  BY DEF CacheInv
  <2>h. \A t \in Thread : Hands[t] = {block[t]} \ {NoBlock}  BY DEF Hands
  <2>1. heapBlocks = UNION {inUse, UNION {freeLists[p] : p \in Processor},
                                   UNION {Hands[t] : t \in Thread}}
    <3>1. ASSUME NEW b
          PROVE  b \in heapBlocks <=> \/ b \in inUse
                                      \/ \E p \in Processor : b \in freeLists[p]
                                      \/ \E t \in Thread : b \in Hands[t]
      <4>1. b \in Block => (\A t \in Thread : b \in Hands[t] <=> b = block[t])
        BY <2>h, CacheAssumption, Zenon
      <4>2. b \notin Block =>
              /\ b \notin heapBlocks /\ b \notin inUse
              /\ \A p \in Processor : b \notin freeLists[p]
              /\ \A t \in Thread : b \notin Hands[t]
        <5>1. \A t \in Thread : Hands[t] \in SUBSET Block
          BY <2>0, <2>h DEF TypeOK
        <5>2. /\ heapBlocks \in SUBSET Block /\ inUse \in SUBSET Block
              /\ \A p \in Processor : freeLists[p] \in SUBSET Block
          BY <2>0 DEF TypeOK
        <5> QED  BY <5>1, <5>2
      <4> QED  BY <4>1, <4>2, <2>0 DEF KnownInv
    <3> QED  BY <3>1
  <2>2. ASSUME NEW p \in Processor
        PROVE  /\ freeLists[p] \cap inUse = {}
               /\ \A q \in Processor \ {p} : freeLists[p] \cap freeLists[q] = {}
               /\ \A t \in Thread : freeLists[p] \cap Hands[t] = {}
    BY <2>0, <2>h DEF ApartInv
  <2>3. ASSUME toClean = {} PROVE heapBlocks = inUse
    <3>1. \A p \in Processor : freeLists[p] = {}  BY <2>0, <2>3 DEF CleanInv
    <3>2. \A t \in Thread : Hands[t] = {}  BY <2>0, <2>h, <2>3 DEF CleanInv, HandsInv
    <3> QED  BY <2>1, <3>1, <3>2
  <2> QED  BY <2>1, <2>2, <2>3 DEF BlocksAccounted
<1> QED  BY <1>1, CacheInvAlways, PTL
-----------------------------------------------------------------------------
(* TraceLog                                                                *)

LogMade == Log!Allocated(LogSize, ExtraBytesInHeader, EntrySize) # -1
Cell(s, i) == ExtraBytesInHeader + s * EntrySize + i
LogCells == LogSize * EntrySize

\* The log has room for its entries, and who copies or zeroes has cells to go.
LogRoomInv ==
  /\ IF LogMade
     THEN /\ \A t \in Thread : logPc[t] # "noLog"
          /\ DOMAIN memory = 0 .. ExtraBytesInHeader + LogSize * EntrySize - 1
     ELSE logPc = [t \in Thread |-> "noLog"]
  /\ \A t \in Log!Copying : copied[t] < EntrySize
  /\ \A t \in Log!Zeroing : copied[t] < LogCells

\* In a slot that is not disturbed one thread copies at most, and what it has
\* copied is there; without one the whole entry is.  No reset has such a slot
\* still ahead of it, unless the slot was not taken since: then the cells that
\* are not zero yet are ahead of one.
CopyingInv(s) ==
  \A t \in Log!Copying : index[t] = s =>
    /\ entry[t] = latest[s] /\ \A u \in Log!Copying : index[u] = s => u = t
    /\ \A i \in 0 .. copied[t] - 1 : memory[Cell(s, i)] = latest[s]
    /\ ~Log!AheadOfReset(s)

WholeInv(s) ==
  (\A t \in Log!Copying : index[t] # s) =>
    \/ /\ ~Log!AheadOfReset(s)
       /\ \A i \in 0 .. EntrySize - 1 : memory[Cell(s, i)] = latest[s]
    \/ /\ latest[s] = 0
       /\ \A i \in 0 .. EntrySize - 1 :
            \/ memory[Cell(s, i)] = 0 \/ Cell(s, i) >= LogCells
            \/ \E z \in Log!Zeroing : copied[z] <= Cell(s, i)

CopyInv == LogMade => \A s \in Log!Slots \ disturbed : CopyingInv(s) /\ WholeInv(s)

\* The slots are those of a counter that counts the entries since a reset.
OrderInv ==
  /\ (NextEntry + 1) % CounterModulus = Len(order) % CounterModulus
  /\ \A i \in DOMAIN order : order[i] = ((i - 1) % CounterModulus) % LogSize

LogInv == Log!TypeOK /\ LogRoomInv /\ CopyInv /\ OrderInv

\* Division with remainder, and that quotient and remainder are unique.
LEMMA DivMod ==
  ASSUME NEW a \in Nat, NEW m \in Nat \ {0}
  PROVE  /\ a = (m * (a \div m)) + (a % m)
         /\ a \div m \in Nat /\ a % m \in 0 .. m - 1
  OBVIOUS

LEMMA ModUnique ==
  ASSUME NEW m \in Nat \ {0}, NEW q1 \in Int, NEW q2 \in Int,
         NEW r1 \in 0 .. m - 1, NEW r2 \in 0 .. m - 1,
         m * q1 + r1 = m * q2 + r2
  PROVE  q1 = q2 /\ r1 = r2
  OBVIOUS

\* The cells of an entry are its own.
LEMMA CellsApart ==
  ASSUME NEW n \in Nat, NEW size \in Nat \ {0}, NEW extra \in Nat,
         NEW s \in 0 .. n - 1, NEW i \in 0 .. size - 1
  PROVE  /\ extra + s * size + i \in extra .. extra + n * size - 1
         /\ \A z \in 0 .. n - 1, k \in 0 .. size - 1 :
              extra + s * size + i = extra + z * size + k => s = z /\ i = k
<1>1. s * size + i >= 0 /\ s * size + i < n * size
  <2>1. s * size >= 0 /\ (s + 1) * size <= n * size
    OBVIOUS
  <2>2. (s + 1) * size = s * size + size
    OBVIOUS
  <2> DEFINE a == s * size  b == n * size
  <2>3. a \in Int /\ b \in Int
    OBVIOUS
  <2> HIDE DEF a, b
  <2> QED BY <2>1, <2>2, <2>3 DEF a, b
<1>2. ASSUME NEW z \in 0 .. n - 1, NEW k \in 0 .. size - 1,
             extra + s * size + i = extra + z * size + k
      PROVE  s = z /\ i = k
  <2>1. size * s + i = size * z + k
    BY <1>2
  <2> QED BY <2>1, ModUnique
<1> DEFINE a == s * size  b == n * size
<1>3. a \in Int /\ b \in Int
  OBVIOUS
<1>4. extra + a + i \in extra .. extra + b - 1
  <2> HIDE DEF a, b
  <2> QED BY <1>1, <1>3 DEF a, b
<1> QED BY <1>2, <1>4

\* A remainder of a remainder.
LEMMA ModMod ==
  ASSUME NEW a \in Nat, NEW m \in Nat \ {0}, NEW n \in Nat \ {0}, m % n = 0
  PROVE  (a % m) % n = a % n
<1> DEFINE q == a \div m  r == a % m  k == m \div n
<1>1. a = (m * q) + r /\ q \in Nat /\ r \in 0 .. m - 1
  BY DivMod
<1>2. m = n * k /\ k \in Nat
  <2>1. m = (n * k) + (m % n) /\ k \in Nat
    BY DivMod
  <2> QED BY <2>1
<1> HIDE DEF q, r, k
<1>3. r = (n * (r \div n)) + (r % n) /\ r \div n \in Nat /\ r % n \in 0 .. n - 1
  <2>1. r \in Nat
    BY <1>1
  <2> QED BY <2>1, DivMod
<1>4. a = (n * (a \div n)) + (a % n) /\ a \div n \in Nat /\ a % n \in 0 .. n - 1
  BY DivMod
<1> DEFINE p == r \div n  z == r % n  y == a \div n  w == a % n  x == (k * q) + p
<1>5. a = (n * x) + z
  <2> HIDE DEF p, z
  <2>1. m * q = n * (k * q)
    BY <1>1, <1>2
  <2>2. n * x = (n * (k * q)) + (n * p)
    BY <1>1, <1>2, <1>3 DEF p
  <2>3. r = (n * p) + z
    BY <1>3 DEF p, z
  <2> DEFINE b == n * (k * q)  c == n * p
  <2>4. b \in Int /\ c \in Int /\ z \in Int
    BY <1>1, <1>2, <1>3 DEF p, z
  <2>5. a = b + r /\ n * x = b + c /\ r = c + z
    BY <1>1, <2>1, <2>2, <2>3
  <2> HIDE DEF b, c, x
  <2> QED BY <2>4, <2>5
<1>6. x \in Nat
  BY <1>1, <1>2, <1>3
<1>7. w = z
  <2>1. (n * y) + w = (n * x) + z /\ y \in Int /\ w \in 0 .. n - 1 /\ z \in 0 .. n - 1
    BY <1>3, <1>4, <1>5
  <2> HIDE DEF x, y, w, z
  <2> QED BY <2>1, <1>6, ModUnique
<1> QED BY <1>7 DEF r

\* Numbers that are less than n apart have remainders of their own.
LEMMA ModApart ==
  ASSUME NEW n \in Nat \ {0}, NEW i \in Nat, NEW j \in Nat, i < j, j - i < n
  PROVE  i % n # j % n
<1> DEFINE p == i \div n  q == j \div n  x == i % n  y == j % n
<1>1. i = n * p + x /\ p \in Nat /\ x \in 0 .. n - 1
  BY DivMod
<1>2. j = n * q + y /\ q \in Nat /\ y \in 0 .. n - 1
  BY DivMod
<1> SUFFICES ASSUME x = y PROVE FALSE
  OBVIOUS
<1> HIDE DEF p, q, x, y
<1>3. n * p + (j - i) = n * q + 0 /\ j - i \in 0 .. n - 1
  BY <1>1, <1>2
<1> QED BY <1>1, <1>2, <1>3, ModUnique

LEMMA LogConstants ==
  /\ LogSizes \subseteq Nat \ {0} /\ EntrySizes \subseteq Nat \ {0} /\ ExtraSizes \subseteq Nat
  /\ CounterModulus \in Nat \ {0} /\ MaxEntries \in Nat /\ MaxResets \in Nat
BY StructuresAssumption DEF Log!TraceLogAssumption

\* The counter starts in front of 0.
LEMMA ModZero ==
  ASSUME NEW m \in Nat \ {0}
  PROVE  m % m = 0 /\ 0 % m = 0
<1> DEFINE x == m % m  y == 0 % m  p == m \div m  q == 0 \div m
<1>1. (m * p) + x = (m * 1) + 0 /\ p \in Int /\ x \in 0 .. m - 1
  BY DivMod
<1>2. (m * q) + y = (m * 0) + 0 /\ q \in Int /\ y \in 0 .. m - 1
  BY DivMod
<1> HIDE DEF x, y, p, q
<1>3. 0 \in 0 .. m - 1
  OBVIOUS
<1>4. x = 0
  BY <1>1, <1>3, ModUnique
<1>5. y = 0
  BY <1>2, <1>3, ModUnique
<1> QED BY <1>4, <1>5 DEF x, y

\* The successor of a remainder.
LEMMA ModSuccessor ==
  ASSUME NEW m \in Nat \ {0}, NEW n \in Nat
  PROVE  ((n % m) + 1) % m = (n + 1) % m
<1> DEFINE q == n \div m  r == n % m  a == r + 1  p == a \div m  z == a % m
           b == n + 1  y == b \div m  w == b % m
<1>1. n = (m * q) + r /\ q \in Nat /\ r \in 0 .. m - 1
  BY DivMod
<1> HIDE DEF q, r
<1>2. a \in Nat /\ b \in Nat
  BY <1>1
<1> HIDE DEF a, b
<1>3. a = (m * p) + z /\ p \in Nat /\ z \in 0 .. m - 1
  BY <1>2, DivMod
<1>4. b = (m * y) + w /\ y \in Nat /\ w \in 0 .. m - 1
  BY <1>2, DivMod
<1> HIDE DEF p, z, y, w
<1>5. (m * y) + w = (m * (q + p)) + z
  <2>1. m * (q + p) = (m * q) + (m * p)
    BY <1>1, <1>3
  <2>2. (m * q) + r + 1 = (m * y) + w /\ r + 1 = (m * p) + z
    BY <1>1, <1>3, <1>4 DEF a, b
  <2> DEFINE f == m * q  g == m * p  h == m * y
  <2>3. f \in Int /\ g \in Int /\ h \in Int
    BY <1>1, <1>3, <1>4
  <2> HIDE DEF f, g, h
  <2>4. h + w = (f + g) + z
    BY <1>1, <1>3, <1>4, <2>2, <2>3 DEF f, g, h
  <2> QED BY <2>1, <2>4 DEF f, g, h
<1>6. w = z
  <2> DEFINE v == q + p
  <2>1. v \in Int
    BY <1>1, <1>3
  <2>2. (m * y) + w = (m * v) + z
    BY <1>5
  <2> HIDE DEF v
  <2> QED BY <1>3, <1>4, <2>1, <2>2, ModUnique
<1> QED BY <1>6 DEF w, z, a, b, r

LEMMA ModSmall ==
  ASSUME NEW m \in Nat \ {0}, NEW n \in Nat, n < m
  PROVE  n % m = n
<1> DEFINE q == n \div m  r == n % m
<1>1. (m * q) + r = (m * 0) + n /\ q \in Int /\ r \in 0 .. m - 1 /\ n \in 0 .. m - 1
  BY DivMod
<1> HIDE DEF q, r
<1>2. r = n
  BY <1>1, ModUnique
<1> QED BY <1>2 DEF r

LEMMA LogStart == Log!Init => LogInv
<1> SUFFICES ASSUME Log!Init PROVE LogInv
  OBVIOUS
<1> USE LogConstants DEF Log!Init
<1>1. Log!TypeOK
  <2>1. NextEntry \in 0 .. CounterModulus - 1 /\ 0 \in 0 .. MaxEntries /\ 0 \in 0 .. MaxResets
    OBVIOUS
  <2>2. LogSize \in Nat \ {0} /\ EntrySize \in Nat \ {0}
    OBVIOUS
  <2>3. 0 \in Log!Slots /\ 0 \in 0 .. LogSize * EntrySize
    <3>1. LogSize * EntrySize \in Nat
      BY <2>2
    <3> QED BY <2>2, <3>1 DEF Log!Slots
  <2>4. memory \in [DOMAIN memory -> 0 .. MaxEntries]
    BY <2>1
  <2>5. order \in Seq(Log!Slots)
    OBVIOUS
  <2> QED BY <2>1, <2>3, <2>4, <2>5 DEF Log!TypeOK
<1>2. LogRoomInv
  <2>1. LogMade => Log!Allocated(LogSize, ExtraBytesInHeader, EntrySize)
                     = ExtraBytesInHeader + LogSize * EntrySize
    <3> DEFINE n == LogSize * EntrySize
    <3>1. n \in Int /\ HeaderSize \in Int /\ ExtraBytesInHeader \in Int
      BY StructuresAssumption DEF Log!TraceLogAssumption
    <3>2. CASE \/ n >= SizeModulus \/ HeaderSize + ExtraBytesInHeader >= SizeModulus
               \/ n + HeaderSize + ExtraBytesInHeader >= SizeModulus
               \/ n + HeaderSize + ExtraBytesInHeader >= SizeModulus \div 2
      BY <3>2 DEF LogMade, Log!Allocated
    <3>3. CASE ~(\/ n >= SizeModulus \/ HeaderSize + ExtraBytesInHeader >= SizeModulus
                 \/ n + HeaderSize + ExtraBytesInHeader >= SizeModulus
                 \/ n + HeaderSize + ExtraBytesInHeader >= SizeModulus \div 2)
      <4>1. Log!Allocated(LogSize, ExtraBytesInHeader, EntrySize)
              = n + HeaderSize + ExtraBytesInHeader - HeaderSize
        BY <3>1, <3>3 DEF Log!Allocated
      <4> HIDE DEF n
      <4> QED BY <4>1, <3>1 DEF n
    <3> QED BY <3>2, <3>3
  <2>2. Log!Copying = {} /\ Log!Zeroing = {}
    BY DEF Log!Copying, Log!Zeroing
  <2> QED BY <2>1, <2>2 DEF LogRoomInv, LogMade
<1>3. CopyInv
  <2>3. Log!Copying = {} /\ \A s \in Log!Slots : ~Log!AheadOfReset(s) /\ latest[s] = 0
    BY DEF Log!Copying, Log!Zeroing, Log!AheadOfReset, Log!Slots
  <2> SUFFICES ASSUME LogMade, NEW s \in Log!Slots, NEW i \in 0 .. EntrySize - 1
               PROVE  memory[Cell(s, i)] = 0
    BY <2>3 DEF CopyInv, CopyingInv, WholeInv
  <2>1. DOMAIN memory = 0 .. ExtraBytesInHeader + LogSize * EntrySize - 1
    BY <1>2 DEF LogRoomInv
  <2>2. Cell(s, i) \in DOMAIN memory
    <3>1. Cell(s, i) \in ExtraBytesInHeader .. ExtraBytesInHeader + LogSize * EntrySize - 1
      BY CellsApart DEF Cell, Log!Slots
    <3>2. ExtraBytesInHeader \in Nat
      OBVIOUS
    <3> HIDE DEF Cell, Log!Init
    <3> QED BY <2>1, <3>1, <3>2
  <2> QED BY <2>2
<1>4. OrderInv
  <2>1. NextEntry + 1 = CounterModulus /\ Len(order) = 0
    OBVIOUS
  <2> QED BY <2>1, ModZero DEF OrderInv
<1> QED BY <1>1, <1>2, <1>3, <1>4 DEF LogInv

LEMMA LogStep ==
  ASSUME LogInv, [Log!Next]_(Log!logVars)
  PROVE  LogInv'
<1> USE LogConstants
<1>0. CASE UNCHANGED Log!logVars
  <2>1. Log!Slots' = Log!Slots /\ Log!Copying' = Log!Copying /\ (LogMade' <=> LogMade)
        /\ Log!Zeroing' = Log!Zeroing /\ LogCells' = LogCells
        /\ \A s, i : Cell(s, i)' = Cell(s, i)
    BY <1>0 DEF Log!Slots, Log!Copying, Log!Zeroing, LogMade, LogCells, Cell, Log!logVars, Log!sizes
  <2>2. Log!TypeOK'
    BY <1>0, <2>1 DEF LogInv, Log!TypeOK, Log!logVars, Log!sizes
  <2>3. LogRoomInv'
    BY <1>0, <2>1 DEF LogInv, LogRoomInv, Log!logVars, Log!sizes
  <2>4. CopyInv'
    BY <1>0, <2>1 DEF LogInv, CopyInv, CopyingInv, WholeInv, Log!AheadOfReset, Log!Ahead,
       Log!CellsOf, Log!Zeroed, Log!logVars, Log!sizes
  <2>5. OrderInv'
    BY <1>0, <2>1 DEF LogInv, OrderInv, Log!logVars, Log!sizes
  <2> QED BY <2>2, <2>3, <2>4, <2>5 DEF LogInv
<1> SUFFICES ASSUME NEW t \in Thread,
                    \/ Log!TakeSlot(t) \/ Log!CopyCell(t)
                    \/ Log!ResetTraceLog(t) \/ Log!ZeroCell(t) \/ Log!ResetCounter(t)
             PROVE  LogInv'
  BY <1>0 DEF Log!Next
<1>1. /\ LogSize' = LogSize /\ EntrySize' = EntrySize /\ ExtraBytesInHeader' = ExtraBytesInHeader
      /\ LogSize \in Nat \ {0} /\ EntrySize \in Nat \ {0} /\ ExtraBytesInHeader \in Nat
      /\ Log!Slots' = Log!Slots /\ (LogMade' <=> LogMade) /\ LogMade
      /\ LogCells' = LogCells /\ LogCells \in Nat /\ EntrySize <= LogCells
      /\ LogCells = LogSize * EntrySize
      /\ \A s, i : Cell(s, i)' = Cell(s, i)
  <2>1. LogSize' = LogSize /\ EntrySize' = EntrySize /\ ExtraBytesInHeader' = ExtraBytesInHeader
    BY DEF Log!TakeSlot, Log!CopyCell, Log!ResetTraceLog, Log!ZeroCell, Log!ResetCounter, Log!sizes
  <2>2. logPc[t] # "noLog"
    BY DEF Log!TakeSlot, Log!CopyCell, Log!ResetTraceLog, Log!ZeroCell, Log!ResetCounter, Log!LogGoto
  <2>3. LogMade
    BY <2>2 DEF LogInv, LogRoomInv
  <2>4. LogSize \in Nat \ {0} /\ EntrySize \in Nat \ {0} /\ ExtraBytesInHeader \in Nat
    BY DEF LogInv, Log!TypeOK
  <2>5. LogCells \in Nat /\ EntrySize <= LogCells
    <3>1. LogSize * EntrySize = (LogSize - 1) * EntrySize + EntrySize
          /\ (LogSize - 1) * EntrySize \in Nat
      BY <2>4
    <3> DEFINE k == (LogSize - 1) * EntrySize
    <3>2. k \in Nat /\ LogCells = k + EntrySize
      BY <3>1 DEF LogCells
    <3> HIDE DEF k
    <3> QED BY <2>4, <3>2
  <2> QED BY <2>1, <2>3, <2>4, <2>5 DEF Log!Slots, LogMade, Log!Allocated, Cell, LogCells
<1>2. ASSUME NEW s \in Log!Slots, NEW i \in 0 .. EntrySize - 1
      PROVE  /\ Cell(s, i) \in DOMAIN memory /\ Cell(s, i) \in Nat
             /\ \A z \in Log!Slots, k \in 0 .. EntrySize - 1 :
                  Cell(s, i) = Cell(z, k) => s = z /\ i = k
  <2>1. DOMAIN memory = 0 .. ExtraBytesInHeader + LogSize * EntrySize - 1
    BY <1>1 DEF LogInv, LogRoomInv
  <2>2. Cell(s, i) \in ExtraBytesInHeader .. ExtraBytesInHeader + LogSize * EntrySize - 1
    BY <1>1, CellsApart DEF Cell, Log!Slots
  <2> QED BY <1>1, <2>1, <2>2, CellsApart DEF Cell, Log!Slots
<1>7. /\ index \in [Thread -> Log!Slots] /\ entry \in [Thread -> 0 .. MaxEntries]
      /\ logPc \in [Thread -> {"noLog", "idle", "copy", "zero", "reset"}]
      /\ latest \in [Log!Slots -> 0 .. MaxEntries] /\ started \in 0 .. MaxEntries
      /\ copied \in [Thread -> 0 .. LogCells] /\ disturbed \subseteq Log!Slots
      /\ order \in Seq(Log!Slots) /\ resets \in 0 .. MaxResets
      /\ NextEntry \in 0 .. CounterModulus - 1
      /\ LogSize \in LogSizes /\ EntrySize \in EntrySizes /\ ExtraBytesInHeader \in ExtraSizes
  BY <1>1 DEF LogInv, Log!TypeOK
<1>8. memory \in [DOMAIN memory -> 0 .. MaxEntries]
  BY DEF LogInv, Log!TypeOK
<1>9. ASSUME NEW s \in Log!Slots, NEW u
      PROVE  /\ Log!Ahead(u, s) <=> \E i \in 0 .. EntrySize - 1 :
                                     Cell(s, i) < LogCells /\ Cell(s, i) >= copied[u]
             /\ Log!Ahead(u, s)' <=> \E i \in 0 .. EntrySize - 1 :
                                      Cell(s, i) < LogCells /\ Cell(s, i) >= copied'[u]
  <2>1. ASSUME NEW i \in 0 .. EntrySize - 1
        PROVE  Cell(s, i) \in 0 .. LogCells - 1 <=> Cell(s, i) < LogCells
    BY <1>1, <1>2
  <2>2. /\ Log!CellsOf(s) = {Cell(s, i) : i \in 0 .. EntrySize - 1}
        /\ Log!CellsOf(s)' = {Cell(s, i) : i \in 0 .. EntrySize - 1}
        /\ Log!Zeroed = 0 .. LogCells - 1 /\ Log!Zeroed' = 0 .. LogCells - 1
    BY <1>1 DEF Log!CellsOf, Log!Zeroed, Cell, LogCells
  <2> QED BY <2>1, <2>2 DEF Log!Ahead
<1>10. ASSUME Log!Zeroing' = Log!Zeroing, \A u \in Log!Zeroing : copied'[u] = copied[u],
              NEW s \in Log!Slots
       PROVE  Log!AheadOfReset(s)' <=> Log!AheadOfReset(s)
  BY <1>9, <1>10 DEF Log!AheadOfReset
<1>11. \A u \in Log!Copying : copied[u] \in 0 .. EntrySize - 1
  BY <1>1, <1>7 DEF LogInv, LogRoomInv, Log!Copying
<1>12. \A u \in Log!Zeroing : copied[u] \in 0 .. LogCells - 1
  BY <1>1, <1>7 DEF LogInv, LogRoomInv, Log!Zeroing
<1>3. CASE Log!TakeSlot(t)
  <2> DEFINE tick == (NextEntry + 1) % CounterModulus
             taken == Log!IndexOf(tick)
  <2>1. tick \in 0 .. CounterModulus - 1 /\ taken \in Log!Slots
    <3>1. tick \in 0 .. CounterModulus - 1
      <4>1. NextEntry + 1 \in Nat
        BY DEF LogInv, Log!TypeOK
      <4> QED BY <4>1, DivMod
    <3> HIDE DEF tick
    <3> QED BY <3>1, <1>1, DivMod DEF Log!IndexOf, Log!Slots
  <2>2. /\ logPc[t] = "idle" /\ logPc' = [logPc EXCEPT ![t] = "copy"]
        /\ started < MaxEntries /\ started' = started + 1
        /\ NextEntry' = tick
        /\ index' = [index EXCEPT ![t] = taken]
        /\ entry' = [entry EXCEPT ![t] = started + 1]
        /\ copied' = [copied EXCEPT ![t] = 0]
        /\ latest' = [latest EXCEPT ![taken] = started + 1]
        /\ disturbed' = IF Log!AheadOfReset(taken) \/ \E o \in Log!Copying : index[o] = taken
                        THEN disturbed \cup {taken} ELSE disturbed \ {taken}
        /\ order' = Append(order, taken)
        /\ UNCHANGED <<memory, resets>>
    BY <1>3 DEF Log!TakeSlot, Log!LogGoto
  <2> HIDE DEF tick, taken
  <2>3. Log!TypeOK'
    <3>1. /\ index' \in [Thread -> Log!Slots] /\ entry' \in [Thread -> 0 .. MaxEntries]
          /\ logPc' \in [Thread -> {"noLog", "idle", "copy", "zero", "reset"}]
          /\ latest' \in [Log!Slots -> 0 .. MaxEntries] /\ started' \in 0 .. MaxEntries
      BY <1>1, <1>7, <2>1, <2>2
    <3>2. /\ copied' \in [Thread -> 0 .. LogCells] /\ disturbed' \subseteq Log!Slots
      BY <1>1, <1>7, <2>1, <2>2
    <3>3. order' \in Seq(Log!Slots) /\ memory' \in [DOMAIN memory' -> 0 .. MaxEntries]
      BY <1>7, <1>8, <2>1, <2>2
    <3> QED BY <1>1, <1>7, <2>1, <2>2, <3>1, <3>2, <3>3 DEF Log!TypeOK
  <2>4. LogRoomInv'
    <3>1. copied'[t] = 0 /\ \A u \in Thread \ {t} : copied'[u] = copied[u] /\ logPc'[u] = logPc[u]
      BY <1>7, <2>2
    <3>2. logPc'[t] = "copy"
      BY <1>7, <2>2
    <3>3. \A u \in Log!Copying' : copied'[u] < EntrySize
      BY <1>1, <3>1, <3>2 DEF LogInv, LogRoomInv, Log!Copying
    <3>4. \A u \in Log!Zeroing' : copied'[u] < LogCells
      BY <1>1, <3>1, <3>2 DEF LogInv, LogRoomInv, Log!Zeroing
    <3> QED BY <1>1, <2>2, <3>1, <3>2, <3>3, <3>4 DEF LogInv, LogRoomInv
  <2>5. CopyInv'
    <3> SUFFICES ASSUME NEW s \in Log!Slots, s \notin disturbed'
                 PROVE  CopyingInv(s)' /\ WholeInv(s)'
      BY <1>1 DEF CopyInv
    <3>1. Log!Copying' = Log!Copying \cup {t} /\ t \notin Log!Copying
      BY <1>7, <2>2 DEF Log!Copying
    <3>4. Log!Zeroing' = Log!Zeroing /\ \A u \in Log!Zeroing : copied'[u] = copied[u]
      BY <1>7, <2>2 DEF Log!Zeroing
    <3>5. Log!AheadOfReset(s)' <=> Log!AheadOfReset(s)
      BY <1>10, <3>4
    <3>2. CASE s = taken
      <4>1. ~Log!AheadOfReset(s) /\ \A u \in Log!Copying : index[u] # s
        BY <2>2, <3>2
      <4>2. /\ index'[t] = s /\ entry'[t] = latest'[s] /\ copied'[t] = 0
            /\ \A u \in Log!Copying : index'[u] # s
        BY <1>7, <2>1, <2>2, <3>1, <3>2, <4>1 DEF Log!Copying
      <4>3. CopyingInv(s)'
        BY <1>1, <3>1, <3>5, <4>1, <4>2 DEF CopyingInv
      <4> QED BY <1>1, <3>1, <4>2, <4>3 DEF WholeInv
    <3>3. CASE s # taken
      <4>1. s \notin disturbed /\ latest'[s] = latest[s] /\ index'[t] # s
        BY <1>7, <2>1, <2>2, <3>3
      <4>2. \A u \in Log!Copying : /\ u # t /\ index'[u] = index[u] /\ entry'[u] = entry[u]
                                   /\ copied'[u] = copied[u]
        BY <1>7, <2>2, <3>1 DEF Log!Copying
      <4>3. CopyingInv(s) /\ WholeInv(s)
        BY <1>1, <4>1 DEF LogInv, CopyInv
      <4>4. CopyingInv(s)'
        BY <1>1, <2>2, <3>1, <3>5, <4>1, <4>2, <4>3 DEF CopyingInv
      <4>5. WholeInv(s)'
        BY <1>1, <2>2, <3>1, <3>4, <3>5, <4>1, <4>2, <4>3 DEF WholeInv
      <4> QED BY <4>4, <4>5
    <3> QED BY <3>2, <3>3
  <2>6. OrderInv'
    <3> DEFINE m == CounterModulus  n == Len(order)
    <3>1. n \in Nat /\ Len(order') = n + 1 /\ DOMAIN order' = 1 .. n + 1
          /\ order'[n + 1] = taken /\ \A i \in 1 .. n : order'[i] = order[i]
      BY SMTT(20), <2>1, <2>2 DEF LogInv, Log!TypeOK
    <3>2. NextEntry' = n % m
      BY <2>2 DEF tick, LogInv, OrderInv
    <3>3. (NextEntry' + 1) % m = (n + 1) % m
      BY <3>1, <3>2, ModSuccessor
    <3>4. order'[n + 1] = (((n + 1) - 1) % m) % LogSize
      <4>1. (n + 1) - 1 = n
        BY <3>1
      <4>2. taken = tick % LogSize /\ tick = n % m
        BY <2>2, <3>2 DEF taken, Log!IndexOf
      <4> HIDE DEF m, n
      <4> QED BY <3>1, <4>1, <4>2, Zenon
    <3>5. \A i \in 1 .. n : order'[i] = ((i - 1) % m) % LogSize
      <4>1. DOMAIN order = 1 .. n
        BY <1>7
      <4> QED BY <3>1, <4>1, Zenon DEF LogInv, OrderInv
    <3>6. \A i \in 1 .. n + 1 : i \in 1 .. n \/ i = n + 1
      BY <3>1
    <3> HIDE DEF m, n
    <3>7. \A i \in DOMAIN order' : order'[i] = ((i - 1) % m) % LogSize
      BY <3>1, <3>4, <3>5, <3>6
    <3> QED BY <1>1, <3>1, <3>3, <3>7 DEF OrderInv, m
  <2> QED BY <2>3, <2>4, <2>5, <2>6 DEF LogInv
<1>4. CASE Log!CopyCell(t)
  <2>1. /\ t \in Log!Copying /\ copied[t] \in 0 .. EntrySize - 1 /\ index[t] \in Log!Slots
        /\ logPc' = [logPc EXCEPT ![t] = IF copied[t] + 1 = EntrySize THEN "idle" ELSE "copy"]
        /\ memory' = [memory EXCEPT ![Cell(index[t], copied[t])] = entry[t]]
        /\ copied' = [copied EXCEPT ![t] = @ + 1]
        /\ UNCHANGED <<NextEntry, index, entry, started, resets, latest, disturbed, order>>
    <3>1. t \in Log!Copying
      BY <1>4 DEF Log!CopyCell, Log!LogGoto, Log!Copying
    <3>2. copied[t] \in 0 .. EntrySize - 1 /\ index[t] \in Log!Slots
      BY <1>7, <1>11, <3>1
    <3>3. Log!Target(t) = Cell(index[t], copied[t])
      BY DEF Log!Target, Cell
    <3> QED BY <1>4, <3>1, <3>2, <3>3 DEF Log!CopyCell, Log!LogGoto
  <2>2. Log!TypeOK'
    <3>1. /\ copied' \in [Thread -> 0 .. LogCells]
          /\ logPc' \in [Thread -> {"noLog", "idle", "copy", "zero", "reset"}]
      <4>1. copied[t] + 1 \in 0 .. LogCells
        BY <1>1, <2>1
      <4> QED BY <1>7, <2>1, <4>1
    <3>2. memory' \in [DOMAIN memory' -> 0 .. MaxEntries]
      <4>1. entry[t] \in 0 .. MaxEntries
        BY <1>7, <2>1 DEF Log!Copying
      <4> QED BY <1>8, <2>1, <4>1
    <3> QED BY <1>1, <1>7, <2>1, <3>1, <3>2 DEF Log!TypeOK
  <2>3. LogRoomInv'
    <3>1. /\ logPc'[t] = IF copied[t] + 1 = EntrySize THEN "idle" ELSE "copy"
          /\ copied'[t] = copied[t] + 1
          /\ \A u \in Thread \ {t} : copied'[u] = copied[u] /\ logPc'[u] = logPc[u]
      BY <1>7, <2>1 DEF Log!Copying
    <3>2. \A u \in Log!Copying' : copied'[u] < EntrySize
      BY <1>1, <2>1, <3>1 DEF LogInv, LogRoomInv, Log!Copying
    <3>3. DOMAIN memory' = DOMAIN memory
      BY <2>1
    <3>4. \A u \in Log!Zeroing' : copied'[u] < LogCells
      BY <1>1, <3>1 DEF LogInv, LogRoomInv, Log!Zeroing
    <3> QED BY <1>1, <3>1, <3>2, <3>3, <3>4 DEF LogInv, LogRoomInv
  <2>4. CopyInv'
    <3> SUFFICES ASSUME NEW s \in Log!Slots, s \notin disturbed'
                 PROVE  CopyingInv(s)' /\ WholeInv(s)'
      BY <1>1 DEF CopyInv
    <3>1. /\ Log!Copying' = IF copied[t] + 1 = EntrySize THEN Log!Copying \ {t} ELSE Log!Copying
          /\ \A u \in Log!Copying \ {t} : copied'[u] = copied[u]
          /\ copied'[t] = copied[t] + 1
      BY <1>7, <2>1 DEF Log!Copying
    <3>6. Log!Zeroing' = Log!Zeroing /\ \A u \in Log!Zeroing : copied'[u] = copied[u]
      BY <1>7, <2>1 DEF Log!Zeroing, Log!Copying
    <3>7. Log!AheadOfReset(s)' <=> Log!AheadOfReset(s)
      BY <1>10, <3>6
    <3>8. CopyingInv(s) /\ WholeInv(s)
      BY <1>1, <2>1 DEF LogInv, CopyInv
    <3>2. \A i \in 0 .. EntrySize - 1 :
            memory'[Cell(s, i)] = IF s = index[t] /\ i = copied[t] THEN entry[t]
                                  ELSE memory[Cell(s, i)]
      BY <1>2, <2>1
    <3>4. CASE s = index[t]
      <4>1. /\ entry[t] = latest[s] /\ \A u \in Log!Copying : index[u] = s => u = t
            /\ \A i \in 0 .. copied[t] - 1 : memory[Cell(s, i)] = latest[s]
            /\ ~Log!AheadOfReset(s)
        BY <2>1, <3>4, <3>8 DEF CopyingInv
      <4>2. \A i \in 0 .. copied[t] : memory'[Cell(s, i)] = latest[s]
        BY <1>1, <2>1, <3>2, <3>4, <4>1
      <4>3. CopyingInv(s)'
        BY <1>1, <2>1, <3>1, <3>4, <3>7, <4>1, <4>2 DEF CopyingInv
      <4>4. WholeInv(s)'
        <5>1. copied[t] + 1 # EntrySize => t \in Log!Copying' /\ index'[t] = s
          BY <2>1, <3>1, <3>4
        <5>2. copied[t] + 1 = EntrySize =>
                \A i \in 0 .. EntrySize - 1 : memory'[Cell(s, i)] = latest'[s]
          BY <1>1, <2>1, <4>2
        <5> QED BY <1>1, <3>7, <4>1, <5>1, <5>2 DEF WholeInv
      <4> QED BY <4>3, <4>4
    <3>5. CASE s # index[t]
      <4>1. \A i \in 0 .. EntrySize - 1 : memory'[Cell(s, i)] = memory[Cell(s, i)]
        BY <3>2, <3>5
      <4>2. \A v \in Log!Copying : 0 .. copied[v] - 1 \subseteq 0 .. EntrySize - 1
        BY <1>1, <1>11
      <4>3. CopyingInv(s)'
        BY <1>1, <2>1, <3>1, <3>5, <3>7, <3>8, <4>1, <4>2 DEF CopyingInv
      <4>4. WholeInv(s)'
        BY <1>1, <2>1, <3>1, <3>5, <3>6, <3>7, <3>8, <4>1 DEF WholeInv
      <4> QED BY <4>3, <4>4
    <3> QED BY <3>4, <3>5
  <2>5. OrderInv'
    BY <1>1, <2>1 DEF LogInv, OrderInv
  <2> QED BY <2>2, <2>3, <2>4, <2>5 DEF LogInv
<1>5. CASE Log!ResetTraceLog(t)
  <2>1. /\ logPc[t] = "idle" /\ logPc' = [logPc EXCEPT ![t] = "zero"]
        /\ resets < MaxResets /\ resets' = resets + 1
        /\ copied' = [copied EXCEPT ![t] = 0]
        /\ latest' = [s \in Log!Slots |-> 0]
        /\ disturbed' = {index[o] : o \in Log!Copying}
        /\ UNCHANGED <<NextEntry, memory, index, entry, started, order>>
    BY <1>5 DEF Log!ResetTraceLog, Log!LogGoto
  <2>2. /\ Log!Copying' = Log!Copying /\ Log!Zeroing' = Log!Zeroing \cup {t}
        /\ copied'[t] = 0 /\ \A u \in Thread \ {t} : copied'[u] = copied[u]
    BY <1>7, <2>1 DEF Log!Copying, Log!Zeroing
  <2>3. Log!TypeOK'
    <3>1. /\ logPc' \in [Thread -> {"noLog", "idle", "copy", "zero", "reset"}]
          /\ resets' \in 0 .. MaxResets /\ disturbed' \subseteq Log!Slots
          /\ copied' \in [Thread -> 0 .. LogCells]
      BY <1>1, <1>7, <2>1, LogConstants DEF Log!Copying
    <3>2. latest' \in [Log!Slots -> 0 .. MaxEntries]
      <4>1. 0 \in 0 .. MaxEntries
        BY LogConstants
      <4> QED BY <2>1, <4>1
    <3> QED BY <1>1, <1>7, <1>8, <2>1, <3>1, <3>2 DEF Log!TypeOK
  <2>4. LogRoomInv'
    <3>1. t \notin Log!Copying /\ 0 < LogCells
      BY <1>1, <2>1 DEF Log!Copying
    <3>2. /\ \A u \in Log!Copying' : copied'[u] < EntrySize
          /\ \A u \in Log!Zeroing' : copied'[u] < LogCells
      BY <1>1, <2>2, <3>1 DEF LogInv, LogRoomInv, Log!Copying, Log!Zeroing
    <3> QED BY <1>1, <1>7, <2>1, <3>2 DEF LogInv, LogRoomInv
  <2>5. CopyInv'
    <3> SUFFICES ASSUME NEW s \in Log!Slots, \A u \in Log!Copying : index[u] # s
                 PROVE  CopyingInv(s)' /\ WholeInv(s)'
      BY <1>1, <2>1 DEF CopyInv
    <3>1. \A u \in Log!Copying' : index'[u] # s
      BY <2>1, <2>2
    <3>2. \A i \in 0 .. EntrySize - 1 : \E z \in Log!Zeroing' : copied'[z] <= Cell(s, i)
      BY <1>2, <2>2
    <3>3. latest'[s] = 0
      BY <2>1
    <3> QED BY <1>1, <3>1, <3>2, <3>3 DEF CopyingInv, WholeInv
  <2>6. OrderInv'
    BY <1>1, <2>1 DEF LogInv, OrderInv
  <2> QED BY <2>3, <2>4, <2>5, <2>6 DEF LogInv
<1>13. CASE Log!ZeroCell(t)
  <2>1. /\ t \in Log!Zeroing /\ copied[t] \in 0 .. LogCells - 1
        /\ logPc' = [logPc EXCEPT ![t] = IF copied[t] + 1 < LogCells THEN "zero" ELSE "reset"]
        /\ memory' = [memory EXCEPT ![copied[t]] = 0]
        /\ copied' = [copied EXCEPT ![t] = @ + 1]
        /\ UNCHANGED <<NextEntry, index, entry, started, resets, latest, disturbed, order>>
    <3>1. t \in Log!Zeroing
      BY <1>13 DEF Log!ZeroCell, Log!LogGoto, Log!Zeroing
    <3>2. copied[t] + 1 \in Log!Zeroed <=> copied[t] + 1 < LogCells
      BY <1>1, <1>12, <3>1 DEF Log!Zeroed
    <3> QED BY <1>12, <1>13, <3>1, <3>2 DEF Log!ZeroCell, Log!LogGoto
  <2>2. /\ Log!Copying' = Log!Copying /\ t \notin Log!Copying
        /\ Log!Zeroing' = IF copied[t] + 1 < LogCells THEN Log!Zeroing ELSE Log!Zeroing \ {t}
        /\ copied'[t] = copied[t] + 1 /\ \A u \in Thread \ {t} : copied'[u] = copied[u]
    BY <1>7, <2>1 DEF Log!Copying, Log!Zeroing
  <2>3. Log!TypeOK'
    <3>1. /\ logPc' \in [Thread -> {"noLog", "idle", "copy", "zero", "reset"}]
          /\ copied' \in [Thread -> 0 .. LogCells]
      BY <1>1, <1>7, <2>1
    <3>2. memory' \in [DOMAIN memory' -> 0 .. MaxEntries]
      <4>1. 0 \in 0 .. MaxEntries
        BY LogConstants
      <4> QED BY <1>8, <2>1, <4>1
    <3> QED BY <1>1, <1>7, <2>1, <3>1, <3>2 DEF Log!TypeOK
  <2>4. LogRoomInv'
    <3>1. /\ \A u \in Log!Copying' : copied'[u] < EntrySize
          /\ \A u \in Log!Zeroing' : copied'[u] < LogCells
      BY <1>1, <2>2 DEF LogInv, LogRoomInv, Log!Copying, Log!Zeroing
    <3>2. DOMAIN memory' = DOMAIN memory /\ \A u \in Thread : logPc'[u] # "noLog"
      BY <1>1, <1>7, <2>1 DEF LogInv, LogRoomInv
    <3> QED BY <1>1, <3>1, <3>2 DEF LogInv, LogRoomInv
  <2>5. CopyInv'
    <3> SUFFICES ASSUME NEW s \in Log!Slots, s \notin disturbed
                 PROVE  CopyingInv(s)' /\ WholeInv(s)'
      BY <1>1, <2>1 DEF CopyInv
    <3>1. CopyingInv(s) /\ WholeInv(s)
      BY <1>1 DEF LogInv, CopyInv
    <3>2. \A i \in 0 .. EntrySize - 1 :
            memory'[Cell(s, i)] = IF Cell(s, i) = copied[t] THEN 0 ELSE memory[Cell(s, i)]
      BY <1>2, <2>1
    <3>3. ASSUME ~Log!AheadOfReset(s)
          PROVE  /\ ~Log!AheadOfReset(s)'
                 /\ \A i \in 0 .. EntrySize - 1 : memory'[Cell(s, i)] = memory[Cell(s, i)]
      <4>1. \A z \in Log!Zeroing, i \in 0 .. EntrySize - 1 :
              ~(Cell(s, i) < LogCells /\ Cell(s, i) >= copied[z])
        BY <1>9, <3>3 DEF Log!AheadOfReset
      <4>2. ASSUME NEW i \in 0 .. EntrySize - 1, Cell(s, i) = copied[t] PROVE FALSE
        <5>1. Cell(s, i) < LogCells /\ Cell(s, i) >= copied[t]
          BY <1>1, <2>1, <4>2
        <5> QED BY <2>1, <4>1, <5>1
      <4>3. \A z \in Log!Zeroing', i \in 0 .. EntrySize - 1 :
              ~(Cell(s, i) < LogCells /\ Cell(s, i) >= copied'[z])
        <5>1. ASSUME NEW z \in Log!Zeroing', NEW i \in 0 .. EntrySize - 1,
                     Cell(s, i) < LogCells, Cell(s, i) >= copied'[z]
              PROVE  FALSE
          <6>1. z \in Log!Zeroing /\ copied'[z] >= copied[z] /\ copied'[z] \in Nat
            BY <1>12, <2>1, <2>2 DEF Log!Zeroing
          <6>2. Cell(s, i) \in Nat /\ copied[z] \in Nat
            BY <1>2, <1>12, <6>1
          <6>3. Cell(s, i) >= copied[z]
            BY <5>1, <6>1, <6>2
          <6> QED BY <4>1, <5>1, <6>1, <6>3
        <5> QED BY <5>1
      <4>4. ~Log!AheadOfReset(s)'
        BY <1>9, <4>3 DEF Log!AheadOfReset
      <4> QED BY <3>2, <4>2, <4>4
    <3>4. CopyingInv(s)'
      <4> SUFFICES ASSUME NEW v \in Log!Copying, index[v] = s
                   PROVE  /\ entry[v] = latest[s]
                          /\ \A u \in Log!Copying : index[u] = s => u = v
                          /\ \A i \in 0 .. copied[v] - 1 : memory'[Cell(s, i)] = latest[s]
                          /\ ~Log!AheadOfReset(s)'
        BY <1>1, <2>1, <2>2 DEF CopyingInv, Log!Copying
      <4>1. /\ entry[v] = latest[s] /\ \A u \in Log!Copying : index[u] = s => u = v
            /\ \A i \in 0 .. copied[v] - 1 : memory[Cell(s, i)] = latest[s]
            /\ ~Log!AheadOfReset(s)
        BY <3>1 DEF CopyingInv
      <4>2. 0 .. copied[v] - 1 \subseteq 0 .. EntrySize - 1
        BY <1>1, <1>11
      <4> QED BY <3>3, <4>1, <4>2
    <3>5. WholeInv(s)'
      <4> SUFFICES ASSUME \A v \in Log!Copying : index[v] # s
                   PROVE
          \/ /\ ~Log!AheadOfReset(s)'
             /\ \A i \in 0 .. EntrySize - 1 : memory'[Cell(s, i)] = latest[s]
          \/ /\ latest[s] = 0
             /\ \A i \in 0 .. EntrySize - 1 :
                  \/ memory'[Cell(s, i)] = 0 \/ Cell(s, i) >= LogCells
                  \/ \E z \in Log!Zeroing' : copied'[z] <= Cell(s, i)
        BY <1>1, <2>1, <2>2 DEF WholeInv
      <4>1. CASE /\ ~Log!AheadOfReset(s)
                 /\ \A i \in 0 .. EntrySize - 1 : memory[Cell(s, i)] = latest[s]
        BY <3>3, <4>1
      <4>2. CASE /\ latest[s] = 0
                 /\ \A i \in 0 .. EntrySize - 1 :
                      \/ memory[Cell(s, i)] = 0 \/ Cell(s, i) >= LogCells
                      \/ \E z \in Log!Zeroing : copied[z] <= Cell(s, i)
        <5>1. ASSUME NEW i \in 0 .. EntrySize - 1, NEW z \in Log!Zeroing,
                     copied[z] <= Cell(s, i), Cell(s, i) < LogCells, Cell(s, i) # copied[t]
              PROVE  z \in Log!Zeroing' /\ copied'[z] <= Cell(s, i)
          <6>1. Cell(s, i) \in Nat /\ copied[z] \in Nat
            BY <1>2, <1>12
          <6>2. CASE z = t
            BY <1>1, <2>1, <2>2, <5>1, <6>1, <6>2
          <6>3. CASE z # t
            BY <2>2, <5>1, <6>3 DEF Log!Zeroing
          <6> QED BY <6>2, <6>3
        <5>2. ASSUME NEW i \in 0 .. EntrySize - 1
              PROVE  \/ memory'[Cell(s, i)] = 0 \/ Cell(s, i) >= LogCells
                     \/ \E z \in Log!Zeroing' : copied'[z] <= Cell(s, i)
          <6>1. Cell(s, i) >= LogCells \/ Cell(s, i) < LogCells
            BY <1>1, <1>2
          <6> QED BY <3>2, <4>2, <5>1, <6>1
        <5> QED BY <4>2, <5>2
      <4> QED BY <3>1, <4>1, <4>2 DEF WholeInv
    <3> QED BY <3>4, <3>5
  <2>6. OrderInv'
    BY <1>1, <2>1 DEF LogInv, OrderInv
  <2> QED BY <2>3, <2>4, <2>5, <2>6 DEF LogInv
<1>6. CASE Log!ResetCounter(t)
  <2>1. /\ logPc[t] = "reset" /\ logPc' = [logPc EXCEPT ![t] = "idle"]
        /\ NextEntry' = CounterModulus - 1 /\ order' = <<>>
        /\ UNCHANGED <<memory, index, entry, copied, started, resets, latest, disturbed>>
    BY <1>6 DEF Log!ResetCounter, Log!LogGoto
  <2>2. Log!Copying' = Log!Copying /\ Log!Zeroing' = Log!Zeroing
    BY <1>7, <2>1 DEF Log!Copying, Log!Zeroing
  <2>3. Log!TypeOK'
    <3>1. /\ logPc' \in [Thread -> {"noLog", "idle", "copy", "zero", "reset"}]
          /\ NextEntry' \in 0 .. CounterModulus - 1
      BY <1>7, <2>1, LogConstants
    <3>2. order' \in Seq(Log!Slots)
      BY <2>1
    <3> QED BY <1>1, <1>7, <1>8, <2>1, <3>1, <3>2 DEF Log!TypeOK
  <2>4. LogRoomInv'
    BY <1>1, <1>7, <2>1, <2>2 DEF LogInv, LogRoomInv
  <2>5. CopyInv'
    <3> SUFFICES ASSUME NEW s \in Log!Slots, s \notin disturbed
                 PROVE  CopyingInv(s)' /\ WholeInv(s)'
      BY <1>1, <2>1 DEF CopyInv
    <3>1. CopyingInv(s) /\ WholeInv(s)
      BY <1>1 DEF LogInv, CopyInv
    <3>2. Log!AheadOfReset(s)' <=> Log!AheadOfReset(s)
      BY <1>10, <2>1, <2>2
    <3> QED BY <1>1, <2>1, <2>2, <3>1, <3>2 DEF CopyingInv, WholeInv
  <2>6. OrderInv'
    <3>1. NextEntry' + 1 = CounterModulus /\ Len(order') = 0
      BY <2>1, LogConstants
    <3> QED BY <2>1, <3>1, LogConstants, ModZero DEF OrderInv
  <2> QED BY <2>3, <2>4, <2>5, <2>6 DEF LogInv
<1> QED BY <1>3, <1>4, <1>5, <1>6, <1>13

\* The slots of the last entries differ.
LEMMA LogOrder ==
  ASSUME LogInv
  PROVE  Log!LatestEntriesKept
<1> DEFINE m == CounterModulus  n == Len(order)
<1>1. /\ LogSize \in Nat \ {0} /\ m \in Nat \ {0} /\ n \in Nat /\ DOMAIN order = 1 .. n
      /\ NextEntry \in 0 .. m - 1
  BY LogConstants DEF LogInv, Log!TypeOK
<1> SUFFICES ASSUME m % LogSize = 0 \/ ~Log!Wrapped,
                    NEW i \in 1 .. n, NEW j \in 1 .. n, n - LogSize < i, i < j
             PROVE  order[i] # order[j]
  BY DEF Log!LatestEntriesKept
<1>2. order[i] = ((i - 1) % m) % LogSize /\ order[j] = ((j - 1) % m) % LogSize
  BY <1>1 DEF LogInv, OrderInv
<1>3. i - 1 \in Nat /\ j - 1 \in Nat /\ i - 1 < j - 1 /\ (j - 1) - (i - 1) < LogSize
  BY <1>1
<1>4. (i - 1) % LogSize # (j - 1) % LogSize
  BY <1>1, <1>3, ModApart
<1>5. CASE m % LogSize = 0
  <2>1. ((i - 1) % m) % LogSize = (i - 1) % LogSize /\ ((j - 1) % m) % LogSize = (j - 1) % LogSize
    BY <1>1, <1>3, <1>5, ModMod
  <2> QED BY <1>2, <1>4, <2>1
<1>6. CASE ~Log!Wrapped
  <2>1. i - 1 < m /\ j - 1 < m
    BY <1>1, <1>6 DEF Log!Wrapped
  <2>2. (i - 1) % m = i - 1 /\ (j - 1) % m = j - 1
    BY <1>1, <1>3, <2>1, ModSmall
  <2> QED BY <1>2, <1>4, <2>2
<1> QED BY <1>5, <1>6

LEMMA LogKept ==
  ASSUME LogInv
  PROVE  LogKeepsEntries
<1>1. Log!WritesInside
  <2> SUFFICES ASSUME NEW t \in Log!Copying
               PROVE  Log!Target(t) \in DOMAIN memory /\ Log!Target(t) >= ExtraBytesInHeader
    BY DEF Log!WritesInside
  <2>1. /\ LogSize \in Nat \ {0} /\ EntrySize \in Nat \ {0} /\ ExtraBytesInHeader \in Nat
        /\ index[t] \in 0 .. LogSize - 1 /\ copied[t] \in 0 .. EntrySize - 1
    BY LogConstants DEF LogInv, Log!TypeOK, LogRoomInv, Log!Copying, Log!Slots
  <2>2. DOMAIN memory = 0 .. ExtraBytesInHeader + LogSize * EntrySize - 1
    BY DEF LogInv, LogRoomInv, Log!Copying
  <2>3. Log!Target(t) \in ExtraBytesInHeader .. ExtraBytesInHeader + LogSize * EntrySize - 1
    BY <2>1, CellsApart DEF Log!Target
  <2> HIDE DEF Log!Target
  <2> QED BY <2>1, <2>2, <2>3
<1>2. Log!EntriesWhole
  <2> SUFFICES ASSUME NEW s \in Log!Slots \ disturbed, logPc # [t \in Thread |-> "noLog"],
                      ~Log!AheadOfReset(s), \A t \in Log!Copying : index[t] # s,
                      NEW c \in Log!CellsOf(s)
               PROVE  memory[c] = latest[s] \/ (latest[s] = 0 /\ c >= LogSize * EntrySize)
    BY Zenon DEF Log!EntriesWhole
  <2>4. PICK i \in 0 .. EntrySize - 1 : c = Cell(s, i)
    BY Zenon DEF Log!CellsOf, Cell
  <2>1. LogMade
    BY DEF LogInv, LogRoomInv
  <2>2. WholeInv(s)
    BY <2>1, Zenon DEF LogInv, CopyInv
  <2>3. ASSUME NEW z \in Log!Zeroing, copied[z] <= Cell(s, i), ~(Cell(s, i) >= LogCells)
        PROVE  FALSE
    <3>1. Cell(s, i) \in Nat /\ LogCells \in Int /\ copied[z] \in Int
      <4>1. /\ ExtraBytesInHeader \in Nat /\ EntrySize \in Nat /\ LogSize \in Nat
            /\ copied[z] \in 0 .. LogSize * EntrySize
        BY LogConstants DEF LogInv, Log!TypeOK, Log!Zeroing
      <4> QED BY <4>1 DEF Cell, LogCells, Log!Slots
    <3>2. Cell(s, i) \in 0 .. LogCells - 1 /\ Cell(s, i) >= copied[z]
      BY <2>3, <3>1
    <3>3. Log!Ahead(z, s)
      BY <3>2, Zenon DEF Log!Ahead, Log!CellsOf, Log!Zeroed, Cell, LogCells
    <3> QED BY <3>3 DEF Log!AheadOfReset
  <2>5. memory[c] = latest[s] \/ (latest[s] = 0 /\ c >= LogCells)
    BY <2>2, <2>3, <2>4, Zenon DEF WholeInv
  <2> QED BY <2>5, Zenon DEF LogCells
<1> QED BY <1>1, <1>2, LogOrder DEF LogKeepsEntries

\* The variables of the log keep to their types.
LEMMA LogTypesOK == PartSpec => []Log!TypeOK
<1>1. PartInit => LogInv
  BY LogStart DEF PartInit
<1>2. LogInv /\ [PartNext]_partVars => LogInv'
  BY StructureSteps, LogStep
<1>3. LogInv => Log!TypeOK
  BY DEF LogInv
<1> QED BY <1>1, <1>2, <1>3, PTL DEF PartSpec

(***************************************************************************)
(* Whatever the sizes, the number of threads and the range of the counter, *)
(* WriteTraceLog writes inside the log, an entry that nobody disturbs is   *)
(* there whole, and the last entries are in slots of their own.            *)
(***************************************************************************)
THEOREM LogAlwaysKeepsEntries == PartSpec => []LogKeepsEntries
<1>1. PartInit => LogInv
  BY LogStart DEF PartInit
<1>2. LogInv /\ [PartNext]_partVars => LogInv'
  BY StructureSteps, LogStep
<1>3. LogInv => LogKeepsEntries
  BY LogKept
<1> QED BY <1>1, <1>2, <1>3, PTL DEF PartSpec

-----------------------------------------------------------------------------
(* TableSetup and SubTableSetup                                            *)

\* The segments that are there are those the loop has been at.
SegmentsInv ==
  /\ setupPc \in {"initialize", "level", "directory"} => segs = {}
  /\ setupPc = "segments" => lkrcState = "SUCCESS"
  /\ setupPc \in {"segments", "unwind"} => counter \in Nat /\ segs = 0 .. counter - 1
  /\ Setup!FailureUndone

LEMMA SegmentsKept ==
  /\ Setup!Init => SegmentsInv
  /\ SegmentsInv /\ [Setup!Next]_(Setup!vars) => SegmentsInv'
<1>1. Setup!Init => SegmentsInv
  BY DEF Setup!Init, SegmentsInv, Setup!FailureUndone
<1>2. ASSUME SegmentsInv, UNCHANGED Setup!vars PROVE SegmentsInv'
  BY <1>2 DEF SegmentsInv, Setup!FailureUndone, Setup!vars
<1>3. ASSUME SegmentsInv, Setup!Next PROVE SegmentsInv'
  <2> USE <1>3 DEF SegmentsInv, Setup!FailureUndone
  <2>1. CASE Setup!Initialize \/ Setup!RaiseLevel \/ Setup!FixAddresses \/ Setup!DoubleDirectory
    BY <2>1 DEF Setup!Initialize, Setup!RaiseLevel, Setup!FixAddresses, Setup!DoubleDirectory,
       Setup!addressVars
  <2>2. CASE Setup!AllocateDirectory
    BY <2>2 DEF Setup!AllocateDirectory, Setup!addressVars
  <2>3. CASE Setup!NoDirectory
    BY <2>3 DEF Setup!NoDirectory, Setup!GiveUp
  <2>4. CASE Setup!AllocateSegment
    BY <2>4 DEF Setup!AllocateSegment, Setup!addressVars
  <2>5. CASE Setup!WritePastDirectory \/ Setup!NoSegment \/ Setup!Finish
    BY <2>5 DEF Setup!WritePastDirectory, Setup!NoSegment, Setup!Finish, Setup!addressVars
  <2>6. CASE Setup!FreeSegment
    BY <2>6 DEF Setup!FreeSegment, Setup!addressVars
  <2>7. CASE Setup!FreeDirectory
    BY <2>7 DEF Setup!FreeDirectory, Setup!GiveUp
  <2> QED BY <2>1, <2>2, <2>3, <2>4, <2>5, <2>6, <2>7, Zenon DEF Setup!Next
<1> QED BY <1>1, <1>2, <1>3, Zenon

\* The subtables that are there are those in front of the next one.
SubTablesInv ==
  /\ arrayPc \in {"size", "array"} => subTables = {} /\ ~palhtDir /\ cSubTables = 0
  /\ arrayPc = "array" => num_subtbls \in Nat
  /\ arrayPc \in {"size", "array", "subtables", "gone"} => arrayState # "SUCCESS"
  /\ arrayPc = "subtables" => cSubTables \in Nat /\ \E i \in 0 .. cSubTables : subTables = 0 .. i - 1
  /\ arrayPc = "made" /\ arrayState = "SUCCESS" => subTables = 0 .. cSubTables - 1
  /\ arrayPc \in {"made", "subtables"} => cSubTables \in Nat /\ \A i \in subTables : i \in Nat
  /\ Array!ArrayFreed

LEMMA NumberOfSubTables ==
  ASSUME asked \in ArraySizes, wanted \in SubTableCounts, nCPUs \in ProcessorCounts,
         Array!NumSubTables
  PROVE  num_subtbls' \in Nat
<1>1. /\ wanted \in Nat /\ nCPUs \in Nat /\ MAX_SUBTABLES \in Nat
      /\ Kinds = {1, 2, 3}
  BY StructuresAssumption DEF Array!ArrayAssumption, Array!SizesAssumption, Array!Small,
     Array!Medium, Array!Large
<1>2. Array!PerCPU[Array!SubTableKind] \in Nat
  BY <1>1 DEF Array!PerCPU, Array!SubTableKind, Array!Small, Array!Medium, Array!Large
<1>3. Array!PerCPU[Array!SubTableKind] * nCPUs \in Nat
  BY <1>1, <1>2
<1> QED BY <1>1, <1>3 DEF Array!NumSubTables

\* What the client asked for stays.
AskedInv == asked \in ArraySizes /\ wanted \in SubTableCounts /\ nCPUs \in ProcessorCounts

LEMMA SubTablesKept ==
  /\ Array!Init => AskedInv /\ SubTablesInv
  /\ AskedInv /\ SubTablesInv /\ [Array!Next]_(Array!arrayVars) => (AskedInv /\ SubTablesInv)'
<1>1. Array!Init => AskedInv /\ SubTablesInv
  BY DEF Array!Init, AskedInv, SubTablesInv, Array!ArrayFreed, Array!ArrayMade
<1>2. ASSUME AskedInv, SubTablesInv, UNCHANGED Array!arrayVars
      PROVE  (AskedInv /\ SubTablesInv)'
  BY <1>2 DEF AskedInv, SubTablesInv, Array!ArrayFreed, Array!ArrayMade, Array!arrayVars,
     Array!sizes
<1>3. ASSUME AskedInv, SubTablesInv, Array!Next
      PROVE  (AskedInv /\ SubTablesInv)'
  <2>1. AskedInv'
    BY <1>3, Zenon DEF AskedInv, Array!Next, Array!sizes, Array!NumSubTables,
       Array!AllocateSubTableArray, Array!NoArray, Array!AllocateSubTable, Array!SubTableFails,
       Array!ComputeMask, Array!Destroy
  <2> USE <1>3 DEF SubTablesInv, Array!ArrayFreed, Array!ArrayMade, Array!Goto
  <2>2. CASE Array!NumSubTables
    <3>1. num_subtbls' \in Nat
      BY <2>2, NumberOfSubTables DEF AskedInv
    <3>2. /\ arrayPc = "size" /\ arrayPc' = "array" /\ arrayState' = "ALLOC_FAIL"
          /\ UNCHANGED <<cSubTables, palhtDir, subTables>>
      BY <2>2 DEF Array!NumSubTables
    <3> QED BY <2>1, <3>1, <3>2
  <2>3. CASE Array!AllocateSubTableArray
    BY <2>1, <2>3 DEF Array!AllocateSubTableArray
  <2>4. CASE Array!NoArray
    BY <2>1, <2>4 DEF Array!NoArray
  <2>5. CASE arrayPc = "subtables"
    <3> DEFINE next0 == Array!NextSubTable
    <3>1. next0 \in 0 .. cSubTables /\ subTables = 0 .. next0 - 1 /\ cSubTables \in Nat
      BY <2>5 DEF Array!NextSubTable
    <3> HIDE DEF next0
    <3>2. CASE Array!AllocateSubTable
      <4>1. subTables' = 0 .. (next0 + 1) - 1 /\ next0 + 1 \in 0 .. cSubTables
        BY <3>1, <3>2 DEF Array!AllocateSubTable, next0
      <4> QED BY <2>1, <3>1, <3>2, <4>1 DEF Array!AllocateSubTable
    <3>3. CASE Array!SubTableFails
      BY <2>1, <3>1, <3>3 DEF Array!SubTableFails, next0
    <3>4. CASE Array!ComputeMask
      BY <2>1, <3>1, <3>4 DEF Array!ComputeMask, next0
    <3> QED BY <2>5, <3>2, <3>3, <3>4 DEF Array!Next, Array!NumSubTables,
          Array!AllocateSubTableArray, Array!NoArray, Array!Destroy
  <2>6. CASE Array!Destroy
    BY <2>1, <2>6 DEF Array!Destroy
  <2> QED BY <2>2, <2>3, <2>4, <2>5, <2>6 DEF Array!Next, Array!AllocateSubTable,
       Array!SubTableFails, Array!ComputeMask
<1> QED BY <1>1, <1>2, <1>3, Zenon

\* A number of subtables that is above the limit is the limit.
ArrayTypes ==
  Array!TypeOK /\ (arrayPc = "array" => num_subtbls \in 0 .. MAX_SUBTABLES)

LEMMA ArraySized ==
  ASSUME AskedInv
  PROVE  /\ asked \in Nat /\ wanted \in Nat
         /\ MAX_SUBTABLES \in Nat \ {0} /\ MAXDWORD \in Nat \ {0}
BY StructuresAssumption DEF AskedInv, Array!ArrayAssumption

LEMMA ArrayTypesKept ==
  /\ AskedInv /\ Array!Init => ArrayTypes
  /\ AskedInv /\ SubTablesInv /\ ArrayTypes /\ [Array!Next]_(Array!arrayVars) => ArrayTypes'
<1> USE DEF ArrayTypes, Array!TypeOK, Array!None
<1>1. ASSUME AskedInv, Array!Init PROVE ArrayTypes
  <2>1. /\ initsize = asked /\ num_subtbls = wanted /\ cSubTables = 0 /\ nSubTableMask = 0
        /\ palhtDir = FALSE /\ subTables = {} /\ failing = -1 /\ arrayPc = "size"
    BY <1>1 DEF Array!Init
  <2>2. asked \in Nat /\ wanted \in Nat /\ MAX_SUBTABLES \in Nat \ {0}
    BY <1>1, ArraySized
  <2>3. /\ failing \in -1 .. MAX_SUBTABLES - 1 /\ nSubTableMask \in -1 .. MAX_SUBTABLES - 1
        /\ initsize \in Nat /\ num_subtbls \in Nat /\ cSubTables \in 0 .. MAX_SUBTABLES
        /\ subTables \subseteq 0 .. MAX_SUBTABLES - 1 /\ arrayPc # "array"
    BY <2>1, <2>2
  <2>4. palhtDir \in BOOLEAN
    BY <2>1, Zenon
  <2> QED BY <2>3, <2>4, Zenon
<1>2. ASSUME ArrayTypes, UNCHANGED Array!arrayVars PROVE ArrayTypes'
  BY <1>2 DEF Array!arrayVars, Array!sizes
<1>3. ASSUME AskedInv, SubTablesInv, ArrayTypes, Array!Next PROVE ArrayTypes'
  <2>0. asked \in Nat /\ wanted \in Nat /\ MAX_SUBTABLES \in Nat \ {0} /\ MAXDWORD \in Nat \ {0}
    BY <1>3, ArraySized
  <2> USE <1>3, <2>0 DEF Array!Goto, Array!sizes
  <2>1. CASE Array!NumSubTables
    <3>1. num_subtbls' \in Nat
      BY <2>1, NumberOfSubTables DEF AskedInv
    <3>2. num_subtbls' \in 0 .. MAX_SUBTABLES
      BY <2>1, <3>1 DEF Array!NumSubTables
    <3>3. initsize' \in Nat
      <4>1. CASE wanted = 0
        BY <2>1, <4>1 DEF Array!NumSubTables, Array!DfltNumSubTbls
      <4>2. CASE wanted # 0
        <5> DEFINE n == IF asked = 0 THEN MAXDWORD ELSE asked - 1
        <5>1. n \in Nat /\ wanted \in Nat \ {0}
          BY <4>2
        <5>2. n \div wanted \in Nat
          <6> HIDE DEF n
          <6> QED BY <5>1, DivMod
        <5>3. Array!PerSubTable(asked, wanted) \in Nat
          BY <5>2 DEF Array!PerSubTable
        <5> HIDE DEF n
        <5> QED BY <2>1, <5>3 DEF Array!NumSubTables
      <4> QED BY <4>1, <4>2
    <3>4. UNCHANGED <<failing, cSubTables, nSubTableMask, palhtDir, subTables>>
      BY <2>1, Zenon DEF Array!NumSubTables
    <3> QED BY <3>2, <3>3, <3>4
  <2>2. CASE Array!AllocateSubTableArray \/ Array!NoArray
    BY <2>2 DEF Array!AllocateSubTableArray, Array!NoArray
  <2>3. CASE arrayPc = "subtables"
    <3> DEFINE next0 == Array!NextSubTable
    <3>1. next0 \in 0 .. cSubTables /\ cSubTables \in 0 .. MAX_SUBTABLES
      BY <2>3 DEF Array!NextSubTable, SubTablesInv
    <3> HIDE DEF next0
    <3>2. CASE Array!AllocateSubTable
      BY <3>1, <3>2 DEF Array!AllocateSubTable, next0
    <3>3. CASE Array!SubTableFails
      <4>1. /\ failing' \in -1 .. MAX_SUBTABLES - 1 /\ nSubTableMask' \in -1 .. MAX_SUBTABLES - 1
            /\ cSubTables' \in 0 .. MAX_SUBTABLES /\ subTables' \subseteq 0 .. MAX_SUBTABLES - 1
        BY <3>1, <3>3 DEF Array!SubTableFails, next0
      <4>2. arrayPc' # "array" /\ palhtDir' \in BOOLEAN /\ UNCHANGED <<initsize, num_subtbls>>
        BY <3>3, Zenon DEF Array!SubTableFails
      <4> QED BY <4>1, <4>2, Zenon
    <3>4. CASE Array!ComputeMask
      <4>3. nSubTableMask' \in {-1, cSubTables - 1} /\ arrayPc' = "made"
        BY <3>4, Zenon DEF Array!ComputeMask
      <4>1. nSubTableMask' \in -1 .. MAX_SUBTABLES - 1 /\ arrayPc' # "array"
        BY <3>1, <4>3
      <4>2. UNCHANGED <<initsize, num_subtbls, cSubTables, palhtDir, subTables, failing>>
        BY <3>4, Zenon DEF Array!ComputeMask
      <4> QED BY <4>1, <4>2, Zenon
    <3> QED BY <2>3, <3>2, <3>3, <3>4 DEF Array!Next, Array!NumSubTables,
          Array!AllocateSubTableArray, Array!NoArray, Array!Destroy
  <2>4. CASE Array!Destroy
    BY <2>4 DEF Array!Destroy
  <2> QED BY <2>1, <2>2, <2>3, <2>4 DEF Array!Next, Array!AllocateSubTable,
       Array!SubTableFails, Array!ComputeMask
<1> QED BY <1>1, <1>2, <1>3, Zenon

\* The variables of a CLKRHashTable's constructor keep to their types.
LEMMA ArrayTypesOK == PartSpec => []Array!TypeOK
<1> DEFINE Inv == AskedInv /\ SubTablesInv /\ ArrayTypes
<1>1. PartInit => Inv
  BY SubTablesKept, ArrayTypesKept DEF PartInit
<1>2. Inv /\ [PartNext]_partVars => Inv'
  BY StructureSteps, SubTablesKept, ArrayTypesKept
<1>3. Inv => Array!TypeOK
  BY DEF ArrayTypes
<1> HIDE DEF Inv
<1> QED BY <1>1, <1>2, <1>3, PTL DEF PartSpec

(***************************************************************************)
(* Whatever the sizes, and whichever allocation fails, a table that could  *)
(* not be set up has given its segments and its directory back, and an     *)
(* array of tables all its tables but one whose own set-up failed.         *)
(***************************************************************************)
THEOREM FailureAlwaysUndone == PartSpec => []FailureUndone
<1> DEFINE Inv == SegmentsInv /\ AskedInv /\ SubTablesInv
<1>1. PartInit => Inv
  BY SegmentsKept, SubTablesKept DEF PartInit
<1>2. Inv /\ [PartNext]_partVars => Inv'
  BY StructureSteps, SegmentsKept, SubTablesKept
<1>3. Inv => FailureUndone
  BY DEF SegmentsInv, SubTablesInv, FailureUndone
<1> HIDE DEF Inv
<1> QED BY <1>1, <1>2, <1>3, PTL DEF PartSpec

-----------------------------------------------------------------------------
(* SubTables                                                               *)

OnOne == {"table", "bucket", "work", "resize", "resizeLocked", "move"}
OnAll == {"lockAll", "walk", "unlockAll"}
SomeRecord == CHOOSE r \in Record : TRUE

\* What a thread is doing, and where, agrees with its operation.
SubCallInv ==
  /\ subOp \in [Thread -> SubTableOpNames \cup {"NONE"}]
  /\ subRec \in [Thread -> Record \cup {SomeRecord}]
  /\ subPc \in [Thread -> {"idle"} \cup OnOne \cup OnAll]
  /\ lkp \in [Thread -> {"LKP_PERFORM", "LEFT", "STOP"}]
  /\ \A t \in Thread :
       /\ subPc[t] \in OnOne => subOp[t] \in {"Insert", "DeleteKey", "FindKey"} /\ subRec[t] \in Record
       /\ subPc[t] \in {"resize", "resizeLocked", "move"} => subOp[t] # "FindKey"
       /\ subPc[t] \in OnAll => subOp[t] \in {"Apply", "ApplyWrite", "DeleteIf", "Clear"}

\* Where a walk is.
WhereInv ==
  \A t \in Thread :
    /\ subPc[t] \notin OnAll => sub[t] = 0
    /\ subPc[t] = "lockAll" => sub[t] < m_cSubTables
    /\ subPc[t] = "unlockAll" => sub[t] > 0
    /\ subPc[t] # "walk" => bkt[t] = 0 /\ lkp[t] = "LKP_PERFORM" /\ met[t] = {} /\ removed[t] = {}
    /\ sub[t] < m_cSubTables => bkt[t] < subActive[sub[t]]
    /\ sub[t] = m_cSubTables => bkt[t] = 0
    /\ subOp[t] = "Apply" => removed[t] = {}
    /\ subOp[t] = "Clear" => met[t] = removed[t] /\ lkp[t] = "LKP_PERFORM"

HoldsTable(t, s) ==
  \/ subPc[t] \in {"bucket", "resizeLocked"} /\ SubTabs!Home(t) = s
  \/ subPc[t] \in {"lockAll", "unlockAll"} /\ s < sub[t]
  \/ subPc[t] = "walk"

\* The table locks are held by those who have taken them, a writer alone.
TableLocksInv ==
  \A s \in SubTabs!SubTable :
    /\ tableReaders[s] = {t \in Thread : HoldsTable(t, s) /\ SubTabs!Reads(t)}
    /\ tableWriters[s] = {t \in Thread : HoldsTable(t, s) /\ ~SubTabs!Reads(t)}
    /\ \A t \in tableWriters[s], u \in Thread : HoldsTable(u, s) => u = t

BucketAt(r) == SubTabs!BucketOf(r, subActive[SubTableOf[r]])

\* SubTabs!Inside, of one thread.
IsIn(t, s, b) ==
  /\ SubTableOf[subRec[t]] = s
  /\ subPc[t] = "move" \/ (subPc[t] = "work" /\ BucketAt(subRec[t]) = b)

ReadsInside(t) == subPc[t] = "work" /\ SubTabs!Reads(t)

\* In a bucket there is one thread, or there are readers.
InsideInv ==
  \A t, u \in Thread, s \in SubTabs!SubTable, b \in SubTabs!Bucket :
    IsIn(t, s, b) /\ IsIn(u, s, b) => t = u \/ (ReadsInside(t) /\ ReadsInside(u))

\* Records are where their signatures address, or between the two buckets of
\* their subtable.
HomeInv ==
  /\ \A s \in SubTabs!SubTable, b \in SubTabs!Bucket : \A r \in bucket[s][b] :
       SubTableOf[r] = s /\ BucketAt(r) = b
  /\ \A t \in Thread : \A r \in moving[t] : subPc[t] = "move" /\ SubTableOf[r] = SubTabs!Home(t)
  /\ \A t \in Thread : subPc[t] = "move" =>
       \A b \in SubTabs!Bucket : bucket[SubTabs!Home(t)][b] = {}

AheadOf(t, s, b) == s > sub[t] \/ (s = sub[t] /\ b >= bkt[t])

\* Where a walk has been, or has met a record, nobody is at work any more, but
\* for readers beside a reader; so it has met what is behind it, each record
\* once, and what it has removed has not come back.
WalkOf(t) ==
  /\ lkp[t] = "LKP_PERFORM" => \A s \in SubTabs!SubTable, b \in SubTabs!Bucket :
       ~AheadOf(t, s, b) => \A v \in Thread : IsIn(v, s, b) => ReadsInside(v) /\ SubTabs!Reads(t)
  /\ \A r \in met[t], v \in Thread : IsIn(v, SubTableOf[r], BucketAt(r)) =>
       ReadsInside(v) /\ SubTabs!Reads(t)
  /\ \A r \in met[t] : ~AheadOf(t, SubTableOf[r], BucketAt(r))
  /\ removed[t] \subseteq met[t] /\ met[t] \subseteq SubTabs!Table \cup removed[t]
  /\ removed[t] \cap SubTabs!Table = {}
  /\ lkp[t] = "LKP_PERFORM" => \A r \in SubTabs!Table :
       ~AheadOf(t, SubTableOf[r], BucketAt(r)) => r \in met[t]

WalkInv == \A t \in Thread : subPc[t] = "walk" => WalkOf(t)

SubInv ==
  /\ SubTabs!TypeOK /\ SubCallInv /\ WhereInv
  /\ TableLocksInv /\ InsideInv /\ HomeInv /\ WalkInv

LEMMA SubConstants ==
  /\ SubTableRecords \subseteq Record /\ m_cSubTables \in Nat \ {0}
  /\ SubTableOf \in [Record -> SubTabs!SubTable]
  /\ SubTableOpNames \subseteq {"Insert", "DeleteKey", "FindKey", "Apply", "ApplyWrite", "DeleteIf", "Clear"}
  /\ \A r, s \in Record : KeyOf[r] = KeyOf[s] =>
       SubTableOf[r] = SubTableOf[s] /\ (r \in SecondBucket <=> s \in SecondBucket)
  /\ \A r, s \in SubTableRecords : KeyOf[r] = KeyOf[s] => r = s
BY StructuresAssumption DEF SubTabs!SubTablesAssumption, SubTabs!SubTable

SubStep(t) == (\E o \in SubTableOpNames, r \in Record : SubTabs!Invoke(t, o, r)) \/ SubTabs!Step(t)

\* A step of a thread is nothing to the others' places and sets.
LEMMA SubFrame ==
  ASSUME SubTabs!TypeOK, SubCallInv, NEW t \in Thread,
         SubStep(t)
  PROVE  \A u \in Thread \ {t} :
           /\ subPc'[u] = subPc[u] /\ subOp'[u] = subOp[u] /\ subRec'[u] = subRec[u]
           /\ sub'[u] = sub[u] /\ bkt'[u] = bkt[u] /\ lkp'[u] = lkp[u] /\ met'[u] = met[u]
           /\ removed'[u] = removed[u] /\ moving'[u] = moving[u]
<1> USE DEF SubTabs!TypeOK, SubCallInv, SubTabs!Goto, SubTabs!Return, SubTabs!records,
       SubTabs!tableLocks, SubTabs!call, SubTabs!walk
<1>1. CASE \E o \in SubTableOpNames, r \in Record : SubTabs!Invoke(t, o, r)
  BY <1>1 DEF SubTabs!Invoke
<1>2. CASE SubTabs!LockSubTable(t) \/ SubTabs!LockBucket(t) \/ SubTabs!NoResize(t)
           \/ SubTabs!LockToResize(t)
  BY <1>2 DEF SubTabs!LockSubTable, SubTabs!LockBucket, SubTabs!NoResize, SubTabs!LockToResize
<1>3. CASE SubTabs!Insert(t) \/ SubTabs!DeleteKey(t) \/ SubTabs!FindKey(t)
  BY <1>3 DEF SubTabs!Insert, SubTabs!DeleteKey, SubTabs!FindKey
<1>4. CASE SubTabs!ResizeTable(t) \/ SubTabs!MoveRecords(t)
  <2>1. CASE SubTabs!ResizeTable(t)
    BY <2>1 DEF SubTabs!ResizeTable
  <2>2. CASE SubTabs!MoveRecords(t)
    BY <2>2 DEF SubTabs!MoveRecords
  <2> QED BY <1>4, <2>1, <2>2
<1>5. CASE SubTabs!LockAll(t) \/ SubTabs!EndWalk(t) \/ SubTabs!UnlockAll(t)
  BY <1>5 DEF SubTabs!LockAll, SubTabs!EndWalk, SubTabs!UnlockAll
<1>6. CASE SubTabs!VisitBucket(t)
  BY <1>6 DEF SubTabs!VisitBucket, SubTabs!VisitAll, SubTabs!Visit, SubTabs!Advance
<1>7. CASE SubTabs!LeaveBucket(t)
  BY <1>7 DEF SubTabs!LeaveBucket, SubTabs!Visit
<1> QED BY <1>1, <1>2, <1>3, <1>4, <1>5, <1>6, <1>7, Zenon DEF SubStep, SubTabs!Step

LEMMA SubCallsKept ==
  ASSUME SubTabs!TypeOK, SubCallInv, NEW t \in Thread,
         SubStep(t)
  PROVE  SubCallInv'
<1> USE DEF SubCallInv, OnOne, OnAll, SubTabs!Goto, SubTabs!records, SubTabs!tableLocks, SubTabs!call,
       SubTabs!walk
<1>1. CASE \E o \in SubTableOpNames, r \in Record : SubTabs!Invoke(t, o, r)
  BY <1>1, SubConstants DEF SubTabs!Invoke, SubTabs!Single
<1>2. CASE SubTabs!LockSubTable(t) \/ SubTabs!LockBucket(t) \/ SubTabs!NoResize(t)
           \/ SubTabs!LockToResize(t)
  <2>1. CASE SubTabs!LockSubTable(t)
    BY <2>1 DEF SubTabs!LockSubTable
  <2>2. CASE SubTabs!LockBucket(t)
    BY <2>2 DEF SubTabs!LockBucket
  <2>3. CASE SubTabs!NoResize(t)
    BY <2>3 DEF SubTabs!NoResize
  <2>4. CASE SubTabs!LockToResize(t)
    BY <2>4 DEF SubTabs!LockToResize
  <2> QED BY <1>2, <2>1, <2>2, <2>3, <2>4
<1>3. CASE SubTabs!Insert(t) \/ SubTabs!DeleteKey(t)
  BY <1>3 DEF SubTabs!Insert, SubTabs!DeleteKey
<1>4. CASE SubTabs!FindKey(t)
  <2>1. SubTabs!SameKey(t) \subseteq Record
    <3>1. SubTabs!Home(t) \in SubTabs!SubTable /\ SubTabs!HomeBucket(t) \in SubTabs!Bucket
      BY <1>4, SubConstants DEF SubTabs!FindKey, SubTabs!Home, SubTabs!HomeBucket,
         SubTabs!BucketOf, SubTabs!Bucket
    <3> QED BY <3>1 DEF SubTabs!SameKey, SubTabs!Chain, SubTabs!TypeOK
  <2> QED BY <1>4, <2>1 DEF SubTabs!FindKey
<1>5. CASE SubTabs!ResizeTable(t) \/ SubTabs!MoveRecords(t)
  BY <1>5 DEF SubTabs!ResizeTable, SubTabs!MoveRecords
<1>6. CASE SubTabs!LockAll(t) \/ SubTabs!EndWalk(t) \/ SubTabs!UnlockAll(t)
  BY <1>6 DEF SubTabs!LockAll, SubTabs!EndWalk, SubTabs!UnlockAll
<1>7. CASE SubTabs!VisitBucket(t)
  BY <1>7 DEF SubTabs!VisitBucket, SubTabs!VisitAll
<1>8. CASE SubTabs!LeaveBucket(t)
  BY <1>8 DEF SubTabs!LeaveBucket
<1> QED BY <1>1, <1>2, <1>3, <1>4, <1>5, <1>6, <1>7, <1>8, Zenon DEF SubStep, SubTabs!Step

LEMMA TableLockTypes ==
  ASSUME SubTabs!TypeOK, NEW t \in Thread, NEW s \in SubTabs!SubTable, NEW reads,
         SubTabs!LockTable(t, s, reads) \/ SubTabs!UnlockTable(t, s)
  PROVE  /\ tableReaders' \in [SubTabs!SubTable -> SUBSET Thread]
         /\ tableWriters' \in [SubTabs!SubTable -> SUBSET Thread]
<1>1. CASE SubTabs!UnlockTable(t, s)
  BY <1>1 DEF SubTabs!UnlockTable, SubTabs!TypeOK
<1>2. CASE SubTabs!LockTable(t, s, reads) /\ reads
  BY <1>2 DEF SubTabs!LockTable, SubTabs!TypeOK
<1>3. CASE SubTabs!LockTable(t, s, reads) /\ ~reads
  BY <1>3 DEF SubTabs!LockTable, SubTabs!TypeOK
<1> QED BY <1>1, <1>2, <1>3

\* A change of one chain.
ChainBecomes(s, b, rs) == bucket' = [bucket EXCEPT ![s][b] = rs]

LEMMA ChainTypes ==
  ASSUME SubTabs!TypeOK, NEW s \in SubTabs!SubTable, NEW b \in SubTabs!Bucket, NEW rs \in SUBSET Record,
         ChainBecomes(s, b, rs)
  PROVE  /\ bucket' \in [SubTabs!SubTable -> [SubTabs!Bucket -> SUBSET Record]]
         /\ bucket'[s][b] = rs
         /\ \A s1 \in SubTabs!SubTable, b1 \in SubTabs!Bucket :
              s1 # s \/ b1 # b => bucket'[s1][b1] = bucket[s1][b1]
<1>1. [bucket[s] EXCEPT ![b] = rs] \in [SubTabs!Bucket -> SUBSET Record]
  BY DEF SubTabs!TypeOK
<1>2. bucket' = [bucket EXCEPT ![s] = [bucket[s] EXCEPT ![b] = rs]]
  BY DEF SubTabs!TypeOK, ChainBecomes
<1> QED BY <1>1, <1>2 DEF SubTabs!TypeOK

\* Where the operations work, and where a walk is.
LEMMA SubPlaces ==
  ASSUME SubTabs!TypeOK, SubCallInv, WhereInv, NEW t \in Thread
  PROVE  /\ \A r \in Record, a \in {1, 2} : SubTableOf[r] \in SubTabs!SubTable /\ SubTabs!BucketOf(r, a) \in SubTabs!Bucket
         /\ subPc[t] \in OnOne =>
              /\ subRec[t] \in Record /\ SubTabs!Home(t) \in SubTabs!SubTable
              /\ SubTabs!HomeBucket(t) \in SubTabs!Bucket /\ SubTabs!HomeBucket(t) = BucketAt(subRec[t])
              /\ SubTabs!Chain(t) \subseteq Record /\ SubTabs!SameKey(t) \subseteq SubTabs!Chain(t)
         /\ subPc[t] = "lockAll" => sub[t] \in SubTabs!SubTable
         /\ subPc[t] = "unlockAll" => sub[t] - 1 \in SubTabs!SubTable
         /\ subPc[t] = "walk" /\ ~SubTabs!WalkedAll(t) =>
              /\ sub[t] \in SubTabs!SubTable /\ bkt[t] \in SubTabs!Bucket
              /\ SubTabs!Here(t) \subseteq Record /\ sub[t] + 1 \in 1 .. m_cSubTables
<1> USE SubConstants DEF SubTabs!TypeOK
<1>1. \A r \in Record, a \in {1, 2} : SubTableOf[r] \in SubTabs!SubTable /\ SubTabs!BucketOf(r, a) \in SubTabs!Bucket
  BY DEF SubTabs!BucketOf, SubTabs!Bucket
<1>2. ASSUME subPc[t] \in OnOne
      PROVE  /\ subRec[t] \in Record /\ SubTabs!Home(t) \in SubTabs!SubTable
             /\ SubTabs!HomeBucket(t) \in SubTabs!Bucket
             /\ SubTabs!HomeBucket(t) = BucketAt(subRec[t])
  BY SMTT(20), <1>1, <1>2 DEF SubCallInv, SubTabs!Home, SubTabs!HomeBucket, BucketAt
<1>3. ASSUME subPc[t] \in OnOne
      PROVE  SubTabs!Chain(t) \subseteq Record /\ SubTabs!SameKey(t) \subseteq SubTabs!Chain(t)
  BY <1>2, <1>3 DEF SubTabs!Chain, SubTabs!SameKey
<1>4. /\ subPc[t] = "lockAll" => sub[t] \in SubTabs!SubTable
      /\ subPc[t] = "unlockAll" => sub[t] - 1 \in SubTabs!SubTable
  BY DEF WhereInv, SubTabs!SubTable
<1>5. ASSUME subPc[t] = "walk", ~SubTabs!WalkedAll(t)
      PROVE  sub[t] \in SubTabs!SubTable /\ bkt[t] \in SubTabs!Bucket /\ sub[t] + 1 \in 1 .. m_cSubTables
  BY <1>5 DEF SubTabs!WalkedAll, SubTabs!SubTable
<1>6. ASSUME subPc[t] = "walk", ~SubTabs!WalkedAll(t) PROVE SubTabs!Here(t) \subseteq Record
  BY <1>5, <1>6 DEF SubTabs!Here
<1> QED BY <1>1, <1>2, <1>3, <1>4, <1>5, <1>6

LEMMA SubTypesKept ==
  ASSUME SubTabs!TypeOK, SubCallInv, WhereInv, NEW t \in Thread,
         SubStep(t)
  PROVE  SubTabs!TypeOK'
<1> USE DEF SubTabs!TypeOK, SubTabs!Goto, SubTabs!records, SubTabs!tableLocks,
       SubTabs!call, SubTabs!walk
<1>1. CASE \E o \in SubTableOpNames, r \in Record : SubTabs!Invoke(t, o, r)
  BY <1>1 DEF SubTabs!Invoke
<1>2. CASE SubTabs!LockSubTable(t) \/ SubTabs!LockBucket(t) \/ SubTabs!NoResize(t)
           \/ SubTabs!LockToResize(t)
  <2>1. /\ tableReaders' \in [SubTabs!SubTable -> SUBSET Thread]
        /\ tableWriters' \in [SubTabs!SubTable -> SUBSET Thread]
    BY <1>2, SubPlaces, TableLockTypes DEF SubTabs!LockSubTable, SubTabs!LockBucket,
       SubTabs!NoResize, SubTabs!LockToResize, OnOne
  <2> QED BY <1>2, <2>1 DEF SubTabs!LockSubTable, SubTabs!LockBucket, SubTabs!NoResize,
     SubTabs!LockToResize
<1>3. CASE SubTabs!Insert(t) \/ SubTabs!DeleteKey(t) \/ SubTabs!FindKey(t)
  <2>1. subPc[t] \in OnOne
    BY <1>3 DEF SubTabs!Insert, SubTabs!DeleteKey, SubTabs!FindKey, OnOne
  <2>2. \A rs \in SUBSET Record : SubTabs!SetChain(t, rs) =>
          bucket' \in [SubTabs!SubTable -> [SubTabs!Bucket -> SUBSET Record]]
    <3> SUFFICES ASSUME NEW rs \in SUBSET Record, SubTabs!SetChain(t, rs)
                 PROVE  bucket' \in [SubTabs!SubTable -> [SubTabs!Bucket -> SUBSET Record]]
      OBVIOUS
    <3>1. ChainBecomes(SubTabs!Home(t), SubTabs!HomeBucket(t), rs)
      BY DEF SubTabs!SetChain, ChainBecomes
    <3> QED BY <2>1, <3>1, SubPlaces, ChainTypes
  <2>3. SubTabs!Chain(t) \cup {subRec[t]} \subseteq Record /\ SubTabs!Chain(t) \ SubTabs!SameKey(t) \subseteq Record
    BY <2>1, SubPlaces
  <2>4. bucket' \in [SubTabs!SubTable -> [SubTabs!Bucket -> SUBSET Record]]
    BY <1>3, <2>2, <2>3 DEF SubTabs!Insert, SubTabs!DeleteKey, SubTabs!FindKey
  <2> QED BY <1>3, <2>4 DEF SubTabs!Insert, SubTabs!DeleteKey, SubTabs!FindKey
<1>4. CASE SubTabs!ResizeTable(t)
  <2>1. SubTabs!Home(t) \in SubTabs!SubTable /\ 0 \in SubTabs!Bucket /\ 1 \in SubTabs!Bucket
    BY SubPlaces, <1>4 DEF SubTabs!ResizeTable, OnOne, SubTabs!Bucket
  <2>2. /\ bucket' \in [SubTabs!SubTable -> [SubTabs!Bucket -> SUBSET Record]]
        /\ subActive' \in [SubTabs!SubTable -> {1, 2}] /\ moving' \in [Thread -> SUBSET Record]
    BY <1>4, <2>1 DEF SubTabs!ResizeTable
  <2>3. /\ tableReaders' \in [SubTabs!SubTable -> SUBSET Thread]
        /\ tableWriters' \in [SubTabs!SubTable -> SUBSET Thread]
    BY <1>4, <2>1, TableLockTypes DEF SubTabs!ResizeTable
  <2> QED BY <1>4, <2>2, <2>3 DEF SubTabs!ResizeTable
<1>5. CASE SubTabs!MoveRecords(t)
  <2>1. /\ bucket' \in [SubTabs!SubTable -> [SubTabs!Bucket -> SUBSET Record]]
        /\ moving' \in [Thread -> SUBSET Record]
    BY SubPlaces, <1>5 DEF SubTabs!MoveRecords, SubTabs!Fill, OnOne
  <2> QED BY <1>5, <2>1 DEF SubTabs!MoveRecords
<1>6. CASE SubTabs!LockAll(t)
  <2>1. sub[t] \in SubTabs!SubTable /\ sub' \in [Thread -> 0 .. m_cSubTables]
    <3>1. /\ sub[t] \in SubTabs!SubTable /\ 0 \in 0 .. m_cSubTables
          /\ sub[t] + 1 \in SubTabs!SubTable => sub[t] + 1 \in 0 .. m_cSubTables
      BY <1>6, SubPlaces, SubConstants DEF SubTabs!LockAll, SubTabs!SubTable
    <3> QED BY <1>6, <3>1 DEF SubTabs!LockAll
  <2>2. /\ tableReaders' \in [SubTabs!SubTable -> SUBSET Thread]
        /\ tableWriters' \in [SubTabs!SubTable -> SUBSET Thread]
    BY <1>6, <2>1, TableLockTypes DEF SubTabs!LockAll
  <2> QED BY <1>6, <2>1, <2>2 DEF SubTabs!LockAll
<1>7. CASE SubTabs!EndWalk(t)
  BY <1>7 DEF SubTabs!EndWalk
<1>8. CASE SubTabs!UnlockAll(t)
  <2>1. sub[t] - 1 \in SubTabs!SubTable /\ sub' \in [Thread -> 0 .. m_cSubTables]
    <3>1. sub[t] - 1 \in SubTabs!SubTable /\ sub[t] - 1 \in 0 .. m_cSubTables
      BY <1>8, SubPlaces, SubConstants DEF SubTabs!UnlockAll, SubTabs!SubTable
    <3> QED BY <1>8, <3>1 DEF SubTabs!UnlockAll
  <2>2. /\ tableReaders' \in [SubTabs!SubTable -> SUBSET Thread]
        /\ tableWriters' \in [SubTabs!SubTable -> SUBSET Thread]
    BY <1>8, <2>1, TableLockTypes DEF SubTabs!UnlockAll
  <2> QED BY <1>8, <2>1, <2>2 DEF SubTabs!UnlockAll
<1>9. ASSUME NEW asked0 \in SUBSET SubTabs!Here(t), NEW gone \in SUBSET SubTabs!Here(t),
             subPc[t] = "walk", ~SubTabs!WalkedAll(t), SubTabs!Visit(t, asked0, gone)
      PROVE  /\ bucket' \in [SubTabs!SubTable -> [SubTabs!Bucket -> SUBSET Record]]
             /\ met' \in [Thread -> SUBSET Record] /\ removed' \in [Thread -> SUBSET Record]
  <2>1. sub[t] \in SubTabs!SubTable /\ bkt[t] \in SubTabs!Bucket /\ SubTabs!Here(t) \subseteq Record
    BY <1>9, SubPlaces
  <2>2. ChainBecomes(sub[t], bkt[t], SubTabs!Here(t) \ gone)
    BY <1>9, <2>1 DEF SubTabs!Visit, SubTabs!Here, ChainBecomes
  <2>3. bucket' \in [SubTabs!SubTable -> [SubTabs!Bucket -> SUBSET Record]]
    BY <2>1, <2>2, ChainTypes
  <2> QED BY <1>9, <2>1, <2>3 DEF SubTabs!Visit
<1>10. CASE SubTabs!VisitBucket(t)
  <2>1. /\ bucket' \in [SubTabs!SubTable -> [SubTabs!Bucket -> SUBSET Record]]
        /\ met' \in [Thread -> SUBSET Record] /\ removed' \in [Thread -> SUBSET Record]
    BY <1>9, <1>10 DEF SubTabs!VisitBucket, SubTabs!VisitAll
  <2>2. sub[t] \in SubTabs!SubTable /\ sub[t] + 1 \in 0 .. m_cSubTables
    BY <1>10, SubPlaces DEF SubTabs!VisitBucket
  <2>3. sub' \in [Thread -> 0 .. m_cSubTables]
    BY <1>10, <2>2 DEF SubTabs!VisitBucket, SubTabs!VisitAll, SubTabs!Advance
  <2>4. bkt' \in [Thread -> SubTabs!Bucket]
    <3>1. CASE bkt[t] + 1 < subActive[sub[t]]
      <4>1. bkt[t] + 1 \in SubTabs!Bucket
        BY <3>1, <2>2 DEF SubTabs!Bucket
      <4> QED BY <1>10, <3>1, <4>1 DEF SubTabs!VisitBucket, SubTabs!VisitAll, SubTabs!Advance
    <3>2. CASE ~(bkt[t] + 1 < subActive[sub[t]])
      <4>1. 0 \in SubTabs!Bucket
        BY DEF SubTabs!Bucket
      <4> QED BY <1>10, <3>2, <4>1 DEF SubTabs!VisitBucket, SubTabs!VisitAll, SubTabs!Advance
    <3> QED BY <3>1, <3>2
  <2>5. subActive' \in [SubTabs!SubTable -> {1, 2}]
    BY <1>10, <2>2 DEF SubTabs!VisitBucket, SubTabs!VisitAll
  <2> QED BY <1>10, <2>1, <2>3, <2>4, <2>5 DEF SubTabs!VisitBucket, SubTabs!VisitAll
<1>11. CASE SubTabs!LeaveBucket(t)
  <2>1. /\ bucket' \in [SubTabs!SubTable -> [SubTabs!Bucket -> SUBSET Record]]
        /\ met' \in [Thread -> SUBSET Record] /\ removed' \in [Thread -> SUBSET Record]
    <3>1. PICK asked0 \in SUBSET SubTabs!Here(t) : \E gone \in SUBSET asked0 : SubTabs!Visit(t, asked0, gone)
      BY <1>11 DEF SubTabs!LeaveBucket
    <3> QED BY <1>9, <1>11, <3>1 DEF SubTabs!LeaveBucket
  <2>2. /\ m_cSubTables \in 0 .. m_cSubTables /\ 0 \in SubTabs!Bucket
        /\ sub[t] \in SubTabs!SubTable /\ sub[t] + 1 \in 0 .. m_cSubTables
    BY <1>11, SubPlaces, SubConstants DEF SubTabs!LeaveBucket, SubTabs!Bucket
  <2>3. sub' \in [Thread -> 0 .. m_cSubTables] /\ bkt' \in [Thread -> SubTabs!Bucket]
    <3>1. /\ sub' = [sub EXCEPT ![t] = m_cSubTables] \/ sub' = [sub EXCEPT ![t] = sub[t] + 1]
          /\ bkt' = [bkt EXCEPT ![t] = 0]
      BY <1>11 DEF SubTabs!LeaveBucket
    <3> QED BY <2>2, <3>1
  <2> QED BY <1>11, <2>1, <2>3 DEF SubTabs!LeaveBucket
<1> QED BY <1>1, <1>2, <1>3, <1>4, <1>5, <1>6, <1>7, <1>8, <1>10, <1>11, Zenon DEF SubStep, SubTabs!Step

\* Nobody else is at work in a subtable.
NobodyIn(t, s) == \A u \in Thread \ {t}, b \in SubTabs!Bucket : ~IsIn(u, s, b)

\* The threads in a bucket are those that wait for nobody.
LEMMA InsideIsIn ==
  ASSUME SubTabs!TypeOK, SubCallInv, WhereInv, NEW s \in SubTabs!SubTable, NEW b \in SubTabs!Bucket
  PROVE  SubTabs!Inside(s, b) = {u \in Thread : IsIn(u, s, b)}
<1>1. ASSUME NEW u \in Thread, subPc[u] \in {"work", "move"}
      PROVE  /\ subOp[u] \in SubTabs!Single /\ SubTabs!Home(u) = SubTableOf[subRec[u]]
             /\ SubTabs!HomeBucket(u) = BucketAt(subRec[u])
  BY <1>1, SubPlaces DEF OnOne, SubCallInv, SubTabs!Single, SubTabs!Home
<1> QED BY <1>1 DEF SubTabs!Inside, IsIn

\* A bucket that a thread finds free.
LEMMA FreeMeans ==
  ASSUME SubTabs!TypeOK, SubCallInv, WhereInv, NEW s \in SubTabs!SubTable, NEW b \in SubTabs!Bucket,
         NEW reads \in BOOLEAN, SubTabs!BucketFree(s, b, reads)
  PROVE  \A u \in Thread : IsIn(u, s, b) => reads /\ ReadsInside(u)
BY InsideIsIn DEF SubTabs!BucketFree, ReadsInside

\* Beside a walk, others read or wait.
LEMMA BesideWalk ==
  ASSUME SubInv, NEW t \in Thread, NEW w \in Thread \ {t}, subPc[w] = "walk"
  PROVE  /\ subPc[t] # "resizeLocked"
         /\ subPc[t] = "walk" => SubTabs!Reads(t) /\ SubTabs!Reads(w)
         /\ subPc[t] = "bucket" => SubTabs!Reads(t) /\ SubTabs!Reads(w)
<1>1. \A s \in SubTabs!SubTable : HoldsTable(w, s)
  BY DEF HoldsTable
<1>2. subPc[t] \in OnOne => SubTabs!Home(t) \in SubTabs!SubTable
  BY SubPlaces DEF SubInv
<1>3. 0 \in SubTabs!SubTable
  BY SubConstants DEF SubTabs!SubTable
<1>4. ASSUME NEW s \in SubTabs!SubTable, HoldsTable(t, s) PROVE SubTabs!Reads(t) /\ SubTabs!Reads(w)
  <2>1. t \notin tableWriters[s] /\ w \notin tableWriters[s]
    BY <1>1, <1>4 DEF SubInv, TableLocksInv
  <2> QED BY <1>1, <1>4, <2>1 DEF SubInv, TableLocksInv
<1>5. subPc[t] = "resizeLocked" => ~SubTabs!Reads(t)
  BY DEF SubInv, SubCallInv, SubTabs!Reads, OnOne
<1> QED BY <1>2, <1>3, <1>4, <1>5 DEF HoldsTable, OnOne

\* What a walk of Clear has gone by in its subtable is empty, and nobody is there.
LEMMA ClearLeaves ==
  ASSUME SubInv, NEW t \in Thread, subOp[t] = "Clear", SubTabs!VisitBucket(t), sub'[t] # sub[t]
  PROVE  /\ NobodyIn(t, sub[t])
         /\ \A b \in SubTabs!Bucket : bucket'[sub[t]][b] = {}
         /\ sub[t] \in SubTabs!SubTable /\ sub' = [sub EXCEPT ![t] = @ + 1]
         /\ subActive' = [subActive EXCEPT ![sub[t]] = 1]
<1> DEFINE s == sub[t]
<1>0. /\ subPc[t] = "walk" /\ ~SubTabs!WalkedAll(t) /\ SubTabs!BucketFree(s, bkt[t], FALSE)
      /\ s \in SubTabs!SubTable /\ bkt[t] \in SubTabs!Bucket /\ lkp[t] = "LKP_PERFORM"
      /\ met[t] = removed[t]
  <2>1. SubTabs!Reads(t) = FALSE
    BY DEF SubTabs!Reads
  <2> QED BY <2>1, SubPlaces DEF SubTabs!VisitBucket, SubInv, WhereInv
<1>1. /\ ~(bkt[t] + 1 < subActive[s]) /\ sub' = [sub EXCEPT ![t] = @ + 1]
      /\ subActive' = [subActive EXCEPT ![s] = 1]
  BY DEF SubTabs!VisitBucket, SubTabs!VisitAll, SubTabs!Advance, SubInv, SubTabs!TypeOK
<1>2. ASSUME NEW b \in SubTabs!Bucket PROVE b < bkt[t] \/ b = bkt[t] \/ (b = 1 /\ subActive[s] = 1)
  BY <1>0, <1>1 DEF SubTabs!Bucket, SubInv, SubTabs!TypeOK
<1>3. ASSUME NEW u \in Thread \ {t}, NEW b \in SubTabs!Bucket, IsIn(u, s, b) PROVE FALSE
  <2>1. CASE b = bkt[t]
    BY <1>0, <1>3, <2>1, FreeMeans DEF SubInv
  <2>2. CASE b < bkt[t]
    <3>1. ~AheadOf(t, s, b)
      BY <1>0, <2>2 DEF AheadOf, SubTabs!Bucket, SubTabs!SubTable
    <3>2. SubTabs!Reads(t)
      BY <1>0, <1>3, <3>1 DEF SubInv, WalkInv, WalkOf
    <3> QED BY <3>2 DEF SubTabs!Reads
  <2>3. CASE b = 1 /\ subActive[s] = 1
    <3>1. BucketAt(subRec[u]) = 0
      BY <1>3, <2>3 DEF IsIn, BucketAt, SubTabs!BucketOf
    <3>2. IsIn(u, s, bkt[t])
      BY <1>0, <1>1, <1>3, <2>3, <3>1 DEF IsIn, SubTabs!Bucket
    <3> QED BY <1>0, <3>2, FreeMeans DEF SubInv
  <2> QED BY <1>2, <2>1, <2>2, <2>3
<1>4. bucket'[s][bkt[t]] = {} /\ \A b \in SubTabs!Bucket : b # bkt[t] => bucket'[s][b] = bucket[s][b]
  <2>1. PICK none \in SUBSET Record : none = {} /\ ChainBecomes(s, bkt[t], none)
    <3>1. PICK gone \in SUBSET SubTabs!Here(t) : gone = SubTabs!Here(t) /\ SubTabs!Visit(t, SubTabs!Here(t), gone)
      BY DEF SubTabs!VisitBucket, SubTabs!VisitAll
    <3>2. bucket' = [bucket EXCEPT ![s][bkt[t]] = bucket[s][bkt[t]] \ SubTabs!Here(t)]
      BY <1>0, <3>1 DEF SubTabs!Visit, SubInv, SubTabs!TypeOK
    <3> QED BY <3>2 DEF SubTabs!Here, ChainBecomes
  <2> QED BY <1>0, <2>1, ChainTypes DEF SubInv
<1>5. ASSUME NEW b \in SubTabs!Bucket PROVE bucket'[s][b] = {}
  <2>1. CASE b = bkt[t]
    BY <1>4, <2>1
  <2>2. CASE b # bkt[t]
    <3>1. ASSUME NEW r \in bucket[s][b] PROVE FALSE
      <4>1. SubTableOf[r] = s /\ BucketAt(r) = b /\ r \in SubTabs!Table
        BY <1>0, <3>1 DEF SubInv, HomeInv, SubTabs!Table
      <4>2. CASE b < bkt[t]
        <5>1. ~AheadOf(t, s, b)
          BY <1>0, <4>2 DEF AheadOf, SubTabs!Bucket, SubTabs!SubTable
        <5>2. r \in met[t] /\ removed[t] \cap SubTabs!Table = {}
          BY <1>0, <4>1, <5>1 DEF SubInv, WalkInv, WalkOf
        <5> QED BY <1>0, <4>1, <5>2
      <4>3. CASE b = 1 /\ subActive[s] = 1
        BY <4>1, <4>3 DEF BucketAt, SubTabs!BucketOf
      <4> QED BY <1>2, <2>2, <4>2, <4>3
    <3> QED BY <1>4, <2>2, <3>1
  <2> QED BY <2>1, <2>2
<1> QED BY <1>0, <1>1, <1>3, <1>5 DEF NobodyIn

\* The number of buckets of a subtable changes when nobody else is there and
\* its buckets are empty, and not while somebody else walks.
LEMMA ActiveKept ==
  ASSUME SubInv, NEW t \in Thread, SubStep(t)
  PROVE  /\ \A s \in SubTabs!SubTable :
              subActive'[s] = subActive[s]
              \/ (NobodyIn(t, s) /\ \A b \in SubTabs!Bucket : bucket'[s][b] = {})
         /\ \A w \in Thread \ {t} : subPc[w] = "walk" => UNCHANGED subActive
<1>1. CASE SubTabs!ResizeTable(t)
  <2> DEFINE s == SubTabs!Home(t)
  <2>1. /\ subPc[t] = "resizeLocked" /\ s \in SubTabs!SubTable
        /\ \A b \in SubTabs!Bucket : SubTabs!BucketFree(s, b, FALSE)
        /\ bucket' = [bucket EXCEPT ![s] = [b \in SubTabs!Bucket |-> {}]]
    BY <1>1, SubPlaces DEF SubTabs!ResizeTable, SubTabs!Goto, SubInv, OnOne
  <2>2. \A q \in SubTabs!SubTable : q # s => subActive'[q] = subActive[q]
    BY <1>1 DEF SubTabs!ResizeTable, SubInv, SubTabs!TypeOK
  <2>3. NobodyIn(t, s)
    BY <2>1, FreeMeans DEF NobodyIn, SubInv
  <2>4. \A b \in SubTabs!Bucket : bucket'[s][b] = {}
    BY <2>1 DEF SubInv, SubTabs!TypeOK
  <2>5. \A w \in Thread \ {t} : subPc[w] # "walk"
    BY <2>1, BesideWalk
  <2> QED BY <2>2, <2>3, <2>4, <2>5
<1>2. CASE SubTabs!VisitBucket(t) /\ subOp[t] = "Clear" /\ sub'[t] # sub[t]
  <2>1. subPc[t] = "walk" /\ ~SubTabs!Reads(t)
    BY <1>2 DEF SubTabs!VisitBucket, SubTabs!Reads
  <2>2. \A w \in Thread \ {t} : subPc[w] # "walk"
    BY <2>1, BesideWalk
  <2>3. \A q \in SubTabs!SubTable : q # sub[t] => subActive'[q] = subActive[q]
    BY <1>2, ClearLeaves DEF SubInv, SubTabs!TypeOK
  <2> QED BY <1>2, <2>2, <2>3, ClearLeaves
<1>3. CASE ~SubTabs!ResizeTable(t) /\ ~(SubTabs!VisitBucket(t) /\ subOp[t] = "Clear" /\ sub'[t] # sub[t])
  <2>1. UNCHANGED subActive
    BY <1>3, Zenon DEF SubStep, SubTabs!Step, SubTabs!Invoke, SubTabs!LockSubTable, SubTabs!LockBucket,
       SubTabs!Insert, SubTabs!DeleteKey, SubTabs!FindKey, SubTabs!NoResize, SubTabs!LockToResize,
       SubTabs!MoveRecords, SubTabs!LockAll, SubTabs!VisitBucket, SubTabs!VisitAll,
       SubTabs!LeaveBucket, SubTabs!EndWalk, SubTabs!UnlockAll, SubTabs!records
  <2> QED BY <2>1
<1> QED BY <1>1, <1>2, <1>3

\* A step of a thread leaves the others in their buckets, and where they hold
\* the locks of tables.
LEMMA OthersStay ==
  ASSUME SubInv, NEW t \in Thread, SubStep(t), NEW u \in Thread \ {t}
  PROVE  /\ \A s \in SubTabs!SubTable, b \in SubTabs!Bucket : IsIn(u, s, b)' <=> IsIn(u, s, b)
         /\ ReadsInside(u)' <=> ReadsInside(u)
         /\ \A s \in SubTabs!SubTable : HoldsTable(u, s)' <=> HoldsTable(u, s)
         /\ SubTabs!Reads(u)' <=> SubTabs!Reads(u)
         /\ \A s \in SubTabs!SubTable, b \in SubTabs!Bucket : AheadOf(u, s, b)' <=> AheadOf(u, s, b)
<1>1. /\ subPc'[u] = subPc[u] /\ subOp'[u] = subOp[u] /\ subRec'[u] = subRec[u]
      /\ sub'[u] = sub[u] /\ bkt'[u] = bkt[u]
  BY SubFrame DEF SubInv
<1>2. ASSUME NEW s \in SubTabs!SubTable, NEW b \in SubTabs!Bucket PROVE IsIn(u, s, b)' <=> IsIn(u, s, b)
  <2>1. CASE subActive'[s] = subActive[s]
    BY <1>1, <2>1 DEF IsIn, BucketAt, SubTabs!BucketOf
  <2>2. CASE NobodyIn(t, s)
    <3>1. ~IsIn(u, s, b) /\ (subPc[u] = "work" => SubTableOf[subRec[u]] # s)
      <4>1. subPc[u] = "work" => BucketAt(subRec[u]) \in SubTabs!Bucket
        BY SubPlaces DEF SubInv, OnOne
      <4> QED BY <2>2, <4>1 DEF NobodyIn, IsIn
    <3> QED BY <1>1, <3>1 DEF IsIn
  <2> QED BY <2>1, <2>2, ActiveKept
<1> QED BY <1>1, <1>2 DEF ReadsInside, HoldsTable, SubTabs!Reads, SubTabs!Home, AheadOf

\* What a walk does to a bucket, and where it goes from there.
LEMMA VisitEffect ==
  ASSUME SubTabs!TypeOK, SubCallInv, WhereInv, NEW t \in Thread, SubTabs!VisitBucket(t)
  PROVE  /\ subPc[t] = "walk" /\ subPc'[t] = "walk" /\ UNCHANGED <<moving, tableReaders, tableWriters>>
         /\ UNCHANGED <<subOp, subRec, subResult>> /\ lkp'[t] = lkp[t]
         /\ sub[t] \in SubTabs!SubTable /\ bkt[t] \in SubTabs!Bucket /\ SubTabs!Here(t) \subseteq Record
         /\ \A u \in Thread : IsIn(u, sub[t], bkt[t]) => SubTabs!Reads(t) /\ ReadsInside(u)
         /\ \E gone \in SUBSET SubTabs!Here(t) :
              /\ gone # {} => subOp[t] # "Apply"
              /\ subOp[t] = "Clear" => gone = SubTabs!Here(t)
              /\ met'[t] = met[t] \cup SubTabs!Here(t) /\ removed'[t] = removed[t] \cup gone
              /\ ChainBecomes(sub[t], bkt[t], SubTabs!Here(t) \ gone)
         /\ \/ sub'[t] = sub[t] /\ bkt'[t] = bkt[t] + 1 /\ bkt[t] + 1 < subActive[sub[t]]
               /\ UNCHANGED subActive
            \/ sub'[t] = sub[t] + 1 /\ bkt'[t] = 0 /\ ~(bkt[t] + 1 < subActive[sub[t]])
               /\ (subOp[t] # "Clear" => UNCHANGED subActive)
<1> USE DEF SubTabs!VisitBucket, SubTabs!VisitAll
<1>1. /\ subPc[t] = "walk" /\ sub[t] \in SubTabs!SubTable /\ bkt[t] \in SubTabs!Bucket
      /\ SubTabs!Here(t) \subseteq Record
  BY SubPlaces
<1>2. SubTabs!Reads(t) \in BOOLEAN /\ SubTabs!BucketFree(sub[t], bkt[t], SubTabs!Reads(t))
  BY DEF SubTabs!Reads
<1>3. \A u \in Thread : IsIn(u, sub[t], bkt[t]) => SubTabs!Reads(t) /\ ReadsInside(u)
  BY <1>1, <1>2, FreeMeans
<1>4. \E gone \in SUBSET SubTabs!Here(t) :
        /\ gone # {} => subOp[t] # "Apply"
        /\ subOp[t] = "Clear" => gone = SubTabs!Here(t)
        /\ met'[t] = met[t] \cup SubTabs!Here(t) /\ removed'[t] = removed[t] \cup gone
        /\ ChainBecomes(sub[t], bkt[t], SubTabs!Here(t) \ gone)
  <2>1. PICK gone \in SUBSET SubTabs!Here(t) :
          /\ gone # {} => SubTabs!MayRemove(t)
          /\ subOp[t] = "Clear" => gone = SubTabs!Here(t)
          /\ SubTabs!Visit(t, SubTabs!Here(t), gone)
    OBVIOUS
  <2>2. met'[t] = met[t] \cup SubTabs!Here(t) /\ removed'[t] = removed[t] \cup gone
    BY <2>1 DEF SubTabs!Visit, SubTabs!TypeOK
  <2>3. ChainBecomes(sub[t], bkt[t], SubTabs!Here(t) \ gone)
    BY <1>1, <2>1 DEF SubTabs!Visit, SubTabs!Here, ChainBecomes, SubTabs!TypeOK
  <2>4. gone # {} => subOp[t] # "Apply"
    BY <2>1 DEF SubTabs!MayRemove
  <2> QED BY <2>1, <2>2, <2>3, <2>4
<1>5. \/ sub'[t] = sub[t] /\ bkt'[t] = bkt[t] + 1 /\ bkt[t] + 1 < subActive[sub[t]] /\ UNCHANGED subActive
      \/ sub'[t] = sub[t] + 1 /\ bkt'[t] = 0 /\ ~(bkt[t] + 1 < subActive[sub[t]])
         /\ (subOp[t] # "Clear" => UNCHANGED subActive)
  <2>1. CASE bkt[t] + 1 < subActive[sub[t]]
    BY <2>1 DEF SubTabs!Advance, SubTabs!TypeOK
  <2>2. CASE ~(bkt[t] + 1 < subActive[sub[t]])
    BY <2>2 DEF SubTabs!Advance, SubTabs!TypeOK
  <2> QED BY <2>1, <2>2
<1>6. /\ UNCHANGED <<subPc, lkp, moving, tableReaders, tableWriters>>
      /\ UNCHANGED <<subOp, subRec, subResult>>
  BY DEF SubTabs!call, SubTabs!tableLocks
<1> QED BY <1>1, <1>3, <1>4, <1>5, <1>6, Zenon

LEMMA LeaveEffect ==
  ASSUME SubTabs!TypeOK, SubCallInv, WhereInv, NEW t \in Thread, SubTabs!LeaveBucket(t)
  PROVE  /\ subPc[t] = "walk" /\ subPc'[t] = "walk" /\ subOp[t] # "Clear"
         /\ UNCHANGED <<subActive, moving, tableReaders, tableWriters, subOp, subRec, subResult>>
         /\ sub[t] \in SubTabs!SubTable /\ bkt[t] \in SubTabs!Bucket /\ SubTabs!Here(t) \subseteq Record
         /\ \A u \in Thread : IsIn(u, sub[t], bkt[t]) => SubTabs!Reads(t) /\ ReadsInside(u)
         /\ \E asked0 \in SUBSET SubTabs!Here(t) : \E gone \in SUBSET asked0 :
              /\ gone # {} => subOp[t] # "Apply"
              /\ met'[t] = met[t] \cup asked0 /\ removed'[t] = removed[t] \cup gone
              /\ ChainBecomes(sub[t], bkt[t], SubTabs!Here(t) \ gone)
         /\ lkp'[t] \in {"STOP", "LEFT"} /\ bkt'[t] = 0 /\ sub'[t] > sub[t]
         /\ sub'[t] \in 1 .. m_cSubTables
<1> USE DEF SubTabs!LeaveBucket
<1>1. /\ subPc[t] = "walk" /\ sub[t] \in SubTabs!SubTable /\ bkt[t] \in SubTabs!Bucket
      /\ SubTabs!Here(t) \subseteq Record /\ sub[t] + 1 \in 1 .. m_cSubTables
  BY SubPlaces
<1>2. SubTabs!Reads(t) \in BOOLEAN /\ SubTabs!BucketFree(sub[t], bkt[t], SubTabs!Reads(t))
  BY DEF SubTabs!Reads
<1>3. \A u \in Thread : IsIn(u, sub[t], bkt[t]) => SubTabs!Reads(t) /\ ReadsInside(u)
  BY <1>1, <1>2, FreeMeans
<1>4. \E asked0 \in SUBSET SubTabs!Here(t) : \E gone \in SUBSET asked0 :
        /\ gone # {} => subOp[t] # "Apply"
        /\ met'[t] = met[t] \cup asked0 /\ removed'[t] = removed[t] \cup gone
        /\ ChainBecomes(sub[t], bkt[t], SubTabs!Here(t) \ gone)
  <2>1. PICK asked0 \in SUBSET SubTabs!Here(t) : \E gone \in SUBSET asked0 :
          (gone # {} => SubTabs!MayRemove(t)) /\ SubTabs!Visit(t, asked0, gone)
    OBVIOUS
  <2>2. PICK gone \in SUBSET asked0 : (gone # {} => SubTabs!MayRemove(t)) /\ SubTabs!Visit(t, asked0, gone)
    BY <2>1
  <2>3. met'[t] = met[t] \cup asked0 /\ removed'[t] = removed[t] \cup gone
    BY <2>2 DEF SubTabs!Visit, SubTabs!TypeOK
  <2>4. ChainBecomes(sub[t], bkt[t], SubTabs!Here(t) \ gone)
    BY <1>1, <2>2 DEF SubTabs!Visit, SubTabs!Here, ChainBecomes, SubTabs!TypeOK
  <2>5. gone # {} => subOp[t] # "Apply"
    BY <2>2 DEF SubTabs!MayRemove
  <2> QED BY <2>3, <2>4, <2>5
<1>5. lkp'[t] \in {"STOP", "LEFT"} /\ bkt'[t] = 0 /\ sub'[t] \in {m_cSubTables, sub[t] + 1}
  BY DEF SubCallInv, SubTabs!TypeOK
<1>6. sub'[t] > sub[t] /\ sub'[t] \in 1 .. m_cSubTables
  BY <1>1, <1>5, SubConstants DEF SubTabs!SubTable
<1>7. UNCHANGED <<subActive, subPc, moving, tableReaders, tableWriters, subOp, subRec, subResult>>
      /\ subOp[t] # "Clear"
  BY DEF SubTabs!call, SubTabs!tableLocks
<1> QED BY <1>1, <1>3, <1>4, <1>5, <1>6, <1>7, Zenon

\* The locks that ApplyIf, DeleteIf and Clear take and give back one by one.
LEMMA AllEffect ==
  ASSUME SubTabs!TypeOK, SubCallInv, WhereInv, NEW t \in Thread
  PROVE  /\ SubTabs!LockAll(t) =>
              /\ subPc[t] = "lockAll" /\ sub[t] \in SubTabs!SubTable
              /\ \/ sub'[t] = sub[t] + 1 /\ sub'[t] < m_cSubTables /\ subPc'[t] = "lockAll"
                 \/ sub'[t] = 0 /\ sub[t] + 1 = m_cSubTables /\ subPc'[t] = "walk"
         /\ SubTabs!UnlockAll(t) =>
              /\ subPc[t] = "unlockAll" /\ sub[t] - 1 \in SubTabs!SubTable /\ sub'[t] = sub[t] - 1
              /\ subPc'[t] = IF sub[t] = 1 THEN "idle" ELSE "unlockAll"
<1>1. ASSUME SubTabs!LockAll(t)
      PROVE  /\ subPc[t] = "lockAll" /\ sub[t] \in SubTabs!SubTable
             /\ \/ sub'[t] = sub[t] + 1 /\ sub'[t] < m_cSubTables /\ subPc'[t] = "lockAll"
                \/ sub'[t] = 0 /\ sub[t] + 1 = m_cSubTables /\ subPc'[t] = "walk"
  <2>1. subPc[t] = "lockAll" /\ sub[t] \in SubTabs!SubTable
    BY <1>1, SubPlaces DEF SubTabs!LockAll
  <2>2. CASE sub[t] + 1 \in SubTabs!SubTable
    <3>1. sub' = [sub EXCEPT ![t] = @ + 1] /\ UNCHANGED subPc
      BY <1>1, <2>2 DEF SubTabs!LockAll
    <3> QED BY <2>1, <2>2, <3>1, SubConstants DEF SubTabs!SubTable, SubTabs!TypeOK
  <2>3. CASE sub[t] + 1 \notin SubTabs!SubTable
    <3>1. sub' = [sub EXCEPT ![t] = 0] /\ subPc' = [subPc EXCEPT ![t] = "walk"]
      BY <1>1, <2>3 DEF SubTabs!LockAll, SubTabs!Goto
    <3> QED BY <2>1, <2>3, <3>1, SubConstants DEF SubTabs!SubTable, SubTabs!TypeOK, SubCallInv
  <2> QED BY <2>1, <2>2, <2>3
<1>2. ASSUME SubTabs!UnlockAll(t)
      PROVE  /\ subPc[t] = "unlockAll" /\ sub[t] - 1 \in SubTabs!SubTable /\ sub'[t] = sub[t] - 1
             /\ subPc'[t] = IF sub[t] = 1 THEN "idle" ELSE "unlockAll"
  BY <1>2, SubPlaces DEF SubTabs!UnlockAll, SubTabs!Goto, SubTabs!TypeOK, SubCallInv
<1> QED BY <1>1, <1>2

\* Where a thread's own step takes it.
LEMMA WhereKept ==
  ASSUME SubInv, NEW t \in Thread, SubStep(t)
  PROVE  WhereInv'
<1> DEFINE At(u) ==
      /\ subPc[u] \notin OnAll => sub[u] = 0
      /\ subPc[u] = "lockAll" => sub[u] < m_cSubTables
      /\ subPc[u] = "unlockAll" => sub[u] > 0
      /\ subPc[u] # "walk" => bkt[u] = 0 /\ lkp[u] = "LKP_PERFORM" /\ met[u] = {} /\ removed[u] = {}
      /\ sub[u] < m_cSubTables => bkt[u] < subActive[sub[u]]
      /\ sub[u] = m_cSubTables => bkt[u] = 0
      /\ subOp[u] = "Apply" => removed[u] = {}
      /\ subOp[u] = "Clear" => met[u] = removed[u] /\ lkp[u] = "LKP_PERFORM"
<1>a. SubTabs!TypeOK /\ SubCallInv /\ WhereInv
  BY DEF SubInv
<1>b. SubTabs!TypeOK' /\ SubCallInv'
  BY <1>a, SubTypesKept, SubCallsKept
<1>c. \A u \in Thread : At(u)
  BY <1>a DEF WhereInv
<1>d. m_cSubTables \in Nat \ {0} /\ \A i : i \in 0 .. m_cSubTables /\ i < m_cSubTables => i \in SubTabs!SubTable
  BY SubConstants DEF SubTabs!SubTable
<1>1. ASSUME NEW u \in Thread \ {t} PROVE At(u)'
  <2>1. At(u)
    BY <1>c
  <2>2. /\ subPc'[u] = subPc[u] /\ subOp'[u] = subOp[u]
        /\ sub'[u] = sub[u] /\ bkt'[u] = bkt[u] /\ lkp'[u] = lkp[u] /\ met'[u] = met[u]
        /\ removed'[u] = removed[u]
    BY SubFrame DEF SubInv
  <2>3. sub[u] < m_cSubTables => bkt[u] < subActive'[sub[u]]
    <3>1. CASE subPc[u] = "walk"
      BY <2>1, <3>1, ActiveKept
    <3>2. CASE subPc[u] # "walk" /\ sub[u] < m_cSubTables
      <4>1. subActive'[sub[u]] \in {1, 2}
        BY <1>a, <1>b, <1>d, <3>2 DEF SubTabs!TypeOK
      <4> QED BY <2>1, <3>2, <4>1
    <3> QED BY <3>1, <3>2
  <2> QED BY <2>1, <2>2, <2>3
<1>2. At(t)'
  <2> USE <1>d DEF SubTabs!Goto, SubTabs!Return, SubTabs!records, SubTabs!tableLocks, SubTabs!call, SubTabs!walk,
          SubTabs!TypeOK, SubCallInv, OnOne, OnAll
  <2>0. At(t)
    BY <1>c
  <2>1. CASE \E o \in SubTableOpNames, r \in Record : SubTabs!Invoke(t, o, r)
    <3>1. PICK o \in SubTableOpNames, r \in Record : SubTabs!Invoke(t, o, r)
      BY <2>1
    <3>2. /\ subPc[t] = "idle" /\ subPc'[t] \in {"table", "lockAll"}
          /\ UNCHANGED <<sub, bkt, lkp, met, removed, subActive>>
      BY <1>a, <3>1 DEF SubTabs!Invoke
    <3>3. sub[t] = 0 /\ bkt[t] = 0 /\ lkp[t] = "LKP_PERFORM" /\ met[t] = {} /\ removed[t] = {}
      BY <2>0, <3>2
    <3>4. sub[t] < m_cSubTables => bkt[t] < subActive[sub[t]]
      BY <2>0
    <3> QED BY <3>2, <3>3, <3>4, SubConstants
  <2>2. CASE SubTabs!LockSubTable(t) \/ SubTabs!LockBucket(t) \/ SubTabs!NoResize(t)
             \/ SubTabs!LockToResize(t)
    BY <1>a, <2>0, <2>2 DEF SubTabs!LockSubTable, SubTabs!LockBucket, SubTabs!NoResize, SubTabs!LockToResize
  <2>3. CASE SubTabs!Insert(t) \/ SubTabs!DeleteKey(t) \/ SubTabs!FindKey(t)
    BY <1>a, <2>0, <2>3 DEF SubTabs!Insert, SubTabs!DeleteKey, SubTabs!FindKey
  <2>4. CASE SubTabs!ResizeTable(t)
    <3>1. subActive'[0] \in {1, 2}
      BY <1>b, SubConstants DEF SubTabs!SubTable
    <3> QED BY <1>a, <2>0, <2>4, <3>1 DEF SubTabs!ResizeTable
  <2>5. CASE SubTabs!MoveRecords(t)
    BY <1>a, <2>0, <2>5 DEF SubTabs!MoveRecords
  <2>6. CASE SubTabs!LockAll(t)
    <3>1. UNCHANGED <<bkt, lkp, met, removed, subActive, subOp>>
      BY <2>6 DEF SubTabs!LockAll
    <3>2. subActive[sub'[t]] \in {1, 2}
      BY <1>a, <1>b, <2>6, AllEffect
    <3> QED BY <1>a, <1>b, <2>0, <2>6, <3>1, <3>2, AllEffect
  <2>7. CASE SubTabs!VisitBucket(t)
    <3>1. /\ sub'[t] < m_cSubTables => bkt'[t] < subActive'[sub'[t]]
          /\ sub'[t] = m_cSubTables => bkt'[t] = 0
      <4>1. sub'[t] < m_cSubTables => subActive'[sub'[t]] \in {1, 2}
        BY <1>b
      <4>2. sub[t] \in SubTabs!SubTable
            /\ \/ sub'[t] = sub[t] /\ bkt'[t] = bkt[t] + 1 /\ bkt[t] + 1 < subActive[sub[t]]
                  /\ UNCHANGED subActive
               \/ sub'[t] = sub[t] + 1 /\ bkt'[t] = 0
        BY <1>a, <2>7, VisitEffect
      <4> QED BY <4>1, <4>2 DEF SubTabs!SubTable
    <3>2. PICK gone \in SUBSET SubTabs!Here(t) :
            /\ gone # {} => subOp[t] # "Apply"
            /\ subOp[t] = "Clear" => gone = SubTabs!Here(t)
            /\ met'[t] = met[t] \cup SubTabs!Here(t) /\ removed'[t] = removed[t] \cup gone
      BY <1>a, <2>7, VisitEffect
    <3>3. subPc'[t] = "walk" /\ UNCHANGED subOp /\ lkp'[t] = lkp[t]
      BY <1>a, <2>7, VisitEffect
    <3> QED BY <2>0, <3>1, <3>2, <3>3
  <2>8. CASE SubTabs!LeaveBucket(t)
    <3>1. /\ sub'[t] < m_cSubTables => bkt'[t] < subActive'[sub'[t]]
          /\ sub'[t] = m_cSubTables => bkt'[t] = 0
      <4>1. sub'[t] < m_cSubTables => subActive'[sub'[t]] \in {1, 2}
        BY <1>b
      <4> QED BY <1>a, <2>8, <4>1, LeaveEffect
    <3>2. subOp[t] = "Apply" => removed'[t] = {}
      BY <1>a, <2>0, <2>8, LeaveEffect
    <3>3. subPc'[t] = "walk" /\ UNCHANGED subOp /\ subOp[t] # "Clear"
      BY <1>a, <2>8, LeaveEffect
    <3> QED BY <3>1, <3>2, <3>3
  <2>9. CASE SubTabs!EndWalk(t)
    BY <1>a, <2>0, <2>9 DEF SubTabs!EndWalk, SubTabs!WalkedAll
  <2>10. CASE SubTabs!UnlockAll(t)
    <3>1. UNCHANGED <<bkt, lkp, met, removed, subActive, subOp>>
      BY <2>10 DEF SubTabs!UnlockAll
    <3>2. subActive[sub'[t]] \in {1, 2}
      BY <1>a, <2>10, AllEffect
    <3>3. sub'[t] \in 0 .. m_cSubTables /\ sub[t] \in 0 .. m_cSubTables
      BY <1>a, <1>b
    <3> QED BY <1>a, <2>0, <2>10, <3>1, <3>2, <3>3, AllEffect
  <2> QED BY <2>1, <2>2, <2>3, <2>4, <2>5, <2>6, <2>7, <2>8, <2>9, <2>10, Zenon DEF SubStep, SubTabs!Step
<1> QED BY <1>1, <1>2 DEF WhereInv

\* A thread takes a table's lock, gives one back, or does neither.
LEMMA LockTaken ==
  ASSUME SubInv, NEW t \in Thread, SubStep(t), NEW q \in SubTabs!SubTable,
         SubTabs!LockTable(t, q, SubTabs!Reads(t)), SubTabs!Reads(t)' <=> SubTabs!Reads(t),
         \A s \in SubTabs!SubTable : HoldsTable(t, s)' <=> HoldsTable(t, s) \/ s = q
  PROVE  TableLocksInv'
<1> SUFFICES ASSUME NEW s \in SubTabs!SubTable
             PROVE  /\ tableReaders'[s] = {u \in Thread : HoldsTable(u, s)' /\ SubTabs!Reads(u)'}
                    /\ tableWriters'[s] = {u \in Thread : HoldsTable(u, s)' /\ ~SubTabs!Reads(u)'}
                    /\ \A u \in tableWriters'[s], v \in Thread : HoldsTable(v, s)' => v = u
  BY DEF TableLocksInv
<1>1. /\ tableReaders[s] = {u \in Thread : HoldsTable(u, s) /\ SubTabs!Reads(u)}
      /\ tableWriters[s] = {u \in Thread : HoldsTable(u, s) /\ ~SubTabs!Reads(u)}
      /\ \A u \in tableWriters[s], v \in Thread : HoldsTable(v, s) => v = u
  BY DEF SubInv, TableLocksInv
<1>2. \A u \in Thread \ {t} : (HoldsTable(u, s)' <=> HoldsTable(u, s)) /\ (SubTabs!Reads(u)' <=> SubTabs!Reads(u))
  BY OthersStay
<1>3. HoldsTable(t, s)' <=> HoldsTable(t, s) \/ s = q
  OBVIOUS
<1>4. CASE s # q
  <2>1. tableReaders'[s] = tableReaders[s] /\ tableWriters'[s] = tableWriters[s]
    BY <1>4 DEF SubTabs!LockTable, SubInv, SubTabs!TypeOK
  <2> QED BY <1>1, <1>2, <1>3, <1>4, <2>1
<1>5. CASE s = q /\ SubTabs!Reads(t)
  <2>1. tableReaders'[s] = tableReaders[s] \cup {t} /\ tableWriters'[s] = tableWriters[s] /\ tableWriters[s] = {}
    BY <1>5 DEF SubTabs!LockTable, SubInv, SubTabs!TypeOK
  <2> QED BY <1>1, <1>2, <1>3, <1>5, <2>1
<1>6. CASE s = q /\ ~SubTabs!Reads(t)
  <2>1. /\ tableReaders'[s] = tableReaders[s] /\ tableWriters'[s] = {t}
        /\ tableWriters[s] = {} /\ tableReaders[s] = {}
    BY <1>6 DEF SubTabs!LockTable, SubInv, SubTabs!TypeOK
  <2>2. \A u \in Thread : ~HoldsTable(u, s)
    BY <1>1, <2>1
  <2> QED BY <1>1, <1>2, <1>3, <1>6, <2>1, <2>2
<1> QED BY <1>4, <1>5, <1>6

LEMMA LockGivenBack ==
  ASSUME SubInv, NEW t \in Thread, SubStep(t), NEW q \in SubTabs!SubTable,
         SubTabs!UnlockTable(t, q), SubTabs!Reads(t)' <=> SubTabs!Reads(t),
         \A s \in SubTabs!SubTable : HoldsTable(t, s)' <=> HoldsTable(t, s) /\ s # q
  PROVE  TableLocksInv'
<1> SUFFICES ASSUME NEW s \in SubTabs!SubTable
             PROVE  /\ tableReaders'[s] = {u \in Thread : HoldsTable(u, s)' /\ SubTabs!Reads(u)'}
                    /\ tableWriters'[s] = {u \in Thread : HoldsTable(u, s)' /\ ~SubTabs!Reads(u)'}
                    /\ \A u \in tableWriters'[s], v \in Thread : HoldsTable(v, s)' => v = u
  BY DEF TableLocksInv
<1>1. /\ tableReaders[s] = {u \in Thread : HoldsTable(u, s) /\ SubTabs!Reads(u)}
      /\ tableWriters[s] = {u \in Thread : HoldsTable(u, s) /\ ~SubTabs!Reads(u)}
      /\ \A u \in tableWriters[s], v \in Thread : HoldsTable(v, s) => v = u
  BY DEF SubInv, TableLocksInv
<1>2. \A u \in Thread \ {t} : (HoldsTable(u, s)' <=> HoldsTable(u, s)) /\ (SubTabs!Reads(u)' <=> SubTabs!Reads(u))
  BY OthersStay
<1>3. HoldsTable(t, s)' <=> HoldsTable(t, s) /\ s # q
  OBVIOUS
<1>4. CASE s # q
  <2>1. tableReaders'[s] = tableReaders[s] /\ tableWriters'[s] = tableWriters[s]
    BY <1>4 DEF SubTabs!UnlockTable, SubInv, SubTabs!TypeOK
  <2> QED BY <1>1, <1>2, <1>3, <1>4, <2>1
<1>5. CASE s = q
  <2>1. tableReaders'[s] = tableReaders[s] \ {t} /\ tableWriters'[s] = tableWriters[s] \ {t}
    BY <1>5 DEF SubTabs!UnlockTable, SubInv, SubTabs!TypeOK
  <2> QED BY <1>1, <1>2, <1>3, <1>5, <2>1
<1> QED BY <1>4, <1>5

LEMMA LocksSame ==
  ASSUME SubInv, NEW t \in Thread, SubStep(t), UNCHANGED <<tableReaders, tableWriters>>,
         \A s \in SubTabs!SubTable : HoldsTable(t, s)' <=> HoldsTable(t, s),
         \A s \in SubTabs!SubTable : HoldsTable(t, s) => (SubTabs!Reads(t)' <=> SubTabs!Reads(t))
  PROVE  TableLocksInv'
<1> SUFFICES ASSUME NEW s \in SubTabs!SubTable
             PROVE  /\ tableReaders'[s] = {u \in Thread : HoldsTable(u, s)' /\ SubTabs!Reads(u)'}
                    /\ tableWriters'[s] = {u \in Thread : HoldsTable(u, s)' /\ ~SubTabs!Reads(u)'}
                    /\ \A u \in tableWriters'[s], v \in Thread : HoldsTable(v, s)' => v = u
  BY DEF TableLocksInv
<1>1. /\ tableReaders[s] = {u \in Thread : HoldsTable(u, s) /\ SubTabs!Reads(u)}
      /\ tableWriters[s] = {u \in Thread : HoldsTable(u, s) /\ ~SubTabs!Reads(u)}
      /\ \A u \in tableWriters[s], v \in Thread : HoldsTable(v, s) => v = u
  BY DEF SubInv, TableLocksInv
<1>2. \A u \in Thread \ {t} : (HoldsTable(u, s)' <=> HoldsTable(u, s)) /\ (SubTabs!Reads(u)' <=> SubTabs!Reads(u))
  BY OthersStay
<1> QED BY <1>1, <1>2

LEMMA TableLocksKept ==
  ASSUME SubInv, NEW t \in Thread, SubStep(t)
  PROVE  TableLocksInv'
<1> USE DEF SubTabs!Goto, SubTabs!Return, SubTabs!records, SubTabs!tableLocks, SubTabs!call, SubTabs!walk
<1>a. SubTabs!TypeOK /\ SubCallInv /\ WhereInv
  BY DEF SubInv
<1>b. subPc[t] \notin OnAll => sub[t] = 0
  BY <1>a DEF WhereInv
<1>1. CASE \E o \in SubTableOpNames, r \in Record : SubTabs!Invoke(t, o, r)
  <2>1. /\ UNCHANGED <<tableReaders, tableWriters, sub>> /\ subPc[t] = "idle"
        /\ subPc'[t] \in {"table", "lockAll"}
    BY <1>1, <1>a DEF SubTabs!Invoke, SubCallInv
  <2> QED BY <1>b, <2>1, LocksSame DEF HoldsTable, SubTabs!SubTable, OnAll
<1>2. CASE SubTabs!LockSubTable(t) \/ SubTabs!LockToResize(t)
  <2>1. /\ UNCHANGED <<subOp, subRec>> /\ subPc[t] \in {"table", "resize"} /\ subPc[t] \in OnOne
        /\ subPc'[t] \in {"bucket", "resizeLocked"}
    BY <1>2, <1>a DEF SubTabs!LockSubTable, SubTabs!LockToResize, SubCallInv, OnOne
  <2>2. SubTabs!LockToResize(t) => SubTabs!Reads(t) = FALSE
    <3> SUFFICES ASSUME SubTabs!LockToResize(t) PROVE ~SubTabs!Reads(t)
      BY DEF SubTabs!Reads
    <3>1. subOp[t] \in {"Insert", "DeleteKey"}
      BY <1>a, <2>1 DEF SubCallInv, SubTabs!LockToResize, OnOne
    <3> QED BY <3>1 DEF SubTabs!Reads
  <2>3. SubTabs!LockTable(t, SubTabs!Home(t), SubTabs!Reads(t))
    BY <1>2, <2>2 DEF SubTabs!LockSubTable, SubTabs!LockToResize
  <2>4. /\ SubTabs!Home(t) \in SubTabs!SubTable /\ (SubTabs!Reads(t)' <=> SubTabs!Reads(t))
        /\ \A s \in SubTabs!SubTable : HoldsTable(t, s)' <=> HoldsTable(t, s) \/ s = SubTabs!Home(t)
    BY <1>a, <2>1, SubPlaces DEF HoldsTable, SubTabs!Reads, SubTabs!Home
  <2> QED BY <2>3, <2>4, LockTaken
<1>3. CASE SubTabs!LockBucket(t) \/ SubTabs!ResizeTable(t)
  <2>1. /\ UNCHANGED <<subOp, subRec>> /\ subPc[t] \in {"bucket", "resizeLocked"} /\ subPc[t] \in OnOne
        /\ subPc'[t] \in {"work", "move"}
    BY <1>3, <1>a DEF SubTabs!LockBucket, SubTabs!ResizeTable, SubCallInv, OnOne
  <2>2. SubTabs!UnlockTable(t, SubTabs!Home(t))
    BY <1>3 DEF SubTabs!LockBucket, SubTabs!ResizeTable
  <2>3. /\ SubTabs!Home(t) \in SubTabs!SubTable /\ (SubTabs!Reads(t)' <=> SubTabs!Reads(t))
        /\ \A s \in SubTabs!SubTable : HoldsTable(t, s)' <=> HoldsTable(t, s) /\ s # SubTabs!Home(t)
    BY <1>a, <2>1, SubPlaces DEF HoldsTable, SubTabs!Reads, SubTabs!Home
  <2> QED BY <2>2, <2>3, LockGivenBack
<1>4. CASE SubTabs!Insert(t) \/ SubTabs!DeleteKey(t) \/ SubTabs!FindKey(t) \/ SubTabs!NoResize(t)
           \/ SubTabs!MoveRecords(t)
  <2>1. /\ UNCHANGED <<tableReaders, tableWriters, sub, subOp>> /\ subPc[t] \in {"work", "resize", "move"}
        /\ subPc'[t] \in {"idle", "resize"}
    BY <1>4, <1>a DEF SubTabs!Insert, SubTabs!DeleteKey, SubTabs!FindKey, SubTabs!NoResize,
       SubTabs!MoveRecords, SubCallInv
  <2> QED BY <2>1, LocksSame DEF HoldsTable, SubTabs!Reads
<1>5. CASE SubTabs!LockAll(t)
  <2>1. /\ SubTabs!LockTable(t, sub[t], SubTabs!Reads(t)) /\ UNCHANGED subOp
    BY <1>5 DEF SubTabs!LockAll
  <2>2. /\ sub[t] \in SubTabs!SubTable
        /\ \A s \in SubTabs!SubTable : HoldsTable(t, s)' <=> HoldsTable(t, s) \/ s = sub[t]
    BY <1>a, <1>5, AllEffect, SubConstants DEF HoldsTable, SubTabs!SubTable
  <2> QED BY <2>1, <2>2, LockTaken DEF SubTabs!Reads
<1>6. CASE SubTabs!UnlockAll(t)
  <2>1. /\ SubTabs!UnlockTable(t, sub[t] - 1) /\ UNCHANGED subOp
    BY <1>6 DEF SubTabs!UnlockAll
  <2>2. sub[t] - 1 \in SubTabs!SubTable /\ sub[t] \in Nat
    BY <1>a, <1>6, AllEffect DEF SubTabs!TypeOK
  <2>3. \A s \in SubTabs!SubTable : HoldsTable(t, s)' <=> HoldsTable(t, s) /\ s # sub[t] - 1
    BY <1>a, <1>6, <2>2, AllEffect DEF HoldsTable, SubTabs!SubTable
  <2> QED BY <2>1, <2>2, <2>3, LockGivenBack DEF SubTabs!Reads
<1>7. CASE SubTabs!EndWalk(t)
  <2>1. /\ UNCHANGED <<tableReaders, tableWriters, sub, subOp>> /\ subPc[t] = "walk"
        /\ subPc'[t] = "unlockAll" /\ sub[t] = m_cSubTables
    BY <1>7, <1>a DEF SubTabs!EndWalk, SubTabs!WalkedAll, SubCallInv
  <2> QED BY <2>1, LocksSame, SubConstants DEF HoldsTable, SubTabs!Reads, SubTabs!SubTable
<1>8. CASE SubTabs!VisitBucket(t) \/ SubTabs!LeaveBucket(t)
  <2>1. /\ UNCHANGED <<tableReaders, tableWriters, subOp>> /\ subPc[t] = "walk" /\ subPc'[t] = "walk"
    BY <1>a, <1>8, VisitEffect, LeaveEffect
  <2> QED BY <2>1, LocksSame DEF HoldsTable, SubTabs!Reads
<1> QED BY <1>1, <1>2, <1>3, <1>4, <1>5, <1>6, <1>7, <1>8, Zenon DEF SubStep, SubTabs!Step

\* Who comes into a bucket finds nobody there, or readers if it reads.
LEMMA InsideKept ==
  ASSUME SubInv, NEW t \in Thread, SubStep(t)
  PROVE  /\ InsideInv'
         /\ \A s \in SubTabs!SubTable, b \in SubTabs!Bucket :
              IsIn(t, s, b)' => \/ subPc[t] = "resizeLocked"
                                \/ subPc[t] = "bucket" /\ (ReadsInside(t)' <=> SubTabs!Reads(t))
<1> USE DEF SubTabs!Goto, SubTabs!Return, SubTabs!records, SubTabs!tableLocks, SubTabs!call, SubTabs!walk
<1>a. SubTabs!TypeOK /\ SubCallInv /\ WhereInv /\ InsideInv
  BY DEF SubInv
<1>1. ASSUME ~SubTabs!LockBucket(t), ~SubTabs!ResizeTable(t) PROVE subPc'[t] \notin {"work", "move"}
  <2>1. CASE \E o \in SubTableOpNames, r \in Record : SubTabs!Invoke(t, o, r)
    BY <1>a, <2>1 DEF SubTabs!Invoke, SubCallInv
  <2>2. CASE SubTabs!LockSubTable(t) \/ SubTabs!NoResize(t) \/ SubTabs!LockToResize(t)
             \/ SubTabs!MoveRecords(t) \/ SubTabs!EndWalk(t)
    BY <1>a, <2>2 DEF SubTabs!LockSubTable, SubTabs!NoResize, SubTabs!LockToResize,
       SubTabs!MoveRecords, SubTabs!EndWalk, SubCallInv
  <2>3. CASE SubTabs!Insert(t) \/ SubTabs!DeleteKey(t) \/ SubTabs!FindKey(t)
    BY <1>a, <2>3 DEF SubTabs!Insert, SubTabs!DeleteKey, SubTabs!FindKey, SubCallInv
  <2>4. CASE SubTabs!LockAll(t) \/ SubTabs!UnlockAll(t)
    BY <1>a, <2>4, AllEffect
  <2>5. CASE SubTabs!VisitBucket(t) \/ SubTabs!LeaveBucket(t)
    BY <1>a, <2>5, VisitEffect, LeaveEffect
  <2> QED BY <1>1, <2>1, <2>2, <2>3, <2>4, <2>5, Zenon DEF SubStep, SubTabs!Step
<1>2. ASSUME NEW s \in SubTabs!SubTable, NEW b \in SubTabs!Bucket, IsIn(t, s, b)'
      PROVE  /\ \/ subPc[t] = "resizeLocked"
                \/ subPc[t] = "bucket" /\ (ReadsInside(t)' <=> SubTabs!Reads(t))
             /\ \A u \in Thread \ {t} : IsIn(u, s, b) => ReadsInside(t)' /\ ReadsInside(u)
  <2>1. CASE SubTabs!LockBucket(t)
    <3>1. /\ subPc[t] = "bucket" /\ subPc[t] \in OnOne /\ subPc'[t] = "work"
          /\ UNCHANGED <<subOp, subRec, subActive>>
          /\ SubTabs!BucketFree(SubTabs!Home(t), SubTabs!HomeBucket(t), SubTabs!Reads(t))
      BY <1>a, <2>1 DEF SubTabs!LockBucket, SubCallInv, OnOne
    <3>2. s = SubTabs!Home(t) /\ b = SubTabs!HomeBucket(t)
      BY <1>a, <1>2, <3>1, SubPlaces DEF IsIn, SubTabs!Home, BucketAt, SubTabs!BucketOf
    <3>3. SubTabs!Reads(t) \in BOOLEAN
      BY DEF SubTabs!Reads
    <3>4. \A u \in Thread : IsIn(u, s, b) => SubTabs!Reads(t) /\ ReadsInside(u)
      BY <1>a, <3>1, <3>2, <3>3, FreeMeans
    <3> QED BY <3>1, <3>4 DEF ReadsInside, SubTabs!Reads
  <2>2. CASE SubTabs!ResizeTable(t)
    <3>1. /\ subPc[t] = "resizeLocked" /\ UNCHANGED subRec
          /\ \A c \in SubTabs!Bucket : SubTabs!BucketFree(SubTabs!Home(t), c, FALSE)
      BY <2>2 DEF SubTabs!ResizeTable
    <3>2. s = SubTabs!Home(t)
      BY <1>2, <3>1 DEF IsIn, SubTabs!Home
    <3> QED BY <1>a, <3>1, <3>2, FreeMeans
  <2>3. CASE ~SubTabs!LockBucket(t) /\ ~SubTabs!ResizeTable(t)
    BY <1>1, <1>2, <2>3 DEF IsIn
  <2> QED BY <2>1, <2>2, <2>3
<1>3. ASSUME NEW u \in Thread, NEW v \in Thread, NEW s \in SubTabs!SubTable, NEW b \in SubTabs!Bucket,
             IsIn(u, s, b)', IsIn(v, s, b)', u # v
      PROVE  ReadsInside(u)' /\ ReadsInside(v)'
  <2>1. CASE u = t
    BY <1>2, <1>3, <2>1, OthersStay
  <2>2. CASE v = t
    BY <1>2, <1>3, <2>2, OthersStay
  <2>3. CASE u # t /\ v # t
    <3>1. IsIn(u, s, b) /\ IsIn(v, s, b)
      BY <1>3, <2>3, OthersStay
    <3>2. ReadsInside(u) /\ ReadsInside(v)
      BY <1>3, <1>a, <3>1 DEF InsideInv
    <3> QED BY <2>3, <3>2, OthersStay
  <2> QED BY <2>1, <2>2, <2>3
<1>4. InsideInv'
  BY <1>3 DEF InsideInv
<1> QED BY <1>2, <1>4

\* A thread at work in its bucket, alone if it is to change it.
LEMMA AtWork ==
  ASSUME SubInv, NEW t \in Thread, subPc[t] = "work"
  PROVE  /\ subRec[t] \in Record /\ SubTabs!Home(t) = SubTableOf[subRec[t]]
         /\ SubTabs!Home(t) \in SubTabs!SubTable /\ SubTabs!HomeBucket(t) \in SubTabs!Bucket
         /\ SubTabs!HomeBucket(t) = BucketAt(subRec[t])
         /\ IsIn(t, SubTabs!Home(t), SubTabs!HomeBucket(t))
         /\ subOp[t] # "FindKey" => ~ReadsInside(t)
         /\ SubTabs!Chain(t) \subseteq Record /\ SubTabs!SameKey(t) \subseteq SubTabs!Chain(t)
<1>1. /\ subRec[t] \in Record /\ SubTabs!Home(t) \in SubTabs!SubTable
      /\ SubTabs!HomeBucket(t) \in SubTabs!Bucket /\ SubTabs!HomeBucket(t) = BucketAt(subRec[t])
      /\ SubTabs!Chain(t) \subseteq Record /\ SubTabs!SameKey(t) \subseteq SubTabs!Chain(t)
      /\ SubTabs!Home(t) = SubTableOf[subRec[t]]
  BY SubPlaces DEF SubInv, OnOne, SubTabs!Home
<1>2. subOp[t] # "FindKey" => ~ReadsInside(t)
  BY DEF SubInv, SubCallInv, OnOne, ReadsInside, SubTabs!Reads
<1> QED BY <1>1, <1>2 DEF IsIn

\* Insert and DeleteKey change the chain where the record's key belongs.
LEMMA ChangeEffect ==
  ASSUME SubInv, NEW t \in Thread, SubTabs!Insert(t) \/ SubTabs!DeleteKey(t), bucket' # bucket
  PROVE  /\ subPc[t] = "work" /\ UNCHANGED <<subActive, moving, removed, subRec>>
         /\ \E rs \in SUBSET Record :
              /\ ChainBecomes(SubTabs!Home(t), SubTabs!HomeBucket(t), rs)
              /\ \/ SubTabs!Insert(t) /\ rs = SubTabs!Chain(t) \cup {subRec[t]}
                 \/ SubTabs!DeleteKey(t) /\ rs = SubTabs!Chain(t) \ SubTabs!SameKey(t)
<1>1. subPc[t] = "work" /\ UNCHANGED <<subActive, moving, removed, subRec>>
  BY DEF SubTabs!Insert, SubTabs!DeleteKey, SubTabs!Goto, SubTabs!walk
<1>2. SubTabs!Insert(t) => ChainBecomes(SubTabs!Home(t), SubTabs!HomeBucket(t), SubTabs!Chain(t) \cup {subRec[t]})
  BY DEF SubTabs!Insert, SubTabs!SetChain, ChainBecomes
<1>3. SubTabs!DeleteKey(t) =>
        ChainBecomes(SubTabs!Home(t), SubTabs!HomeBucket(t), SubTabs!Chain(t) \ SubTabs!SameKey(t))
  BY DEF SubTabs!DeleteKey, SubTabs!SetChain, ChainBecomes
<1>4. SubTabs!Chain(t) \cup {subRec[t]} \subseteq Record /\ SubTabs!Chain(t) \ SubTabs!SameKey(t) \subseteq Record
  BY <1>1, AtWork
<1> QED BY <1>1, <1>2, <1>3, <1>4

\* The steps that leave the chains and what is moved alone.
LEMMA ChainsSame ==
  ASSUME SubInv, NEW t \in Thread, SubStep(t), ~SubTabs!ResizeTable(t), ~SubTabs!MoveRecords(t),
         ~SubTabs!VisitBucket(t), ~SubTabs!LeaveBucket(t),
         ~(SubTabs!Insert(t) \/ SubTabs!DeleteKey(t)) \/ bucket' = bucket
  PROVE  UNCHANGED <<bucket, moving, subActive>> /\ subPc[t] # "move" /\ subPc'[t] # "move"
<1> USE DEF SubTabs!Goto, SubTabs!records, SubTabs!tableLocks, SubTabs!call, SubTabs!walk
<1>1. CASE \E o \in SubTableOpNames, r \in Record : SubTabs!Invoke(t, o, r)
  BY <1>1 DEF SubTabs!Invoke, SubInv, SubCallInv
<1>2. CASE SubTabs!LockSubTable(t) \/ SubTabs!LockBucket(t) \/ SubTabs!NoResize(t)
           \/ SubTabs!LockToResize(t) \/ SubTabs!EndWalk(t)
  BY <1>2 DEF SubTabs!LockSubTable, SubTabs!LockBucket, SubTabs!NoResize, SubTabs!LockToResize,
     SubTabs!EndWalk, SubInv, SubCallInv
<1>3. CASE SubTabs!Insert(t) \/ SubTabs!DeleteKey(t) \/ SubTabs!FindKey(t)
  BY <1>3 DEF SubTabs!Insert, SubTabs!DeleteKey, SubTabs!FindKey, SubInv, SubCallInv
<1>4. CASE SubTabs!LockAll(t) \/ SubTabs!UnlockAll(t)
  <2>1. UNCHANGED <<bucket, moving, subActive>>
    BY <1>4 DEF SubTabs!LockAll, SubTabs!UnlockAll
  <2> QED BY <1>4, <2>1, AllEffect DEF SubInv
<1> QED BY <1>1, <1>2, <1>3, <1>4, Zenon DEF SubStep, SubTabs!Step

\* While a thread moves the records of a subtable nobody else is there.
LEMMA MoverAlone ==
  ASSUME SubInv, NEW u \in Thread, subPc[u] = "move"
  PROVE  /\ SubTabs!Home(u) \in SubTabs!SubTable
         /\ \A v \in Thread \ {u}, b \in SubTabs!Bucket : ~IsIn(v, SubTabs!Home(u), b)
<1>1. SubTabs!Home(u) \in SubTabs!SubTable /\ \A b \in SubTabs!Bucket : IsIn(u, SubTabs!Home(u), b)
  BY SubPlaces DEF SubInv, OnOne, IsIn, SubTabs!Home
<1> QED BY <1>1 DEF SubInv, InsideInv, ReadsInside

\* The steps that change the chains and what is moved, each chain by itself.
LEMMA HomeKept ==
  ASSUME SubInv, NEW t \in Thread, SubStep(t)
  PROVE  HomeInv'
<1> DEFINE InPlace == \A s \in SubTabs!SubTable, b \in SubTabs!Bucket : \A r \in bucket[s][b] :
                        SubTableOf[r] = s /\ BucketAt(r) = b
           MovingInPlace(u) == \A r \in moving[u] : subPc[u] = "move" /\ SubTableOf[r] = SubTabs!Home(u)
           Emptied(u) == subPc[u] = "move" => \A b \in SubTabs!Bucket : bucket[SubTabs!Home(u)][b] = {}
<1>a. SubTabs!TypeOK /\ SubCallInv /\ WhereInv /\ InPlace /\ \A u \in Thread : MovingInPlace(u) /\ Emptied(u)
  BY DEF SubInv, HomeInv
<1> SUFFICES InPlace' /\ \A u \in Thread : MovingInPlace(u)' /\ Emptied(u)'
  BY Zenon DEF HomeInv
<1>b. \A u \in Thread \ {t} : MovingInPlace(u)'
  BY <1>a, SubFrame DEF SubTabs!Home
<1>1. CASE SubTabs!ResizeTable(t)
  <2> DEFINE s == SubTabs!Home(t)
  <2>1. /\ subPc[t] = "resizeLocked" /\ subPc'[t] = "move" /\ s \in SubTabs!SubTable /\ UNCHANGED subRec
        /\ \A c \in SubTabs!Bucket : SubTabs!BucketFree(s, c, FALSE)
        /\ 0 \in SubTabs!Bucket /\ 1 \in SubTabs!Bucket
    <3>1. /\ subPc[t] = "resizeLocked" /\ subPc'[t] = "move" /\ UNCHANGED subRec
          /\ \A c \in SubTabs!Bucket : SubTabs!BucketFree(s, c, FALSE)
      BY <1>1, <1>a DEF SubTabs!ResizeTable, SubTabs!Goto, SubCallInv, SubTabs!call
    <3>2. s \in SubTabs!SubTable
      BY <1>a, <3>1, SubPlaces DEF OnOne
    <3> QED BY <3>1, <3>2 DEF SubTabs!Bucket
  <2>2. /\ \A b \in SubTabs!Bucket : bucket'[s][b] = {}
        /\ \A q \in SubTabs!SubTable : q # s =>
             subActive'[q] = subActive[q] /\ \A b \in SubTabs!Bucket : bucket'[q][b] = bucket[q][b]
        /\ moving'[t] = bucket[s][0] \cup bucket[s][1]
    BY <1>1, <1>a, <2>1 DEF SubTabs!ResizeTable, SubTabs!TypeOK
  <2>3. InPlace'
    BY <1>a, <2>2 DEF BucketAt, SubTabs!BucketOf
  <2>4. MovingInPlace(t)'
    BY <1>a, <2>1, <2>2 DEF SubTabs!Home
  <2>5. Emptied(t)'
    BY <2>1, <2>2 DEF SubTabs!Home
  <2>6. ASSUME NEW u \in Thread \ {t} PROVE Emptied(u)'
    <3>1. subPc'[u] = subPc[u] /\ subRec'[u] = subRec[u]
      BY <1>a, SubFrame
    <3>2. subPc[u] = "move" => SubTabs!Home(u) \in SubTabs!SubTable
      BY MoverAlone
    <3> SUFFICES ASSUME subPc[u] = "move", NEW b \in SubTabs!Bucket
                 PROVE  bucket'[SubTabs!Home(u)][b] = {}
      BY <3>1 DEF SubTabs!Home
    <3>3. bucket[SubTabs!Home(u)][b] = {}
      BY <1>a
    <3> QED BY <2>2, <3>2, <3>3
  <2> QED BY <1>b, <2>3, <2>4, <2>5, <2>6
<1>2. CASE SubTabs!MoveRecords(t)
  <2> DEFINE s == SubTabs!Home(t)
  <2>1. /\ subPc[t] = "move" /\ subPc'[t] = "idle" /\ s \in SubTabs!SubTable /\ UNCHANGED <<subActive, subRec>>
    BY <1>2, <1>a, SubPlaces DEF SubTabs!MoveRecords, SubTabs!Goto, SubCallInv, OnOne, SubTabs!call
  <2>2. /\ \A b \in SubTabs!Bucket : bucket'[s][b] = SubTabs!Fill(s, moving[t], subActive[s])[b]
        /\ \A q \in SubTabs!SubTable : q # s => \A b \in SubTabs!Bucket : bucket'[q][b] = bucket[q][b]
        /\ moving'[t] = {}
    BY <1>2, <1>a, <2>1 DEF SubTabs!MoveRecords, SubTabs!TypeOK
  <2>3. ASSUME NEW b \in SubTabs!Bucket, NEW r \in bucket'[s][b]
        PROVE  SubTableOf[r] = s /\ BucketAt(r)' = b
    BY <2>1, <2>2, <2>3 DEF SubTabs!Fill, BucketAt
  <2>4. InPlace'
    <3> SUFFICES ASSUME NEW q \in SubTabs!SubTable, NEW b \in SubTabs!Bucket, NEW r \in bucket'[q][b]
                 PROVE  SubTableOf[r] = q /\ BucketAt(r)' = b
      OBVIOUS
    <3>1. CASE q = s
      BY <2>3, <3>1
    <3>2. CASE q # s
      <4>1. r \in bucket[q][b]
        BY <2>2, <3>2
      <4> QED BY <1>a, <2>1, <4>1 DEF BucketAt
    <3> QED BY <3>1, <3>2
  <2>5. MovingInPlace(t)' /\ Emptied(t)'
    BY <2>1, <2>2
  <2>6. ASSUME NEW u \in Thread \ {t} PROVE Emptied(u)'
    <3>1. subPc'[u] = subPc[u] /\ subRec'[u] = subRec[u]
      BY <1>a, SubFrame
    <3>2. subPc[u] = "move" => SubTabs!Home(u) \in SubTabs!SubTable /\ SubTabs!Home(u) # s
      <4> SUFFICES ASSUME subPc[u] = "move", SubTabs!Home(u) = s PROVE FALSE
        BY MoverAlone
      <4>1. IsIn(t, s, 0) /\ 0 \in SubTabs!Bucket
        BY <2>1 DEF IsIn, SubTabs!Home, SubTabs!Bucket
      <4> QED BY <4>1, MoverAlone
    <3> SUFFICES ASSUME subPc[u] = "move", NEW b \in SubTabs!Bucket
                 PROVE  bucket'[SubTabs!Home(u)][b] = {}
      BY <3>1 DEF SubTabs!Home
    <3>3. bucket[SubTabs!Home(u)][b] = {}
      BY <1>a
    <3> QED BY <2>2, <3>2, <3>3
  <2> QED BY <1>b, <2>4, <2>5, <2>6
<1>3. CASE SubTabs!VisitBucket(t) \/ SubTabs!LeaveBucket(t)
  <2>1. /\ subPc[t] = "walk" /\ subPc'[t] = "walk" /\ UNCHANGED <<moving, subRec>>
        /\ sub[t] \in SubTabs!SubTable /\ bkt[t] \in SubTabs!Bucket
        /\ \E rs \in SUBSET Record : rs \subseteq SubTabs!Here(t) /\ ChainBecomes(sub[t], bkt[t], rs)
    <3>1. CASE SubTabs!VisitBucket(t)
      <4>1. PICK gone \in SUBSET SubTabs!Here(t) : ChainBecomes(sub[t], bkt[t], SubTabs!Here(t) \ gone)
        BY <1>a, <3>1, VisitEffect
      <4>2. /\ SubTabs!Here(t) \ gone \in SUBSET Record
            /\ subPc[t] = "walk" /\ subPc'[t] = "walk" /\ UNCHANGED <<moving, subRec>>
            /\ sub[t] \in SubTabs!SubTable /\ bkt[t] \in SubTabs!Bucket
        BY <1>a, <3>1, VisitEffect
      <4> QED BY <4>1, <4>2
    <3>2. CASE SubTabs!LeaveBucket(t)
      <4>1. PICK asked0 \in SUBSET SubTabs!Here(t) : \E gone \in SUBSET asked0 :
              ChainBecomes(sub[t], bkt[t], SubTabs!Here(t) \ gone)
        BY <1>a, <3>2, LeaveEffect
      <4>2. /\ \A gone : SubTabs!Here(t) \ gone \in SUBSET Record
            /\ subPc[t] = "walk" /\ subPc'[t] = "walk" /\ UNCHANGED <<moving, subRec>>
            /\ sub[t] \in SubTabs!SubTable /\ bkt[t] \in SubTabs!Bucket
        BY <1>a, <3>2, LeaveEffect
      <4> QED BY <4>1, <4>2
    <3> QED BY <1>3, <3>1, <3>2
  <2>2. ASSUME NEW q \in SubTabs!SubTable, NEW b \in SubTabs!Bucket PROVE bucket'[q][b] \subseteq bucket[q][b]
    <3>1. PICK rs \in SUBSET Record : rs \subseteq SubTabs!Here(t) /\ ChainBecomes(sub[t], bkt[t], rs)
      BY <2>1
    <3>2. bucket'[q][b] = IF q = sub[t] /\ b = bkt[t] THEN rs ELSE bucket[q][b]
      BY <1>a, <2>1, <3>1, ChainTypes
    <3> QED BY <3>1, <3>2 DEF SubTabs!Here
  <2>3. InPlace'
    <3> SUFFICES ASSUME NEW q \in SubTabs!SubTable, NEW b \in SubTabs!Bucket, NEW r \in bucket'[q][b]
                 PROVE  SubTableOf[r] = q /\ BucketAt(r)' = b
      OBVIOUS
    <3>1. subActive'[q] = subActive[q]
      BY ActiveKept
    <3>2. SubTableOf[r] = q /\ BucketAt(r) = b
      BY <1>a, <2>2
    <3> QED BY <3>1, <3>2 DEF BucketAt
  <2>4. ASSUME NEW u \in Thread PROVE MovingInPlace(u)' /\ Emptied(u)'
    <3>1. subPc'[u] = subPc[u] /\ UNCHANGED <<moving, subRec>>
      BY <1>a, <2>1, SubFrame
    <3>2. subPc[u] = "move" => SubTabs!Home(u) \in SubTabs!SubTable
      BY MoverAlone
    <3> QED BY <1>a, <2>2, <3>1, <3>2 DEF SubTabs!Home
  <2> QED BY <2>3, <2>4
<1>4. CASE (SubTabs!Insert(t) \/ SubTabs!DeleteKey(t)) /\ bucket' # bucket
  <2>1. /\ subPc[t] = "work" /\ UNCHANGED <<subActive, moving, subRec>>
        /\ SubTabs!Home(t) \in SubTabs!SubTable /\ SubTabs!HomeBucket(t) \in SubTabs!Bucket
        /\ SubTabs!Home(t) = SubTableOf[subRec[t]] /\ SubTabs!HomeBucket(t) = BucketAt(subRec[t])
        /\ IsIn(t, SubTabs!Home(t), SubTabs!HomeBucket(t))
    BY <1>4, ChangeEffect, AtWork
  <2>2. PICK rs \in SUBSET Record :
          /\ ChainBecomes(SubTabs!Home(t), SubTabs!HomeBucket(t), rs)
          /\ rs \subseteq SubTabs!Chain(t) \cup {subRec[t]}
    BY <1>4, ChangeEffect
  <2>3. ASSUME NEW q \in SubTabs!SubTable, NEW b \in SubTabs!Bucket
        PROVE  bucket'[q][b] = IF q = SubTabs!Home(t) /\ b = SubTabs!HomeBucket(t) THEN rs ELSE bucket[q][b]
    BY <1>a, <2>1, <2>2, ChainTypes
  <2>4. InPlace'
    <3> SUFFICES ASSUME NEW q \in SubTabs!SubTable, NEW b \in SubTabs!Bucket, NEW r \in bucket'[q][b]
                 PROVE  SubTableOf[r] = q /\ BucketAt(r) = b
      BY <2>1 DEF BucketAt
    <3> QED BY <1>a, <2>1, <2>2, <2>3 DEF SubTabs!Chain
  <2>5. ASSUME NEW u \in Thread PROVE MovingInPlace(u)' /\ Emptied(u)'
    <3>1. CASE u = t
      <4>1. moving[t] = {}
        BY <1>a, <2>1
      <4>2. subPc'[t] # "move"
        BY <1>4, <1>a DEF SubTabs!Insert, SubTabs!DeleteKey, SubTabs!Goto, SubCallInv
      <4> QED BY <2>1, <3>1, <4>1, <4>2
    <3>2. CASE u # t
      <4>1. subPc'[u] = subPc[u] /\ subRec'[u] = subRec[u]
        BY <1>a, <3>2, SubFrame
      <4>2. subPc[u] = "move" => SubTabs!Home(u) \in SubTabs!SubTable /\ SubTabs!Home(u) # SubTabs!Home(t)
        BY <2>1, <3>2, MoverAlone
      <4> QED BY <1>a, <1>b, <2>3, <3>2, <4>1, <4>2 DEF SubTabs!Home
    <3> QED BY <3>1, <3>2
  <2> QED BY <2>4, <2>5
<1>5. CASE UNCHANGED <<bucket, moving, subActive>> /\ subPc[t] # "move" /\ subPc'[t] # "move"
  <2>1. InPlace'
    BY <1>a, <1>5 DEF BucketAt
  <2>2. MovingInPlace(t)' /\ Emptied(t)'
    BY <1>a, <1>5
  <2>3. ASSUME NEW u \in Thread \ {t} PROVE Emptied(u)'
    <3>1. subPc'[u] = subPc[u] /\ subRec'[u] = subRec[u]
      BY <1>a, SubFrame
    <3> QED BY <1>a, <1>5, <3>1 DEF SubTabs!Home
  <2> QED BY <1>b, <2>1, <2>2, <2>3
<1> QED BY <1>1, <1>2, <1>3, <1>4, <1>5, ChainsSame

InSubTables == UNION {bucket[s][b] : s \in SubTabs!SubTable, b \in SubTabs!Bucket}
InMoves == UNION {moving[u] : u \in Thread}

LEMMA InTable ==
  /\ \A r : r \in SubTabs!Table <=> \/ \E s \in SubTabs!SubTable, b \in SubTabs!Bucket : r \in bucket[s][b]
                                    \/ \E u \in Thread : r \in moving[u]
  /\ \A r : r \in SubTabs!Table' <=> \/ \E s \in SubTabs!SubTable, b \in SubTabs!Bucket : r \in bucket'[s][b]
                                     \/ \E u \in Thread : r \in moving'[u]
<1>1. /\ \A r : r \in InSubTables <=> \E s \in SubTabs!SubTable, b \in SubTabs!Bucket : r \in bucket[s][b]
      /\ \A r : r \in InSubTables' <=> \E s \in SubTabs!SubTable, b \in SubTabs!Bucket : r \in bucket'[s][b]
  BY DEF InSubTables
<1>2. /\ \A r : r \in InMoves <=> \E u \in Thread : r \in moving[u]
      /\ \A r : r \in InMoves' <=> \E u \in Thread : r \in moving'[u]
  BY DEF InMoves
<1>3. SubTabs!Table = InSubTables \cup InMoves
  BY DEF SubTabs!Table, InSubTables, InMoves
<1>4. SubTabs!Table' = InSubTables' \cup InMoves'
  BY DEF SubTabs!Table, InSubTables, InMoves
<1> QED BY <1>1, <1>2, <1>3, <1>4

\* A record of the table is in its chain, or a thread is moving it.
LEMMA WhereIs ==
  ASSUME SubInv, NEW r \in SubTabs!Table
  PROVE  /\ r \in Record /\ SubTableOf[r] \in SubTabs!SubTable /\ BucketAt(r) \in SubTabs!Bucket
         /\ \/ r \in bucket[SubTableOf[r]][BucketAt(r)]
            \/ \E u \in Thread : subPc[u] = "move" /\ SubTabs!Home(u) = SubTableOf[r] /\ r \in moving[u]
<1>1. \/ \E s \in SubTabs!SubTable, b \in SubTabs!Bucket : r \in bucket[s][b]
      \/ \E u \in Thread : r \in moving[u]
  BY InTable
<1>2. CASE \E s \in SubTabs!SubTable, b \in SubTabs!Bucket : r \in bucket[s][b]
  BY <1>2 DEF SubInv, HomeInv, SubTabs!TypeOK
<1>3. CASE \E u \in Thread : r \in moving[u]
  <2>1. PICK u \in Thread : r \in moving[u]
    BY <1>3
  <2>2. r \in Record /\ subPc[u] = "move" /\ SubTableOf[r] = SubTabs!Home(u)
    BY <2>1 DEF SubInv, HomeInv, SubTabs!TypeOK
  <2>3. SubTableOf[r] \in SubTabs!SubTable /\ subActive[SubTableOf[r]] \in {1, 2}
    BY <2>2, SubConstants DEF SubInv, SubTabs!TypeOK
  <2>4. BucketAt(r) \in SubTabs!Bucket
    BY DEF BucketAt, SubTabs!BucketOf, SubTabs!Bucket
  <2> QED BY <2>1, <2>2, <2>3, <2>4
<1> QED BY <1>1, <1>2, <1>3

\* A change of one chain, in a subtable where no records are being moved.
LEMMA TableOfChain ==
  ASSUME SubInv, NEW s \in SubTabs!SubTable, NEW b \in SubTabs!Bucket, NEW rs \in SUBSET Record,
         ChainBecomes(s, b, rs), UNCHANGED moving,
         \A u \in Thread : subPc[u] = "move" => SubTabs!Home(u) # s
  PROVE  SubTabs!Table' = (SubTabs!Table \ bucket[s][b]) \cup rs
<1>1. \A q \in SubTabs!SubTable, c \in SubTabs!Bucket :
        bucket'[q][c] = IF q = s /\ c = b THEN rs ELSE bucket[q][c]
  BY ChainTypes DEF SubInv
<1>2. ASSUME NEW q \in SubTabs!SubTable, NEW c \in SubTabs!Bucket, q # s \/ c # b
      PROVE  bucket[q][c] \cap bucket[s][b] = {}
  BY <1>2 DEF SubInv, HomeInv
<1>3. ASSUME NEW u \in Thread PROVE moving[u] \cap bucket[s][b] = {}
  BY <1>3 DEF SubInv, HomeInv
<1>4. ASSUME NEW r \in SubTabs!Table' PROVE r \in (SubTabs!Table \ bucket[s][b]) \cup rs
  <2>1. \/ \E q \in SubTabs!SubTable, c \in SubTabs!Bucket : r \in bucket'[q][c]
        \/ \E u \in Thread : r \in moving[u]
    BY <1>4, InTable
  <2>2. CASE \E q \in SubTabs!SubTable, c \in SubTabs!Bucket : r \in bucket'[q][c]
    BY <1>1, <1>2, <2>2, InTable
  <2>3. CASE \E u \in Thread : r \in moving[u]
    BY <1>3, <2>3, InTable
  <2> QED BY <2>1, <2>2, <2>3
<1>5. ASSUME NEW r \in (SubTabs!Table \ bucket[s][b]) \cup rs PROVE r \in SubTabs!Table'
  <2>1. CASE r \in rs
    <3>1. r \in bucket'[s][b]
      BY <1>1, <2>1
    <3> QED BY <3>1, InTable
  <2>2. CASE r \in SubTabs!Table \ bucket[s][b]
    <3>1. \/ \E q \in SubTabs!SubTable, c \in SubTabs!Bucket : r \in bucket[q][c]
          \/ \E u \in Thread : r \in moving'[u]
      BY <2>2, InTable
    <3>2. (\E q \in SubTabs!SubTable, c \in SubTabs!Bucket : r \in bucket[q][c])
            => \E q \in SubTabs!SubTable, c \in SubTabs!Bucket : r \in bucket'[q][c]
      BY <1>1, <2>2
    <3> QED BY <3>1, <3>2, InTable
  <2> QED BY <1>5, <2>1, <2>2
<1> QED BY <1>4, <1>5

\* Insert adds its record, DeleteKey takes out the one with its key.
LEMMA TableChanged ==
  ASSUME SubInv, NEW t \in Thread, SubTabs!Insert(t) \/ SubTabs!DeleteKey(t), bucket' # bucket
  PROVE  \/ SubTabs!Insert(t) /\ SubTabs!Table' = SubTabs!Table \cup {subRec[t]}
         \/ SubTabs!DeleteKey(t) /\ SubTabs!Table' = SubTabs!Table \ SubTabs!SameKey(t)
<1>1. /\ SubTabs!Home(t) \in SubTabs!SubTable /\ SubTabs!HomeBucket(t) \in SubTabs!Bucket
      /\ UNCHANGED moving /\ subPc[t] = "work"
      /\ SubTabs!SameKey(t) \subseteq SubTabs!Chain(t)
      /\ IsIn(t, SubTabs!Home(t), SubTabs!HomeBucket(t))
  BY ChangeEffect, AtWork
<1>2. \A u \in Thread : subPc[u] = "move" => SubTabs!Home(u) # SubTabs!Home(t)
  BY <1>1, MoverAlone
<1>3. SubTabs!Chain(t) \subseteq SubTabs!Table
  BY <1>1, InTable DEF SubTabs!Chain
<1>4. PICK rs \in SUBSET Record :
              /\ ChainBecomes(SubTabs!Home(t), SubTabs!HomeBucket(t), rs)
              /\ \/ SubTabs!Insert(t) /\ rs = SubTabs!Chain(t) \cup {subRec[t]}
                 \/ SubTabs!DeleteKey(t) /\ rs = SubTabs!Chain(t) \ SubTabs!SameKey(t)
  BY ChangeEffect
<1>5. SubTabs!Table' = (SubTabs!Table \ SubTabs!Chain(t)) \cup rs
  BY <1>1, <1>2, <1>4, TableOfChain DEF SubTabs!Chain
<1> QED BY <1>1, <1>3, <1>4, <1>5

\* A walk takes out of the table what it removes.
LEMMA TableVisited ==
  ASSUME SubInv, NEW t \in Thread, SubTabs!VisitBucket(t) \/ SubTabs!LeaveBucket(t),
         NEW gone \in SUBSET SubTabs!Here(t), ChainBecomes(sub[t], bkt[t], SubTabs!Here(t) \ gone)
  PROVE  SubTabs!Table' = SubTabs!Table \ gone /\ SubTabs!Here(t) \subseteq SubTabs!Table
<1>1. /\ sub[t] \in SubTabs!SubTable /\ bkt[t] \in SubTabs!Bucket /\ UNCHANGED moving
      /\ SubTabs!Here(t) \subseteq Record
      /\ \A u \in Thread : IsIn(u, sub[t], bkt[t]) => ReadsInside(u)
  BY VisitEffect, LeaveEffect DEF SubInv
<1>2. \A u \in Thread : subPc[u] = "move" => SubTabs!Home(u) # sub[t]
  BY <1>1 DEF IsIn, ReadsInside, SubTabs!Home
<1>3. SubTabs!Here(t) \subseteq SubTabs!Table
  BY <1>1, InTable DEF SubTabs!Here
<1>4. SubTabs!Here(t) \ gone \in SUBSET Record
  BY <1>1
<1>5. SubTabs!Table' = (SubTabs!Table \ SubTabs!Here(t)) \cup (SubTabs!Here(t) \ gone)
  BY <1>1, <1>2, <1>4, TableOfChain DEF SubTabs!Here
<1> QED BY <1>3, <1>5

\* No other step adds or takes out records: a resize takes them along.
LEMMA TableSame ==
  ASSUME SubInv, NEW t \in Thread, SubStep(t), ~SubTabs!VisitBucket(t), ~SubTabs!LeaveBucket(t),
         ~(SubTabs!Insert(t) \/ SubTabs!DeleteKey(t)) \/ bucket' = bucket
  PROVE  UNCHANGED SubTabs!Table
<1>a. SubTabs!TypeOK /\ SubCallInv /\ WhereInv /\ HomeInv
  BY DEF SubInv
<1> DEFINE InBuckets(r) == \E s \in SubTabs!SubTable, b \in SubTabs!Bucket : r \in bucket[s][b]
           InMoving(r) == \E u \in Thread : r \in moving[u]
<1>b. \A r : (r \in SubTabs!Table <=> InBuckets(r) \/ InMoving(r))
             /\ (r \in SubTabs!Table' <=> InBuckets(r)' \/ InMoving(r)')
  BY InTable
<1>1. CASE SubTabs!ResizeTable(t)
  <2> DEFINE s == SubTabs!Home(t)
  <2>1. subPc[t] = "resizeLocked" /\ s \in SubTabs!SubTable
    BY <1>1, <1>a, SubPlaces DEF SubTabs!ResizeTable, SubTabs!Goto, OnOne
  <2>2. /\ \A b \in SubTabs!Bucket : bucket'[s][b] = {}
        /\ \A q \in SubTabs!SubTable : q # s => \A b \in SubTabs!Bucket : bucket'[q][b] = bucket[q][b]
        /\ moving'[t] = bucket[s][0] \cup bucket[s][1] /\ \A u \in Thread \ {t} : moving'[u] = moving[u]
    BY <1>1, <1>a, <2>1 DEF SubTabs!ResizeTable, SubTabs!TypeOK
  <2>3. moving[t] = {}
    BY <1>a, <2>1 DEF HomeInv
  <2> HIDE DEF s
  <2>4. ASSUME NEW r PROVE InBuckets(r) \/ InMoving(r) <=> InBuckets(r)' \/ InMoving(r)'
    <3>1. InBuckets(r)' => InBuckets(r)
      BY <2>2
    <3>2. InMoving(r)' => InMoving(r) \/ InBuckets(r)
      BY <2>1, <2>2 DEF SubTabs!Bucket
    <3>3. InMoving(r) => InMoving(r)'
      BY <2>2, <2>3
    <3>4. InBuckets(r) => InBuckets(r)' \/ InMoving(r)'
      <4> SUFFICES ASSUME NEW q \in SubTabs!SubTable, NEW b \in SubTabs!Bucket, r \in bucket[q][b]
                   PROVE  InBuckets(r)' \/ InMoving(r)'
        OBVIOUS
      <4>1. CASE q = s
        BY <2>2, <4>1 DEF SubTabs!Bucket
      <4>2. CASE q # s
        BY <2>2, <4>2
      <4> QED BY <4>1, <4>2
    <3> QED BY <3>1, <3>2, <3>3, <3>4
  <2> QED BY <1>b, <2>4
<1>2. CASE SubTabs!MoveRecords(t)
  <2> DEFINE s == SubTabs!Home(t)
  <2>1. subPc[t] = "move" /\ s \in SubTabs!SubTable
    BY <1>2, <1>a, SubPlaces DEF SubTabs!MoveRecords, SubTabs!Goto, OnOne
  <2>2. /\ \A b \in SubTabs!Bucket : bucket'[s][b] = {r \in moving[t] : SubTableOf[r] = s /\ BucketAt(r) = b}
        /\ \A q \in SubTabs!SubTable : q # s => \A b \in SubTabs!Bucket : bucket'[q][b] = bucket[q][b]
        /\ moving'[t] = {} /\ \A u \in Thread \ {t} : moving'[u] = moving[u]
    <3>1. /\ \A b \in SubTabs!Bucket : bucket'[s][b] = SubTabs!Fill(s, moving[t], subActive[s])[b]
          /\ \A q \in SubTabs!SubTable : q # s => \A b \in SubTabs!Bucket : bucket'[q][b] = bucket[q][b]
          /\ moving'[t] = {} /\ \A u \in Thread \ {t} : moving'[u] = moving[u]
      BY <1>2, <1>a, <2>1 DEF SubTabs!MoveRecords, SubTabs!TypeOK
    <3> QED BY <3>1 DEF SubTabs!Fill, BucketAt
  <2>3. /\ \A b \in SubTabs!Bucket : bucket[s][b] = {}
        /\ \A r \in moving[t] : SubTableOf[r] = s /\ BucketAt(r) \in SubTabs!Bucket
    BY <1>a, <2>1 DEF HomeInv, BucketAt, SubTabs!BucketOf, SubTabs!Bucket
  <2> HIDE DEF s
  <2>4. ASSUME NEW r PROVE InBuckets(r) \/ InMoving(r) <=> InBuckets(r)' \/ InMoving(r)'
    <3>1. InMoving(r)' => InMoving(r)
      BY <2>2
    <3>2. InBuckets(r)' => InMoving(r) \/ InBuckets(r)
      <4> SUFFICES ASSUME NEW q \in SubTabs!SubTable, NEW b \in SubTabs!Bucket, r \in bucket'[q][b]
                   PROVE  InBuckets(r) \/ InMoving(r)
        OBVIOUS
      <4> QED BY <2>2
    <3>3. InBuckets(r) => InBuckets(r)'
      BY <2>2, <2>3
    <3>4. InMoving(r) => InBuckets(r)' \/ InMoving(r)'
      <4> SUFFICES ASSUME NEW u \in Thread, r \in moving[u] PROVE InBuckets(r)' \/ InMoving(r)'
        OBVIOUS
      <4>1. CASE u = t
        BY <2>1, <2>2, <2>3, <4>1
      <4>2. CASE u # t
        BY <2>2, <4>2
      <4> QED BY <4>1, <4>2
    <3> QED BY <3>1, <3>2, <3>3, <3>4
  <2> QED BY <1>b, <2>4
<1>3. CASE ~SubTabs!ResizeTable(t) /\ ~SubTabs!MoveRecords(t)
  BY <1>3, ChainsSame DEF SubTabs!Table
<1> QED BY <1>1, <1>2, <1>3

\* Who adds or takes out a record is where it belongs, and does not read.
LEMMA WhoChanges ==
  ASSUME SubInv, NEW t \in Thread, SubStep(t),
         NEW r \in (SubTabs!Table' \ SubTabs!Table) \cup (SubTabs!Table \ SubTabs!Table')
  PROVE  \/ subPc[t] = "work" /\ IsIn(t, SubTableOf[r], BucketAt(r)) /\ ~ReadsInside(t)
            /\ SubTableOf[r] \in SubTabs!SubTable /\ BucketAt(r) \in SubTabs!Bucket
         \/ subPc[t] = "walk" /\ ~SubTabs!Reads(t)
<1>1. CASE (SubTabs!Insert(t) \/ SubTabs!DeleteKey(t)) /\ bucket' # bucket
  <2>1. /\ subPc[t] = "work" /\ subOp[t] # "FindKey"
        /\ SubTabs!Home(t) \in SubTabs!SubTable /\ SubTabs!HomeBucket(t) \in SubTabs!Bucket
        /\ SubTabs!Home(t) = SubTableOf[subRec[t]] /\ SubTabs!HomeBucket(t) = BucketAt(subRec[t])
        /\ IsIn(t, SubTabs!Home(t), SubTabs!HomeBucket(t))
        /\ SubTabs!SameKey(t) \subseteq SubTabs!Chain(t) /\ ~ReadsInside(t)
    BY <1>1, ChangeEffect, AtWork DEF SubTabs!Insert, SubTabs!DeleteKey
  <2>2. r = subRec[t] \/ r \in SubTabs!Chain(t)
    BY <1>1, <2>1, TableChanged
  <2>3. SubTableOf[r] = SubTabs!Home(t) /\ BucketAt(r) = SubTabs!HomeBucket(t)
    BY <2>1, <2>2 DEF SubTabs!Chain, SubInv, HomeInv
  <2> QED BY <2>1, <2>3
<1>2. CASE SubTabs!VisitBucket(t)
  <2>1. PICK gone \in SUBSET SubTabs!Here(t) :
          /\ gone # {} => subOp[t] # "Apply"
          /\ ChainBecomes(sub[t], bkt[t], SubTabs!Here(t) \ gone)
    BY <1>2, VisitEffect DEF SubInv
  <2>2. r \in gone
    BY <1>2, <2>1, TableVisited
  <2>3. subPc[t] = "walk"
    BY <1>2, VisitEffect DEF SubInv
  <2> QED BY <2>1, <2>2, <2>3 DEF SubInv, SubCallInv, OnAll, SubTabs!Reads
<1>3. CASE SubTabs!LeaveBucket(t)
  <2>1. PICK asked0 \in SUBSET SubTabs!Here(t) : \E gone \in SUBSET asked0 :
          /\ gone # {} => subOp[t] # "Apply"
          /\ ChainBecomes(sub[t], bkt[t], SubTabs!Here(t) \ gone)
    BY <1>3, LeaveEffect DEF SubInv
  <2>2. PICK gone \in SUBSET asked0 :
          /\ gone # {} => subOp[t] # "Apply"
          /\ ChainBecomes(sub[t], bkt[t], SubTabs!Here(t) \ gone)
    BY <2>1
  <2>3. r \in gone
    BY <1>3, <2>2, TableVisited
  <2>4. subPc[t] = "walk"
    BY <1>3, LeaveEffect DEF SubInv
  <2> QED BY <2>2, <2>3, <2>4 DEF SubInv, SubCallInv, OnAll, SubTabs!Reads
<1> QED BY <1>1, <1>2, <1>3, TableSame

\* A walk beside the step of another thread.
LEMMA OtherWalkKept ==
  ASSUME SubInv, NEW t \in Thread, SubStep(t), NEW w \in Thread \ {t}, subPc[w] = "walk"
  PROVE  WalkOf(w)'
<1>a. SubTabs!TypeOK /\ SubCallInv /\ WhereInv
  BY DEF SubInv
<1>b. WalkOf(w)
  BY DEF SubInv, WalkInv
<1>c. /\ sub'[w] = sub[w] /\ bkt'[w] = bkt[w] /\ lkp'[w] = lkp[w] /\ met'[w] = met[w]
      /\ removed'[w] = removed[w] /\ (SubTabs!Reads(w)' <=> SubTabs!Reads(w))
  BY <1>a, SubFrame, OthersStay
<1>d. UNCHANGED subActive
  BY ActiveKept
<1>e. \A r : BucketAt(r)' = BucketAt(r)
  BY <1>d DEF BucketAt
<1>f. \A s \in SubTabs!SubTable, b \in SubTabs!Bucket : AheadOf(w, s, b)' <=> AheadOf(w, s, b)
  BY OthersStay
<1>g. \A r \in met[w] : r \in Record /\ SubTableOf[r] \in SubTabs!SubTable /\ BucketAt(r) \in SubTabs!Bucket
  BY <1>a, SubConstants DEF SubTabs!TypeOK, BucketAt, SubTabs!BucketOf, SubTabs!Bucket
<1>1. ASSUME NEW v \in Thread, NEW s \in SubTabs!SubTable, NEW b \in SubTabs!Bucket, IsIn(v, s, b)',
             IsIn(v, s, b) => ReadsInside(v) /\ SubTabs!Reads(w)
      PROVE  ReadsInside(v)' /\ SubTabs!Reads(w)'
  <2>1. CASE v = t
    BY <1>1, <1>c, <2>1, InsideKept, BesideWalk
  <2>2. CASE v # t
    BY <1>1, <1>c, <2>2, OthersStay
  <2> QED BY <2>1, <2>2
<1>2. ASSUME NEW r \in (SubTabs!Table' \ SubTabs!Table) \cup (SubTabs!Table \ SubTabs!Table')
      PROVE  /\ IsIn(t, SubTableOf[r], BucketAt(r)) /\ ~ReadsInside(t)
             /\ SubTableOf[r] \in SubTabs!SubTable /\ BucketAt(r) \in SubTabs!Bucket
  BY WhoChanges, BesideWalk
<1>3. (lkp[w] = "LKP_PERFORM" => \A s \in SubTabs!SubTable, b \in SubTabs!Bucket :
       ~AheadOf(w, s, b) => \A v \in Thread : IsIn(v, s, b) => ReadsInside(v) /\ SubTabs!Reads(w))'
  <2> SUFFICES ASSUME lkp[w] = "LKP_PERFORM", NEW s \in SubTabs!SubTable, NEW b \in SubTabs!Bucket,
                      ~AheadOf(w, s, b), NEW v \in Thread, IsIn(v, s, b)'
               PROVE  ReadsInside(v)' /\ SubTabs!Reads(w)'
    BY <1>c, <1>f
  <2>1. IsIn(v, s, b) => ReadsInside(v) /\ SubTabs!Reads(w)
    BY <1>b DEF WalkOf
  <2> QED BY <1>1, <2>1
<1>4. (\A r \in met[w], v \in Thread : IsIn(v, SubTableOf[r], BucketAt(r)) =>
       ReadsInside(v) /\ SubTabs!Reads(w))'
  <2> SUFFICES ASSUME NEW r \in met[w], NEW v \in Thread, IsIn(v, SubTableOf[r], BucketAt(r))'
               PROVE  ReadsInside(v)' /\ SubTabs!Reads(w)'
    BY <1>c
  <2>1. IsIn(v, SubTableOf[r], BucketAt(r)) => ReadsInside(v) /\ SubTabs!Reads(w)
    BY <1>b DEF WalkOf
  <2>2. PICK c \in SubTabs!Bucket : BucketAt(r) = c /\ BucketAt(r)' = c
    BY <1>e, <1>g
  <2>3. IsIn(v, SubTableOf[r], c)' /\ (IsIn(v, SubTableOf[r], c) => IsIn(v, SubTableOf[r], BucketAt(r)))
    BY <2>2 DEF IsIn
  <2>4. SubTableOf[r] \in SubTabs!SubTable
    BY <1>g
  <2> QED BY <1>1, <2>1, <2>3, <2>4
<1>5. (\A r \in met[w] : ~AheadOf(w, SubTableOf[r], BucketAt(r)))'
  BY <1>b, <1>c, <1>e DEF WalkOf, AheadOf
<1>6. (removed[w] \subseteq met[w] /\ met[w] \subseteq SubTabs!Table \cup removed[w])'
  <2>1. ASSUME NEW r \in met[w], r \in SubTabs!Table PROVE r \in SubTabs!Table'
    <3> SUFFICES ASSUME r \notin SubTabs!Table' PROVE FALSE
      OBVIOUS
    <3>1. IsIn(t, SubTableOf[r], BucketAt(r)) /\ ~ReadsInside(t)
      BY <1>2, <2>1
    <3> QED BY <1>b, <3>1 DEF WalkOf
  <2>2. removed[w] \subseteq met[w] /\ met[w] \subseteq SubTabs!Table \cup removed[w]
    BY <1>b DEF WalkOf
  <2> QED BY <1>c, <2>1, <2>2
<1>7. (removed[w] \cap SubTabs!Table = {})'
  <2> SUFFICES ASSUME NEW r \in removed[w], r \in SubTabs!Table' PROVE FALSE
    BY <1>c
  <2>1. r \in met[w] /\ r \notin SubTabs!Table
    BY <1>b DEF WalkOf
  <2>2. IsIn(t, SubTableOf[r], BucketAt(r)) /\ ~ReadsInside(t)
    BY <1>2, <2>1
  <2> QED BY <1>b, <2>1, <2>2 DEF WalkOf
<1>8. (lkp[w] = "LKP_PERFORM" => \A r \in SubTabs!Table :
       ~AheadOf(w, SubTableOf[r], BucketAt(r)) => r \in met[w])'
  <2> SUFFICES ASSUME lkp[w] = "LKP_PERFORM", NEW r \in SubTabs!Table',
                      ~AheadOf(w, SubTableOf[r], BucketAt(r))
               PROVE  r \in met[w]
    BY <1>c, <1>e DEF AheadOf
  <2>1. CASE r \in SubTabs!Table
    BY <1>b, <2>1 DEF WalkOf
  <2>2. CASE r \notin SubTabs!Table
    <3>1. /\ IsIn(t, SubTableOf[r], BucketAt(r)) /\ ~ReadsInside(t)
          /\ SubTableOf[r] \in SubTabs!SubTable /\ BucketAt(r) \in SubTabs!Bucket
      BY <1>2, <2>2
    <3> QED BY <1>b, <3>1 DEF WalkOf
  <2> QED BY <2>1, <2>2
<1> HIDE DEF SubTabs!Table
<1> QED BY <1>3, <1>4, <1>5, <1>6, <1>7, <1>8 DEF WalkOf

\* Its own steps.
LEMMA VisitWalkKept ==
  ASSUME SubInv, NEW t \in Thread, SubStep(t), SubTabs!VisitBucket(t)
  PROVE  WalkOf(t)'
<1> DEFINE s0 == sub[t]
           b0 == bkt[t]
<1>a. SubTabs!TypeOK /\ SubCallInv /\ WhereInv
  BY DEF SubInv
<1>b. /\ subPc[t] = "walk" /\ subPc'[t] = "walk" /\ lkp'[t] = lkp[t] /\ UNCHANGED <<subOp, moving>>
      /\ s0 \in SubTabs!SubTable /\ b0 \in SubTabs!Bucket
      /\ \A u \in Thread : IsIn(u, s0, b0) => SubTabs!Reads(t) /\ ReadsInside(u)
  BY <1>a, VisitEffect
<1>c. PICK gone \in SUBSET SubTabs!Here(t) :
        /\ met'[t] = met[t] \cup SubTabs!Here(t) /\ removed'[t] = removed[t] \cup gone
        /\ ChainBecomes(s0, b0, SubTabs!Here(t) \ gone)
  BY <1>a, VisitEffect
<1>d. WalkOf(t) /\ (SubTabs!Reads(t)' <=> SubTabs!Reads(t))
  BY <1>b DEF SubInv, WalkInv, SubTabs!Reads
<1>e. SubTabs!Table' = SubTabs!Table \ gone /\ SubTabs!Here(t) \subseteq SubTabs!Table
  BY <1>c, TableVisited
<1>f. ASSUME NEW s \in SubTabs!SubTable
      PROVE  \/ subActive'[s] = subActive[s]
             \/ /\ s = s0 /\ sub'[t] = sub[t] + 1 /\ NobodyIn(t, s)
                /\ \A b \in SubTabs!Bucket : bucket'[s][b] = {}
  <2>1. CASE sub'[t] = sub[t]
    BY <1>a, <1>b, <2>1, VisitEffect DEF SubTabs!SubTable
  <2>2. CASE sub'[t] # sub[t] /\ subOp[t] = "Clear"
    <3>1. /\ sub'[t] = sub[t] + 1
          /\ subActive' = [subActive EXCEPT ![s0] = 1] /\ NobodyIn(t, s0)
          /\ \A b \in SubTabs!Bucket : bucket'[s0][b] = {}
      BY <1>a, <1>b, <2>2, ClearLeaves DEF SubTabs!TypeOK
    <3> QED BY <1>a, <1>b, <3>1 DEF SubTabs!TypeOK
  <2>3. CASE sub'[t] # sub[t] /\ subOp[t] # "Clear"
    BY <1>a, <2>3, VisitEffect
  <2> QED BY <2>1, <2>2, <2>3
<1>g. ASSUME NEW s \in SubTabs!SubTable, NEW b \in SubTabs!Bucket
      PROVE  /\ ~AheadOf(t, s, b)' => \/ ~AheadOf(t, s, b) \/ (s = s0 /\ b = b0)
                                      \/ s = s0 /\ b = 1 /\ b0 = 0 /\ subActive[s0] = 1
             /\ ~AheadOf(t, s, b) \/ (s = s0 /\ b = b0) => ~AheadOf(t, s, b)'
             /\ s = s0 /\ sub'[t] = sub[t] + 1 => ~AheadOf(t, s, b)'
  <2>1. \/ sub'[t] = s0 /\ bkt'[t] = b0 + 1 /\ b0 + 1 < subActive[s0]
        \/ sub'[t] = s0 + 1 /\ bkt'[t] = 0 /\ ~(b0 + 1 < subActive[s0])
    BY <1>a, VisitEffect
  <2>2. s \in Nat /\ s0 \in Nat /\ b \in {0, 1} /\ b0 \in {0, 1} /\ subActive[s0] \in {1, 2}
    BY <1>a, <1>b DEF SubTabs!SubTable, SubTabs!Bucket, SubTabs!TypeOK
  <2> QED BY <2>1, <2>2 DEF AheadOf
<1>h. ASSUME NEW r \in SubTabs!Here(t)
      PROVE  SubTableOf[r] = s0 /\ BucketAt(r) = b0 /\ r \in Record
  BY <1>a, <1>b DEF SubInv, HomeInv, SubTabs!Here, SubTabs!TypeOK
<1>i. ASSUME NEW r \in Record
      PROVE  /\ SubTableOf[r] \in SubTabs!SubTable /\ BucketAt(r) \in SubTabs!Bucket
             /\ BucketAt(r)' \in SubTabs!Bucket
             /\ subActive'[SubTableOf[r]] = subActive[SubTableOf[r]] => BucketAt(r)' = BucketAt(r)
  BY SubConstants DEF BucketAt, SubTabs!BucketOf, SubTabs!Bucket
<1>j. met[t] \subseteq Record
  BY <1>a DEF SubTabs!TypeOK
<1>k. ASSUME NEW v \in Thread, NEW s \in SubTabs!SubTable, NEW b \in SubTabs!Bucket, IsIn(v, s, b)'
      PROVE  v # t /\ IsIn(v, s, b) /\ (ReadsInside(v)' <=> ReadsInside(v))
  <2>1. v # t
    BY <1>b, <1>k DEF IsIn
  <2> QED BY <1>k, <2>1, OthersStay
<1> HIDE DEF s0, b0
<1>1. (lkp[t] = "LKP_PERFORM" => \A s \in SubTabs!SubTable, b \in SubTabs!Bucket :
       ~AheadOf(t, s, b) => \A v \in Thread : IsIn(v, s, b) => ReadsInside(v) /\ SubTabs!Reads(t))'
  <2> SUFFICES ASSUME lkp[t] = "LKP_PERFORM", NEW s \in SubTabs!SubTable, NEW b \in SubTabs!Bucket,
                      ~AheadOf(t, s, b)', NEW v \in Thread, IsIn(v, s, b)'
               PROVE  ReadsInside(v) /\ SubTabs!Reads(t)
    BY <1>b, <1>d, <1>k
  <2>1. v # t /\ IsIn(v, s, b)
    BY <1>k
  <2>2. CASE ~AheadOf(t, s, b)
    BY <1>d, <2>1, <2>2 DEF WalkOf
  <2>3. CASE s = s0 /\ b = b0
    BY <1>b, <2>1, <2>3
  <2>4. CASE s = s0 /\ b = 1 /\ b0 = 0 /\ subActive[s0] = 1
    <3>1. IsIn(v, s0, b0)
      BY <2>1, <2>4 DEF IsIn, BucketAt, SubTabs!BucketOf
    <3> QED BY <1>b, <3>1
  <2> QED BY <1>g, <2>2, <2>3, <2>4
<1>2. (\A r \in met[t], v \in Thread : IsIn(v, SubTableOf[r], BucketAt(r)) =>
       ReadsInside(v) /\ SubTabs!Reads(t))'
  <2> SUFFICES ASSUME NEW r \in met'[t], NEW v \in Thread, IsIn(v, SubTableOf[r], BucketAt(r))'
               PROVE  ReadsInside(v)' /\ SubTabs!Reads(t)'
    OBVIOUS
  <2>1. r \in Record
    BY <1>c, <1>h, <1>j
  <2>2. PICK c \in SubTabs!Bucket : BucketAt(r)' = c
    BY <1>i, <2>1
  <2>3. SubTableOf[r] \in SubTabs!SubTable /\ IsIn(v, SubTableOf[r], c)'
    BY <1>i, <2>1, <2>2 DEF IsIn
  <2>4. v # t /\ IsIn(v, SubTableOf[r], c) /\ (ReadsInside(v)' <=> ReadsInside(v))
    BY <1>k, <2>3
  <2>5. CASE NobodyIn(t, SubTableOf[r])
    BY <2>3, <2>4, <2>5 DEF NobodyIn
  <2>6. CASE subActive'[SubTableOf[r]] = subActive[SubTableOf[r]]
    <3>1. c = BucketAt(r)
      BY <1>i, <2>1, <2>2, <2>6
    <3>2. CASE r \in met[t]
      BY <1>d, <2>4, <3>1, <3>2 DEF WalkOf
    <3>3. CASE r \in SubTabs!Here(t)
      BY <1>b, <1>d, <1>h, <2>4, <3>1, <3>3
    <3> QED BY <1>c, <3>2, <3>3
  <2> QED BY <1>f, <2>3, <2>5, <2>6
<1>3. (\A r \in met[t] : ~AheadOf(t, SubTableOf[r], BucketAt(r)))'
  <2> SUFFICES ASSUME NEW r \in met'[t] PROVE ~AheadOf(t, SubTableOf[r], BucketAt(r))'
    OBVIOUS
  <2>1. r \in Record
    BY <1>c, <1>h, <1>j
  <2>2. PICK c \in SubTabs!Bucket : BucketAt(r)' = c
    BY <1>i, <2>1
  <2> SUFFICES ~AheadOf(t, SubTableOf[r], c)'
    BY <2>2 DEF AheadOf
  <2>3. SubTableOf[r] \in SubTabs!SubTable
    BY <1>i, <2>1
  <2>4. CASE SubTableOf[r] = s0 /\ sub'[t] = sub[t] + 1
    BY <1>g, <2>3, <2>4
  <2>5. CASE subActive'[SubTableOf[r]] = subActive[SubTableOf[r]]
    <3>1. c = BucketAt(r)
      BY <1>i, <2>1, <2>2, <2>5
    <3>2. CASE r \in met[t]
      <4>1. ~AheadOf(t, SubTableOf[r], c)
        BY <1>d, <3>1, <3>2 DEF WalkOf
      <4> QED BY <1>g, <2>3, <4>1
    <3>3. CASE r \in SubTabs!Here(t)
      BY <1>g, <1>h, <2>3, <3>1, <3>3
    <3> QED BY <1>c, <3>2, <3>3
  <2> QED BY <1>f, <2>3, <2>4, <2>5
<1>4. (removed[t] \subseteq met[t] /\ met[t] \subseteq SubTabs!Table \cup removed[t])'
  BY <1>c, <1>d, <1>e DEF WalkOf
<1>5. (removed[t] \cap SubTabs!Table = {})'
  BY <1>c, <1>d, <1>e DEF WalkOf
<1>6. (lkp[t] = "LKP_PERFORM" => \A r \in SubTabs!Table :
       ~AheadOf(t, SubTableOf[r], BucketAt(r)) => r \in met[t])'
  <2> SUFFICES ASSUME lkp[t] = "LKP_PERFORM", NEW r \in SubTabs!Table',
                      ~AheadOf(t, SubTableOf[r], BucketAt(r))'
               PROVE  r \in met'[t]
    BY <1>b
  <2> DEFINE s == SubTableOf[r]
  <2>1. /\ r \in SubTabs!Table /\ r \in Record /\ s \in SubTabs!SubTable /\ BucketAt(r) \in SubTabs!Bucket
        /\ \/ r \in bucket[s][BucketAt(r)]
           \/ \E u \in Thread : subPc[u] = "move" /\ SubTabs!Home(u) = s /\ r \in moving[u]
    BY <1>e, WhereIs
  <2>2. CASE subActive'[s] = subActive[s]
    <3>1. ~AheadOf(t, s, BucketAt(r))'
      BY <1>i, <2>1, <2>2
    <3>2. PICK c \in SubTabs!Bucket : c = BucketAt(r) /\ c = BucketAt(r)'
      BY <1>i, <2>1, <2>2
    <3>3. ~AheadOf(t, s, c)'
      BY <3>2 DEF AheadOf
    <3>4. CASE ~AheadOf(t, s, c)
      BY <1>c, <1>d, <2>1, <3>2, <3>4 DEF WalkOf
    <3>5. CASE s = s0 /\ c = b0
      <4>1. CASE r \in bucket[s][BucketAt(r)]
        BY <1>c, <3>2, <3>5, <4>1 DEF SubTabs!Here, s0, b0
      <4>2. CASE \E u \in Thread : subPc[u] = "move" /\ SubTabs!Home(u) = s /\ r \in moving[u]
        BY <1>b, <3>5, <4>2 DEF IsIn, ReadsInside, SubTabs!Home
      <4> QED BY <2>1, <4>1, <4>2
    <3>6. CASE s = s0 /\ c = 1 /\ b0 = 0 /\ subActive[s0] = 1
      BY <3>2, <3>6 DEF BucketAt, SubTabs!BucketOf
    <3> QED BY <1>g, <2>1, <3>3, <3>4, <3>5, <3>6
  <2>3. CASE NobodyIn(t, s) /\ \A b \in SubTabs!Bucket : bucket'[s][b] = {}
    <3>1. CASE \E q \in SubTabs!SubTable, b \in SubTabs!Bucket : r \in bucket'[q][b]
      <4>1. PICK q \in SubTabs!SubTable, b \in SubTabs!Bucket : r \in bucket'[q][b]
        BY <3>1
      <4>2. s = q
        BY <4>1, HomeKept DEF HomeInv
      <4> QED BY <2>3, <4>1, <4>2
    <3>2. CASE \E u \in Thread : r \in moving'[u]
      <4>1. PICK u \in Thread : r \in moving[u]
        BY <1>b, <3>2
      <4>2. subPc[u] = "move" /\ SubTabs!Home(u) = s
        BY <4>1 DEF SubInv, HomeInv
      <4>3. IsIn(u, s, 0) /\ 0 \in SubTabs!Bucket /\ u # t
        BY <1>b, <4>2 DEF IsIn, SubTabs!Home, SubTabs!Bucket
      <4> QED BY <2>3, <4>3 DEF NobodyIn
    <3> QED BY <3>1, <3>2, InTable
  <2> QED BY <1>f, <2>1, <2>2, <2>3
<1> QED BY <1>1, <1>2, <1>3, <1>4, <1>5, <1>6 DEF WalkOf

LEMMA LeaveWalkKept ==
  ASSUME SubInv, NEW t \in Thread, SubStep(t), SubTabs!LeaveBucket(t)
  PROVE  WalkOf(t)'
<1>a. SubTabs!TypeOK /\ SubCallInv /\ WhereInv
  BY DEF SubInv
<1>b. /\ subPc[t] = "walk" /\ subPc'[t] = "walk" /\ UNCHANGED <<subOp, moving, subActive>>
      /\ sub[t] \in SubTabs!SubTable /\ bkt[t] \in SubTabs!Bucket
      /\ \A u \in Thread : IsIn(u, sub[t], bkt[t]) => SubTabs!Reads(t) /\ ReadsInside(u)
      /\ lkp'[t] # "LKP_PERFORM" /\ sub'[t] > sub[t] /\ sub'[t] \in Nat
  BY <1>a, LeaveEffect
<1>c. PICK asked0 \in SUBSET SubTabs!Here(t) : \E gone \in SUBSET asked0 :
        /\ met'[t] = met[t] \cup asked0 /\ removed'[t] = removed[t] \cup gone
        /\ ChainBecomes(sub[t], bkt[t], SubTabs!Here(t) \ gone)
  BY <1>a, LeaveEffect
<1>d. PICK gone \in SUBSET asked0 :
        /\ met'[t] = met[t] \cup asked0 /\ removed'[t] = removed[t] \cup gone
        /\ ChainBecomes(sub[t], bkt[t], SubTabs!Here(t) \ gone)
  BY <1>c
<1>e. WalkOf(t) /\ (SubTabs!Reads(t)' <=> SubTabs!Reads(t)) /\ \A r : BucketAt(r)' = BucketAt(r)
  BY <1>b DEF SubInv, WalkInv, SubTabs!Reads, BucketAt
<1>f. SubTabs!Table' = SubTabs!Table \ gone /\ SubTabs!Here(t) \subseteq SubTabs!Table
  <2>1. gone \in SUBSET SubTabs!Here(t)
    BY <1>c
  <2> QED BY <1>d, <2>1, TableVisited
<1>h. ASSUME NEW r \in SubTabs!Here(t)
      PROVE  SubTableOf[r] = sub[t] /\ BucketAt(r) = bkt[t] /\ r \in Record
  BY <1>a, <1>b DEF SubInv, HomeInv, SubTabs!Here, SubTabs!TypeOK
<1>i. \A r \in Record : SubTableOf[r] \in SubTabs!SubTable /\ BucketAt(r) \in SubTabs!Bucket
  BY SubConstants DEF BucketAt, SubTabs!BucketOf, SubTabs!Bucket
<1>j. met[t] \subseteq Record /\ met'[t] \subseteq Record
  BY <1>a, <1>d, <1>h DEF SubTabs!TypeOK
<1>k. ASSUME NEW v \in Thread, NEW s \in SubTabs!SubTable, NEW b \in SubTabs!Bucket, IsIn(v, s, b)'
      PROVE  v # t /\ IsIn(v, s, b) /\ (ReadsInside(v)' <=> ReadsInside(v))
  <2>1. v # t
    BY <1>b, <1>k DEF IsIn
  <2> QED BY <1>k, <2>1, OthersStay
<1>2. (\A r \in met[t], v \in Thread : IsIn(v, SubTableOf[r], BucketAt(r)) =>
       ReadsInside(v) /\ SubTabs!Reads(t))'
  <2> SUFFICES ASSUME NEW r \in met'[t], NEW v \in Thread, IsIn(v, SubTableOf[r], BucketAt(r))'
               PROVE  ReadsInside(v)' /\ SubTabs!Reads(t)'
    OBVIOUS
  <2>1. PICK c \in SubTabs!Bucket : c = BucketAt(r) /\ c = BucketAt(r)'
    BY <1>e, <1>i, <1>j
  <2>2. SubTableOf[r] \in SubTabs!SubTable /\ IsIn(v, SubTableOf[r], c)'
    BY <1>i, <1>j, <2>1 DEF IsIn
  <2>3. v # t /\ IsIn(v, SubTableOf[r], c) /\ (ReadsInside(v)' <=> ReadsInside(v))
    BY <1>k, <2>2
  <2>4. CASE r \in met[t]
    BY <1>e, <2>1, <2>3, <2>4 DEF WalkOf
  <2>5. CASE r \in SubTabs!Here(t)
    BY <1>b, <1>e, <1>h, <2>1, <2>3, <2>5
  <2> QED BY <1>d, <2>4, <2>5
<1>3. (\A r \in met[t] : ~AheadOf(t, SubTableOf[r], BucketAt(r)))'
  <2> SUFFICES ASSUME NEW r \in met'[t] PROVE ~AheadOf(t, SubTableOf[r], BucketAt(r))'
    OBVIOUS
  <2>1. SubTableOf[r] \in Nat /\ sub[t] \in Nat
    BY <1>b, <1>i, <1>j DEF SubTabs!SubTable
  <2>2. ~(SubTableOf[r] > sub[t])
    <3>1. CASE r \in met[t]
      BY <1>e, <3>1 DEF WalkOf, AheadOf
    <3>2. CASE r \in SubTabs!Here(t)
      BY <1>h, <2>1, <3>2
    <3> QED BY <1>d, <3>1, <3>2
  <2> QED BY <1>b, <2>1, <2>2 DEF AheadOf
<1>4. (removed[t] \subseteq met[t] /\ met[t] \subseteq SubTabs!Table \cup removed[t])'
  BY <1>d, <1>e, <1>f DEF WalkOf
<1>5. (removed[t] \cap SubTabs!Table = {})'
  BY <1>d, <1>e, <1>f DEF WalkOf
<1> QED BY <1>b, <1>2, <1>3, <1>4, <1>5 DEF WalkOf

LEMMA WalkKept ==
  ASSUME SubInv, NEW t \in Thread, SubStep(t)
  PROVE  WalkInv'
<1>a. SubTabs!TypeOK /\ SubCallInv /\ WhereInv
  BY DEF SubInv
<1>1. ASSUME NEW w \in Thread \ {t}, subPc'[w] = "walk" PROVE WalkOf(w)'
  BY <1>1, <1>a, SubFrame, OtherWalkKept
<1>2. ASSUME subPc'[t] = "walk" PROVE WalkOf(t)'
  <2> USE DEF SubTabs!Goto
  <2>1. CASE SubTabs!LockAll(t)
    <3>1. subPc[t] = "lockAll" /\ sub'[t] = 0
      BY <1>2, <1>a, <2>1, AllEffect
    <3>2. bkt[t] = 0 /\ met[t] = {} /\ removed[t] = {}
      BY <1>a, <3>1 DEF WhereInv
    <3>3. UNCHANGED <<bkt, met, removed>>
      BY <2>1 DEF SubTabs!LockAll
    <3>4. \A s \in SubTabs!SubTable, b \in SubTabs!Bucket : AheadOf(t, s, b)'
      BY <3>1, <3>2, <3>3 DEF AheadOf, SubTabs!SubTable, SubTabs!Bucket
    <3>5. \A r \in SubTabs!Table' : AheadOf(t, SubTableOf[r], BucketAt(r))'
      <4>1. UNCHANGED <<bucket, moving, subActive>>
        BY <2>1 DEF SubTabs!LockAll, SubTabs!records
      <4>2. UNCHANGED SubTabs!Table /\ \A r : BucketAt(r)' = BucketAt(r)
        BY <4>1 DEF SubTabs!Table, BucketAt
      <4>3. ASSUME NEW r \in SubTabs!Table PROVE AheadOf(t, SubTableOf[r], BucketAt(r))'
        <5>1. SubTableOf[r] \in SubTabs!SubTable /\ BucketAt(r)' \in SubTabs!Bucket
          BY <4>2, <4>3, WhereIs
        <5> QED BY <3>1, <3>2, <3>3, <5>1 DEF AheadOf, SubTabs!SubTable, SubTabs!Bucket
      <4> QED BY <4>2, <4>3
    <3> QED BY <3>2, <3>3, <3>4, <3>5 DEF WalkOf
  <2>2. CASE SubTabs!VisitBucket(t)
    BY <2>2, VisitWalkKept
  <2>3. CASE SubTabs!LeaveBucket(t)
    BY <2>3, LeaveWalkKept
  <2>4. CASE SubTabs!UnlockAll(t)
    BY <1>2, <1>a, <2>4, AllEffect
  <2>5. CASE \E o \in SubTableOpNames, r \in Record : SubTabs!Invoke(t, o, r)
    BY <1>2, <1>a, <2>5 DEF SubTabs!Invoke, SubCallInv
  <2>6. CASE SubTabs!LockSubTable(t) \/ SubTabs!LockBucket(t) \/ SubTabs!NoResize(t)
             \/ SubTabs!LockToResize(t) \/ SubTabs!EndWalk(t) \/ SubTabs!ResizeTable(t)
             \/ SubTabs!MoveRecords(t)
    BY <1>2, <1>a, <2>6 DEF SubTabs!LockSubTable, SubTabs!LockBucket, SubTabs!NoResize,
       SubTabs!LockToResize, SubTabs!EndWalk, SubTabs!ResizeTable, SubTabs!MoveRecords, SubCallInv
  <2>7. CASE SubTabs!Insert(t) \/ SubTabs!DeleteKey(t) \/ SubTabs!FindKey(t)
    BY <1>2, <1>a, <2>7 DEF SubTabs!Insert, SubTabs!DeleteKey, SubTabs!FindKey, SubCallInv
  <2> QED BY <2>1, <2>2, <2>3, <2>4, <2>5, <2>6, <2>7, Zenon DEF SubStep, SubTabs!Step
<1> QED BY <1>1, <1>2, Zenon DEF WalkInv

LEMMA SubStart == SubTabs!Init => SubInv
<1> SUFFICES ASSUME SubTabs!Init PROVE SubInv
  OBVIOUS
<1> USE DEF SubTabs!Init
<1>1. /\ \A s \in SubTabs!SubTable, b \in SubTabs!Bucket :
           bucket[s][b] = {r \in SubTableRecords : SubTableOf[r] = s /\ BucketAt(r) = b}
      /\ 0 \in 0 .. m_cSubTables /\ 0 \in SubTabs!Bucket
  BY SubConstants DEF SubTabs!Fill, BucketAt, SubTabs!Bucket
<1>2. SubTabs!TypeOK
  <2>1. bucket \in [SubTabs!SubTable -> [SubTabs!Bucket -> SUBSET Record]]
    BY SubConstants DEF SubTabs!Fill
  <2> QED BY <1>1, <2>1 DEF SubTabs!TypeOK
<1>3. SubCallInv
  BY DEF SubCallInv, OnOne, OnAll, SomeRecord
<1>4. WhereInv
  BY SubConstants DEF WhereInv, OnAll, SubTabs!SubTable
<1>5. TableLocksInv
  BY DEF TableLocksInv, HoldsTable
<1>6. InsideInv
  BY DEF InsideInv, IsIn
<1>7. HomeInv
  BY <1>1 DEF HomeInv
<1>8. WalkInv
  BY DEF WalkInv
<1> QED BY <1>2, <1>3, <1>4, <1>5, <1>6, <1>7, <1>8 DEF SubInv

LEMMA SubKept == SubInv /\ [SubTabs!Next]_(SubTabs!vars) => SubInv'
<1>1. ASSUME SubInv, UNCHANGED SubTabs!vars PROVE SubInv'
  <2>1. /\ UNCHANGED <<bucket, subActive, moving, tableReaders, tableWriters, subOp, subRec>>
        /\ UNCHANGED <<subPc, sub, bkt, lkp, met, removed>>
    BY <1>1 DEF SubTabs!vars, SubTabs!records, SubTabs!tableLocks, SubTabs!call, SubTabs!walk
  <2>2. SubTabs!TypeOK' /\ SubCallInv' /\ WhereInv'
    BY <1>1, <2>1 DEF SubInv, SubTabs!TypeOK, SubCallInv, WhereInv
  <2>3. TableLocksInv' /\ InsideInv' /\ HomeInv'
    BY <1>1, <2>1 DEF SubInv, TableLocksInv, HoldsTable, SubTabs!Home, SubTabs!Reads, InsideInv,
       IsIn, ReadsInside, BucketAt, SubTabs!BucketOf, HomeInv
  <2>4. WalkInv'
    <3>1. UNCHANGED SubTabs!Table
      BY <2>1 DEF SubTabs!Table
    <3> QED BY <1>1, <2>1, <3>1 DEF SubInv, WalkInv, WalkOf, AheadOf, IsIn, ReadsInside, SubTabs!Reads,
          BucketAt, SubTabs!BucketOf
  <2> QED BY <2>2, <2>3, <2>4 DEF SubInv
<1>2. ASSUME SubInv, NEW t \in Thread, SubStep(t) PROVE SubInv'
  <2>1. SubTabs!TypeOK' /\ SubCallInv' /\ WhereInv'
    BY <1>2, SubTypesKept, SubCallsKept, WhereKept DEF SubInv
  <2>2. TableLocksInv' /\ InsideInv' /\ HomeInv' /\ WalkInv'
    BY <1>2, TableLocksKept, InsideKept, HomeKept, WalkKept
  <2> QED BY <2>1, <2>2 DEF SubInv
<1> QED BY <1>1, <1>2 DEF SubTabs!Next, SubStep

\* The variables of the subtables keep to their types.
LEMMA SubTypesOK == PartSpec => []SubTabs!TypeOK
<1>1. PartInit => SubInv
  BY SubStart DEF PartInit
<1>2. SubInv /\ [PartNext]_partVars => SubInv'
  BY StructureSteps, SubKept
<1>3. SubInv => SubTabs!TypeOK
  BY DEF SubInv
<1> QED BY <1>1, <1>2, <1>3, PTL DEF PartSpec

(***************************************************************************)
(* Whatever the number of subtables, threads and records, and however the  *)
(* subtables grow and shrink meanwhile, ApplyIf, DeleteIf and Clear ask    *)
(* about no record twice, and when nothing ends them before, about every   *)
(* record that is in the table at their end or that they have removed.     *)
(***************************************************************************)
THEOREM WalksAlwaysMeetRecords == PartSpec => []SubTabs!WalkMeetsRecords
<1>1. PartInit => SubInv
  BY SubStart DEF PartInit
<1>2. SubInv /\ [PartNext]_partVars => SubInv'
  BY StructureSteps, SubKept
<1>3. SubInv => SubTabs!WalkMeetsRecords
  <2> SUFFICES ASSUME SubInv, NEW t \in Thread, subPc[t] = "walk"
               PROVE  /\ SubTabs!Ahead(t) \cap met[t] = {}
                      /\ SubTabs!WalkedAll(t) /\ lkp[t] = "LKP_PERFORM" =>
                           met[t] = SubTabs!Table \cup removed[t]
    BY DEF SubTabs!WalkMeetsRecords
  <2>1. WalkOf(t)
    BY DEF SubInv, WalkInv
  <2>2. SubTabs!Ahead(t) \cap met[t] = {}
    BY <2>1 DEF WalkOf, SubTabs!Ahead, AheadOf, BucketAt
  <2>3. ASSUME SubTabs!WalkedAll(t), lkp[t] = "LKP_PERFORM"
        PROVE  met[t] = SubTabs!Table \cup removed[t]
    <3>1. ASSUME NEW r \in SubTabs!Table PROVE ~AheadOf(t, SubTableOf[r], BucketAt(r))
      <4>1. SubTableOf[r] \in SubTabs!SubTable
        BY <3>1, WhereIs
      <4> QED BY <2>3, <4>1, SubConstants DEF AheadOf, SubTabs!WalkedAll, SubTabs!SubTable
    <3> QED BY <2>1, <2>3, <3>1 DEF WalkOf
  <2> QED BY <2>2, <2>3
<1> QED BY <1>1, <1>2, <1>3, PTL DEF PartSpec

-----------------------------------------------------------------------------
(* CLKRHashTable implements RecordTable                                    *)

PhaseAt(p) == CASE p = "idle" -> "idle"
                [] p \in SubTabs!Called -> "called"
                [] OTHER -> "done"

LEMMA PhaseNow ==
  ASSUME NEW t \in Thread, SubTabs!TypeOK, SubCallInv, SubStep(t)
  PROVE  /\ SubTabs!Phase[t] = PhaseAt(subPc[t])
         /\ SubTabs!Phase' = [SubTabs!Phase EXCEPT ![t] = PhaseAt(subPc'[t])]
<1>1. /\ SubTabs!Phase = [u \in Thread |-> PhaseAt(subPc[u])]
      /\ SubTabs!Phase' = [u \in Thread |-> PhaseAt(subPc'[u])]
  BY DEF SubTabs!Phase, PhaseAt
<1>2. \A u \in Thread \ {t} : subPc'[u] = subPc[u]
  BY SubFrame
<1> HIDE DEF PhaseAt
<1> QED BY <1>1, <1>2

LEMMA PhasesAt ==
  /\ PhaseAt("idle") = "idle"
  /\ \A p : p \in {"table", "bucket", "work", "lockAll", "walk"} => PhaseAt(p) = "called"
  /\ \A p : p \in {"resize", "resizeLocked", "move", "unlockAll"} => PhaseAt(p) = "done"
BY DEF PhaseAt, SubTabs!Called

LEMMA InSeen ==
  /\ \A r : r \in SubTabs!Seen <=> r \in SubTabs!Table \/ \E u \in Thread : r \in removed[u]
  /\ \A r : r \in SubTabs!Seen' <=> r \in SubTabs!Table' \/ \E u \in Thread : r \in removed'[u]
<1> DEFINE gone == UNION {removed[u] : u \in Thread}
           goneNow == UNION {removed'[u] : u \in Thread}
<1>1. /\ \A r : r \in gone <=> \E u \in Thread : r \in removed[u]
      /\ \A r : r \in goneNow <=> \E u \in Thread : r \in removed'[u]
  OBVIOUS
<1>2. SubTabs!Seen = SubTabs!Table \cup gone /\ SubTabs!Seen' = SubTabs!Table' \cup goneNow
  BY DEF SubTabs!Seen
<1> HIDE DEF gone, goneNow
<1> QED BY <1>1, <1>2

\* The steps that RecordTable does not see.
LEMMA SubStutters ==
  ASSUME NEW t \in Thread, SubTabs!TypeOK, SubCallInv, SubStep(t), PhaseAt(subPc'[t]) = PhaseAt(subPc[t]),
         UNCHANGED <<subOp, subRec, subResult>>, UNCHANGED SubTabs!Seen
  PROVE  UNCHANGED SubTabs!Abstract!vars
<1>1. SubTabs!Phase' = [SubTabs!Phase EXCEPT ![t] = SubTabs!Phase[t]]
  BY PhaseNow
<1>2. UNCHANGED SubTabs!Phase
  BY <1>1 DEF SubTabs!Phase
<1>3. UNCHANGED SubTabs!Operation
  BY DEF SubTabs!Operation
<1> QED BY <1>2, <1>3 DEF SubTabs!Abstract!vars

\* The steps with which an operation ends that has taken effect already.
LEMMA SubReturns ==
  ASSUME NEW t \in Thread, SubTabs!TypeOK, SubCallInv, SubStep(t), PhaseAt(subPc[t]) = "done",
         subPc'[t] = "idle", UNCHANGED <<subOp, subRec, subResult>>, UNCHANGED SubTabs!Seen
  PROVE  SubTabs!Abstract!Return(t)
<1>1. UNCHANGED SubTabs!Operation
  BY DEF SubTabs!Operation
<1> QED BY <1>1, PhaseNow, PhasesAt DEF SubTabs!Abstract!Return

\* The steps in which an operation takes effect.
LEMMA SubEffects ==
  ASSUME NEW t \in Thread, SubTabs!TypeOK, SubCallInv, SubStep(t), NEW res,
         PhaseAt(subPc[t]) = "called", PhaseAt(subPc'[t]) \in {"idle", "done"}, UNCHANGED subOp,
         subResult' = [subResult EXCEPT ![t] = res]
  PROVE  SubTabs!Abstract!Effect(t, res)
<1>1. UNCHANGED SubTabs!Operation
  BY DEF SubTabs!Operation
<1> QED BY <1>1, PhaseNow DEF SubTabs!Abstract!Effect

\* A walk that removes records has the table to itself.
LEMMA WhoRemoves ==
  ASSUME SubInv, NEW w \in Thread, removed[w] # {}
  PROVE  /\ subPc[w] = "walk" /\ ~SubTabs!Reads(w) /\ WalkOf(w)
         /\ \A t \in Thread \ {w} : subPc[t] # "walk"
<1>1. subPc[w] = "walk" /\ ~SubTabs!Reads(w) /\ WalkOf(w)
  BY DEF SubInv, WhereInv, SubCallInv, OnAll, SubTabs!Reads, WalkInv
<1> QED BY <1>1, BesideWalk

\* What an operation finds in its chain is what RecordTable finds in the table.
LEMMA SeesAll ==
  ASSUME SubInv, NEW t \in Thread, subPc[t] = "work"
  PROVE  SubTabs!Abstract!SameKey(t) = SubTabs!SameKey(t)
<1>1. /\ subRec[t] \in Record /\ SubTabs!Home(t) = SubTableOf[subRec[t]]
      /\ SubTabs!Home(t) \in SubTabs!SubTable /\ SubTabs!HomeBucket(t) \in SubTabs!Bucket
      /\ SubTabs!HomeBucket(t) = BucketAt(subRec[t])
      /\ IsIn(t, SubTabs!Home(t), SubTabs!HomeBucket(t))
  BY AtWork
<1>2. SubTabs!Chain(t) \subseteq SubTabs!Table
  BY <1>1, InTable DEF SubTabs!Chain
<1>3. ASSUME NEW r \in SubTabs!Seen, KeyOf[r] = KeyOf[subRec[t]] PROVE r \in SubTabs!Chain(t)
  <2>1. r \in Record
    BY InSeen, WhereIs DEF SubInv, SubTabs!TypeOK
  <2>2. SubTableOf[r] = SubTabs!Home(t) /\ BucketAt(r) = SubTabs!HomeBucket(t)
    BY <1>1, <1>3, <2>1, SubConstants DEF BucketAt, SubTabs!BucketOf
  <2>3. ASSUME NEW w \in Thread, r \in removed[w] PROVE FALSE
    <3>1. ~SubTabs!Reads(w) /\ WalkOf(w)
      BY <2>3, WhoRemoves
    <3>2. r \in met[w]
      BY <2>3, <3>1 DEF WalkOf
    <3> QED BY <1>1, <2>2, <3>1, <3>2 DEF WalkOf
  <2>4. r \in SubTabs!Table
    BY <2>3, InSeen
  <2>5. ASSUME NEW u \in Thread, subPc[u] = "move", SubTabs!Home(u) = SubTableOf[r] PROVE FALSE
    BY <1>1, <2>2, <2>5, MoverAlone
  <2>6. r \in bucket[SubTableOf[r]][BucketAt(r)]
    BY <2>4, <2>5, WhereIs
  <2> QED BY <2>2, <2>6 DEF SubTabs!Chain
<1>4. \A r \in SubTabs!Chain(t) : r \in SubTabs!Seen
  BY <1>2, InSeen
<1> QED BY <1>3, <1>4 DEF SubTabs!Abstract!SameKey, SubTabs!SameKey

\* The step with which a walk takes effect.
LEMMA WalkEnds ==
  ASSUME SubInv, NEW t \in Thread, SubStep(t), SubTabs!EndWalk(t)
  PROVE  SubTabs!Abstract!Apply(t) \/ SubTabs!Abstract!DeleteIf(t) \/ SubTabs!Abstract!Clear(t)
<1>a. SubTabs!TypeOK /\ SubCallInv /\ WhereInv
  BY DEF SubInv
<1>b. /\ subPc[t] = "walk" /\ subPc'[t] = "unlockAll" /\ UNCHANGED <<subOp, subRec>>
      /\ sub[t] = m_cSubTables /\ removed' = [removed EXCEPT ![t] = {}]
      /\ subResult' = [subResult EXCEPT ![t] = "SUCCESS"] /\ UNCHANGED SubTabs!Table
  <2>1. UNCHANGED <<bucket, moving>>
    BY DEF SubTabs!EndWalk, SubTabs!records
  <2>2. UNCHANGED SubTabs!Table
    BY <2>1 DEF SubTabs!Table
  <2> QED BY <1>a, <2>2 DEF SubTabs!EndWalk, SubTabs!Goto, SubTabs!Return, SubTabs!WalkedAll, SubCallInv
<1>c. SubTabs!Abstract!Effect(t, "SUCCESS")
  BY <1>a, <1>b, SubEffects, PhasesAt
<1>d. removed'[t] = {} /\ \A u \in Thread \ {t} : removed'[u] = removed[u]
  BY <1>a, <1>b DEF SubTabs!TypeOK
<1>e. subOp[t] \in {"Apply", "ApplyWrite", "DeleteIf", "Clear"}
  BY <1>a, <1>b DEF SubCallInv, OnAll
<1>1. CASE subOp[t] = "Apply"
  <2>1. \A u \in Thread : removed'[u] = removed[u]
    BY <1>a, <1>1, <1>d DEF WhereInv
  <2>2. UNCHANGED SubTabs!Seen
    BY <1>b, <2>1, InSeen
  <2> QED BY <1>1, <1>b, <1>c, <2>2 DEF SubTabs!Abstract!Apply, SubTabs!Operation
<1>2. CASE subOp[t] \in {"ApplyWrite", "DeleteIf"}
  <2>1. SubTabs!Seen' \subseteq SubTabs!Seen
    BY <1>b, <1>d, InSeen
  <2>2. PICK gone \in SUBSET SubTabs!Seen : SubTabs!Seen' = SubTabs!Seen \ gone
    <3>1. SubTabs!Seen' = SubTabs!Seen \ (SubTabs!Seen \ SubTabs!Seen')
      BY <2>1
    <3> QED BY <3>1
  <2>3. SubTabs!Operation[t] = "DeleteIf"
    BY <1>2 DEF SubTabs!Operation
  <2> QED BY <1>b, <1>c, <2>2, <2>3 DEF SubTabs!Abstract!DeleteIf
<1>3. CASE subOp[t] = "Clear"
  <2>1. ~SubTabs!Reads(t)
    BY <1>3 DEF SubTabs!Reads
  <2>2. \A u \in Thread \ {t} : removed[u] = {}
    BY <1>b, <2>1, BesideWalk, WhoRemoves
  <2>3. \A r : r \notin SubTabs!Table
    <3> SUFFICES ASSUME NEW r \in SubTabs!Table PROVE FALSE
      OBVIOUS
    <3>1. WalkOf(t) /\ met[t] = removed[t] /\ lkp[t] = "LKP_PERFORM"
      BY <1>a, <1>3, <1>b DEF SubInv, WalkInv, WhereInv
    <3>2. SubTableOf[r] \in SubTabs!SubTable
      BY WhereIs
    <3>3. ~AheadOf(t, SubTableOf[r], BucketAt(r))
      BY <1>b, <3>2, SubConstants DEF AheadOf, SubTabs!SubTable
    <3> QED BY <3>1, <3>3 DEF WalkOf
  <2>4. SubTabs!Seen' = {}
    BY <1>b, <1>d, <2>2, <2>3, InSeen
  <2> QED BY <1>3, <1>b, <1>c, <2>4 DEF SubTabs!Abstract!Clear, SubTabs!Operation
<1> QED BY <1>e, <1>1, <1>2, <1>3

\* Every step is a step of RecordTable, or one that it does not see.
LEMMA SubImplements ==
  ASSUME SubInv, NEW t \in Thread, SubStep(t)
  PROVE  SubTabs!Abstract!Next \/ UNCHANGED SubTabs!Abstract!vars
<1>a. SubTabs!TypeOK /\ SubCallInv /\ WhereInv
  BY DEF SubInv
<1>n. /\ SubTabs!Abstract!Invoke(t) \/ SubTabs!Abstract!Return(t) => SubTabs!Abstract!Next
      /\ SubTabs!Abstract!Insert(t) \/ SubTabs!Abstract!Delete(t) \/ SubTabs!Abstract!Find(t)
           => SubTabs!Abstract!Next
      /\ SubTabs!Abstract!Apply(t) \/ SubTabs!Abstract!DeleteIf(t) \/ SubTabs!Abstract!Clear(t)
           => SubTabs!Abstract!Next
  BY DEF SubTabs!Abstract!Next
<1> USE DEF SubTabs!Goto, SubTabs!Return, SubTabs!records, SubTabs!tableLocks, SubTabs!call, SubTabs!walk
<1>s. ASSUME UNCHANGED removed, ~SubTabs!VisitBucket(t), ~SubTabs!LeaveBucket(t),
             ~(SubTabs!Insert(t) \/ SubTabs!DeleteKey(t)) \/ bucket' = bucket
      PROVE  UNCHANGED SubTabs!Seen
  BY <1>s, TableSame DEF SubTabs!Seen
<1>1. CASE \E o \in SubTableOpNames, r \in Record : SubTabs!Invoke(t, o, r)
  <2>1. PICK o \in SubTableOpNames, r \in Record : SubTabs!Invoke(t, o, r)
    BY <1>1
  <2>2. /\ subPc[t] = "idle" /\ subPc'[t] \in {"table", "lockAll"} /\ UNCHANGED <<removed, bucket, moving>>
        /\ subOp' = [subOp EXCEPT ![t] = o] /\ subRec' = [subRec EXCEPT ![t] = r]
        /\ subResult' = [subResult EXCEPT ![t] = "NONE"]
    BY <1>a, <2>1 DEF SubTabs!Invoke, SubCallInv
  <2>3. PICK o2 \in SubTableOpNames \cup {"DeleteIf"} :
          SubTabs!Operation' = [SubTabs!Operation EXCEPT ![t] = o2]
    <3>1. SubTabs!Operation' =
            [SubTabs!Operation EXCEPT ![t] = IF o = "ApplyWrite" THEN "DeleteIf" ELSE o]
      BY <1>a, <2>2 DEF SubTabs!Operation, SubCallInv
    <3> QED BY <3>1
  <2>4. UNCHANGED SubTabs!Seen
    BY <2>2 DEF SubTabs!Seen, SubTabs!Table
  <2>5. SubTabs!Phase[t] = "idle" /\ SubTabs!Phase' = [SubTabs!Phase EXCEPT ![t] = "called"]
    BY <1>a, <2>2, PhaseNow, PhasesAt
  <2> QED BY <1>n, <2>2, <2>3, <2>4, <2>5 DEF SubTabs!Abstract!Invoke
<1>2. CASE \/ SubTabs!LockSubTable(t) \/ SubTabs!LockBucket(t) \/ SubTabs!LockToResize(t)
           \/ SubTabs!ResizeTable(t)
  <2>1. /\ UNCHANGED <<removed, subOp, subRec, subResult>>
        /\ \/ subPc[t] \in {"table", "bucket"} /\ subPc'[t] \in {"bucket", "work"}
           \/ subPc[t] \in {"resize", "resizeLocked"} /\ subPc'[t] \in {"resizeLocked", "move"}
    BY <1>a, <1>2 DEF SubTabs!LockSubTable, SubTabs!LockBucket, SubTabs!LockToResize,
       SubTabs!ResizeTable, SubCallInv
  <2>2. UNCHANGED SubTabs!Seen
    <3>1. subPc[t] \notin {"walk", "work"}
      BY <2>1
    <3> QED BY <1>s, <2>1, <3>1 DEF SubTabs!VisitBucket, SubTabs!LeaveBucket, SubTabs!Insert, SubTabs!DeleteKey
  <2> QED BY <1>a, <2>1, <2>2, SubStutters, PhasesAt
<1>3. CASE SubTabs!NoResize(t) \/ SubTabs!MoveRecords(t)
  <2>1. /\ UNCHANGED <<removed, subOp, subRec, subResult>>
        /\ subPc[t] \in {"resize", "move"} /\ subPc'[t] = "idle"
    BY <1>a, <1>3 DEF SubTabs!NoResize, SubTabs!MoveRecords, SubCallInv
  <2>2. UNCHANGED SubTabs!Seen
    <3>1. subPc[t] \notin {"walk", "work"}
      BY <2>1
    <3> QED BY <1>s, <2>1, <3>1 DEF SubTabs!VisitBucket, SubTabs!LeaveBucket, SubTabs!Insert, SubTabs!DeleteKey
  <2> QED BY <1>a, <1>n, <2>1, <2>2, SubReturns, PhasesAt
<1>4. CASE SubTabs!Insert(t)
  <2>1. /\ subPc[t] = "work" /\ subOp[t] = "Insert" /\ UNCHANGED <<removed, subOp, subRec>>
        /\ \/ /\ subPc'[t] = "idle" /\ SubTabs!SameKey(t) # {} /\ bucket' = bucket
              /\ subResult' = [subResult EXCEPT ![t] = "KEY_EXISTS"]
           \/ /\ subPc'[t] = "resize" /\ SubTabs!SameKey(t) = {}
              /\ subResult' = [subResult EXCEPT ![t] = "SUCCESS"]
              /\ SubTabs!SetChain(t, SubTabs!Chain(t) \cup {subRec[t]})
    BY <1>a, <1>4 DEF SubTabs!Insert, SubCallInv
  <2>2. SubTabs!Operation[t] = "Insert" /\ SubTabs!Abstract!SameKey(t) = SubTabs!SameKey(t)
    BY <2>1, SeesAll DEF SubTabs!Operation
  <2>3. CASE subPc'[t] = "idle" /\ SubTabs!SameKey(t) # {} /\ bucket' = bucket
             /\ subResult' = [subResult EXCEPT ![t] = "KEY_EXISTS"]
    <3>1. UNCHANGED SubTabs!Seen
      BY <1>s, <2>1, <2>3 DEF SubTabs!VisitBucket, SubTabs!LeaveBucket
    <3>2. SubTabs!Abstract!Effect(t, "KEY_EXISTS")
      BY <1>a, <2>1, <2>3, SubEffects, PhasesAt
    <3> QED BY <1>n, <2>1, <2>2, <2>3, <3>1, <3>2 DEF SubTabs!Abstract!Insert
  <2>4. CASE subPc'[t] = "resize" /\ SubTabs!SameKey(t) = {}
             /\ subResult' = [subResult EXCEPT ![t] = "SUCCESS"]
             /\ SubTabs!SetChain(t, SubTabs!Chain(t) \cup {subRec[t]})
    <3>1. SubTabs!Table' = SubTabs!Table \cup {subRec[t]}
      <4>1. CASE bucket' # bucket
        BY <1>4, <2>1, <4>1, TableChanged DEF SubTabs!DeleteKey
      <4>2. CASE bucket' = bucket
        <5>1. UNCHANGED SubTabs!Table
          BY <4>2, <2>1, TableSame DEF SubTabs!VisitBucket, SubTabs!LeaveBucket
        <5>2. /\ SubTabs!Home(t) \in SubTabs!SubTable /\ SubTabs!HomeBucket(t) \in SubTabs!Bucket
              /\ SubTabs!Chain(t) \cup {subRec[t]} \in SUBSET Record
          BY <2>1, AtWork
        <5>3. ChainBecomes(SubTabs!Home(t), SubTabs!HomeBucket(t), SubTabs!Chain(t) \cup {subRec[t]})
          BY <2>4 DEF SubTabs!SetChain, ChainBecomes
        <5>4. subRec[t] \in bucket'[SubTabs!Home(t)][SubTabs!HomeBucket(t)]
          BY <1>a, <5>2, <5>3, ChainTypes
        <5> QED BY <5>1, <5>2, <5>4, InTable
      <4> QED BY <4>1, <4>2
    <3>2. SubTabs!Seen' = SubTabs!Seen \cup {subRec[t]}
      BY <2>1, <3>1, InSeen
    <3>3. SubTabs!Abstract!Effect(t, "SUCCESS")
      BY <1>a, <2>1, <2>4, SubEffects, PhasesAt
    <3> QED BY <1>n, <2>1, <2>2, <2>4, <3>2, <3>3 DEF SubTabs!Abstract!Insert
  <2> QED BY <2>1, <2>3, <2>4
<1>5. CASE SubTabs!DeleteKey(t)
  <2>1. /\ subPc[t] = "work" /\ subOp[t] = "DeleteKey" /\ UNCHANGED <<removed, subOp, subRec>>
        /\ \/ /\ subPc'[t] = "idle" /\ SubTabs!SameKey(t) = {} /\ bucket' = bucket
              /\ subResult' = [subResult EXCEPT ![t] = "NO_SUCH_KEY"]
           \/ /\ subPc'[t] = "resize" /\ SubTabs!SameKey(t) # {}
              /\ subResult' = [subResult EXCEPT ![t] = "SUCCESS"]
              /\ SubTabs!SetChain(t, SubTabs!Chain(t) \ SubTabs!SameKey(t))
    BY <1>a, <1>5 DEF SubTabs!DeleteKey, SubCallInv
  <2>2. /\ SubTabs!Operation[t] = "DeleteKey" /\ SubTabs!Abstract!Victims(t) = SubTabs!SameKey(t)
    BY <2>1, SeesAll DEF SubTabs!Operation, SubTabs!Abstract!Victims
  <2>3. CASE subPc'[t] = "idle" /\ SubTabs!SameKey(t) = {} /\ bucket' = bucket
             /\ subResult' = [subResult EXCEPT ![t] = "NO_SUCH_KEY"]
    <3>1. UNCHANGED SubTabs!Seen
      BY <1>s, <2>1, <2>3 DEF SubTabs!VisitBucket, SubTabs!LeaveBucket
    <3>2. SubTabs!Abstract!Effect(t, "NO_SUCH_KEY")
      BY <1>a, <2>1, <2>3, SubEffects, PhasesAt
    <3> QED BY <1>n, <2>1, <2>2, <2>3, <3>1, <3>2 DEF SubTabs!Abstract!Delete
  <2>4. CASE subPc'[t] = "resize" /\ SubTabs!SameKey(t) # {}
             /\ subResult' = [subResult EXCEPT ![t] = "SUCCESS"]
             /\ SubTabs!SetChain(t, SubTabs!Chain(t) \ SubTabs!SameKey(t))
    <3>1. /\ SubTabs!Home(t) \in SubTabs!SubTable /\ SubTabs!HomeBucket(t) \in SubTabs!Bucket
          /\ SubTabs!Chain(t) \subseteq Record /\ SubTabs!SameKey(t) \subseteq SubTabs!Chain(t)
      BY <2>1, AtWork
    <3>2. SubTabs!SameKey(t) \subseteq SubTabs!Table
      BY <3>1, InTable DEF SubTabs!Chain
    <3>3. bucket' # bucket
      <4>1. ChainBecomes(SubTabs!Home(t), SubTabs!HomeBucket(t), SubTabs!Chain(t) \ SubTabs!SameKey(t))
        BY <2>4 DEF SubTabs!SetChain, ChainBecomes
      <4>2. SubTabs!Chain(t) \ SubTabs!SameKey(t) \in SUBSET Record
        BY <3>1
      <4>3. bucket'[SubTabs!Home(t)][SubTabs!HomeBucket(t)] = SubTabs!Chain(t) \ SubTabs!SameKey(t)
        BY <1>a, <3>1, <4>1, <4>2, ChainTypes
      <4> QED BY <2>4, <3>1, <4>3 DEF SubTabs!Chain
    <3>4. SubTabs!Table' = SubTabs!Table \ SubTabs!SameKey(t)
      BY <1>5, <2>1, <3>3, TableChanged DEF SubTabs!Insert
    <3>5. \A u \in Thread : removed[u] \cap SubTabs!SameKey(t) = {}
      BY <3>2, WhoRemoves DEF WalkOf
    <3>6. SubTabs!Seen' = SubTabs!Seen \ SubTabs!SameKey(t)
      BY <2>1, <3>4, <3>5, InSeen
    <3>7. SubTabs!Abstract!Effect(t, "SUCCESS")
      BY <1>a, <2>1, <2>4, SubEffects, PhasesAt
    <3> QED BY <1>n, <2>1, <2>2, <2>4, <3>6, <3>7 DEF SubTabs!Abstract!Delete
  <2> QED BY <2>1, <2>3, <2>4
<1>6. CASE SubTabs!FindKey(t)
  <2>1. /\ subPc[t] = "work" /\ subOp[t] = "FindKey" /\ UNCHANGED <<removed, subOp, bucket, moving>>
        /\ subPc'[t] = "idle"
        /\ \/ /\ SubTabs!SameKey(t) = {} /\ UNCHANGED subRec
              /\ subResult' = [subResult EXCEPT ![t] = "NO_SUCH_KEY"]
           \/ /\ subResult' = [subResult EXCEPT ![t] = "SUCCESS"]
              /\ \E r \in SubTabs!SameKey(t) : subRec' = [subRec EXCEPT ![t] = r]
    BY <1>a, <1>6 DEF SubTabs!FindKey, SubCallInv
  <2>2. SubTabs!Operation[t] = "FindKey" /\ SubTabs!Abstract!SameKey(t) = SubTabs!SameKey(t)
    BY <2>1, SeesAll DEF SubTabs!Operation
  <2>3. UNCHANGED SubTabs!Seen
    BY <2>1 DEF SubTabs!Seen, SubTabs!Table
  <2>4. \A res : subResult' = [subResult EXCEPT ![t] = res] => SubTabs!Abstract!Effect(t, res)
    BY <1>a, <2>1, SubEffects, PhasesAt
  <2> QED BY <1>n, <2>1, <2>2, <2>3, <2>4 DEF SubTabs!Abstract!Find
<1>7. CASE SubTabs!LockAll(t) \/ SubTabs!UnlockAll(t)
  <2>1. UNCHANGED <<removed, bucket, moving, subOp, subRec, subResult>>
    BY <1>7 DEF SubTabs!LockAll, SubTabs!UnlockAll
  <2>2. UNCHANGED SubTabs!Seen
    BY <2>1 DEF SubTabs!Seen, SubTabs!Table
  <2>3. \/ subPc[t] = "lockAll" /\ subPc'[t] \in {"lockAll", "walk"}
        \/ subPc[t] = "unlockAll" /\ subPc'[t] \in {"unlockAll", "idle"}
    BY <1>a, <1>7, AllEffect
  <2>4. CASE subPc[t] = "unlockAll" /\ subPc'[t] = "idle"
    BY <1>a, <1>n, <2>1, <2>2, <2>4, SubReturns, PhasesAt
  <2>5. CASE ~(subPc[t] = "unlockAll" /\ subPc'[t] = "idle")
    <3>1. PhaseAt(subPc'[t]) = PhaseAt(subPc[t])
      BY <2>3, <2>5, PhasesAt
    <3> QED BY <1>a, <2>1, <2>2, <3>1, SubStutters
  <2> QED BY <2>4, <2>5
<1>8. CASE SubTabs!VisitBucket(t) \/ SubTabs!LeaveBucket(t)
  <2>1. subPc'[t] = subPc[t] /\ UNCHANGED <<subOp, subRec, subResult>>
    BY <1>a, <1>8, VisitEffect, LeaveEffect
  <2>2. PICK gone \in SUBSET SubTabs!Here(t) :
          removed'[t] = removed[t] \cup gone /\ ChainBecomes(sub[t], bkt[t], SubTabs!Here(t) \ gone)
    <3>1. CASE SubTabs!VisitBucket(t)
      BY <1>a, <3>1, VisitEffect
    <3>2. CASE SubTabs!LeaveBucket(t)
      <4>1. PICK asked0 \in SUBSET SubTabs!Here(t) : \E gone \in SUBSET asked0 :
              removed'[t] = removed[t] \cup gone /\ ChainBecomes(sub[t], bkt[t], SubTabs!Here(t) \ gone)
        BY <1>a, <3>2, LeaveEffect
      <4> QED BY <4>1
    <3> QED BY <1>8, <3>1, <3>2
  <2>3. SubTabs!Table' = SubTabs!Table \ gone /\ SubTabs!Here(t) \subseteq SubTabs!Table
    BY <1>8, <2>2, TableVisited
  <2>4. \A u \in Thread \ {t} : removed'[u] = removed[u]
    BY <1>a, SubFrame
  <2>5. SubTabs!Seen' = SubTabs!Seen
    <3>1. ASSUME NEW r \in SubTabs!Seen PROVE r \in SubTabs!Seen'
      BY <2>2, <2>3, <2>4, <3>1, InSeen
    <3>2. ASSUME NEW r \in SubTabs!Seen' PROVE r \in SubTabs!Seen
      BY <2>2, <2>3, <2>4, <3>2, InSeen
    <3> QED BY <3>1, <3>2
  <2> QED BY <1>a, <2>1, <2>5, SubStutters
<1>9. CASE SubTabs!EndWalk(t)
  BY <1>n, <1>9, WalkEnds
<1> QED BY <1>1, <1>2, <1>3, <1>4, <1>5, <1>6, <1>7, <1>8, <1>9, Zenon DEF SubStep, SubTabs!Step

(***************************************************************************)
(* Whatever the number of subtables, threads and records, CLKRHashTable    *)
(* implements RecordTable: ApplyIf, DeleteIf and Clear, which lock one     *)
(* subtable after the other, take effect as if at one moment.              *)
(***************************************************************************)
THEOREM SubTablesAlwaysImplement == PartSpec => SubTablesImplement
<1>1. PartInit => SubInv /\ SubTabs!Abstract!Init
  <2> SUFFICES ASSUME SubTabs!Init PROVE SubTabs!Abstract!Init
    BY SubStart DEF PartInit
  <2>1. \A r \in SubTabs!Seen : r \in SubTableRecords
    <3>1. \A s \in SubTabs!SubTable, b \in SubTabs!Bucket : bucket[s][b] \subseteq SubTableRecords
      BY DEF SubTabs!Init, SubTabs!Fill
    <3>2. \A u \in Thread : moving[u] = {} /\ removed[u] = {}
      BY DEF SubTabs!Init
    <3> QED BY <3>1, <3>2, InTable, InSeen
  <2>2. SubTabs!Phase = [u \in Thread |-> "idle"]
    <3>1. SubTabs!Phase = [u \in Thread |-> PhaseAt(subPc[u])]
      BY DEF SubTabs!Phase, PhaseAt
    <3>2. \A u \in Thread : subPc[u] = "idle"
      BY DEF SubTabs!Init
    <3> HIDE DEF PhaseAt
    <3> QED BY <3>1, <3>2, PhasesAt
  <2>3. subResult = [u \in Thread |-> "NONE"]
    BY DEF SubTabs!Init
  <2> QED BY <2>1, <2>2, <2>3, SubConstants DEF SubTabs!Abstract!Init
<1>2. SubInv /\ [PartNext]_partVars => SubInv'
  BY StructureSteps, SubKept
<1>3. SubInv /\ [PartNext]_partVars =>
        [part = "subtables" => SubTabs!Abstract!Next]_(SubTabs!Abstract!vars)
  <2> SUFFICES ASSUME SubInv, [PartNext]_partVars
               PROVE  SubTabs!Abstract!Next \/ UNCHANGED SubTabs!Abstract!vars
    BY Zenon
  <2>1. [SubTabs!Next]_(SubTabs!vars)
    BY StructureSteps
  <2>2. CASE SubTabs!Next
    BY <2>2, SubImplements DEF SubTabs!Next, SubStep
  <2>3. CASE UNCHANGED SubTabs!vars
    BY <2>3 DEF SubTabs!vars, SubTabs!records, SubTabs!call, SubTabs!walk, SubTabs!Abstract!vars,
       SubTabs!Phase, SubTabs!Operation, SubTabs!Seen, SubTabs!Table
  <2> QED BY <2>1, <2>2, <2>3
<1> QED BY <1>1, <1>2, <1>3, PTL DEF PartSpec, SubTablesImplement
=============================================================================
