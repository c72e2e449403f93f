----------------------------- MODULE AllocCache -----------------------------
(***************************************************************************)
(* ALLOC_CACHE_HANDLER (IISLib/acache.cxx): blocks that are freed are kept *)
(* on a list per processor, up to a threshold, and are taken from there    *)
(* before the heap is asked.  The lists are the system's lock-free ones,   *)
(* whose depth is a number of 16 bits; a thread may move to another        *)
(* processor at any time, so that any thread may work on any list.  What   *)
(* is in a block, and m_nTotal, "just a hint for debugging", are left out. *)
(***************************************************************************)
EXTENDS Naturals, FiniteSets

CONSTANTS
  Thread, Processor,
  Block, NoBlock,     \* what the heap can give
  nThreshold,         \* as Initialize has limited it
  DepthModulus        \* QueryDepthSList answers modulo this

ASSUME CacheAssumption ==
  /\ IsFiniteSet(Thread) /\ Thread # {}
  /\ "no" \notin Processor
  /\ IsFiniteSet(Block) /\ NoBlock \notin Block
  /\ nThreshold \in Nat /\ DepthModulus \in Nat

\* Initialize lets a threshold of 16 bits pass, for which this does not hold:
\* a list that then grows to 2^16 blocks would look empty.
ASSUME DepthAssumption == nThreshold + Cardinality(Thread) <= DepthModulus

VARIABLES
  freeLists,   \* m_pFreeLists
  heapBlocks,  \* blocks that the heap has given and not got back
  inUse,       \* those of them that clients have
  block,       \* the block each thread is about to free
  pListHeader, \* the list each thread works on
  cachePc,
  toClean      \* the lists the destructor has not got to; "no" before it runs

cacheVars == <<freeLists, heapBlocks, inUse, block, pListHeader, cachePc, toClean>>

QueryDepthSList(p) == Cardinality(freeLists[p]) % DepthModulus

Init ==
  /\ freeLists = [p \in Processor |-> {}]
  /\ heapBlocks = {} /\ inUse = {}
  /\ block = [t \in Thread |-> NoBlock]
  /\ pListHeader \in [Thread -> Processor]
  /\ cachePc = [t \in Thread |-> "idle"]
  /\ toClean = {"no"}

Goto(t, from, to) == cachePc[t] = from /\ cachePc' = [cachePc EXCEPT ![t] = to]
Local(t, p) == pListHeader' = [pListHeader EXCEPT ![t] = p]

-----------------------------------------------------------------------------
(* Alloc                                                                   *)
StartAlloc(t, p) ==
  /\ toClean = {"no"}
  /\ Goto(t, "idle", IF nThreshold > 0 THEN "pop" ELSE "heapAlloc")
  /\ Local(t, p)
  /\ UNCHANGED <<freeLists, heapBlocks, inUse, block, toClean>>

\* Fault: the first block is read and not taken off.
PopLeavingBlock(t) ==
  LET list == freeLists[pListHeader[t]]
  IN  /\ \/ list = {} /\ Goto(t, "pop", "heapAlloc") /\ UNCHANGED inUse
         \/ Goto(t, "pop", "idle") /\ \E b \in list : inUse' = inUse \cup {b}
      /\ UNCHANGED <<freeLists, heapBlocks, block, pListHeader, toClean>>

Pop(t) ==
  LET list == freeLists[pListHeader[t]]
  IN  /\ \/ /\ list = {} /\ Goto(t, "pop", "heapAlloc")
            /\ UNCHANGED <<freeLists, inUse>>
         \/ /\ Goto(t, "pop", "idle")
            /\ \E b \in list :
                 /\ freeLists' = [freeLists EXCEPT ![pListHeader[t]] = @ \ {b}]
                 /\ inUse' = inUse \cup {b}
      /\ UNCHANGED <<heapBlocks, block, pListHeader, toClean>>

\* The heap may have none.
HeapAlloc(t) ==
  /\ Goto(t, "heapAlloc", "idle")
  /\ \/ \E b \in Block \ heapBlocks :
          heapBlocks' = heapBlocks \cup {b} /\ inUse' = inUse \cup {b}
     \/ UNCHANGED <<heapBlocks, inUse>>
  /\ UNCHANGED <<freeLists, block, pListHeader, toClean>>

-----------------------------------------------------------------------------
(* Free: the depth of the list is read and then the block is pushed.       *)
StartFree(t, p, b) ==
  /\ b \in inUse /\ inUse' = inUse \ {b}
  /\ toClean = {"no"}
  /\ Goto(t, "idle", "queryDepth")
  /\ block' = [block EXCEPT ![t] = b]
  /\ Local(t, p)
  /\ UNCHANGED <<freeLists, heapBlocks, toClean>>

\* Fault: the threshold itself is let pass.
KeepBlockAtThreshold(t) ==
  /\ QueryDepthSList(pListHeader[t]) <= nThreshold
  /\ Goto(t, "queryDepth", "push")
  /\ UNCHANGED <<freeLists, heapBlocks, inUse, block, pListHeader, toClean>>

KeepBlock(t) ==
  /\ QueryDepthSList(pListHeader[t]) < nThreshold
  /\ Goto(t, "queryDepth", "push")
  /\ UNCHANGED <<freeLists, heapBlocks, inUse, block, pListHeader, toClean>>

HeapFree(t) ==
  /\ QueryDepthSList(pListHeader[t]) >= nThreshold
  /\ Goto(t, "queryDepth", "idle")
  /\ heapBlocks' = heapBlocks \ {block[t]}
  /\ block' = [block EXCEPT ![t] = NoBlock]
  /\ UNCHANGED <<freeLists, inUse, pListHeader, toClean>>

Push(t) ==
  /\ Goto(t, "push", "idle")
  /\ freeLists' = [freeLists EXCEPT ![pListHeader[t]] = @ \cup {block[t]}]
  /\ block' = [block EXCEPT ![t] = NoBlock]
  /\ UNCHANGED <<heapBlocks, inUse, pListHeader, toClean>>

-----------------------------------------------------------------------------
(* The destructor, which runs when no thread uses the cache any more       *)
Destruct ==
  /\ toClean = {"no"} /\ \A t \in Thread : cachePc[t] = "idle"
  /\ toClean' = Processor
  /\ UNCHANGED <<freeLists, heapBlocks, inUse, block, pListHeader, cachePc>>

\* CleanupLookaside frees as many blocks as the depth says; one more that it
\* finds is taken from the list and lost.
CleanupLookaside(p) ==
  /\ p \in toClean /\ toClean' = toClean \ {p}
  /\ \E freed \in SUBSET freeLists[p] :
       /\ Cardinality(freed) = QueryDepthSList(p)
       /\ heapBlocks' = heapBlocks \ freed
       /\ \E lost \in SUBSET (freeLists[p] \ freed) :
            /\ Cardinality(lost) = IF freed = freeLists[p] THEN 0 ELSE 1
            /\ freeLists' = [freeLists EXCEPT ![p] = @ \ (freed \cup lost)]
  /\ UNCHANGED <<inUse, block, pListHeader, cachePc>>

CacheStep(t) == Pop(t) \/ HeapAlloc(t) \/ KeepBlock(t) \/ HeapFree(t) \/ Push(t)

Next ==
  \/ \E t \in Thread :
       \/ CacheStep(t)
       \/ \E p \in Processor : StartAlloc(t, p) \/ \E b \in Block : StartFree(t, p, b)
  \/ Destruct
  \/ \E p \in Processor : CleanupLookaside(p)

Spec == Init /\ [][Next]_cacheVars

-----------------------------------------------------------------------------
TypeOK ==
  /\ freeLists \in [Processor -> SUBSET Block]
  /\ heapBlocks \in SUBSET Block /\ inUse \in SUBSET Block
  /\ block \in [Thread -> Block \cup {NoBlock}]
  /\ pListHeader \in [Thread -> Processor]
  /\ cachePc \in [Thread -> {"idle", "pop", "heapAlloc", "queryDepth", "push"}]

(***************************************************************************)
(* Every block that the heap has given is on one list, with one client or  *)
(* with one thread that frees it; once the destructor is through, only     *)
(* clients have any.                                                       *)
(***************************************************************************)
Hands == [t \in Thread |-> {block[t]} \ {NoBlock}]

BlocksAccounted ==
  /\ heapBlocks = UNION {inUse, UNION {freeLists[p] : p \in Processor},
                                UNION {Hands[t] : t \in Thread}}
  /\ \A p \in Processor :
       /\ freeLists[p] \cap inUse = {}
       /\ \A q \in Processor \ {p} : freeLists[p] \cap freeLists[q] = {}
       /\ \A t \in Thread : freeLists[p] \cap Hands[t] = {}
  /\ toClean = {} => heapBlocks = inUse

(***************************************************************************)
(* A list outgrows the threshold by less than the number of threads that   *)
(* have read its depth and not yet pushed, and so it does not get as long  *)
(* that its depth, modulo 2^16, looks small again.                         *)
(***************************************************************************)
DepthBounded ==
  \A p \in Processor : Cardinality(freeLists[p]) < nThreshold + Cardinality(Thread)
=============================================================================
