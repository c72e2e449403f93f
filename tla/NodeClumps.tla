----------------------------- MODULE NodeClumps -----------------------------
(***************************************************************************)
(* The bucket chains of a CLKRLinearHashTable, slot by slot.  A bucket     *)
(* holds its first CNodeClump; the others are allocated and linked behind  *)
(* it.  The module follows two buckets, one that _Expand splits and the    *)
(* one it creates, which _Contract merges back, through every operation    *)
(* that moves records between slots: _InsertRecord, _DeleteNode and its    *)
(* callers _DeleteKey, _DeleteIf and the iterator's Erase, _SplitRecordSet *)
(* and _MergeRecordSets with their lists of free clumps.  The bucket locks *)
(* exclude other threads here (LinearHash models them), and how many       *)
(* records the rest of the table holds, which decides when it grows and    *)
(* shrinks, is left open.                                                  *)
(***************************************************************************)
EXTENDS Integers, Sequences, FiniteSets

CONSTANTS
  ClumpRecord,     \* the records; clients identify them by their keys
  NullRecord,      \* NULL in a slot
  NODES_PER_CLUMP,
  SplitHomes       \* which records the split may move: a set of sets

ClumpAssumption ==
  /\ NODES_PER_CLUMP \in Nat \ {0}
  /\ NullRecord \notin ClumpRecord
  /\ SplitHomes \subseteq SUBSET ClumpRecord

VARIABLES
  movers,     \* the records whose signature addresses the new bucket
  activeBkts, \* 1 before the split, 2 after it
  chains,     \* the clumps of each bucket
  cClumps,    \* clumps allocated and not freed
  freeList,   \* the length of pncFreeList
  oldList,    \* what pncOldList runs through, its first clump on the stack
  slot,       \* iOldSlot and iNewSlot
  target,     \* which clump pncNewTarget is
  at,         \* bucket, clump and slot of the loop or iterator that runs
  riterLast,  \* where a range ends
  refCount,   \* references to each record
  due,        \* records that the loop has still to meet
  clumpPc

chainVars == <<chains, cClumps>>
splitVars == <<freeList, oldList, slot, target>>
clumpVars == <<movers, activeBkts, chainVars, splitVars, at, riterLast, refCount, due, clumpPc>>

Slots == 0 .. NODES_PER_CLUMP - 1
NODE_END == NODES_PER_CLUMP
Bkts == {0, 1}
EmptyClump == [i \in Slots |-> NullRecord]
EmptyChain == <<EmptyClump>>

UsedSlots(chain) == {p \in (DOMAIN chain) \X Slots : chain[p[1]][p[2]] # NullRecord}
EmptySlots(chain) == ((DOMAIN chain) \X Slots) \ UsedSlots(chain)
RecordsIn(chain) == {chain[p[1]][p[2]] : p \in UsedSlots(chain)}
Records == RecordsIn(chains[0]) \cup RecordsIn(chains[1]) \cup RecordsIn(oldList)
Before(p, q) == p[1] < q[1] \/ (p[1] = q[1] /\ p[2] < q[2])
First(positions) == CHOOSE p \in positions : \A q \in positions \ {p} : Before(p, q)

Positions(chs) == UNION {{<<b, p[1], p[2]>> : p \in UsedSlots(chs[b])} : b \in Bkts}
Precedes(p, q) == p[1] < q[1] \/ (p[1] = q[1] /\ Before(Tail(p), Tail(q)))
RecordsFrom(chs, q) == {chs[p[1]][p[2]][p[3]] : p \in {p \in Positions(chs) : ~Precedes(p, q)}}

Home(r) == IF activeBkts = 2 /\ r \in movers THEN 1 ELSE 0
End == <<-1, 0, 0>>
Here == chains[at[1]][at[2]][at[3]]

Init ==
  /\ movers \in SplitHomes /\ activeBkts = 1
  /\ chains = [b \in Bkts |-> EmptyChain] /\ cClumps = 0
  /\ freeList = 0 /\ oldList = <<>> /\ slot = [b \in Bkts |-> 0] /\ target = 1
  /\ refCount = [r \in ClumpRecord |-> 0]
  /\ at = End /\ riterLast = End /\ due = {}
  /\ clumpPc = "idle"

-----------------------------------------------------------------------------
(* One record comes, one record goes.                                      *)

\* The scan stops at the first empty slot.  An insertion into an iterator does
\* not expand the table, so that it may come while another iterator is in use.
InsertRecord(r) ==
  LET b == Home(r)  empty == EmptySlots(chains[b])
  IN  /\ clumpPc \in {"idle", "iterate"} /\ r \notin Records
      /\ \/ /\ empty # {}
            /\ chains' = [chains EXCEPT ![b][First(empty)[1]][First(empty)[2]] = r]
            /\ UNCHANGED cClumps
         \/ /\ empty = {}
            /\ chains' = [chains EXCEPT ![b] = Append(@, [EmptyClump EXCEPT ![0] = r])]
            /\ cClumps' = cClumps + 1
      /\ refCount' = [refCount EXCEPT ![r] = @ + 1]
      /\ due' = IF clumpPc = "iterate" /\ b >= at[1] THEN due \cup {r} ELSE due
      /\ UNCHANGED <<movers, activeBkts, splitVars, at, riterLast, clumpPc>>

\* _DeleteNode fills the hole with the last record of the chain and frees the
\* last clump, unless it is the bucket's own, if that empties it ...
LastUsed(clump) == CHOOSE i \in Slots :
  /\ \A k \in 0 .. i : clump[k] # NullRecord
  /\ i + 1 \in Slots => clump[i + 1] = NullRecord

Filled(chain, j, i) ==
  LET last == Len(chain)  iLast == LastUsed(chain[last])
  IN  [[chain EXCEPT ![j][i] = chain[last][iLast]] EXCEPT ![last][iLast] = NullRecord]

\* Fault: the emptied clump stays.
WithoutNodeKeepingClump(chain, j, i) == Filled(chain, j, i)

WithoutNode(chain, j, i) ==
  IF LastUsed(chain[Len(chain)]) = 0 /\ Len(chain) # 1
  THEN SubSeq(Filled(chain, j, i), 1, Len(chain) - 1) ELSE Filled(chain, j, i)

\* ... and backs its caller up by one slot.
\* Fault: the caller stays at the slot that was filled again.
BackNowhere(p) == p

Back(p) ==
  CASE p[3] # 0 -> <<p[1], p[2], p[3] - 1>>
    [] p[3] = 0 /\ p[2] = 1 -> <<p[1], 1, -1>>
    [] OTHER -> <<p[1], p[2] - 1, NODE_END>>

DeleteNode(p) ==
  /\ chains' = [chains EXCEPT ![p[1]] = WithoutNode(@, p[2], p[3])]
  /\ cClumps' = cClumps - (Len(chains[p[1]]) - Len(chains'[p[1]]))

DeleteKey(r) ==
  /\ clumpPc = "idle"
  /\ \E p \in UsedSlots(chains[Home(r)]) :
       /\ chains[Home(r)][p[1]][p[2]] = r
       /\ DeleteNode(<<Home(r), p[1], p[2]>>)
  /\ refCount' = [refCount EXCEPT ![r] = @ - 1]
  /\ UNCHANGED <<movers, activeBkts, splitVars, at, riterLast, due, clumpPc>>

-----------------------------------------------------------------------------
(* _DeleteIf                                                               *)
StartDeleteIf ==
  /\ clumpPc = "idle" /\ clumpPc' = "deleteIf"
  /\ at' = <<0, 1, 0>> /\ due' = Records
  /\ UNCHANGED <<movers, activeBkts, chainVars, splitVars, riterLast, refCount>>

InClump == at[3] < NODE_END

\* The predicate is asked and says what becomes of the record.
AskPredicate(answer) ==
  /\ clumpPc = "deleteIf" /\ InClump /\ Here # NullRecord
  /\ \/ /\ answer \in {"LKP_ABORT", "LKP_NO_ACTION"}
        /\ at' = [at EXCEPT ![3] = @ + 1]
        /\ UNCHANGED <<chainVars, refCount>>
     \/ /\ answer \in {"LKP_PERFORM", "LKP_PERFORM_STOP"}
        /\ DeleteNode(at)
        /\ refCount' = [refCount EXCEPT ![Here] = @ - 1]
        /\ at' = [Back(at) EXCEPT ![3] = @ + 1]
  /\ IF answer \in {"LKP_ABORT", "LKP_PERFORM_STOP"}
     THEN clumpPc' = "idle" /\ due' = {}
     ELSE clumpPc' = "deleteIf" /\ due' = due \ {Here}
  /\ UNCHANGED <<movers, activeBkts, splitVars, riterLast>>

NextClump ==
  /\ clumpPc = "deleteIf" /\ ~InClump /\ at[2] < Len(chains[at[1]])
  /\ at' = <<at[1], at[2] + 1, 0>>
  /\ UNCHANGED <<movers, activeBkts, chainVars, splitVars, riterLast, refCount, due, clumpPc>>

\* An empty slot ends the bucket, and so does the end of the last clump.
NextBucket ==
  /\ clumpPc = "deleteIf"
  /\ IF InClump THEN Here = NullRecord ELSE at[2] = Len(chains[at[1]])
  /\ IF at[1] + 1 < activeBkts
     THEN at' = <<at[1] + 1, 1, 0>> /\ UNCHANGED clumpPc
     ELSE clumpPc' = "idle" /\ at' = End
  /\ UNCHANGED <<movers, activeBkts, chainVars, splitVars, riterLast, refCount, due>>

-----------------------------------------------------------------------------
(* Iterators                                                               *)

\* Where _Increment finds the next record: in the next slot of the clump, or
\* else in the first slot of the next clump or bucket that has one there.
Following(chs, p) ==
  LET later == {q \in UNION {{b} \X (DOMAIN chs[b]) : b \in 0 .. activeBkts - 1} :
                  Before(p, q) /\ chs[q[1]][q[2]][0] # NullRecord}
  IN  IF p[3] + 1 \in Slots /\ chs[p[1]][p[2]][p[3] + 1] # NullRecord
      THEN <<p[1], p[2], p[3] + 1>>
      ELSE IF later = {} THEN End ELSE <<First(later)[1], First(later)[2], 0>>

\* An iterator leaves p, holding no reference, for the record that follows.
Increment(chs, p, refs) ==
  LET q == Following(chs, p)
  IN  /\ at' = q
      /\ refCount' = IF q = End THEN refs
                     ELSE [refs EXCEPT ![chs[q[1]][q[2]][q[3]]] = @ + 1]

BeginIteration ==
  /\ clumpPc = "idle"
  /\ Increment(chains, <<0, 1, -1>>, refCount)
  /\ due' = Records
  /\ clumpPc' = IF at' = End THEN "idle" ELSE "iterate"
  /\ UNCHANGED <<movers, activeBkts, chainVars, splitVars, riterLast>>

IncrementIterator ==
  /\ clumpPc = "iterate"
  /\ Increment(chains, at, [refCount EXCEPT ![Here] = @ - 1])
  /\ due' = due \ {Here}
  /\ clumpPc' = IF at' = End THEN "idle" ELSE "iterate"
  /\ UNCHANGED <<movers, activeBkts, chainVars, splitVars, riterLast>>

\* Both the iterator's reference and the table's are released.
EraseHere ==
  /\ DeleteNode(at)
  /\ Increment(chains', Back(at), [refCount EXCEPT ![Here] = @ - 2])

EraseAtIterator ==
  /\ clumpPc = "iterate"
  /\ EraseHere
  /\ due' = due \ {Here}
  /\ clumpPc' = IF at' = End THEN "idle" ELSE "iterate"
  /\ UNCHANGED <<movers, activeBkts, splitVars, riterLast>>

\* The caller of Erase(riterFirst, riterLast) has iterated up to riterFirst;
\* riterLast is the end, or a position behind the first one: then due becomes
\* the records in between.
StartEraseRange ==
  /\ clumpPc = "iterate" /\ clumpPc' = "eraseRange"
  /\ \/ UNCHANGED <<riterLast, due>>
     \/ \E q \in {q \in Positions(chains) : Precedes(at, q)} :
          /\ riterLast' = q
          /\ due' = RecordsFrom(chains, at) \ RecordsFrom(chains, q)
  /\ UNCHANGED <<movers, activeBkts, chainVars, splitVars, at, refCount>>

\* The loop ends at the end or where riterLast pointed to when it began, and
\* its caller goes on from there.
EraseRange ==
  /\ clumpPc = "eraseRange"
  /\ EraseHere
  /\ CASE at' = End -> clumpPc' = "idle" /\ due' = IF riterLast = End THEN due \ {Here} ELSE {}
       [] at' = riterLast /\ at' # End -> clumpPc' = "iterate" /\ due' = RecordsFrom(chains', at')
       [] OTHER -> clumpPc' = "eraseRange" /\ due' = due \ {Here}
  /\ riterLast' = IF clumpPc' = "eraseRange" THEN riterLast ELSE End
  /\ UNCHANGED <<movers, activeBkts, splitVars>>

-----------------------------------------------------------------------------
(* _Expand and _SplitRecordSet                                             *)

\* Fault: no clump is kept for the records that spread over both chains.
SplitPrimeNone(chain) == 0

\* One clump primes the list if the old bucket has more than one.
SplitPrime(chain) == IF Len(chain) > 1 THEN 1 ELSE 0

\* If the clump cannot be allocated nothing happens.
Expand ==
  /\ clumpPc = "idle" /\ activeBkts = 1
  /\ clumpPc' = "split" /\ activeBkts' = 2
  /\ freeList' = SplitPrime(chains[0]) /\ cClumps' = cClumps + freeList'
  /\ oldList' = chains[0] /\ chains' = [b \in Bkts |-> EmptyChain]
  /\ slot' = [b \in Bkts |-> 0] /\ at' = <<0, 1, 0>>
  /\ UNCHANGED <<movers, target, riterLast, refCount, due>>

Moving == oldList[at[2]][at[3]]
MovingRemoved == [oldList EXCEPT ![at[2]][at[3]] = NullRecord]

\* A record is appended to chain b, whose clumps are full.
AppendFromFreeList(b) ==
  /\ freeList' = freeList - 1
  /\ chains' = [chains EXCEPT ![b] = Append(@, [EmptyClump EXCEPT ![0] = Moving])]

\* The record that is moved next, or there is no clump to move it to.
MovesOn(lacksClump) ==
  /\ IF lacksClump THEN clumpPc' = "nullClump" ELSE UNCHANGED clumpPc
  /\ oldList' = MovingRemoved
  /\ at' = [at EXCEPT ![3] = @ + 1]
  /\ UNCHANGED <<movers, activeBkts, cClumps, riterLast, refCount, due>>

SplitRecord ==
  LET b == Home(Moving)
  IN  /\ clumpPc = "split" /\ InClump /\ Moving # NullRecord
      /\ \/ /\ slot[b] = NODE_END
            /\ AppendFromFreeList(b)
            /\ slot' = [slot EXCEPT ![b] = 1]
         \/ /\ slot[b] # NODE_END
            /\ chains' = [chains EXCEPT ![b][Len(chains[b])][slot[b]] = Moving]
            /\ slot' = [slot EXCEPT ![b] = @ + 1]
            /\ UNCHANGED freeList
      /\ MovesOn(slot[b] = NODE_END /\ freeList = 0)
      /\ UNCHANGED target

SkipEmptySlot ==
  /\ clumpPc \in {"split", "merge"} /\ InClump /\ Moving = NullRecord
  /\ at' = [at EXCEPT ![3] = @ + 1]
  /\ UNCHANGED <<movers, activeBkts, chainVars, splitVars, riterLast, refCount, due, clumpPc>>

\* A clump that has been emptied goes to the free list, the first one, on the
\* stack, excepted; what is left of the list in the end is freed.
NextOldClump ==
  LET emptied == freeList + (IF at[2] > 1 THEN 1 ELSE 0)
  IN  /\ clumpPc \in {"split", "merge"} /\ ~InClump
      /\ \/ /\ at[2] < Len(oldList)
            /\ at' = <<0, at[2] + 1, 0>> /\ freeList' = emptied
            /\ UNCHANGED <<cClumps, oldList, slot, target, clumpPc>>
         \/ /\ at[2] = Len(oldList)
            /\ freeList' = 0 /\ cClumps' = cClumps - emptied
            /\ at' = End /\ oldList' = <<>> /\ slot' = [b \in Bkts |-> 0] /\ target' = 1
            /\ clumpPc' = "idle"
      /\ UNCHANGED <<movers, activeBkts, chains, riterLast, refCount, due>>

-----------------------------------------------------------------------------
(* _Contract and _MergeRecordSets                                          *)
NextEmpty(clump, i) ==
  CHOOSE k \in i .. NODE_END :
    /\ \A m \in i .. k - 1 : clump[m] # NullRecord
    /\ k # NODE_END => clump[k] = NullRecord

\* The first clump from the k-th on with an empty slot, or else the last one.
TargetClump(chain, k) ==
  CHOOSE j \in k .. Len(chain) :
    /\ \A m \in k .. j - 1 : NextEmpty(chain[m], 0) = NODE_END
    /\ j < Len(chain) => NextEmpty(chain[j], 0) # NODE_END

Surplus == Cardinality(UsedSlots(chains[1])) - Cardinality(EmptySlots(chains[0]))

\* Fault: one clump is taken to be always enough.
MergePrimeOne(surplus) == IF surplus > 0 THEN 1 ELSE 0

MergePrime(surplus) ==
  CASE surplus <= 0 -> 0
    [] surplus \in 1 .. NODES_PER_CLUMP -> 1
    [] OTHER -> 2

\* If a clump cannot be allocated the changes are undone.
Contract ==
  /\ clumpPc = "idle" /\ activeBkts = 2
  /\ clumpPc' = "merge" /\ activeBkts' = 1
  /\ freeList' = MergePrime(Surplus) /\ cClumps' = cClumps + freeList'
  /\ oldList' = chains[1] /\ chains' = [chains EXCEPT ![1] = EmptyChain]
  /\ target' = TargetClump(chains[0], 1)
  /\ slot' = [slot EXCEPT ![0] = NextEmpty(chains[0][target'], 0)]
  /\ at' = <<0, 1, 0>>
  /\ UNCHANGED <<movers, riterLast, refCount, due>>

\* The slot that is found for the next record: in the target, or else in a
\* clump behind it.
MergeTarget == IF slot[0] # NODE_END \/ target = Len(chains[0]) THEN target
               ELSE TargetClump(chains[0], target + 1)
MergeSlot == IF slot[0] # NODE_END \/ target = Len(chains[0]) THEN slot[0]
             ELSE NextEmpty(chains[0][MergeTarget], 0)

MergeRecord ==
  /\ clumpPc = "merge" /\ InClump /\ Moving # NullRecord
  /\ \/ /\ MergeSlot # NODE_END
        /\ chains' = [chains EXCEPT ![0][MergeTarget][MergeSlot] = Moving]
        /\ target' = MergeTarget
        /\ slot' = [slot EXCEPT ![0] = NextEmpty(chains'[0][MergeTarget], MergeSlot + 1)]
        /\ UNCHANGED freeList
     \/ /\ MergeSlot = NODE_END
        /\ AppendFromFreeList(0)
        /\ target' = Len(chains'[0])
        /\ slot' = [slot EXCEPT ![0] = 1]
  /\ MovesOn(MergeSlot = NODE_END /\ freeList = 0)

Answers == {"LKP_ABORT", "LKP_NO_ACTION", "LKP_PERFORM", "LKP_PERFORM_STOP"}

Next ==
  \/ \E r \in ClumpRecord : InsertRecord(r) \/ DeleteKey(r)
  \/ StartDeleteIf \/ NextClump \/ NextBucket
  \/ \E answer \in Answers : AskPredicate(answer)
  \/ BeginIteration \/ IncrementIterator \/ EraseAtIterator
  \/ StartEraseRange \/ EraseRange
  \/ Expand \/ SplitRecord \/ Contract \/ MergeRecord
  \/ SkipEmptySlot \/ NextOldClump

Spec == Init /\ [][Next]_clumpVars

-----------------------------------------------------------------------------
Clump == [Slots -> ClumpRecord \cup {NullRecord}]

TypeOK ==
  /\ movers \in SplitHomes /\ activeBkts \in {1, 2}
  /\ chains \in [Bkts -> Seq(Clump)] /\ oldList \in Seq(Clump)
  /\ cClumps \in Nat /\ freeList \in Nat
  /\ slot \in [Bkts -> 0 .. NODE_END] /\ target \in Nat \ {0}
  /\ at \in Int \X Nat \X Int /\ riterLast \in Int \X Nat \X Int
  /\ refCount \in [ClumpRecord -> Nat]
  /\ due \subseteq ClumpRecord
  /\ clumpPc \in {"idle", "deleteIf", "iterate", "eraseRange", "split", "merge", "nullClump"}

(***************************************************************************)
(* The clumps that _Expand and _Contract allocate beforehand are enough:   *)
(* with those that the moving of records empties, _SplitRecordSet and      *)
(* _MergeRecordSets never take a clump from an empty free list.            *)
(***************************************************************************)
FreeListSuffices == clumpPc # "nullClump"

(***************************************************************************)
(* Chains stay compact (_IsNodeCompact): behind an empty slot there is no  *)
(* record, and only the clump in the bucket itself may be empty.  Every    *)
(* scan stops at the first empty slot, so that a record behind one would   *)
(* not be found.                                                           *)
(***************************************************************************)
ChainsCompact ==
  \A b \in Bkts :
    /\ \A p \in EmptySlots(chains[b]), q \in UsedSlots(chains[b]) : Before(q, p)
    /\ \A j \in 2 .. Len(chains[b]) : chains[b][j][0] # NullRecord

(***************************************************************************)
(* No clump is lost or freed twice: those allocated are the ones in the    *)
(* chains, on the free list and in the part of an old chain that is still  *)
(* to be moved.                                                            *)
(***************************************************************************)
ClumpsAccounted ==
  cClumps = Len(chains[0]) - 1 + Len(chains[1]) - 1 + freeList
            + (IF oldList = <<>> THEN 0
               ELSE IF at[2] = 1 THEN Len(oldList) - 1 ELSE Len(oldList) - at[2] + 1)

(***************************************************************************)
(* Every record is in one slot only, and outside of splits and merges that *)
(* is a slot of the bucket its signature addresses.                        *)
(***************************************************************************)
RecordsAtHome ==
  /\ Cardinality(UsedSlots(chains[0])) + Cardinality(UsedSlots(chains[1]))
       + Cardinality(UsedSlots(oldList)) = Cardinality(Records)
  /\ \A b \in Bkts : \A r \in RecordsIn(chains[b]) : Home(r) = b

(***************************************************************************)
(* A loop over the table that removes records as it goes, with a predicate *)
(* or through its iterator, meets every record that is there, also those   *)
(* that a removal moves into the hole, and meets none twice.  (Not so the  *)
(* removal of a range: what is behind it moves into it.)                   *)
(***************************************************************************)
LoopMeetsEveryRecord ==
  /\ clumpPc = "iterate" \/ (clumpPc = "eraseRange" /\ riterLast = End) => Here \in due
  /\ clumpPc = "deleteIf" /\ InClump => Here \in due \cup {NullRecord}
  /\ clumpPc = "idle" => due = {}

(***************************************************************************)
(* A record is referenced by the table as long as it is in it, and once    *)
(* more by an iterator that stands on it.                                  *)
(***************************************************************************)
ReferencesBalanced ==
  \A r \in ClumpRecord :
    refCount[r] = (IF r \in Records THEN 1 ELSE 0)
                  + (IF clumpPc \in {"iterate", "eraseRange"} /\ Here = r THEN 1 ELSE 0)
=============================================================================
