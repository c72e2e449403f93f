----------------------------- MODULE TableSetup -----------------------------
(***************************************************************************)
(* How a CLKRLinearHashTable is set up: _Initialize chooses the kind of    *)
(* segment and the number of buckets from what the client asked for, and   *)
(* _SetSegVars computes the address variables and allocates the directory  *)
(* and the segments, any of which may fail.  One step per iteration of a   *)
(* loop.                                                                   *)
(***************************************************************************)
EXTENDS Naturals, TableSizes, LinearHashAddress

CONSTANTS
  MinDirSize,
  InitSizes,   \* what clients ask for: one of Kinds, or a number of buckets
  MaxLevel     \* bound: 1 << m_nLevel stays within a DWORD

SetupAssumption == SizesAssumption /\ InitSizes \subseteq Nat /\ MinDirSize \in Nat \ {0}

VARIABLES
  lkts, nLevel, dwBktAddrMask0, dwBktAddrMask1, iExpansionIdx, cActiveBuckets,
  cDirSegs, segs, lkrcState,
  counter,   \* the counter of the loop that runs
  setupPc

vars == <<lkts, nLevel, dwBktAddrMask0, dwBktAddrMask1, iExpansionIdx, cActiveBuckets,
          cDirSegs, segs, lkrcState, counter, setupPc>>
addressVars == <<lkts, nLevel, dwBktAddrMask0, dwBktAddrMask1, iExpansionIdx>>

Init ==
  /\ lkts = Medium /\ nLevel = 0 /\ dwBktAddrMask0 = 0 /\ dwBktAddrMask1 = 0
  /\ iExpansionIdx = 0 /\ cActiveBuckets = 0 /\ cDirSegs = 0 /\ segs = {}
  /\ lkrcState = "UNUSABLE" /\ counter = 0 /\ setupPc = "initialize"

Initialize ==
  /\ setupPc = "initialize" /\ setupPc' = "level"
  /\ \E size \in InitSizes :
       /\ lkts' = Kind(size)
       /\ cActiveBuckets' = InitialBucketsFor(size)
  /\ nLevel' = Bits[lkts']
  /\ dwBktAddrMask0' = 2 ^ Bits[lkts'] - 1
  /\ dwBktAddrMask1' = 2 * dwBktAddrMask0' + 1
  /\ counter' = cActiveBuckets' \div 2 ^ Bits[lkts']
  /\ UNCHANGED <<iExpansionIdx, cDirSegs, segs, lkrcState>>

RaiseLevel ==
  /\ setupPc = "level" /\ counter > 1
  /\ nLevel' = nLevel + 1
  /\ dwBktAddrMask0' = 2 * dwBktAddrMask0 + 1
  /\ counter' = counter \div 2
  /\ UNCHANGED <<lkts, dwBktAddrMask1, iExpansionIdx, cActiveBuckets, cDirSegs, segs,
                 lkrcState, setupPc>>

\* The counter goes on as the size of the directory.
FixAddresses ==
  /\ setupPc = "level" /\ counter <= 1 /\ setupPc' = "directory"
  /\ dwBktAddrMask1' = 2 * dwBktAddrMask0 + 1
  /\ iExpansionIdx' = H0(cActiveBuckets, dwBktAddrMask0)
  /\ counter' = MinDirSize
  /\ UNCHANGED <<lkts, nLevel, dwBktAddrMask0, cActiveBuckets, cDirSegs, segs, lkrcState>>

FullSegments == cActiveBuckets \div 2 ^ Bits[lkts]
MaxSegs == InitialSegments(cActiveBuckets, Bits[lkts])

\* Fault: one doubling too many.
DoubleDirectoryOnceMore ==
  /\ setupPc = "directory" /\ counter <= FullSegments
  /\ counter' = 2 * counter
  /\ UNCHANGED <<addressVars, cActiveBuckets, cDirSegs, segs, lkrcState, setupPc>>

DoubleDirectory ==
  /\ setupPc = "directory" /\ counter < FullSegments
  /\ counter' = 2 * counter
  /\ UNCHANGED <<addressVars, cActiveBuckets, cDirSegs, segs, lkrcState, setupPc>>

AllocateDirectory ==
  /\ setupPc = "directory" /\ counter >= FullSegments /\ setupPc' = "segments"
  /\ cDirSegs' = IF counter > MaxDirSize THEN MaxDirSize ELSE counter
  /\ lkrcState' = "SUCCESS"
  /\ counter' = 0
  /\ UNCHANGED <<addressVars, cActiveBuckets, segs>>

\* What is left of a table that could not be set up.
GiveUp ==
  /\ setupPc' = "done"
  /\ cDirSegs' = 0 /\ cActiveBuckets' = 0 /\ iExpansionIdx' = 0
  /\ UNCHANGED <<lkts, nLevel, dwBktAddrMask0, dwBktAddrMask1, segs>>

NoDirectory ==
  /\ setupPc = "directory" /\ counter >= FullSegments
  /\ lkrcState' = "ALLOC_FAIL"
  /\ counter' = 0
  /\ GiveUp

AllocateSegment ==
  /\ setupPc = "segments" /\ counter < MaxSegs /\ counter < cDirSegs
  /\ segs' = segs \cup {counter}
  /\ counter' = counter + 1
  /\ UNCHANGED <<addressVars, cActiveBuckets, cDirSegs, lkrcState, setupPc>>

\* A segment that has no entry in the directory is stored behind its end.
WritePastDirectory ==
  /\ setupPc = "segments" /\ counter < MaxSegs /\ counter >= cDirSegs
  /\ setupPc' = "overrun"
  /\ UNCHANGED <<addressVars, cActiveBuckets, cDirSegs, segs, lkrcState, counter>>

NoSegment ==
  /\ setupPc = "segments" /\ counter < MaxSegs
  /\ setupPc' = "unwind"
  /\ lkrcState' = "ALLOC_FAIL"
  /\ UNCHANGED <<addressVars, cActiveBuckets, cDirSegs, segs, counter>>

\* Fault: the first segment is not given back.
FreeSegmentButFirst ==
  /\ setupPc = "unwind" /\ counter > 0
  /\ counter' = counter - 1
  /\ segs' = IF counter > 1 THEN segs \ {counter - 1} ELSE segs
  /\ UNCHANGED <<addressVars, cActiveBuckets, cDirSegs, lkrcState, setupPc>>

FreeSegment ==
  /\ setupPc = "unwind" /\ counter > 0
  /\ counter' = counter - 1
  /\ segs' = segs \ {counter - 1}
  /\ UNCHANGED <<addressVars, cActiveBuckets, cDirSegs, lkrcState, setupPc>>

FreeDirectory ==
  /\ setupPc = "unwind" /\ counter = 0
  /\ UNCHANGED <<lkrcState, counter>>
  /\ GiveUp

Finish ==
  /\ setupPc = "segments" /\ counter = MaxSegs
  /\ setupPc' = "done"
  /\ UNCHANGED <<addressVars, cActiveBuckets, cDirSegs, segs, lkrcState, counter>>

Next ==
  \/ Initialize \/ RaiseLevel \/ FixAddresses
  \/ DoubleDirectory \/ AllocateDirectory \/ NoDirectory
  \/ AllocateSegment \/ WritePastDirectory \/ NoSegment \/ FreeSegment \/ FreeDirectory
  \/ Finish

Spec == Init /\ [][Next]_vars

-----------------------------------------------------------------------------
Usable == setupPc = "done" /\ lkrcState = "SUCCESS"

(***************************************************************************)
(* Whatever size was asked for, the mask that the loop of _SetSegVars      *)
(* arrives at spreads the signatures over all buckets and no others: every *)
(* bucket is the address of its own number, and the largest signature of   *)
(* the level stays inside the table.                                       *)
(***************************************************************************)
AllBucketsAddressed ==
  Usable => \A a \in 0 .. dwBktAddrMask1 :
    /\ BucketAddress(a, dwBktAddrMask0, iExpansionIdx) < cActiveBuckets
    /\ a < cActiveBuckets => BucketAddress(a, dwBktAddrMask0, iExpansionIdx) = a

(***************************************************************************)
(* The loops compute what LinearHash takes for the table it starts from    *)
(* and the one that Clear leaves.                                          *)
(***************************************************************************)
SetupAsSpecified ==
  Usable =>
    /\ nLevel = InitialLevel(cActiveBuckets, Bits[lkts], MaxLevel)
    /\ dwBktAddrMask0 = 2 ^ nLevel - 1 /\ dwBktAddrMask1 = 2 ^ (nLevel + 1) - 1
    /\ iExpansionIdx = InitialExpansionIdx(cActiveBuckets, nLevel)
    /\ cDirSegs = InitialDirSize(cActiveBuckets, Bits[lkts], MinDirSize, MaxLevel)
    /\ segs = 0 .. InitialSegments(cActiveBuckets, Bits[lkts]) - 1

(***************************************************************************)
(* An allocation that fails half-way leaves nothing behind: every segment  *)
(* allocated before it is given back, and the table has no bucket that an  *)
(* operation could address.                                                *)
(***************************************************************************)
FailureUndone ==
  setupPc = "done" /\ lkrcState # "SUCCESS" =>
    segs = {} /\ cDirSegs = 0 /\ cActiveBuckets = 0

(* The assertion of _SetSegVars: the directory has room for all buckets.   *)
DirectoryCoversBuckets ==
  setupPc = "segments" => cDirSegs * 2 ^ Bits[lkts] >= cActiveBuckets
=============================================================================
