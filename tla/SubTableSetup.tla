---------------------------- MODULE SubTableSetup ----------------------------
(***************************************************************************)
(* How a CLKRHashTable is made and destroyed: NumSubTables chooses how     *)
(* many subtables there are and what each is asked for, and the            *)
(* constructor allocates them in a row.  Any allocation may fail, and so   *)
(* may the set-up of a subtable that has been allocated (TableSetup).      *)
(* Nobody else knows the table meanwhile.                                  *)
(***************************************************************************)
EXTENDS Integers, TableSizes

CONSTANTS
  ArraySizes, SubTableCounts,   \* initsize and num_subtbls, as clients give them
  ProcessorCounts,              \* NumProcessors
  MAX_SUBTABLES, MAXDWORD

DfltNumSubTbls == 0
None == -1

ArrayAssumption ==
  /\ SizesAssumption /\ ArraySizes \cup SubTableCounts \subseteq 0 .. MAXDWORD
  /\ ProcessorCounts \cup {MAX_SUBTABLES, MAXDWORD} \subseteq Nat \ {0}

VARIABLES
  asked, wanted, nCPUs,     \* the constructor's arguments, and the machine
  initsize, num_subtbls,    \* what NumSubTables makes of them
  cSubTables, nSubTableMask,
  palhtDir, subTables,      \* whether the array, and which subtables, are allocated
  arrayState,               \* m_lkrcState
  failing,                  \* history: the subtable that was not to be had
  arrayPc

sizes == <<asked, wanted, nCPUs, initsize, num_subtbls>>
arrayVars == <<sizes, cSubTables, nSubTableMask, palhtDir, subTables, arrayState, failing,
               arrayPc>>

Init ==
  /\ asked \in ArraySizes /\ wanted \in SubTableCounts /\ nCPUs \in ProcessorCounts
  /\ wanted # DfltNumSubTbls => nCPUs = CHOOSE n \in ProcessorCounts : TRUE
  /\ initsize = asked /\ num_subtbls = wanted
  /\ cSubTables = 0 /\ nSubTableMask = 0 /\ palhtDir = FALSE /\ subTables = {}
  /\ arrayState = "BAD_PARAMETERS" /\ failing = None /\ arrayPc = "size"

Goto(from, to) == arrayPc = from /\ arrayPc' = to

\* The operator & of DWORDs.
BitAnd[x \in Nat, y \in Nat] ==
  IF x = 0 THEN 0 ELSE 2 * BitAnd[x \div 2, y \div 2] + (x % 2) * (y % 2)

\* The buckets are shared out among n subtables; the subtraction is one of DWORDs.
PerSubTable(size, n) == (IF size = 0 THEN MAXDWORD ELSE size - 1) \div n + 1

\* The kind matters only if the number of subtables is left to the table.
SubTableKind == IF asked \in Kinds THEN asked ELSE Medium

PerCPU == [k \in Kinds |-> CASE k = Small -> 1 [] k = Medium -> 2 [] k = Large -> 4]

NumSubTables ==
  /\ Goto("size", "array")
  /\ initsize' = IF asked \in Kinds \/ wanted = DfltNumSubTbls THEN asked
                 ELSE PerSubTable(asked, wanted)
  /\ LET n == IF wanted = DfltNumSubTbls THEN PerCPU[SubTableKind] * nCPUs ELSE wanted
     IN  num_subtbls' = IF n > MAX_SUBTABLES THEN MAX_SUBTABLES ELSE n
  /\ arrayState' = "ALLOC_FAIL"
  /\ UNCHANGED <<asked, wanted, nCPUs, cSubTables, nSubTableMask, palhtDir, subTables, failing>>

AllocateSubTableArray ==
  /\ Goto("array", "subtables")
  /\ palhtDir' = TRUE /\ cSubTables' = num_subtbls
  /\ UNCHANGED <<sizes, nSubTableMask, subTables, arrayState, failing>>

NoArray ==
  /\ Goto("array", "made")
  /\ UNCHANGED <<sizes, cSubTables, nSubTableMask, palhtDir, subTables, arrayState, failing>>

\* The next subtable: those before it are there.
NextSubTable == CHOOSE i \in 0 .. cSubTables : subTables = 0 .. i - 1

AllocateSubTable ==
  /\ Goto("subtables", "subtables") /\ NextSubTable < cSubTables
  /\ subTables' = subTables \cup {NextSubTable}
  /\ UNCHANGED <<sizes, cSubTables, nSubTableMask, palhtDir, arrayState, failing>>

\* The subtables before it are freed, but not it, if it was allocated and
\* could not be set up.
SubTableFails ==
  /\ Goto("subtables", "made") /\ NextSubTable < cSubTables
  /\ subTables' \in {{}, {NextSubTable}} /\ failing' = NextSubTable
  /\ palhtDir' = FALSE /\ cSubTables' = 0
  /\ UNCHANGED <<sizes, nSubTableMask, arrayState>>

\* A number of subtables that is a power of two has a mask.
ComputeMask ==
  /\ Goto("subtables", "made") /\ NextSubTable = cSubTables
  /\ nSubTableMask' = IF BitAnd[cSubTables - 1, cSubTables] # 0 THEN None ELSE cSubTables - 1
  /\ arrayState' = "SUCCESS"
  /\ UNCHANGED <<sizes, cSubTables, palhtDir, subTables, failing>>

\* The destructor, which frees the subtables that m_cSubTables counts.
Destroy ==
  /\ Goto("made", "gone")
  /\ subTables' = {i \in subTables : i >= cSubTables} /\ palhtDir' = FALSE
  /\ arrayState' = "UNUSABLE"
  /\ UNCHANGED <<sizes, cSubTables, nSubTableMask, failing>>

Next ==
  \/ NumSubTables \/ AllocateSubTableArray \/ NoArray
  \/ AllocateSubTable \/ SubTableFails \/ ComputeMask \/ Destroy

Spec == Init /\ [][Next]_arrayVars

-----------------------------------------------------------------------------
ArrayMade == arrayState = "SUCCESS"

TypeOK ==
  /\ failing \in None .. MAX_SUBTABLES - 1
  /\ initsize \in Nat /\ num_subtbls \in Nat /\ cSubTables \in 0 .. MAX_SUBTABLES
  /\ nSubTableMask \in None .. MAX_SUBTABLES - 1
  /\ palhtDir \in BOOLEAN /\ subTables \subseteq 0 .. MAX_SUBTABLES - 1

(* _SubTable, for a scrambled signature.                                   *)
SubTableIndex(index) ==
  IF nSubTableMask # None THEN BitAnd[index, nSubTableMask] ELSE index % cSubTables

(***************************************************************************)
(* With a mask or without, the scrambled signatures select each of the     *)
(* subtables, and nothing outside of the array.                            *)
(***************************************************************************)
EverySubTableSelected ==
  ArrayMade => {SubTableIndex(x) : x \in 0 .. 2 * MAX_SUBTABLES} = subTables

(***************************************************************************)
(* However the buckets are shared out, and though a share of one to three  *)
(* is taken for a code, the subtables have all the buckets that were asked *)
(* for, unless those are more than they can have, or the client asked for  *)
(* more subtables than there may be.                                       *)
(***************************************************************************)
CapacityAsAsked ==
  ArrayMade /\ wanted <= MAX_SUBTABLES =>
    \/ cSubTables * InitialBucketsFor(initsize) >= InitialBucketsFor(asked)
    \/ InitialBucketsFor(initsize) = MaxInitSize

(***************************************************************************)
(* A constructor that fails, or a destructor, leaves nothing allocated but *)
(* a subtable whose own set-up failed.                                     *)
(***************************************************************************)
ArrayFreed ==
  arrayPc \in {"made", "gone"} /\ ~ArrayMade =>
    /\ ~palhtDir /\ subTables \subseteq {failing}
    /\ arrayPc = "made" => cSubTables = 0
=============================================================================
