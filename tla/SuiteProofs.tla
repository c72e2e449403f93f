----------------------------- MODULE SuiteProofs -----------------------------
(***************************************************************************)
(* Theorems about several of the data structures of MCStructures at once,  *)
(* of PartSpec: what the modules about each of them prove, put together.   *)
(***************************************************************************)
EXTENDS StructuresProofs, ClumpsProofs, TreesProofs

(***************************************************************************)
(* With any threads, records, buckets and subtables, Apply meets every     *)
(* record that is in a HASH_TABLE or a TREE_HASH_TABLE from its beginning  *)
(* to its end, insertions beside it notwithstanding, and Apply, ApplyIf,   *)
(* DeleteIf and Clear of a CLKRHashTable meet every record once, though    *)
(* its subtables grow and shrink meanwhile.                                *)
(***************************************************************************)
THEOREM AppliesAlwaysMeetRecords == PartSpec => []ApplyMeetsRecords
<1>1. PartSpec => []HashTables!ApplyMeetsRecords
  BY HashAppliesMeetRecords
<1>2. PartSpec => []Trees!ApplyMeetsRecords
  BY TreeAppliesMeetRecords
<1>3. PartSpec => []SubTabs!WalkMeetsRecords
  BY WalksAlwaysMeetRecords
<1>4. HashTables!ApplyMeetsRecords /\ Trees!ApplyMeetsRecords /\ SubTabs!WalkMeetsRecords
      => ApplyMeetsRecords
  BY DEF ApplyMeetsRecords
<1> QED BY <1>1, <1>2, <1>3, <1>4, PTL

(***************************************************************************)
(* The variables of all the structures keep to their types, whatever the   *)
(* sizes, the threads and the allocations that fail.                       *)
(***************************************************************************)
THEOREM StructuresTypesOK == PartSpec => []TypesOK
<1>1. PartSpec => []TypeOK
  BY CacheTypesOK
<1>2. PartSpec => []HashTables!TypeOK
  BY HashTypesOK
<1>3. PartSpec => []Trees!TypeOK
  BY TreeTypesOK
<1>4. PartSpec => []Clumps!TypeOK
  BY ClumpTypesOK
<1>5. PartSpec => []SubTabs!TypeOK
  BY SubTypesOK
<1>6. PartSpec => []Array!TypeOK
  BY ArrayTypesOK
<1>7. PartSpec => []Log!TypeOK
  BY LogTypesOK
<1>8. /\ TypeOK /\ HashTables!TypeOK /\ Trees!TypeOK /\ Clumps!TypeOK
      /\ SubTabs!TypeOK /\ Array!TypeOK /\ Log!TypeOK
      => TypesOK
  BY DEF TypesOK
<1> QED BY <1>1, <1>2, <1>3, <1>4, <1>5, <1>6, <1>7, <1>8, PTL
=============================================================================
