--------------------------- MODULE MCStructures ---------------------------
(***************************************************************************)
(* Instances of the data structures of the libraries, each checked by      *)
(* itself: `part` names the one that runs, and the variables of the others *)
(* stay as they are.  AllocCache keeps its own names.                      *)
(***************************************************************************)
EXTENDS AllocCache, Integers, Sequences, TLC

CONSTANTS
  \* HashTable and TreeHashTable
  Record, NoRecord, Key, KeyOf, Hash, InitialBuckets, Primes, OpNames, InitialTable, MaxCalls,
  TreeRecord, Path, NoPath, ParentOf, PathOf, PathHash, TreeOpNames,
  \* NodeClumps
  ClumpRecord, NullRecord, NODES_PER_CLUMP, SplitHomes,
  \* SubTables
  SubTableOf, SecondBucket, m_cSubTables, SubTableOpNames, SubTableRecords,
  \* TableSetup
  Kinds, Bits, Segments, MinDirSize, MaxDirSize, InitSizes, MaxLevel,
  \* SubTableSetup
  ArraySizes, SubTableCounts, ProcessorCounts, MAX_SUBTABLES, MAXDWORD,
  \* TraceLog
  LogSizes, EntrySizes, ExtraSizes, HeaderSize, CounterModulus, SizeModulus, MaxEntries, MaxResets

VARIABLES
  part,
  buckets, nItems, sharers, writer, references, held, op, rec, result, pc, prev, next,
  toApply, calls,
  treeBuckets, payload, parentLink, children, treeItems, treeSharers, treeWriter,
  treeReferences, treeHeld, treeOp, treeRec, treeResult, treePc, path, parent, treePrev,
  treeNext, atBucket, treeToApply, treeCalls,
  movers, activeBkts, chains, cClumps, freeList, oldList, slot, target, at, riterLast,
  refCount, due, clumpPc,
  bucket, subActive, moving, tableReaders, tableWriters, subOp, subRec, subResult, subPc,
  sub, bkt, lkp, met, removed, subCalls,
  lkts, nLevel, dwBktAddrMask0, dwBktAddrMask1, iExpansionIdx, cActiveBuckets,
  cDirSegs, segs, lkrcState, counter, setupPc,
  asked, wanted, nCPUs, initsize, num_subtbls, cSubTables, nSubTableMask, palhtDir, subTables,
  arrayState, failing, arrayPc,
  LogSize, EntrySize, ExtraBytesInHeader, NextEntry, memory, index, entry, copied, logPc,
  started, resets, latest, disturbed, order

HashTables == INSTANCE HashTable
Trees == INSTANCE TreeHashTable WITH
  Record <- TreeRecord, Hash <- PathHash, OpNames <- TreeOpNames,
  buckets <- treeBuckets, nItems <- treeItems, sharers <- treeSharers, writer <- treeWriter,
  references <- treeReferences, held <- treeHeld, op <- treeOp, rec <- treeRec,
  result <- treeResult, pc <- treePc, prev <- treePrev, next <- treeNext,
  toApply <- treeToApply, calls <- treeCalls
Clumps == INSTANCE NodeClumps
Setup == INSTANCE TableSetup
Array == INSTANCE SubTableSetup
Log == INSTANCE TraceLog
SubTabs == INSTANCE SubTables WITH
  OpNames <- SubTableOpNames, InitialTable <- SubTableRecords,
  cActiveBuckets <- subActive, op <- subOp, rec <- subRec, result <- subResult, pc <- subPc,
  calls <- subCalls

ASSUME StructuresAssumption ==
  /\ HashTables!HashTableAssumption /\ Trees!TreeAssumption
  /\ Clumps!ClumpAssumption /\ Setup!SetupAssumption /\ SubTabs!SubTablesAssumption
  /\ Array!ArrayAssumption /\ Log!TraceLogAssumption

hashVars == <<buckets, nItems, sharers, writer, references, held, op, rec, result, pc, prev,
              next, toApply, calls>>
treeVars == <<treeBuckets, payload, parentLink, children, treeItems, treeSharers, treeWriter,
              treeReferences, treeHeld, treeOp, treeRec, treeResult, treePc, path, parent,
              treePrev, treeNext, atBucket, treeToApply, treeCalls>>
clumpVars == <<movers, activeBkts, chains, cClumps, freeList, oldList, slot, target, at,
               riterLast, refCount, due, clumpPc>>
setupVars == <<lkts, nLevel, dwBktAddrMask0, dwBktAddrMask1, iExpansionIdx, cActiveBuckets,
               cDirSegs, segs, lkrcState, counter, setupPc>>
subVars == <<bucket, subActive, moving, tableReaders, tableWriters, subOp, subRec, subResult,
             subPc, sub, bkt, lkp, met, removed, subCalls>>
arrayVars == <<asked, wanted, nCPUs, initsize, num_subtbls, cSubTables, nSubTableMask, palhtDir,
               subTables, arrayState, failing, arrayPc>>
logVars == <<LogSize, EntrySize, ExtraBytesInHeader, NextEntry, memory, index, entry, copied,
             logPc, started, resets, latest, disturbed, order>>
partVars == <<part, cacheVars, hashVars, treeVars, clumpVars, setupVars, subVars, arrayVars, logVars>>

Parts == {"cache", "hash", "tree", "clumps", "setup", "subtables", "array", "log"}

\* What a structure chooses in the beginning matters only if it runs.
PartInit ==
  /\ part \in Parts
  /\ Init /\ HashTables!Init /\ Trees!Init /\ Clumps!Init /\ Setup!Init
  /\ SubTabs!Init /\ Array!Init /\ Log!Init
  /\ part # "cache" => \A t \in Thread : pListHeader[t] = CHOOSE p \in Processor : TRUE
  /\ part # "log" => LogSize = 2 /\ EntrySize = 2 /\ ExtraBytesInHeader = 0
  /\ part # "array" => asked = Setup!Small /\ wanted = 1
  /\ part # "clumps" => movers = CHOOSE s \in SplitHomes : TRUE

\* A cache that is destroyed and a set-up come to an end, and so do the calls
\* of a table, when all of them have returned: nobody waits in the table.
Ended ==
  CASE part = "cache" -> TRUE
    [] part = "setup" -> setupPc \in {"done", "overrun"}
    [] part = "array" -> arrayPc = "gone"
    [] part = "hash" -> \A t \in Thread : pc[t] = "idle"
    [] part = "tree" -> \A t \in Thread : treePc[t] = "idle"
    [] part = "subtables" -> \A t \in Thread : subPc[t] = "idle"
    [] part = "log" -> \A t \in Thread : logPc[t] \in {"noLog", "idle"}
    [] OTHER -> FALSE

PartNext ==
  \/ /\ part = "cache" /\ Next
     /\ UNCHANGED <<part, hashVars, treeVars, clumpVars, setupVars, subVars, arrayVars, logVars>>
  \/ /\ part = "hash" /\ HashTables!Next
     /\ UNCHANGED <<part, cacheVars, treeVars, clumpVars, setupVars, subVars, arrayVars, logVars>>
  \/ /\ part = "tree" /\ Trees!Next
     /\ UNCHANGED <<part, cacheVars, hashVars, clumpVars, setupVars, subVars, arrayVars, logVars>>
  \/ /\ part = "clumps" /\ Clumps!Next
     /\ UNCHANGED <<part, cacheVars, hashVars, treeVars, setupVars, subVars, arrayVars, logVars>>
  \/ /\ part = "setup" /\ Setup!Next
     /\ UNCHANGED <<part, cacheVars, hashVars, treeVars, clumpVars, subVars, arrayVars, logVars>>
  \/ /\ part = "subtables" /\ SubTabs!Next
     /\ UNCHANGED <<part, cacheVars, hashVars, treeVars, clumpVars, setupVars, arrayVars, logVars>>
  \/ /\ part = "array" /\ Array!Next
     /\ UNCHANGED <<part, cacheVars, hashVars, treeVars, clumpVars, setupVars, subVars, logVars>>
  \/ /\ part = "log" /\ Log!Next
     /\ UNCHANGED <<part, cacheVars, hashVars, treeVars, clumpVars, setupVars, subVars, arrayVars>>
  \/ Ended /\ UNCHANGED partVars

PartSpec == PartInit /\ [][PartNext]_partVars

-----------------------------------------------------------------------------
(* The properties, which the modules of the structures state and explain.  *)
(* The three refinements are their ImplementsRecordTable, which nobody has  *)
(* to ask about the steps of another part: they change none of its         *)
(* variables.                                                              *)

(* The variables of the structures keep to their types.                    *)
TypesOK ==
  TypeOK /\ HashTables!TypeOK /\ Trees!TypeOK /\ Clumps!TypeOK /\ SubTabs!TypeOK
  /\ Array!TypeOK /\ Log!TypeOK

(* HASH_TABLE: ordered chains without duplicates, of nodes that stay.      *)
HashChainsInOrder == HashTables!ChainsInOrder /\ HashTables!NodesInUseRemain
(* HASH_TABLE: references and nItems agree with the records.               *)
HashCountsRight == HashTables!TableReferences /\ HashTables!ItemsCounted
(* Apply meets every record of a HASH_TABLE or TREE_HASH_TABLE, and Apply, *)
(* ApplyIf, DeleteIf and Clear every record of a CLKRHashTable once.       *)
ApplyMeetsRecords ==
  HashTables!ApplyMeetsRecords /\ Trees!ApplyMeetsRecords /\ SubTabs!WalkMeetsRecords
(* HASH_TABLE implements an atomic set of records with distinct keys.      *)
HashImplements ==
  HashTables!Abstract!Init /\ [][part = "hash" => HashTables!Abstract!Next]_(HashTables!Abstract!vars)

(* TREE_HASH_TABLE: tree and table agree, each path has one node.          *)
TreeMatchesTable == Trees!TreeMatchesTable /\ Trees!ChainsInOrder
(* TREE_HASH_TABLE: references and nItems agree with the nodes.            *)
TreeCountsRight == Trees!TableReferences /\ Trees!ItemsCounted
(* TREE_HASH_TABLE implements an atomic set of records too.                *)
TreeImplements ==
  Trees!Abstract!Init /\ [][part = "tree" => Trees!Abstract!Next]_(Trees!Abstract!vars)

(* _SplitRecordSet and _MergeRecordSets do not run out of clumps, and no   *)
(* clump is lost or freed twice.                                           *)
ClumpsSuffice == Clumps!FreeListSuffices /\ Clumps!ClumpsAccounted
(* No record is behind an empty slot, and each is where it hashes to.      *)
ChainsCompact == Clumps!ChainsCompact /\ Clumps!RecordsAtHome
(* A loop that removes records meets every record once, and the table and  *)
(* its iterator hold one reference each.                                   *)
LoopMeetsEveryRecord == Clumps!LoopMeetsEveryRecord /\ Clumps!ReferencesBalanced

(* CLKRHashTable implements an atomic set of records.                      *)
SubTablesImplement ==
  SubTabs!Abstract!Init /\ [][part = "subtables" => SubTabs!Abstract!Next]_(SubTabs!Abstract!vars)

(* WriteTraceLog writes inside the log, and the log keeps its last entries.*)
LogKeepsEntries == Log!WritesInside /\ Log!EntriesWhole /\ Log!LatestEntriesKept

(* A new table is the one that LinearHash starts from, and every bucket of *)
(* it is the address of a signature; an array of tables has the buckets    *)
(* that were asked for, and every one of its tables is selected.           *)
SetupAsSpecified ==
  /\ Setup!SetupAsSpecified /\ Setup!AllBucketsAddressed
  /\ Array!CapacityAsAsked /\ Array!EverySubTableSelected
(* A set-up that fails leaves nothing behind, and that of an array only a  *)
(* table whose own set-up failed.                                          *)
FailureUndone == Setup!FailureUndone /\ Array!ArrayFreed

-----------------------------------------------------------------------------
\* No structure tells one thread from another.
Symmetry == Permutations(Thread)

\* Two records have the same key, and two keys the same hash.
MCKeyOf == <<1, 1, 2, 3>>
MCHash == <<5, 5, 2>>

\* A path of three names, with two records, beside one of two; siblings and a parent and its child
\* in one bucket.
MCParentOf == [p \in Path |-> CASE p = "a" -> NoPath [] p = "abd" -> "ab" [] OTHER -> "a"]
MCPathOf == [r \in TreeRecord |-> CASE r = "r1" -> "abd" [] r = "r2" -> "ac"
                                        [] r = "r3" -> "ab" [] r = "r4" -> "abd"]
MCPathHash == [p \in Path |-> CASE p = "a" -> 3 [] p = "abd" -> 5 [] OTHER -> 2]

\* The split takes none, some or all of the records.
MCSplitHomes == {1 .. n : n \in {0, 1, 3, 5}}

\* One key in the first subtable, two in the second, one of which moves when
\* its buckets split.
MCSubTableOf == [r \in Record |-> IF r \in {1, 2} THEN 0 ELSE 1]

MCKinds == {1, 2, 3}
MCBits == <<3, 6, 9>>
MCSegments == <<1, 2, 4>>

\* The codes, the sizes at which the kind changes, and multiples of a segment.
MCInitSizes == 0 .. 200 \cup 500 .. 580 \cup 1020 .. 1090 \cup 2040 .. 2052
               \cup {2559, 2560, 2561, 4095, 4096}

\* The codes, shares of one to three buckets and others, too much.
MCArraySizes == 0 .. 9 \cup 23 .. 25 \cup {100, 513, 1000, 5000000}
=============================================================================
