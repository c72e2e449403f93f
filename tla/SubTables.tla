------------------------------ MODULE SubTables ------------------------------
(***************************************************************************)
(* CLKRHashTable: an array of CLKRLinearHashTables, one of which a         *)
(* signature selects.  An operation on one record works on its subtable    *)
(* only; ApplyIf, DeleteIf and Clear lock all the subtables in order, walk *)
(* them bucket by bucket, and unlock them in reverse order.  A walk finds  *)
(* the table locks taken, but threads may still be at work in buckets that *)
(* they locked before: a record on its way in or out, a bucket that splits *)
(* or two that merge.  A subtable here has one bucket or two; LinearHash   *)
(* has the rest of it, and when it grows and shrinks is left open.  The    *)
(* walks of a CLKRLinearHashTable are those of one subtable.               *)
(***************************************************************************)
EXTENDS Naturals, FiniteSets

CONSTANTS
  Thread, Record, KeyOf,
  SubTableOf,      \* _SubTable, from the signature of a record's key
  SecondBucket,    \* the records whose signatures address bucket 1 if there are two
  m_cSubTables,
  OpNames, InitialTable,
  MaxCalls         \* bound: calls started

SubTablesAssumption ==
  /\ InitialTable \subseteq Record /\ SecondBucket \subseteq Record
  /\ m_cSubTables \in Nat \ {0} /\ MaxCalls \in Nat
  /\ SubTableOf \in [Record -> 0 .. m_cSubTables - 1]
  /\ OpNames \subseteq {"Insert", "DeleteKey", "FindKey", "Apply", "ApplyWrite", "DeleteIf", "Clear"}
  /\ \A r, s \in Record : KeyOf[r] = KeyOf[s] =>
       /\ SubTableOf[r] = SubTableOf[s] /\ (r \in SecondBucket <=> s \in SecondBucket)
       /\ {r, s} \subseteq InitialTable => r = s

VARIABLES
  bucket,                     \* bucket[s][b]: the records in a chain
  cActiveBuckets,             \* of each subtable
  moving,                     \* the records a thread is about to split or merge
  tableReaders, tableWriters, \* who holds each subtable's lock
  op, rec, result,
  pc,
  sub, bkt,                   \* where a walk is
  lkp,                        \* rlkp: whether the walk is to stop
  met,                        \* the records a walk has asked its predicate about
  removed,                    \* history: the records a walk has removed so far
  calls

records == <<bucket, cActiveBuckets, moving>>
tableLocks == <<tableReaders, tableWriters>>
call == <<op, rec, result>>
walk == <<sub, bkt, lkp, met, removed>>
vars == <<records, tableLocks, call, pc, walk, calls>>

SubTable == 0 .. m_cSubTables - 1
Bucket == {0, 1}
BucketOf(r, active) == IF active = 2 /\ r \in SecondBucket THEN 1 ELSE 0
Fill(s, rs, active) == [b \in Bucket |-> {r \in rs : SubTableOf[r] = s /\ BucketOf(r, active) = b}]

Init ==
  /\ bucket = [s \in SubTable |-> Fill(s, InitialTable, 1)]
  /\ cActiveBuckets = [s \in SubTable |-> 1]
  /\ moving = [t \in Thread |-> {}]
  /\ tableReaders = [s \in SubTable |-> {}] /\ tableWriters = [s \in SubTable |-> {}]
  /\ op = [t \in Thread |-> "NONE"] /\ rec = [t \in Thread |-> CHOOSE r \in Record : TRUE]
  /\ result = [t \in Thread |-> "NONE"]
  /\ pc = [t \in Thread |-> "idle"]
  /\ sub = [t \in Thread |-> 0] /\ bkt = [t \in Thread |-> 0]
  /\ lkp = [t \in Thread |-> "LKP_PERFORM"]
  /\ met = [t \in Thread |-> {}] /\ removed = [t \in Thread |-> {}]
  /\ calls = 0

Goto(t, from, to) == pc[t] = from /\ pc' = [pc EXCEPT ![t] = to]
Return(t, res) == result' = [result EXCEPT ![t] = res]
Home(t) == SubTableOf[rec[t]]
HomeBucket(t) == BucketOf(rec[t], cActiveBuckets[Home(t)])
Single == {"Insert", "DeleteKey", "FindKey"}
Reads(t) == op[t] \in {"FindKey", "Apply"}

\* Who has locked a bucket: an operation on a record has one, a resize both.
Inside(s, b) ==
  {t \in Thread : /\ op[t] \in Single /\ Home(t) = s
                  /\ pc[t] = "move" \/ (pc[t] = "work" /\ HomeBucket(t) = b)}
BucketFree(s, b, reads) == \A u \in Inside(s, b) : reads /\ pc[u] = "work" /\ Reads(u)

LockTable(t, s, reads) ==
  /\ tableWriters[s] = {}
  /\ IF reads
     THEN tableReaders' = [tableReaders EXCEPT ![s] = @ \cup {t}] /\ UNCHANGED tableWriters
     ELSE /\ tableReaders[s] = {}
          /\ tableWriters' = [tableWriters EXCEPT ![s] = {t}] /\ UNCHANGED tableReaders
UnlockTable(t, s) ==
  /\ tableReaders' = [tableReaders EXCEPT ![s] = @ \ {t}]
  /\ tableWriters' = [tableWriters EXCEPT ![s] = @ \ {t}]

Invoke(t, o, r) ==
  /\ calls < MaxCalls /\ calls' = calls + 1
  /\ o \notin Single => r = rec[t]
  /\ Goto(t, "idle", IF o \in Single THEN "table" ELSE "lockAll")
  /\ op' = [op EXCEPT ![t] = o] /\ rec' = [rec EXCEPT ![t] = r] /\ Return(t, "NONE")
  /\ UNCHANGED <<records, tableLocks, walk>>

-----------------------------------------------------------------------------
(* An operation on one record, in its subtable                             *)
LockSubTable(t) ==
  /\ Goto(t, "table", "bucket")
  /\ LockTable(t, Home(t), Reads(t))
  /\ UNCHANGED <<records, call, walk, calls>>

LockBucket(t) ==
  /\ Goto(t, "bucket", "work")
  /\ BucketFree(Home(t), HomeBucket(t), Reads(t))
  /\ UnlockTable(t, Home(t))
  /\ UNCHANGED <<records, call, walk, calls>>

Chain(t) == bucket[Home(t)][HomeBucket(t)]
SameKey(t) == {r \in Chain(t) : KeyOf[r] = KeyOf[rec[t]]}
SetChain(t, rs) == bucket' = [bucket EXCEPT ![Home(t)][HomeBucket(t)] = rs]

Insert(t) ==
  /\ op[t] = "Insert"
  /\ \/ /\ Goto(t, "work", "idle") /\ SameKey(t) # {}
        /\ Return(t, "KEY_EXISTS") /\ UNCHANGED bucket
     \/ /\ Goto(t, "work", "resize") /\ SameKey(t) = {}
        /\ Return(t, "SUCCESS") /\ SetChain(t, Chain(t) \cup {rec[t]})
  /\ UNCHANGED <<cActiveBuckets, moving, tableLocks, op, rec, walk, calls>>

DeleteKey(t) ==
  /\ op[t] = "DeleteKey"
  /\ \/ /\ Goto(t, "work", "idle") /\ SameKey(t) = {}
        /\ Return(t, "NO_SUCH_KEY") /\ UNCHANGED bucket
     \/ /\ Goto(t, "work", "resize") /\ SameKey(t) # {}
        /\ Return(t, "SUCCESS") /\ SetChain(t, Chain(t) \ SameKey(t))
  /\ UNCHANGED <<cActiveBuckets, moving, tableLocks, op, rec, walk, calls>>

FindKey(t) ==
  /\ op[t] = "FindKey" /\ Goto(t, "work", "idle")
  /\ \/ SameKey(t) = {} /\ Return(t, "NO_SUCH_KEY") /\ UNCHANGED rec
     \/ /\ Return(t, "SUCCESS")
        /\ \E r \in SameKey(t) : rec' = [rec EXCEPT ![t] = r]
  /\ UNCHANGED <<records, tableLocks, op, walk, calls>>

\* _Expand or _Contract follow, or nothing.
NoResize(t) ==
  /\ Goto(t, "resize", "idle")
  /\ UNCHANGED <<records, tableLocks, call, walk, calls>>

LockToResize(t) ==
  /\ Goto(t, "resize", "resizeLocked")
  /\ LockTable(t, Home(t), FALSE)
  /\ UNCHANGED <<records, call, walk, calls>>

ResizeTable(t) ==
  LET s == Home(t)
  IN  /\ Goto(t, "resizeLocked", "move")
      /\ \A b \in Bucket : BucketFree(s, b, FALSE)
      /\ cActiveBuckets' = [cActiveBuckets EXCEPT ![s] = IF op[t] = "Insert" THEN 2 ELSE 1]
      /\ moving' = [moving EXCEPT ![t] = bucket[s][0] \cup bucket[s][1]]
      /\ bucket' = [bucket EXCEPT ![s] = [b \in Bucket |-> {}]]
      /\ UnlockTable(t, s)
      /\ UNCHANGED <<call, walk, calls>>

MoveRecords(t) ==
  LET s == Home(t)
  IN  /\ Goto(t, "move", "idle")
      /\ bucket' = [bucket EXCEPT ![s] = Fill(s, moving[t], cActiveBuckets[s])]
      /\ moving' = [moving EXCEPT ![t] = {}]
      /\ UNCHANGED <<cActiveBuckets, tableLocks, call, walk, calls>>

-----------------------------------------------------------------------------
(* ApplyIf (Apply reads, ApplyWrite may delete), DeleteIf and Clear        *)
LockAll(t) ==
  /\ pc[t] = "lockAll" /\ LockTable(t, sub[t], Reads(t))
  /\ IF sub[t] + 1 \in SubTable
     THEN sub' = [sub EXCEPT ![t] = @ + 1] /\ UNCHANGED pc
     ELSE sub' = [sub EXCEPT ![t] = 0] /\ Goto(t, "lockAll", "walk")
  /\ UNCHANGED <<records, call, bkt, lkp, met, removed, calls>>

WalkedAll(t) == sub[t] = m_cSubTables
Here(t) == bucket[sub[t]][bkt[t]]

\* The next bucket, or the next subtable.
Advance(t) ==
  IF bkt[t] + 1 < cActiveBuckets[sub[t]]
  THEN bkt' = [bkt EXCEPT ![t] = @ + 1] /\ UNCHANGED sub
  ELSE bkt' = [bkt EXCEPT ![t] = 0] /\ sub' = [sub EXCEPT ![t] = @ + 1]

\* The walk is asked about some records of the bucket, or all, and removes gone.
Visit(t, asked, gone) ==
  /\ met' = [met EXCEPT ![t] = @ \cup asked]
  /\ bucket' = [bucket EXCEPT ![sub[t]][bkt[t]] = @ \ gone]
  /\ removed' = [removed EXCEPT ![t] = @ \cup gone]

MayRemove(t) == op[t] # "Apply"

\* The rest of VisitBucket, once the bucket is locked.
VisitAll(t) ==
  /\ \E gone \in SUBSET Here(t) :
       /\ gone # {} => MayRemove(t)
       /\ op[t] = "Clear" => gone = Here(t)
       /\ Visit(t, Here(t), gone)
  /\ Advance(t)
  /\ cActiveBuckets' = IF op[t] = "Clear" /\ sub'[t] # sub[t]
                       THEN [cActiveBuckets EXCEPT ![sub[t]] = 1] ELSE cActiveBuckets
  /\ UNCHANGED <<moving, tableLocks, call, pc, lkp, calls>>

\* Fault: the bucket's lock is not waited for.
VisitUnlockedBucket(t) == pc[t] = "walk" /\ ~WalkedAll(t) /\ VisitAll(t)

VisitBucket(t) ==
  /\ pc[t] = "walk" /\ ~WalkedAll(t) /\ BucketFree(sub[t], bkt[t], Reads(t))
  /\ VisitAll(t)

\* The predicate ends the walk at a record (LKP_ABORT, LKP_PERFORM_STOP,
\* LKP_DELETE_STOP), or the subtable is left (LKA_ABORT, or LKP_DELETE under a
\* read lock) and the walk goes on with the next one.
LeaveBucket(t) ==
  /\ pc[t] = "walk" /\ ~WalkedAll(t) /\ op[t] # "Clear"
  /\ BucketFree(sub[t], bkt[t], Reads(t))
  /\ \E asked \in SUBSET Here(t) : \E gone \in SUBSET asked :
       /\ asked # {} /\ (gone # {} => MayRemove(t))
       /\ Visit(t, asked, gone)
  /\ \/ /\ lkp' = [lkp EXCEPT ![t] = "STOP"]
        /\ sub' = [sub EXCEPT ![t] = m_cSubTables]
     \/ /\ op[t] # "DeleteIf" /\ lkp' = [lkp EXCEPT ![t] = "LEFT"]
        /\ sub' = [sub EXCEPT ![t] = @ + 1]
  /\ bkt' = [bkt EXCEPT ![t] = 0]
  /\ UNCHANGED <<cActiveBuckets, moving, tableLocks, call, pc, calls>>

\* The walk is over; what it has removed is gone.
EndWalk(t) ==
  /\ WalkedAll(t) /\ Goto(t, "walk", "unlockAll")
  /\ removed' = [removed EXCEPT ![t] = {}] /\ met' = [met EXCEPT ![t] = {}]
  /\ lkp' = [lkp EXCEPT ![t] = "LKP_PERFORM"]
  /\ Return(t, "SUCCESS")
  /\ UNCHANGED <<records, tableLocks, op, rec, sub, bkt, calls>>

UnlockAll(t) ==
  /\ pc[t] = "unlockAll" /\ UnlockTable(t, sub[t] - 1)
  /\ IF sub[t] = 1 THEN Goto(t, "unlockAll", "idle") ELSE UNCHANGED pc
  /\ sub' = [sub EXCEPT ![t] = @ - 1]
  /\ UNCHANGED <<records, call, bkt, lkp, met, removed, calls>>

Step(t) ==
  \/ LockSubTable(t) \/ LockBucket(t) \/ Insert(t) \/ DeleteKey(t) \/ FindKey(t)
  \/ NoResize(t) \/ LockToResize(t) \/ ResizeTable(t) \/ MoveRecords(t)
  \/ LockAll(t) \/ VisitBucket(t) \/ LeaveBucket(t) \/ EndWalk(t) \/ UnlockAll(t)

Next ==
  \E t \in Thread :
    \/ \E o \in OpNames, r \in Record : Invoke(t, o, r)
    \/ Step(t)

Spec == Init /\ [][Next]_vars

-----------------------------------------------------------------------------
TypeOK ==
  /\ bucket \in [SubTable -> [Bucket -> SUBSET Record]]
  /\ cActiveBuckets \in [SubTable -> {1, 2}] /\ moving \in [Thread -> SUBSET Record]
  /\ tableReaders \in [SubTable -> SUBSET Thread] /\ tableWriters \in [SubTable -> SUBSET Thread]
  /\ sub \in [Thread -> 0 .. m_cSubTables] /\ bkt \in [Thread -> Bucket]
  /\ met \in [Thread -> SUBSET Record] /\ removed \in [Thread -> SUBSET Record]

Table == (UNION {bucket[s][b] : s \in SubTable, b \in Bucket}) \cup (UNION {moving[t] : t \in Thread})

(***************************************************************************)
(* A walk that nothing ends meets every record that is in the table when   *)
(* it gets to its end, and none twice, whatever was on its way into a      *)
(* bucket, or between two, when the walk took the table locks.             *)
(***************************************************************************)
Ahead(t) ==
  {r \in Table : SubTableOf[r] > sub[t]
                 \/ (SubTableOf[r] = sub[t] /\ BucketOf(r, cActiveBuckets[sub[t]]) >= bkt[t])}
WalkMeetsRecords ==
  \A t \in Thread :
    /\ pc[t] = "walk" => Ahead(t) \cap met[t] = {}
    /\ pc[t] = "walk" /\ WalkedAll(t) /\ lkp[t] = "LKP_PERFORM" =>
         met[t] = Table \cup removed[t]

(***************************************************************************)
(* All the subtables together are one set of records with distinct keys,   *)
(* and the walks are atomic: they take effect when they have got to their  *)
(* end, and until then what they have removed counts as there, as nobody   *)
(* can look at it.                                                         *)
(***************************************************************************)
Called == {"table", "bucket", "work", "lockAll", "walk"}
Phase == [t \in Thread |-> CASE pc[t] = "idle" -> "idle"
                             [] pc[t] \in Called -> "called"
                             [] OTHER -> "done"]
Operation == [t \in Thread |-> IF op[t] = "ApplyWrite" THEN "DeleteIf" ELSE op[t]]
Seen == Table \cup (UNION {removed[t] : t \in Thread})

Abstract == INSTANCE RecordTable WITH
  table <- Seen, OpNames <- OpNames \cup {"DeleteIf"}, op <- Operation, phase <- Phase

ImplementsRecordTable == Abstract!Spec
=============================================================================
