---------------------------- MODULE RecordTable ----------------------------
(***************************************************************************)
(* What CLKRLinearHashTable and HASH_TABLE promise their clients: a set of *)
(* records with distinct keys.  Each operation takes effect at one moment  *)
(* between its call and its return, as if the others did not run; what the *)
(* table does besides (growing, shrinking) never shows.                    *)
(***************************************************************************)
CONSTANTS Thread, Record, KeyOf, OpNames

VARIABLES
  table,    \* the records in the table
  phase,    \* per thread: "idle", "called" or "done" (took effect)
  op, rec,  \* the operation and its record; the record found, for FindKey
  result

vars == <<table, phase, op, rec, result>>

Init ==
  /\ \A r, s \in table : KeyOf[r] = KeyOf[s] => r = s
  /\ phase = [t \in Thread |-> "idle"]
  /\ result = [t \in Thread |-> "NONE"]

Refusal == {"ALLOC_FAIL", "UNUSABLE"}

\* A call, which an unusable table refuses at once.
Invoke(t) ==
  /\ phase[t] = "idle"
  /\ \E o \in OpNames, r \in Record :
       op' = [op EXCEPT ![t] = o] /\ rec' = [rec EXCEPT ![t] = r]
  /\ \/ phase' = [phase EXCEPT ![t] = "called"] /\ result' = [result EXCEPT ![t] = "NONE"]
     \/ UNCHANGED phase /\ \E e \in Refusal : result' = [result EXCEPT ![t] = e]
  /\ UNCHANGED table

\* The operation takes effect, and perhaps returns at once.
Effect(t, res) ==
  /\ phase[t] = "called"
  /\ \E p \in {"done", "idle"} : phase' = [phase EXCEPT ![t] = p]
  /\ result' = [result EXCEPT ![t] = res]
  /\ op' = op

SameKey(t) == {r \in table : KeyOf[r] = KeyOf[rec[t]]}

Insert(t) ==
  /\ op[t] = "Insert" /\ rec' = rec
  /\ \/ SameKey(t) # {} /\ Effect(t, "KEY_EXISTS") /\ table' = table
     \/ SameKey(t) = {} /\ Effect(t, "SUCCESS") /\ table' = table \cup {rec[t]}

Overwrite(t) ==
  /\ op[t] = "Overwrite" /\ rec' = rec
  /\ Effect(t, "SUCCESS") /\ table' = (table \ SameKey(t)) \cup {rec[t]}

Victims(t) == IF op[t] = "DeleteKey" THEN SameKey(t) ELSE table \cap {rec[t]}

Delete(t) ==
  /\ op[t] \in {"DeleteKey", "DeleteRecord"} /\ rec' = rec
  /\ Effect(t, IF Victims(t) = {} THEN "NO_SUCH_KEY" ELSE "SUCCESS")
  /\ table' = table \ Victims(t)

Find(t) ==
  /\ table' = table
  /\ \/ /\ op[t] = "FindKey" /\ Effect(t, "SUCCESS")
        /\ \E r \in SameKey(t) : rec' = [rec EXCEPT ![t] = r]
     \/ /\ op[t] = "FindKey" /\ SameKey(t) = {} /\ Effect(t, "NO_SUCH_KEY") /\ rec' = rec
     \/ /\ op[t] = "FindRecord" /\ rec' = rec
        /\ Effect(t, IF rec[t] \in table THEN "SUCCESS" ELSE "NO_SUCH_KEY")

DeleteIf(t) ==
  /\ op[t] = "DeleteIf" /\ rec' = rec /\ Effect(t, "SUCCESS")
  /\ \E gone \in SUBSET table : table' = table \ gone

\* A visit of all records, which leaves them as they are.
Apply(t) ==
  op[t] = "Apply" /\ rec' = rec /\ Effect(t, "SUCCESS") /\ table' = table

Clear(t) ==
  op[t] = "Clear" /\ rec' = rec /\ Effect(t, "SUCCESS") /\ table' = {}

\* No record is ever misplaced; the count kept beside the records is not promised.
CheckTable(t) ==
  /\ op[t] = "CheckTable" /\ rec' = rec /\ table' = table
  /\ \E res \in {"CONSISTENT", "MISCOUNTED"} : Effect(t, res)

\* No memory, or the table became unusable: nothing happened.
Refuse(t) == rec' = rec /\ table' = table /\ \E e \in Refusal : Effect(t, e)

Return(t) ==
  /\ phase[t] = "done" /\ phase' = [phase EXCEPT ![t] = "idle"]
  /\ UNCHANGED <<table, op, rec, result>>

Next ==
  \E t \in Thread :
    \/ Invoke(t) \/ Return(t)
    \/ Insert(t) \/ Overwrite(t) \/ Delete(t) \/ Find(t) \/ Clear(t) \/ CheckTable(t)
    \/ DeleteIf(t) \/ Apply(t)
    \/ Refuse(t)

Spec == Init /\ [][Next]_vars
=============================================================================
