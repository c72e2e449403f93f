--------------------------- MODULE ProgramsProofs ---------------------------
(***************************************************************************)
(* Theorems about the programs: those whose threads meet at a lock, at     *)
(* events or at a mutex (the reader/writer lock, the processes that read   *)
(* and write, the thread pool and the sums), and those that pass buffers   *)
(* to overlapped operations and take them back with the completions (the   *)
(* two echo servers and the PUT request).  Each is proved of the module's  *)
(* own specification and of PartSpec, in which the other programs stand    *)
(* still; in the end, the types of all the programs.                       *)
(***************************************************************************)
EXTENDS MCPrograms, FiniteSetTheorems, TLAPS

(* What each part does in a step of the suite is a step of its module.     *)
LEMMA PartSteps ==
  ASSUME [PartNext]_partVars
  PROVE  /\ [Lock!Next]_(Lock!vars) /\ [Mrw!Next]_(Mrw!mrwVars)
         /\ [Pool!Next]_(Pool!poolVars) /\ [Sums!Next]_(Sums!sumsVars)
BY Zenon DEF PartNext, partVars, lockVars, mrwVars, poolVars, sumsVars, putVars, serverVars,
   echoVars, Lock!vars, Mrw!mrwVars, Pool!poolVars, Pool!pool, Pool!mutex, Pool!mainVars,
   Pool!workerVars, Sums!sumsVars, Sums!shared, Sums!locals

\* The modules have the operators of FiniteSets under names of their own.
LEMMA SameCardinality ==
  ASSUME NEW S
  PROVE  /\ Mrw!Cardinality(S) = Cardinality(S) /\ Lock!Cardinality(S) = Cardinality(S)
         /\ Pool!Cardinality(S) = Cardinality(S)
BY Zenon DEF Cardinality, Mrw!Cardinality, Lock!Cardinality, Pool!Cardinality

LEMMA SameFiniteness ==
  ASSUME NEW S
  PROVE  /\ Mrw!IsFiniteSet(S) <=> IsFiniteSet(S)
         /\ Lock!IsFiniteSet(S) <=> IsFiniteSet(S)
         /\ Pool!IsFiniteSet(S) <=> IsFiniteSet(S)
BY Zenon DEF IsFiniteSet, Mrw!IsFiniteSet, Lock!IsFiniteSet, Pool!IsFiniteSet

-----------------------------------------------------------------------------
(* Win32MRW                                                                *)

\* Who has reset read event e and has still to set it: a writer all of them,
\* until it has set them again one by one, and a reader one.
HasEvent(p, e) ==
  \/ mrwPc[p] = "writing"
  \/ mrwPc[p] = "setReadEvents" /\ ii[p] <= e
  \/ mrwPc[p] \in {"setWriteEvent", "reading"} /\ ii[p] = e

EventsInv ==
  \A e \in Mrw!ReadEvents : \A p \in Process :
    HasEvent(p, e) => ~readEvent[e] /\ \A q \in Process : HasEvent(q, e) => p = q

MrwInv == Mrw!TypeOK /\ EventsInv

LEMMA MrwStart == Mrw!ProcessAssumption /\ Mrw!Init => MrwInv
<1> SUFFICES ASSUME Mrw!ProcessAssumption, Mrw!Init PROVE MrwInv
  OBVIOUS
<1>1. Mrw!TypeOK
  BY DEF Mrw!ProcessAssumption, Mrw!Init, Mrw!TypeOK, Mrw!ReadEvents, Mrw!PCs
<1>2. EventsInv
  BY DEF Mrw!Init, EventsInv, HasEvent
<1> QED
  BY <1>1, <1>2 DEF MrwInv

LEMMA MrwStep ==
  ASSUME Mrw!ProcessAssumption, MrwInv, [Mrw!Next]_(Mrw!mrwVars)
  PROVE  MrwInv'
<1> USE DEF Mrw!TypeOK, Mrw!ReadEvents, Mrw!Goto, Mrw!SetCounter, Mrw!PCs, Mrw!ProcessAssumption
<1>0. Mrw!TypeOK /\ EventsInv /\ 0 \in Mrw!ReadEvents
  BY DEF MrwInv
<1>1. CASE UNCHANGED Mrw!mrwVars
  BY <1>0, <1>1 DEF Mrw!mrwVars, MrwInv, EventsInv, HasEvent
<1>2. ASSUME NEW p \in Process, Mrw!ChooseOption(p)
      PROVE  MrwInv'
  <2>1. Mrw!TypeOK'
    BY <1>0, <1>2 DEF Mrw!ChooseOption
  <2>2. ASSUME NEW q \in Process, NEW e \in Mrw!ReadEvents, HasEvent(q, e)'
        PROVE  HasEvent(q, e)
    BY <1>0, <1>2, <2>2 DEF Mrw!ChooseOption, HasEvent
  <2>3. readEvent' = readEvent
    BY <1>2 DEF Mrw!ChooseOption
  <2> QED
    BY <1>0, <2>1, <2>2, <2>3 DEF MrwInv, EventsInv
<1>3. ASSUME NEW p \in Process, Mrw!WriteWaitsWriting(p)
      PROVE  MrwInv'
  <2>1. Mrw!TypeOK'
    BY <1>0, <1>3 DEF Mrw!WriteWaitsWriting
  <2>2. ASSUME NEW q \in Process, NEW e \in Mrw!ReadEvents, HasEvent(q, e)'
        PROVE  HasEvent(q, e)
    BY <1>0, <1>3, <2>2 DEF Mrw!WriteWaitsWriting, HasEvent
  <2>3. readEvent' = readEvent
    BY <1>3 DEF Mrw!WriteWaitsWriting
  <2> QED
    BY <1>0, <2>1, <2>2, <2>3 DEF MrwInv, EventsInv
<1>4. ASSUME NEW p \in Process, Mrw!WriteWaitsReading(p)
      PROVE  MrwInv'
  <2>1. Mrw!TypeOK'
    BY <1>0, <1>4 DEF Mrw!WriteWaitsReading
  <2>2. ASSUME NEW q \in Process, NEW e \in Mrw!ReadEvents, HasEvent(q, e)'
        PROVE  HasEvent(q, e) \/ (q = p /\ readEvent[e])
    BY <1>0, <1>4, <2>2 DEF Mrw!WriteWaitsReading, HasEvent
  <2>3. \A e \in Mrw!ReadEvents : readEvent[e] /\ ~readEvent'[e]
    BY <1>4 DEF Mrw!WriteWaitsReading
  <2> QED
    BY <1>0, <2>1, <2>2, <2>3 DEF MrwInv, EventsInv
<1>5. ASSUME NEW p \in Process, Mrw!EndWriting(p)
      PROVE  MrwInv'
  <2>1. Mrw!TypeOK'
    BY <1>0, <1>5 DEF Mrw!EndWriting
  <2>2. ASSUME NEW q \in Process, NEW e \in Mrw!ReadEvents, HasEvent(q, e)'
        PROVE  HasEvent(q, e)
    BY <1>0, <1>5, <2>2 DEF Mrw!EndWriting, HasEvent
  <2>3. readEvent' = readEvent
    BY <1>5 DEF Mrw!EndWriting
  <2> QED
    BY <1>0, <2>1, <2>2, <2>3 DEF MrwInv, EventsInv
<1>6. ASSUME NEW p \in Process, Mrw!SetReadEvent(p)
      PROVE  MrwInv'
  <2>1. Mrw!TypeOK'
    BY <1>0, <1>6 DEF Mrw!SetReadEvent
  <2>2. ASSUME NEW q \in Process, NEW e \in Mrw!ReadEvents, HasEvent(q, e)'
        PROVE  HasEvent(q, e) /\ (q = p => e # ii[p])
    BY <1>0, <1>6, <2>2 DEF Mrw!SetReadEvent, HasEvent
  <2>3. /\ ii[p] \in Mrw!ReadEvents /\ HasEvent(p, ii[p])
        /\ readEvent' = [readEvent EXCEPT ![ii[p]] = TRUE]
    BY <1>0, <1>6 DEF Mrw!SetReadEvent, HasEvent
  <2> QED
    BY <1>0, <2>1, <2>2, <2>3 DEF MrwInv, EventsInv
<1>7. ASSUME NEW p \in Process, Mrw!ReadWaitsWriting(p)
      PROVE  MrwInv'
  <2>1. Mrw!TypeOK'
    BY <1>0, <1>7 DEF Mrw!ReadWaitsWriting
  <2>2. ASSUME NEW q \in Process, NEW e \in Mrw!ReadEvents, HasEvent(q, e)'
        PROVE  HasEvent(q, e)
    BY <1>0, <1>7, <2>2 DEF Mrw!ReadWaitsWriting, HasEvent
  <2>3. readEvent' = readEvent
    BY <1>7 DEF Mrw!ReadWaitsWriting
  <2> QED
    BY <1>0, <2>1, <2>2, <2>3 DEF MrwInv, EventsInv
<1>8. ASSUME NEW p \in Process, Mrw!TakeReadEvent(p)
      PROVE  MrwInv'
  <2>1. Mrw!TypeOK'
    BY <1>0, <1>8 DEF Mrw!TakeReadEvent
  <2>2. ASSUME NEW q \in Process, NEW e \in Mrw!ReadEvents, HasEvent(q, e)'
        PROVE  HasEvent(q, e) \/ (q = p /\ e = ii[p] /\ readEvent[e])
    BY <1>0, <1>8, <2>2 DEF Mrw!TakeReadEvent, HasEvent
  <2>3. /\ ii[p] \in Mrw!ReadEvents /\ readEvent[ii[p]]
        /\ readEvent' = [readEvent EXCEPT ![ii[p]] = FALSE]
    BY <1>0, <1>8 DEF Mrw!TakeReadEvent, HasEvent
  <2> QED
    BY <1>0, <2>1, <2>2, <2>3 DEF MrwInv, EventsInv
<1>9. ASSUME NEW p \in Process, Mrw!ReadEventTimeout(p)
      PROVE  MrwInv'
  <2>1. Mrw!TypeOK'
    BY <1>0, <1>9 DEF Mrw!ReadEventTimeout
  <2>2. ASSUME NEW q \in Process, NEW e \in Mrw!ReadEvents, HasEvent(q, e)'
        PROVE  HasEvent(q, e)
    BY <1>0, <1>9, <2>2 DEF Mrw!ReadEventTimeout, HasEvent
  <2>3. readEvent' = readEvent
    BY <1>9 DEF Mrw!ReadEventTimeout
  <2> QED
    BY <1>0, <2>1, <2>2, <2>3 DEF MrwInv, EventsInv
<1>10. ASSUME NEW p \in Process, Mrw!SetWriteEvent(p)
       PROVE  MrwInv'
  <2>1. Mrw!TypeOK'
    BY <1>0, <1>10 DEF Mrw!SetWriteEvent
  <2>2. ASSUME NEW q \in Process, NEW e \in Mrw!ReadEvents, HasEvent(q, e)'
        PROVE  HasEvent(q, e)
    BY <1>0, <1>10, <2>2 DEF Mrw!SetWriteEvent, HasEvent
  <2>3. readEvent' = readEvent
    BY <1>10 DEF Mrw!SetWriteEvent
  <2> QED
    BY <1>0, <2>1, <2>2, <2>3 DEF MrwInv, EventsInv
<1>11. ASSUME NEW p \in Process, Mrw!EndReading(p)
       PROVE  MrwInv'
  <2>1. Mrw!TypeOK'
    BY <1>0, <1>11 DEF Mrw!EndReading
  <2>2. ASSUME NEW q \in Process, NEW e \in Mrw!ReadEvents, HasEvent(q, e)'
        PROVE  HasEvent(q, e) /\ q # p
    BY <1>0, <1>11, <2>2 DEF Mrw!EndReading, HasEvent
  <2>3. /\ ii[p] \in Mrw!ReadEvents /\ HasEvent(p, ii[p])
        /\ readEvent' = [readEvent EXCEPT ![ii[p]] = TRUE]
    BY <1>0, <1>11 DEF Mrw!EndReading, HasEvent
  <2> QED
    BY <1>0, <2>1, <2>2, <2>3 DEF MrwInv, EventsInv
<1> QED
  BY <1>1, <1>2, <1>3, <1>4, <1>5, <1>6, <1>7, <1>8, <1>9, <1>10, <1>11
     DEF Mrw!Next, Mrw!MrwStep

LEMMA MrwExcludes == Mrw!ProcessAssumption /\ MrwInv => Mrw!WriterAlone
<1> SUFFICES ASSUME Mrw!ProcessAssumption, MrwInv PROVE Mrw!WriterAlone
  OBVIOUS
<1> USE DEF MrwInv, EventsInv, HasEvent, Mrw!TypeOK, Mrw!ReadEvents, Mrw!ProcessAssumption
<1>1. ASSUME NEW p \in Mrw!Writing PROVE Mrw!Inside = {} /\ Mrw!Writing = {p}
  <2>1. p \in Process /\ mrwPc[p] = "writing" /\ 0 \in Mrw!ReadEvents
    BY <1>1 DEF Mrw!Writing
  <2>2. \A q \in Mrw!Writing : q = p
    BY <2>1 DEF Mrw!Writing
  <2>3. \A q \in Mrw!Inside : FALSE
    BY <2>1 DEF Mrw!Inside
  <2> QED
    BY <2>2, <2>3
<1>2. ASSUME Mrw!Writing # {} PROVE Mrw!Inside = {} /\ Mrw!Cardinality(Mrw!Writing) = 1
  <2>1. PICK p : p \in Mrw!Writing
    BY <1>2
  <2>2. Mrw!Inside = {} /\ Mrw!Writing = {p}
    BY <1>1, <2>1
  <2>3. Cardinality({p}) = 1
    BY FS_Singleton
  <2>4. Mrw!Cardinality({p}) = Cardinality({p})
    BY SameCardinality, Zenon
  <2> QED
    BY <2>2, <2>3, <2>4
<1>3. \A p, q \in Mrw!Inside : ii[p] = ii[q] => p = q
  BY DEF Mrw!Inside
<1> HIDE DEF MrwInv, EventsInv, HasEvent, Mrw!TypeOK, Mrw!ProcessAssumption
<1> QED
  BY <1>2, <1>3, Zenon DEF Mrw!WriterAlone

(* However many processes come and go, nobody is inside beside one that    *)
(* writes, and no two readers have the same read event, although a writer  *)
(* sets the read events one by one after it has set the write event.       *)
THEOREM WriterAlwaysAlone ==
  /\ Mrw!Spec => []Mrw!WriterAlone
  /\ PartSpec => []WriterAlone
<1>1. Mrw!ProcessAssumption
  BY ProgramsAssumption
<1>2. Mrw!Init => MrwInv
  BY <1>1, MrwStart
<1>3. MrwInv /\ [Mrw!Next]_(Mrw!mrwVars) => MrwInv'
  BY <1>1, MrwStep
<1>4. MrwInv => Mrw!WriterAlone
  BY <1>1, MrwExcludes
<1>5. MrwInv /\ [PartNext]_partVars => MrwInv'
  BY <1>3, PartSteps
<1>6. PartInit => MrwInv
  BY <1>2 DEF PartInit
<1>7. Mrw!WriterAlone <=> WriterAlone
  BY DEF WriterAlone
<1>8. Mrw!Spec => []Mrw!WriterAlone
  BY <1>2, <1>3, <1>4, PTL DEF Mrw!Spec
<1>9. PartSpec => []WriterAlone
  BY <1>4, <1>5, <1>6, <1>7, PTL DEF PartSpec
<1> QED
  BY <1>8, <1>9

-----------------------------------------------------------------------------
(* RWLock                                                                  *)

\* The readers that lockCount counts, and the threads that have neither to
\* be subtracted from it nor to set it.
Readers == {t \in Thread : lockPc[t] \in {"sharedLeave", "reading"}}
Outside == {t \in Thread : lockPc[t] \notin {"sharedLeave", "reading", "writing"}}

\* After a late signal lockCount is set while readers are inside and then
\* reduced by them; each does so once before it comes in again.
CountInv ==
  /\ lockCount <= Cardinality(Readers)
  /\ lockCount >= -1 - Cardinality(Outside)

\* A thread in ReleaseRWLock takes the way of a writer if the count says so.
LeavesAsWriter(t) == lockPc[t] = "branch" /\ count[t] < 0
OwnerPCs == {"sharedIncrement", "sharedLeave", "announce", "checkReaders", "wait", "claim",
             "writing", "resetFlag", "leave"}

OwnerInv == \A t \in Thread : lockPc[t] \in OwnerPCs \/ LeavesAsWriter(t) => critsec = t

ReadersInv ==
  /\ \A t \in Thread : lockPc[t] \in {"claim", "writing"} \/ LeavesAsWriter(t) => Readers = {}
  /\ \A t \in Thread : lockPc[t] = "writing" => lockCount = -1
  /\ (\A t \in Thread : lockPc[t] # "writing" /\ ~LeavesAsWriter(t)) =>
       lockCount = Cardinality(Readers)

LockInv == Lock!TypeOK /\ CountInv /\ (~lateSignal => OwnerInv /\ ReadersInv)

LEMMA CountThreads ==
  ASSUME IsFiniteSet(Thread), NEW S \in SUBSET Thread
  PROVE  /\ Cardinality(Thread) \in Nat /\ Cardinality(S) \in 0 .. Cardinality(Thread)
         /\ S = {} <=> Cardinality(S) = 0
<1>1. IsFiniteSet(S) /\ Cardinality(S) <= Cardinality(Thread)
  BY FS_Subset
<1>2. Cardinality(S) \in Nat /\ Cardinality(Thread) \in Nat
  BY <1>1, FS_CardinalityType
<1>3. S = {} <=> Cardinality(S) = 0
  BY <1>1, FS_EmptySet
<1> QED
  BY <1>1, <1>2, <1>3

LEMMA AddThread ==
  ASSUME IsFiniteSet(Thread), NEW S \in SUBSET Thread, NEW t \in Thread, t \notin S
  PROVE  Cardinality(S \cup {t}) = Cardinality(S) + 1
BY FS_Subset, FS_AddElement

LEMMA RemoveThread ==
  ASSUME IsFiniteSet(Thread), NEW S \in SUBSET Thread, NEW t \in S
  PROVE  Cardinality(S \ {t}) = Cardinality(S) - 1
BY FS_Subset, FS_RemoveElement

LEMMA ThreadsFinite ==
  IsFiniteSet(Thread) /\ Lock!Cardinality(Thread) = Cardinality(Thread) /\ NoThread \notin Thread
  /\ MaxWrites \in Nat
<1>1. Lock!LockAssumption
  BY ProgramsAssumption
<1>2. Lock!IsFiniteSet(Thread) /\ NoThread \notin Thread /\ MaxWrites \in Nat
  BY <1>1 DEF Lock!LockAssumption
<1>3. IsFiniteSet(Thread)
  BY <1>2, SameFiniteness, Zenon
<1>4. Lock!Cardinality(Thread) = Cardinality(Thread)
  BY SameCardinality, Zenon
<1> QED
  BY <1>2, <1>3, <1>4

LEMMA LockStart == Lock!Init => LockInv
<1> SUFFICES ASSUME Lock!Init PROVE LockInv
  OBVIOUS
<1> USE ThreadsFinite DEF Lock!Init
<1>1. Readers = {} /\ Cardinality(Readers) = 0
  BY FS_EmptySet DEF Readers
<1>2. Cardinality(Outside) \in Nat /\ Cardinality(Thread) \in Nat
  BY CountThreads DEF Outside
<1>3. Lock!TypeOK
  <2>1. 0 \in -1 - Lock!Cardinality(Thread) .. Lock!Cardinality(Thread)
    BY <1>2
  <2>2. lockPc \in [Thread -> Lock!PC]
    BY DEF Lock!PC
  <2>3. count \in [Thread -> -1 - Lock!Cardinality(Thread) .. Lock!Cardinality(Thread)]
    BY <2>1
  <2>4. lockCount \in -1 - Lock!Cardinality(Thread) .. Lock!Cardinality(Thread)
    BY <2>1
  <2>5. critsec \in Thread \cup {NoThread} /\ writes \in 0 .. MaxWrites
    OBVIOUS
  <2>6. fWriterWaiting \in BOOLEAN /\ readersDoneEvent \in BOOLEAN /\ lateSignal \in BOOLEAN
    OBVIOUS
  <2> QED
    BY <2>2, <2>3, <2>4, <2>5, <2>6, Zenon DEF Lock!TypeOK
<1>4. CountInv
  BY <1>1, <1>2 DEF CountInv
<1>5. OwnerInv /\ ReadersInv
  BY <1>1 DEF OwnerInv, ReadersInv, OwnerPCs, LeavesAsWriter
<1> QED
  BY <1>3, <1>4, <1>5 DEF LockInv

LEMMA LockStep == LockInv /\ [Lock!Next]_(Lock!vars) => LockInv'
<1> SUFFICES ASSUME LockInv, [Lock!Next]_(Lock!vars) PROVE LockInv'
  OBVIOUS
<1> USE ThreadsFinite
<1>0. /\ Lock!TypeOK /\ CountInv /\ (~lateSignal => OwnerInv /\ ReadersInv)
      /\ Readers \in SUBSET Thread /\ Outside \in SUBSET Thread
      /\ Cardinality(Thread) \in Nat
  BY CountThreads DEF LockInv, Readers, Outside
<1>a. /\ Cardinality(Readers) \in 0 .. Cardinality(Thread)
      /\ Readers = {} <=> Cardinality(Readers) = 0
      /\ Cardinality(Outside) \in 0 .. Cardinality(Thread)
  BY <1>0, CountThreads
<1>b. Readers' \in SUBSET Thread /\ Outside' \in SUBSET Thread
  BY DEF Readers, Outside
<1>c. /\ Cardinality(Readers)' \in 0 .. Cardinality(Thread)
      /\ Readers' = {} <=> Cardinality(Readers)' = 0
      /\ Cardinality(Outside)' \in 0 .. Cardinality(Thread)
  BY <1>b, CountThreads
<1>1. CASE UNCHANGED Lock!vars
  BY <1>0, <1>1 DEF Lock!vars, LockInv, Lock!TypeOK, CountInv, OwnerInv, ReadersInv, Readers,
     Outside, LeavesAsWriter
<1>2. ASSUME NEW t \in Thread, Lock!SharedEnter(t)
      PROVE  LockInv'
  <2>1. Readers' = Readers /\ Outside' = Outside
    BY <1>0, <1>2 DEF Lock!SharedEnter, Lock!Goto, Lock!TypeOK, Readers, Outside
  <2>2. /\ Cardinality(Readers)' = Cardinality(Readers)
        /\ Cardinality(Outside)' = Cardinality(Outside)
    BY <2>1
  <2>3. CountInv'
    BY <1>0, <1>a, <1>c, <1>2, <2>2 DEF Lock!SharedEnter, Lock!TypeOK, CountInv
  <2>4. Lock!TypeOK'
    BY <1>0, <1>a, <1>c, <1>2, <2>3 DEF Lock!SharedEnter, Lock!Goto, Lock!TypeOK, Lock!PC, CountInv
  <2>5. CASE lateSignal'
    BY <2>3, <2>4, <2>5 DEF LockInv
  <2>6. CASE ~lateSignal'
    <3>1. ~lateSignal /\ OwnerInv /\ ReadersInv
      BY <1>0, <1>2, <2>6 DEF Lock!SharedEnter
    <3>2. OwnerInv'
      BY <1>0, <1>2, <3>1 DEF Lock!SharedEnter, Lock!Goto, Lock!TypeOK, OwnerInv, OwnerPCs, LeavesAsWriter
    <3>3. ReadersInv'
      BY <1>0, <1>a, <1>c, <1>2, <2>1, <2>2, <2>6, <3>1 DEF Lock!SharedEnter, Lock!Goto, Lock!TypeOK, OwnerInv,
         OwnerPCs, ReadersInv, LeavesAsWriter
    <3> QED
      BY <2>3, <2>4, <3>2, <3>3 DEF LockInv
  <2> QED
    BY <2>5, <2>6
<1>3. ASSUME NEW t \in Thread, Lock!ExclusiveEnter(t)
      PROVE  LockInv'
  <2>1. Readers' = Readers /\ Outside' = Outside
    BY <1>0, <1>3 DEF Lock!ExclusiveEnter, Lock!Goto, Lock!TypeOK, Readers, Outside
  <2>2. /\ Cardinality(Readers)' = Cardinality(Readers)
        /\ Cardinality(Outside)' = Cardinality(Outside)
    BY <2>1
  <2>3. CountInv'
    BY <1>0, <1>a, <1>c, <1>3, <2>2 DEF Lock!ExclusiveEnter, Lock!TypeOK, CountInv
  <2>4. Lock!TypeOK'
    BY <1>0, <1>a, <1>c, <1>3, <2>3 DEF Lock!ExclusiveEnter, Lock!Goto, Lock!TypeOK, Lock!PC, CountInv
  <2>5. CASE lateSignal'
    BY <2>3, <2>4, <2>5 DEF LockInv
  <2>6. CASE ~lateSignal'
    <3>1. ~lateSignal /\ OwnerInv /\ ReadersInv
      BY <1>0, <1>3, <2>6 DEF Lock!ExclusiveEnter
    <3>2. OwnerInv'
      BY <1>0, <1>3, <3>1 DEF Lock!ExclusiveEnter, Lock!Goto, Lock!TypeOK, OwnerInv, OwnerPCs, LeavesAsWriter
    <3>3. ReadersInv'
      BY <1>0, <1>a, <1>c, <1>3, <2>1, <2>2, <2>6, <3>1 DEF Lock!ExclusiveEnter, Lock!Goto, Lock!TypeOK, OwnerInv,
         OwnerPCs, ReadersInv, LeavesAsWriter
    <3> QED
      BY <2>3, <2>4, <3>2, <3>3 DEF LockInv
  <2> QED
    BY <2>5, <2>6
<1>4. ASSUME NEW t \in Thread, Lock!SharedIncrement(t)
      PROVE  LockInv'
  <2>1. Readers' = Readers \cup {t} /\ Outside' = Outside \ {t} /\ t \notin Readers /\ t \in Outside
    BY <1>0, <1>4 DEF Lock!SharedIncrement, Lock!Goto, Lock!TypeOK, Readers, Outside
  <2>a. /\ Cardinality(Readers \cup {t}) = Cardinality(Readers) + 1
        /\ Cardinality(Outside \ {t}) = Cardinality(Outside) - 1
    BY <1>0, <2>1, AddThread, RemoveThread
  <2>2. /\ Cardinality(Readers)' = Cardinality(Readers) + 1
        /\ Cardinality(Outside)' = Cardinality(Outside) - 1
    BY <2>1, <2>a
  <2>3. CountInv'
    BY <1>0, <1>a, <1>c, <1>4, <2>2 DEF Lock!SharedIncrement, Lock!TypeOK, CountInv
  <2>4. Lock!TypeOK'
    BY <1>0, <1>a, <1>c, <1>4, <2>3 DEF Lock!SharedIncrement, Lock!Goto, Lock!TypeOK, Lock!PC, CountInv
  <2>5. CASE lateSignal'
    BY <2>3, <2>4, <2>5 DEF LockInv
  <2>6. CASE ~lateSignal'
    <3>1. ~lateSignal /\ OwnerInv /\ ReadersInv
      BY <1>0, <1>4, <2>6 DEF Lock!SharedIncrement
    <3>2. OwnerInv'
      BY <1>0, <1>4, <3>1 DEF Lock!SharedIncrement, Lock!Goto, Lock!TypeOK, OwnerInv, OwnerPCs, LeavesAsWriter
    <3>3. ReadersInv'
      BY <1>0, <1>a, <1>c, <1>4, <2>1, <2>2, <2>6, <3>1 DEF Lock!SharedIncrement, Lock!Goto, Lock!TypeOK, OwnerInv,
         OwnerPCs, ReadersInv, LeavesAsWriter
    <3> QED
      BY <2>3, <2>4, <3>2, <3>3 DEF LockInv
  <2> QED
    BY <2>5, <2>6
<1>5. ASSUME NEW t \in Thread, Lock!SharedLeave(t)
      PROVE  LockInv'
  <2>1. Readers' = Readers /\ Outside' = Outside
    BY <1>0, <1>5 DEF Lock!SharedLeave, Lock!Goto, Lock!TypeOK, Readers, Outside
  <2>2. /\ Cardinality(Readers)' = Cardinality(Readers)
        /\ Cardinality(Outside)' = Cardinality(Outside)
    BY <2>1
  <2>3. CountInv'
    BY <1>0, <1>a, <1>c, <1>5, <2>2 DEF Lock!SharedLeave, Lock!TypeOK, CountInv
  <2>4. Lock!TypeOK'
    BY <1>0, <1>a, <1>c, <1>5, <2>3 DEF Lock!SharedLeave, Lock!Goto, Lock!TypeOK, Lock!PC, CountInv
  <2>5. CASE lateSignal'
    BY <2>3, <2>4, <2>5 DEF LockInv
  <2>6. CASE ~lateSignal'
    <3>1. ~lateSignal /\ OwnerInv /\ ReadersInv
      BY <1>0, <1>5, <2>6 DEF Lock!SharedLeave
    <3>2. OwnerInv'
      BY <1>0, <1>5, <3>1 DEF Lock!SharedLeave, Lock!Goto, Lock!TypeOK, OwnerInv, OwnerPCs, LeavesAsWriter
    <3>3. ReadersInv'
      BY <1>0, <1>a, <1>c, <1>5, <2>1, <2>2, <2>6, <3>1 DEF Lock!SharedLeave, Lock!Goto, Lock!TypeOK, OwnerInv,
         OwnerPCs, ReadersInv, LeavesAsWriter
    <3> QED
      BY <2>3, <2>4, <3>2, <3>3 DEF LockInv
  <2> QED
    BY <2>5, <2>6
<1>6. ASSUME NEW t \in Thread, Lock!Announce(t)
      PROVE  LockInv'
  <2>1. Readers' = Readers /\ Outside' = Outside
    BY <1>0, <1>6 DEF Lock!Announce, Lock!Goto, Lock!TypeOK, Readers, Outside
  <2>2. /\ Cardinality(Readers)' = Cardinality(Readers)
        /\ Cardinality(Outside)' = Cardinality(Outside)
    BY <2>1
  <2>3. CountInv'
    BY <1>0, <1>a, <1>c, <1>6, <2>2 DEF Lock!Announce, Lock!TypeOK, CountInv
  <2>4. Lock!TypeOK'
    BY <1>0, <1>a, <1>c, <1>6, <2>3 DEF Lock!Announce, Lock!Goto, Lock!TypeOK, Lock!PC, CountInv
  <2>5. CASE lateSignal'
    BY <2>3, <2>4, <2>5 DEF LockInv
  <2>6. CASE ~lateSignal'
    <3>1. ~lateSignal /\ OwnerInv /\ ReadersInv
      BY <1>0, <1>6, <2>6 DEF Lock!Announce
    <3>2. OwnerInv'
      BY <1>0, <1>6, <3>1 DEF Lock!Announce, Lock!Goto, Lock!TypeOK, OwnerInv, OwnerPCs, LeavesAsWriter
    <3>3. ReadersInv'
      BY <1>0, <1>a, <1>c, <1>6, <2>1, <2>2, <2>6, <3>1 DEF Lock!Announce, Lock!Goto, Lock!TypeOK, OwnerInv,
         OwnerPCs, ReadersInv, LeavesAsWriter
    <3> QED
      BY <2>3, <2>4, <3>2, <3>3 DEF LockInv
  <2> QED
    BY <2>5, <2>6
<1>7. ASSUME NEW t \in Thread, Lock!CheckReaders(t)
      PROVE  LockInv'
  <2>1. Readers' = Readers /\ Outside' = Outside
    BY <1>0, <1>7 DEF Lock!CheckReaders, Lock!Goto, Lock!TypeOK, Readers, Outside
  <2>2. /\ Cardinality(Readers)' = Cardinality(Readers)
        /\ Cardinality(Outside)' = Cardinality(Outside)
    BY <2>1
  <2>3. CountInv'
    BY <1>0, <1>a, <1>c, <1>7, <2>2 DEF Lock!CheckReaders, Lock!TypeOK, CountInv
  <2>4. Lock!TypeOK'
    BY <1>0, <1>a, <1>c, <1>7, <2>3 DEF Lock!CheckReaders, Lock!Goto, Lock!TypeOK, Lock!PC, CountInv
  <2>5. CASE lateSignal'
    BY <2>3, <2>4, <2>5 DEF LockInv
  <2>6. CASE ~lateSignal'
    <3>1. ~lateSignal /\ OwnerInv /\ ReadersInv
      BY <1>0, <1>7, <2>6 DEF Lock!CheckReaders
    <3>2. OwnerInv'
      BY <1>0, <1>7, <3>1 DEF Lock!CheckReaders, Lock!Goto, Lock!TypeOK, OwnerInv, OwnerPCs, LeavesAsWriter
    <3>3. ReadersInv'
      BY <1>0, <1>a, <1>c, <1>7, <2>1, <2>2, <2>6, <3>1 DEF Lock!CheckReaders, Lock!Goto, Lock!TypeOK, OwnerInv,
         OwnerPCs, ReadersInv, LeavesAsWriter
    <3> QED
      BY <2>3, <2>4, <3>2, <3>3 DEF LockInv
  <2> QED
    BY <2>5, <2>6
<1>8. ASSUME NEW t \in Thread, Lock!WaitForReaders(t)
      PROVE  LockInv'
  <2>1. Readers' = Readers /\ Outside' = Outside
    BY <1>0, <1>8 DEF Lock!WaitForReaders, Lock!Goto, Lock!TypeOK, Readers, Outside
  <2>2. /\ Cardinality(Readers)' = Cardinality(Readers)
        /\ Cardinality(Outside)' = Cardinality(Outside)
    BY <2>1
  <2>3. CountInv'
    BY <1>0, <1>a, <1>c, <1>8, <2>2 DEF Lock!WaitForReaders, Lock!TypeOK, CountInv
  <2>4. Lock!TypeOK'
    BY <1>0, <1>a, <1>c, <1>8, <2>3 DEF Lock!WaitForReaders, Lock!Goto, Lock!TypeOK, Lock!PC, CountInv
  <2>5. CASE lateSignal'
    BY <2>3, <2>4, <2>5 DEF LockInv
  <2>6. CASE ~lateSignal'
    <3>1. ~lateSignal /\ OwnerInv /\ ReadersInv
      BY <1>0, <1>8, <2>6 DEF Lock!WaitForReaders
    <3>2. OwnerInv'
      BY <1>0, <1>8, <3>1 DEF Lock!WaitForReaders, Lock!Goto, Lock!TypeOK, OwnerInv, OwnerPCs, LeavesAsWriter
    <3>a. \A u \in Thread : lockPc[u] # "writing" /\ ~LeavesAsWriter(u)
      BY <1>0, <1>8, <3>1 DEF Lock!WaitForReaders, Lock!Goto, OwnerInv, OwnerPCs, LeavesAsWriter
    <3>c. ~(lockCount > 0)
      BY <1>8, <2>6, Zenon DEF Lock!WaitForReaders
    <3>d. lockCount = Cardinality(Readers)
      BY <3>1, <3>a DEF ReadersInv
    <3>b. Readers = {}
      BY <1>a, <3>c, <3>d
    <3>3. ReadersInv'
      BY <1>0, <1>a, <1>c, <1>8, <2>1, <2>2, <2>6, <3>1, <3>a, <3>b DEF Lock!WaitForReaders, Lock!Goto, Lock!TypeOK, OwnerInv,
         OwnerPCs, ReadersInv, LeavesAsWriter
    <3> QED
      BY <2>3, <2>4, <3>2, <3>3 DEF LockInv
  <2> QED
    BY <2>5, <2>6
<1>9. ASSUME NEW t \in Thread, Lock!Claim(t)
      PROVE  LockInv'
  <2>1. Readers' = Readers /\ Outside' = Outside \ {t} /\ t \in Outside
    BY <1>0, <1>9 DEF Lock!Claim, Lock!Goto, Lock!TypeOK, Readers, Outside
  <2>a. Cardinality(Outside \ {t}) = Cardinality(Outside) - 1
    BY <1>0, <2>1, AddThread, RemoveThread
  <2>2. /\ Cardinality(Readers)' = Cardinality(Readers)
        /\ Cardinality(Outside)' = Cardinality(Outside) - 1
    BY <2>1, <2>a
  <2>3. CountInv'
    BY <1>0, <1>a, <1>c, <1>9, <2>2 DEF Lock!Claim, Lock!TypeOK, CountInv
  <2>4. Lock!TypeOK'
    BY <1>0, <1>a, <1>c, <1>9, <2>3 DEF Lock!Claim, Lock!Goto, Lock!TypeOK, Lock!PC, CountInv
  <2>5. CASE lateSignal'
    BY <2>3, <2>4, <2>5 DEF LockInv
  <2>6. CASE ~lateSignal'
    <3>1. ~lateSignal /\ OwnerInv /\ ReadersInv
      BY <1>0, <1>9, <2>6 DEF Lock!Claim
    <3>2. OwnerInv'
      BY <1>0, <1>9, <3>1 DEF Lock!Claim, Lock!Goto, Lock!TypeOK, OwnerInv, OwnerPCs, LeavesAsWriter
    <3>3. ReadersInv'
      BY <1>0, <1>a, <1>c, <1>9, <2>1, <2>2, <2>6, <3>1 DEF Lock!Claim, Lock!Goto, Lock!TypeOK, OwnerInv,
         OwnerPCs, ReadersInv, LeavesAsWriter
    <3> QED
      BY <2>3, <2>4, <3>2, <3>3 DEF LockInv
  <2> QED
    BY <2>5, <2>6
<1>10. ASSUME NEW t \in Thread, Lock!Decrement(t)
       PROVE  LockInv'
  <2>1. CASE lockPc[t] = "reading"
    <3>1. Readers' = Readers \ {t} /\ t \in Readers /\ Outside' = Outside \cup {t} /\ t \notin Outside
      BY <1>0, <1>10, <2>1 DEF Lock!Decrement, Lock!Goto, Lock!TypeOK, Readers, Outside
    <3>a. /\ Cardinality(Readers \ {t}) = Cardinality(Readers) - 1
          /\ Cardinality(Outside \cup {t}) = Cardinality(Outside) + 1
      BY <1>0, <3>1, AddThread, RemoveThread
    <3>2. /\ Cardinality(Readers)' = Cardinality(Readers) - 1
          /\ Cardinality(Outside)' = Cardinality(Outside) + 1
      BY <3>1, <3>a
    <3>3. CountInv'
      BY <1>0, <1>a, <1>c, <1>10, <3>2 DEF Lock!Decrement, Lock!TypeOK, CountInv
    <3>4. Lock!TypeOK'
      BY <1>0, <1>a, <1>c, <1>10, <3>3 DEF Lock!Decrement, Lock!Goto, Lock!TypeOK, Lock!PC, CountInv
    <3>5. ASSUME ~lateSignal PROVE OwnerInv' /\ ReadersInv'
      <4>1. \A u \in Thread : lockPc[u] # "writing" /\ lockPc[u] # "claim" /\ ~LeavesAsWriter(u)
        BY <1>0, <3>1, <3>5 DEF ReadersInv
      <4>2. lockCount = Cardinality(Readers) /\ lockCount >= 1
        BY <1>0, <1>a, <1>c, <3>2, <3>5, <4>1 DEF ReadersInv
      <4>3. /\ lockPc' = [lockPc EXCEPT ![t] = "branch"] /\ count' = [count EXCEPT ![t] = lockCount - 1]
            /\ lockCount' = lockCount - 1 /\ critsec' = critsec
        BY <1>10 DEF Lock!Decrement, Lock!Goto
      <4>4. OwnerInv'
        BY <1>0, <3>5, <4>2, <4>3 DEF OwnerInv, OwnerPCs, LeavesAsWriter, Lock!TypeOK
      <4>5. \A u \in Thread : /\ lockPc'[u] # "writing" /\ lockPc'[u] # "claim"
                               /\ ~(lockPc'[u] = "branch" /\ count'[u] < 0)
        BY <1>0, <4>1, <4>2, <4>3 DEF LeavesAsWriter, Lock!TypeOK
      <4>6. lockCount' = Cardinality(Readers)'
        BY <3>2, <4>2, <4>3
      <4> QED
        BY <4>4, <4>5, <4>6 DEF ReadersInv, LeavesAsWriter
    <3>6. lateSignal' = lateSignal
      BY <1>10 DEF Lock!Decrement
    <3>7. CASE lateSignal
      BY <3>3, <3>4, <3>6, <3>7 DEF LockInv
    <3>8. CASE ~lateSignal
      BY <3>3, <3>4, <3>5, <3>8 DEF LockInv
    <3> QED
      BY <3>7, <3>8
  <2>2. CASE lockPc[t] = "writing"
    <3>1. Readers' = Readers /\ Outside' = Outside \cup {t} /\ t \notin Outside
      BY <1>0, <1>10, <2>2 DEF Lock!Decrement, Lock!Goto, Lock!TypeOK, Readers, Outside
    <3>a. Cardinality(Outside \cup {t}) = Cardinality(Outside) + 1
      BY <1>0, <3>1, AddThread, RemoveThread
    <3>2. /\ Cardinality(Readers)' = Cardinality(Readers)
          /\ Cardinality(Outside)' = Cardinality(Outside) + 1
      BY <3>1, <3>a
    <3>3. CountInv'
      BY <1>0, <1>a, <1>c, <1>10, <3>2 DEF Lock!Decrement, Lock!TypeOK, CountInv
    <3>4. Lock!TypeOK'
      BY <1>0, <1>a, <1>c, <1>10, <3>3 DEF Lock!Decrement, Lock!Goto, Lock!TypeOK, Lock!PC, CountInv
    <3>5. ASSUME ~lateSignal PROVE OwnerInv' /\ ReadersInv'
      <4>1. critsec = t /\ Readers' = {} /\ lockCount = -1
        BY <1>0, <2>2, <3>1, <3>5 DEF ReadersInv, OwnerInv, OwnerPCs
      <4>2. /\ lockPc' = [lockPc EXCEPT ![t] = "branch"] /\ count' = [count EXCEPT ![t] = lockCount - 1]
            /\ lockCount' = lockCount - 1 /\ critsec' = critsec
        BY <1>10 DEF Lock!Decrement, Lock!Goto
      <4>3. lockPc'[t] = "branch" /\ count'[t] < 0
        BY <1>0, <4>1, <4>2 DEF Lock!TypeOK
      <4>4. OwnerInv'
        BY <1>0, <3>5, <4>1, <4>2 DEF OwnerInv, OwnerPCs, LeavesAsWriter, Lock!TypeOK
      <4>5. \A u \in Thread : lockPc'[u] # "writing"
        BY <1>0, <3>5, <4>1, <4>2 DEF OwnerInv, OwnerPCs, Lock!TypeOK
      <4> QED
        BY <4>1, <4>3, <4>4, <4>5 DEF ReadersInv, LeavesAsWriter
    <3>6. lateSignal' = lateSignal
      BY <1>10 DEF Lock!Decrement
    <3>7. CASE lateSignal
      BY <3>3, <3>4, <3>6, <3>7 DEF LockInv
    <3>8. CASE ~lateSignal
      BY <3>3, <3>4, <3>5, <3>8 DEF LockInv
    <3> QED
      BY <3>7, <3>8
  <2> QED
    BY <1>10, <2>1, <2>2 DEF Lock!Decrement, Lock!Goto
<1>11. ASSUME NEW t \in Thread, Lock!BranchReader(t)
       PROVE  LockInv'
  <2>1. Readers' = Readers /\ Outside' = Outside
    BY <1>0, <1>11 DEF Lock!BranchReader, Lock!Goto, Lock!TypeOK, Readers, Outside
  <2>2. /\ Cardinality(Readers)' = Cardinality(Readers)
        /\ Cardinality(Outside)' = Cardinality(Outside)
    BY <2>1
  <2>3. CountInv'
    BY <1>0, <1>a, <1>c, <1>11, <2>2 DEF Lock!BranchReader, Lock!TypeOK, CountInv
  <2>4. Lock!TypeOK'
    BY <1>0, <1>a, <1>c, <1>11, <2>3 DEF Lock!BranchReader, Lock!Goto, Lock!TypeOK, Lock!PC, CountInv
  <2>5. CASE lateSignal'
    BY <2>3, <2>4, <2>5 DEF LockInv
  <2>6. CASE ~lateSignal'
    <3>1. ~lateSignal /\ OwnerInv /\ ReadersInv
      BY <1>0, <1>11, <2>6 DEF Lock!BranchReader
    <3>2. OwnerInv'
      BY <1>0, <1>11, <3>1 DEF Lock!BranchReader, Lock!Goto, Lock!TypeOK, OwnerInv, OwnerPCs, LeavesAsWriter
    <3>3. ReadersInv'
      BY <1>0, <1>a, <1>c, <1>11, <2>1, <2>2, <2>6, <3>1 DEF Lock!BranchReader, Lock!Goto, Lock!TypeOK, OwnerInv,
         OwnerPCs, ReadersInv, LeavesAsWriter
    <3> QED
      BY <2>3, <2>4, <3>2, <3>3 DEF LockInv
  <2> QED
    BY <2>5, <2>6
<1>12. ASSUME NEW t \in Thread, Lock!SignalReadersDone(t)
       PROVE  LockInv'
  <2>1. Readers' = Readers /\ Outside' = Outside
    BY <1>0, <1>12 DEF Lock!SignalReadersDone, Lock!Goto, Lock!TypeOK, Readers, Outside
  <2>2. /\ Cardinality(Readers)' = Cardinality(Readers)
        /\ Cardinality(Outside)' = Cardinality(Outside)
    BY <2>1
  <2>3. CountInv'
    BY <1>0, <1>a, <1>c, <1>12, <2>2 DEF Lock!SignalReadersDone, Lock!TypeOK, CountInv
  <2>4. Lock!TypeOK'
    BY <1>0, <1>a, <1>c, <1>12, <2>3 DEF Lock!SignalReadersDone, Lock!Goto, Lock!TypeOK, Lock!PC, CountInv
  <2>5. CASE lateSignal'
    BY <2>3, <2>4, <2>5 DEF LockInv
  <2>6. CASE ~lateSignal'
    <3>1. ~lateSignal /\ OwnerInv /\ ReadersInv
      BY <1>0, <1>12, <2>6 DEF Lock!SignalReadersDone
    <3>2. OwnerInv'
      BY <1>0, <1>12, <3>1 DEF Lock!SignalReadersDone, Lock!Goto, Lock!TypeOK, OwnerInv, OwnerPCs, LeavesAsWriter
    <3>3. ReadersInv'
      BY <1>0, <1>a, <1>c, <1>12, <2>1, <2>2, <2>6, <3>1 DEF Lock!SignalReadersDone, Lock!Goto, Lock!TypeOK, OwnerInv,
         OwnerPCs, ReadersInv, LeavesAsWriter
    <3> QED
      BY <2>3, <2>4, <3>2, <3>3 DEF LockInv
  <2> QED
    BY <2>5, <2>6
<1>13. ASSUME NEW t \in Thread, Lock!BranchWriter(t)
       PROVE  LockInv'
  <2>1. Readers' = Readers /\ Outside' = Outside
    BY <1>0, <1>13 DEF Lock!BranchWriter, Lock!Goto, Lock!TypeOK, Readers, Outside
  <2>2. /\ Cardinality(Readers)' = Cardinality(Readers)
        /\ Cardinality(Outside)' = Cardinality(Outside)
    BY <2>1
  <2>3. CountInv'
    BY <1>0, <1>a, <1>c, <1>13, <2>2 DEF Lock!BranchWriter, Lock!TypeOK, CountInv
  <2>4. Lock!TypeOK'
    BY <1>0, <1>a, <1>c, <1>13, <2>3 DEF Lock!BranchWriter, Lock!Goto, Lock!TypeOK, Lock!PC, CountInv
  <2>5. CASE lateSignal'
    BY <2>3, <2>4, <2>5 DEF LockInv
  <2>6. CASE ~lateSignal'
    <3>1. ~lateSignal /\ OwnerInv /\ ReadersInv
      BY <1>0, <1>13, <2>6 DEF Lock!BranchWriter
    <3>2. OwnerInv'
      BY <1>0, <1>13, <3>1 DEF Lock!BranchWriter, Lock!Goto, Lock!TypeOK, OwnerInv, OwnerPCs, LeavesAsWriter
    <3>3. ReadersInv'
      BY <1>0, <1>a, <1>c, <1>13, <2>1, <2>2, <2>6, <3>1 DEF Lock!BranchWriter, Lock!Goto, Lock!TypeOK, OwnerInv,
         OwnerPCs, ReadersInv, LeavesAsWriter
    <3> QED
      BY <2>3, <2>4, <3>2, <3>3 DEF LockInv
  <2> QED
    BY <2>5, <2>6
<1>14. ASSUME NEW t \in Thread, Lock!ResetFlag(t)
       PROVE  LockInv'
  <2>1. Readers' = Readers /\ Outside' = Outside
    BY <1>0, <1>14 DEF Lock!ResetFlag, Lock!Goto, Lock!TypeOK, Readers, Outside
  <2>2. /\ Cardinality(Readers)' = Cardinality(Readers)
        /\ Cardinality(Outside)' = Cardinality(Outside)
    BY <2>1
  <2>3. CountInv'
    BY <1>0, <1>a, <1>c, <1>14, <2>2 DEF Lock!ResetFlag, Lock!TypeOK, CountInv
  <2>4. Lock!TypeOK'
    BY <1>0, <1>a, <1>c, <1>14, <2>3 DEF Lock!ResetFlag, Lock!Goto, Lock!TypeOK, Lock!PC, CountInv
  <2>5. CASE lateSignal'
    BY <2>3, <2>4, <2>5 DEF LockInv
  <2>6. CASE ~lateSignal'
    <3>1. ~lateSignal /\ OwnerInv /\ ReadersInv
      BY <1>0, <1>14, <2>6 DEF Lock!ResetFlag
    <3>2. OwnerInv'
      BY <1>0, <1>14, <3>1 DEF Lock!ResetFlag, Lock!Goto, Lock!TypeOK, OwnerInv, OwnerPCs, LeavesAsWriter
    <3>3. ReadersInv'
      BY <1>0, <1>a, <1>c, <1>14, <2>1, <2>2, <2>6, <3>1 DEF Lock!ResetFlag, Lock!Goto, Lock!TypeOK, OwnerInv,
         OwnerPCs, ReadersInv, LeavesAsWriter
    <3> QED
      BY <2>3, <2>4, <3>2, <3>3 DEF LockInv
  <2> QED
    BY <2>5, <2>6
<1>15. ASSUME NEW t \in Thread, Lock!ExclusiveLeave(t)
       PROVE  LockInv'
  <2>1. Readers' = Readers /\ Outside' = Outside
    BY <1>0, <1>15 DEF Lock!ExclusiveLeave, Lock!Goto, Lock!TypeOK, Readers, Outside
  <2>2. /\ Cardinality(Readers)' = Cardinality(Readers)
        /\ Cardinality(Outside)' = Cardinality(Outside)
    BY <2>1
  <2>3. CountInv'
    BY <1>0, <1>a, <1>c, <1>15, <2>2 DEF Lock!ExclusiveLeave, Lock!TypeOK, CountInv
  <2>4. Lock!TypeOK'
    BY <1>0, <1>a, <1>c, <1>15, <2>3 DEF Lock!ExclusiveLeave, Lock!Goto, Lock!TypeOK, Lock!PC, CountInv
  <2>5. CASE lateSignal'
    BY <2>3, <2>4, <2>5 DEF LockInv
  <2>6. CASE ~lateSignal'
    <3>1. ~lateSignal /\ OwnerInv /\ ReadersInv
      BY <1>0, <1>15, <2>6 DEF Lock!ExclusiveLeave
    <3>2. OwnerInv'
      BY <1>0, <1>15, <3>1 DEF Lock!ExclusiveLeave, Lock!Goto, Lock!TypeOK, OwnerInv, OwnerPCs, LeavesAsWriter
    <3>3. ReadersInv'
      BY <1>0, <1>a, <1>c, <1>15, <2>1, <2>2, <2>6, <3>1 DEF Lock!ExclusiveLeave, Lock!Goto, Lock!TypeOK, OwnerInv,
         OwnerPCs, ReadersInv, LeavesAsWriter
    <3> QED
      BY <2>3, <2>4, <3>2, <3>3 DEF LockInv
  <2> QED
    BY <2>5, <2>6
<1> QED
  BY <1>1, <1>2, <1>3, <1>4, <1>5, <1>6, <1>7, <1>8, <1>9, <1>10, <1>11, <1>12, <1>13, <1>14, <1>15 DEF Lock!Next, Lock!Step

LEMMA LockExcludes == LockInv => Lock!NoReaderOvertaken
<1> SUFFICES ASSUME LockInv, ~lateSignal, NEW t \in Thread, NEW u \in Thread,
                    lockPc[t] = "writing", t # u, lockPc[u] \in {"reading", "writing"}
             PROVE  FALSE
  BY DEF Lock!NoReaderOvertaken, Lock!MutualExclusion
<1>1. critsec = t /\ Readers = {}
  BY DEF LockInv, OwnerInv, OwnerPCs, ReadersInv
<1>2. lockPc[u] # "reading"
  BY <1>1 DEF Readers
<1>3. critsec = u
  BY <1>2 DEF LockInv, OwnerInv, OwnerPCs
<1> QED
  BY <1>1, <1>3

(* As long as no signal has ended a writer's wait too late, nobody is      *)
(* inside CWSDRWLock beside a writer, however many threads come and leave: *)
(* the late signal of rwlock_exclusion is the only fault of the lock.      *)
THEOREM OnlyLateSignalsOvertake ==
  /\ Lock!Spec => []Lock!NoReaderOvertaken
  /\ PartSpec => []NoReaderOvertaken
<1>1. PartInit => LockInv
  BY LockStart DEF PartInit
<1>2. LockInv /\ [PartNext]_partVars => LockInv'
  BY LockStep, PartSteps
<1>3. Lock!NoReaderOvertaken <=> NoReaderOvertaken
  BY DEF NoReaderOvertaken
<1>4. Lock!Spec => []Lock!NoReaderOvertaken
  BY LockStart, LockStep, LockExcludes, PTL DEF Lock!Spec
<1>5. PartSpec => []NoReaderOvertaken
  BY <1>1, <1>2, <1>3, LockExcludes, PTL DEF PartSpec
<1> QED
  BY <1>4, <1>5

(* LockCount stays in its bounds even when a late signal has made readers  *)
(* release the lock as writers do.                                         *)
THEOREM LockTypesOK == Lock!Spec => []Lock!TypeOK
<1>1. LockInv => Lock!TypeOK
  BY DEF LockInv
<1> QED
  BY <1>1, LockStart, LockStep, PTL DEF Lock!Spec

-----------------------------------------------------------------------------
(* ThreadPooling                                                           *)

\* The mutex is with nobody, with a worker between its look and its work, or
\* with main, which may hold it several times once the array was full.
MutexInv ==
  /\ \A w \in WorkerThread : owner = w <=> poolPc[w] \in {"look", "take"}
  /\ owner = Pool!Nobody => depth = 0
  /\ owner \in WorkerThread => depth = 1
  /\ owner = Pool!Main => /\ depth >= 1 /\ added <= works
                          /\ depth <= added + (IF poolMainPc \in {"add", "signal"} THEN 1 ELSE 0)
  /\ poolMainPc \in {"add", "signal"} => owner = Pool!Main /\ added < works

\* Workers are made one after the other.
MadeInv ==
  /\ poolMainPc \in {"makeThread", "countThread"} => threadIdx \in WorkerThread
  /\ \A w \in WorkerThread :
       w > threadIdx \/ (w = threadIdx /\ poolMainPc = "makeThread") => poolPc[w] = "none"

\* What a worker that has found a work is about to take is there.
TakeInv ==
  \A w \in WorkerThread : poolPc[w] = "take" => idxOfCurrentWork < idxOfLastAddedWork

PoolInv == Pool!TypeOK /\ MutexInv /\ MadeInv /\ TakeInv /\ Pool!WorkTakenOnce

LEMMA Workers ==
  /\ Pool!Cardinality(WorkerThread) \in Nat \ {0}
  /\ WorkerThread = 0 .. Pool!Cardinality(WorkerThread) - 1
  /\ WORK_MAX \in Nat \ {0} /\ Works \subseteq Nat
<1>1. Pool!PoolAssumption
  BY ProgramsAssumption
<1>2. /\ Pool!IsFiniteSet(WorkerThread) /\ WorkerThread # {}
      /\ WorkerThread = 0 .. Pool!Cardinality(WorkerThread) - 1
      /\ WORK_MAX \in Nat \ {0} /\ Works \subseteq Nat
  BY <1>1 DEF Pool!PoolAssumption
<1>3. IsFiniteSet(WorkerThread)
  BY <1>2, SameFiniteness, Zenon
<1>4. Cardinality(WorkerThread) \in Nat
  BY <1>3, FS_CardinalityType
<1>5. Pool!Cardinality(WorkerThread) = Cardinality(WorkerThread)
  BY SameCardinality, Zenon
<1>6. Pool!Cardinality(WorkerThread) # 0
  BY <1>2
<1> QED
  BY <1>2, <1>4, <1>5, <1>6

LEMMA PoolStart == Pool!Init => PoolInv
<1> SUFFICES ASSUME Pool!Init PROVE PoolInv
  OBVIOUS
<1> USE Workers DEF Pool!Init
<1>1. Pool!TypeOK
  BY DEF Pool!TypeOK, Pool!Main, Pool!Nobody
<1>2. MutexInv
  BY DEF MutexInv, Pool!Main, Pool!Nobody
<1>3. MadeInv /\ TakeInv /\ Pool!WorkTakenOnce
  BY DEF MadeInv, TakeInv, Pool!WorkTakenOnce
<1> QED
  BY <1>1, <1>2, <1>3 DEF PoolInv

LEMMA PoolStep == PoolInv /\ [Pool!Next]_(Pool!poolVars) => PoolInv'
<1> SUFFICES ASSUME PoolInv, [Pool!Next]_(Pool!poolVars) PROVE PoolInv'
  OBVIOUS
<1> USE Workers DEF Pool!TypeOK, Pool!pool, Pool!mutex, Pool!mainVars, Pool!workerVars,
                    Pool!Main, Pool!Nobody, Pool!MainGoto, Pool!WorkerGoto, Pool!AcquireMutex,
                    Pool!ReleaseMutex
<1>0. Pool!TypeOK /\ MutexInv /\ MadeInv /\ TakeInv /\ Pool!WorkTakenOnce
  BY DEF PoolInv
<1>1. CASE UNCHANGED Pool!poolVars
  BY <1>0, <1>1 DEF Pool!poolVars, PoolInv, MutexInv, MadeInv, TakeInv, Pool!WorkTakenOnce
<1>2. ASSUME Pool!CreateWorker
      PROVE  PoolInv'
  <2>1. Pool!TypeOK'
    BY <1>0, <1>2 DEF Pool!CreateWorker
  <2>2. MutexInv'
    BY <1>0, <1>2 DEF Pool!CreateWorker, MutexInv, MadeInv
  <2>3. MadeInv'
    BY <1>0, <1>2 DEF Pool!CreateWorker, MadeInv
  <2>4. TakeInv'
    BY <1>0, <1>2 DEF Pool!CreateWorker, TakeInv, MutexInv
  <2>5. Pool!WorkTakenOnce'
    BY <1>0, <1>2 DEF Pool!CreateWorker, Pool!WorkTakenOnce, TakeInv
  <2> QED
    BY <2>1, <2>2, <2>3, <2>4, <2>5 DEF PoolInv
<1>3. ASSUME Pool!CountThread
      PROVE  PoolInv'
  <2>0. /\ threadIdx \in 0 .. Pool!Cardinality(WorkerThread) - 1 /\ threadIdx' = threadIdx + 1
        /\ poolMainPc = "countThread" /\ poolMainPc' \in {"makeThread", "acquire"}
        /\ poolMainPc' = "makeThread" => threadIdx' \in WorkerThread
        /\ UNCHANGED <<idxOfCurrentWork, idxOfLastAddedWork, owner, depth, workerEvent, works,
                       added, signalled, work, taken, ran, poolPc>>
    BY <1>0, <1>3 DEF Pool!CountThread, MadeInv
  <2>1. Pool!TypeOK'
    <3>1. threadIdx' \in 0 .. Pool!Cardinality(WorkerThread)
      BY <2>0
    <3> QED
      BY <1>0, <2>0, <3>1
  <2>2. MutexInv'
    BY <1>0, <1>3 DEF Pool!CountThread, MutexInv, MadeInv
  <2>3. MadeInv'
    <3>1. \A w \in WorkerThread : w > threadIdx' => w > threadIdx
      BY <2>0
    <3>2. \A w \in WorkerThread : w = threadIdx' => w > threadIdx
      BY <2>0
    <3> QED
      BY <1>0, <2>0, <3>1, <3>2 DEF MadeInv
  <2>4. TakeInv'
    BY <1>0, <1>3 DEF Pool!CountThread, TakeInv, MutexInv
  <2>5. Pool!WorkTakenOnce'
    BY <1>0, <1>3 DEF Pool!CountThread, Pool!WorkTakenOnce, TakeInv
  <2> QED
    BY <2>1, <2>2, <2>3, <2>4, <2>5 DEF PoolInv
<1>4. ASSUME Pool!AddAcquires
      PROVE  PoolInv'
  <2>1. Pool!TypeOK'
    BY <1>0, <1>4 DEF Pool!AddAcquires, MutexInv
  <2>2. MutexInv'
    BY <1>0, <1>4 DEF Pool!AddAcquires, MutexInv, MadeInv
  <2>3. MadeInv'
    BY <1>0, <1>4 DEF Pool!AddAcquires, MadeInv
  <2>4. TakeInv'
    BY <1>0, <1>4 DEF Pool!AddAcquires, TakeInv, MutexInv
  <2>5. Pool!WorkTakenOnce'
    BY <1>0, <1>4 DEF Pool!AddAcquires, Pool!WorkTakenOnce, TakeInv
  <2> QED
    BY <2>1, <2>2, <2>3, <2>4, <2>5 DEF PoolInv
<1>5. ASSUME Pool!AddFails
      PROVE  PoolInv'
  <2>1. Pool!TypeOK'
    BY <1>0, <1>5 DEF Pool!AddFails, MutexInv
  <2>2. MutexInv'
    BY <1>0, <1>5 DEF Pool!AddFails, MutexInv, MadeInv
  <2>3. MadeInv'
    BY <1>0, <1>5 DEF Pool!AddFails, MadeInv
  <2>4. TakeInv'
    BY <1>0, <1>5 DEF Pool!AddFails, TakeInv, MutexInv
  <2>5. Pool!WorkTakenOnce'
    BY <1>0, <1>5 DEF Pool!AddFails, Pool!WorkTakenOnce, TakeInv
  <2> QED
    BY <2>1, <2>2, <2>3, <2>4, <2>5 DEF PoolInv
<1>6. ASSUME Pool!AddWork
      PROVE  PoolInv'
  <2>1. Pool!TypeOK'
    BY <1>0, <1>6 DEF Pool!AddWork
  <2>2. MutexInv'
    BY <1>0, <1>6 DEF Pool!AddWork, MutexInv, MadeInv
  <2>3. MadeInv'
    BY <1>0, <1>6 DEF Pool!AddWork, MadeInv
  <2>4. TakeInv'
    BY <1>0, <1>6 DEF Pool!AddWork, TakeInv, MutexInv
  <2>5. Pool!WorkTakenOnce'
    BY <1>0, <1>6 DEF Pool!AddWork, Pool!WorkTakenOnce, TakeInv
  <2> QED
    BY <2>1, <2>2, <2>3, <2>4, <2>5 DEF PoolInv
<1>7. ASSUME Pool!SignalWorker
      PROVE  PoolInv'
  <2>0. /\ signalled' \in 0 .. Pool!Cardinality(WorkerThread)
        /\ workerEvent' \in [WorkerThread -> BOOLEAN]
    BY <1>0, <1>7 DEF Pool!SignalWorker
  <2>1. Pool!TypeOK'
    BY <1>0, <1>7, <2>0 DEF Pool!SignalWorker
  <2>2. MutexInv'
    BY <1>0, <1>7 DEF Pool!SignalWorker, MutexInv, MadeInv
  <2>3. MadeInv'
    BY <1>0, <1>7 DEF Pool!SignalWorker, MadeInv
  <2>4. TakeInv'
    BY <1>0, <1>7 DEF Pool!SignalWorker, TakeInv, MutexInv
  <2>5. Pool!WorkTakenOnce'
    BY <1>0, <1>7 DEF Pool!SignalWorker, Pool!WorkTakenOnce, TakeInv
  <2> QED
    BY <2>1, <2>2, <2>3, <2>4, <2>5 DEF PoolInv
<1>8. ASSUME Pool!AddReleases
      PROVE  PoolInv'
  <2>1. Pool!TypeOK'
    BY <1>0, <1>8 DEF Pool!AddReleases, MutexInv
  <2>2. MutexInv'
    BY <1>0, <1>8 DEF Pool!AddReleases, MutexInv, MadeInv
  <2>3. MadeInv'
    BY <1>0, <1>8 DEF Pool!AddReleases, MadeInv
  <2>4. TakeInv'
    BY <1>0, <1>8 DEF Pool!AddReleases, TakeInv, MutexInv
  <2>5. Pool!WorkTakenOnce'
    BY <1>0, <1>8 DEF Pool!AddReleases, Pool!WorkTakenOnce, TakeInv
  <2> QED
    BY <2>1, <2>2, <2>3, <2>4, <2>5 DEF PoolInv
<1>9. ASSUME NEW w \in WorkerThread, Pool!GetAcquires(w)
      PROVE  PoolInv'
  <2>a. owner = Pool!Nobody /\ depth = 0 /\ works \in Nat
    BY <1>0, <1>9 DEF Pool!GetAcquires, MutexInv
  <2>b. depth' = 1 /\ depth' \in 0 .. works' + 1
    BY <1>9, <2>a DEF Pool!GetAcquires
  <2>1. Pool!TypeOK'
    BY <1>0, <1>9, <2>b DEF Pool!GetAcquires, MutexInv
  <2>2. MutexInv'
    BY <1>0, <1>9, SMTT(20) DEF Pool!GetAcquires, MutexInv, MadeInv
  <2>3. MadeInv'
    BY <1>0, <1>9 DEF Pool!GetAcquires, MadeInv
  <2>4. TakeInv'
    BY <1>0, <1>9 DEF Pool!GetAcquires, TakeInv, MutexInv
  <2>5. Pool!WorkTakenOnce'
    BY <1>0, <1>9 DEF Pool!GetAcquires, Pool!WorkTakenOnce, TakeInv
  <2> QED
    BY <2>1, <2>2, <2>3, <2>4, <2>5 DEF PoolInv
<1>10. ASSUME NEW w \in WorkerThread, Pool!FindNone(w)
       PROVE  PoolInv'
  <2>1. Pool!TypeOK'
    BY <1>0, <1>10, SMTT(20) DEF Pool!FindNone, MutexInv
  <2>2. MutexInv'
    BY <1>0, <1>10, SMTT(20) DEF Pool!FindNone, MutexInv, MadeInv
  <2>3. MadeInv'
    BY <1>0, <1>10 DEF Pool!FindNone, MadeInv
  <2>4. TakeInv'
    BY <1>0, <1>10 DEF Pool!FindNone, TakeInv, MutexInv
  <2>5. Pool!WorkTakenOnce'
    BY <1>0, <1>10 DEF Pool!FindNone, Pool!WorkTakenOnce, TakeInv
  <2> QED
    BY <2>1, <2>2, <2>3, <2>4, <2>5 DEF PoolInv
<1>11. ASSUME NEW w \in WorkerThread, Pool!FindWork(w)
       PROVE  PoolInv'
  <2>1. Pool!TypeOK'
    BY <1>0, <1>11 DEF Pool!FindWork
  <2>2. MutexInv'
    BY <1>0, <1>11 DEF Pool!FindWork, MutexInv, MadeInv
  <2>3. MadeInv'
    BY <1>0, <1>11 DEF Pool!FindWork, MadeInv
  <2>4. TakeInv'
    BY <1>0, <1>11 DEF Pool!FindWork, TakeInv, MutexInv
  <2>5. Pool!WorkTakenOnce'
    BY <1>0, <1>11 DEF Pool!FindWork, Pool!WorkTakenOnce, TakeInv
  <2> QED
    BY <2>1, <2>2, <2>3, <2>4, <2>5 DEF PoolInv
<1>12. ASSUME NEW w \in WorkerThread, Pool!TakeWork(w)
       PROVE  PoolInv'
  <2>0. /\ idxOfCurrentWork \in 0 .. WORK_MAX - 1 /\ idxOfCurrentWork' = idxOfCurrentWork + 1
        /\ owner = w /\ depth = 1 /\ owner' = Pool!Nobody /\ depth' = 0
    BY <1>0, <1>12 DEF Pool!TakeWork, MutexInv, TakeInv
  <2>a. idxOfCurrentWork' \in 0 .. WORK_MAX /\ idxOfCurrentWork \in 0 .. WORK_MAX
    BY <2>0
  <2>b. work' \in [WorkerThread -> 0 .. WORK_MAX]
    BY <1>0, <1>12, <2>a DEF Pool!TakeWork
  <2>c. taken' \in [0 .. WORK_MAX -> Nat]
    BY <1>0, <1>12, <2>a, SMTT(20) DEF Pool!TakeWork
  <2>1. Pool!TypeOK'
    BY <1>0, <1>12, <2>0, <2>a, <2>b, <2>c, SMTT(20) DEF Pool!TakeWork
  <2>2. MutexInv'
    BY <1>0, <1>12, SMTT(40) DEF Pool!TakeWork, MutexInv, MadeInv
  <2>3. MadeInv'
    BY <1>0, <1>12 DEF Pool!TakeWork, MadeInv
  <2>4. TakeInv'
    BY <1>0, <1>12 DEF Pool!TakeWork, TakeInv, MutexInv
  <2>5. Pool!WorkTakenOnce'
    BY <1>0, <1>12 DEF Pool!TakeWork, Pool!WorkTakenOnce, TakeInv
  <2> QED
    BY <2>1, <2>2, <2>3, <2>4, <2>5 DEF PoolInv
<1>13. ASSUME NEW w \in WorkerThread, Pool!RunWork(w)
       PROVE  PoolInv'
  <2>1. Pool!TypeOK'
    BY <1>0, <1>13 DEF Pool!RunWork
  <2>2. MutexInv'
    BY <1>0, <1>13 DEF Pool!RunWork, MutexInv, MadeInv
  <2>3. MadeInv'
    BY <1>0, <1>13 DEF Pool!RunWork, MadeInv
  <2>4. TakeInv'
    BY <1>0, <1>13 DEF Pool!RunWork, TakeInv, MutexInv
  <2>5. Pool!WorkTakenOnce'
    BY <1>0, <1>13 DEF Pool!RunWork, Pool!WorkTakenOnce, TakeInv
  <2> QED
    BY <2>1, <2>2, <2>3, <2>4, <2>5 DEF PoolInv
<1>14. ASSUME NEW w \in WorkerThread, Pool!WaitForEvent(w)
       PROVE  PoolInv'
  <2>1. Pool!TypeOK'
    BY <1>0, <1>14 DEF Pool!WaitForEvent
  <2>2. MutexInv'
    BY <1>0, <1>14 DEF Pool!WaitForEvent, MutexInv, MadeInv
  <2>3. MadeInv'
    BY <1>0, <1>14 DEF Pool!WaitForEvent, MadeInv
  <2>4. TakeInv'
    BY <1>0, <1>14 DEF Pool!WaitForEvent, TakeInv, MutexInv
  <2>5. Pool!WorkTakenOnce'
    BY <1>0, <1>14 DEF Pool!WaitForEvent, Pool!WorkTakenOnce, TakeInv
  <2> QED
    BY <2>1, <2>2, <2>3, <2>4, <2>5 DEF PoolInv
<1> QED
  BY <1>1, <1>2, <1>3, <1>4, <1>5, <1>6, <1>7, <1>8, <1>9, <1>10, <1>11, <1>12, <1>13, <1>14 DEF Pool!Next, Pool!MainStep, Pool!WorkerStep

-----------------------------------------------------------------------------
(* PartialSums                                                             *)

\* A thread that is about to store has a range that main has come to.
StoreInv ==
  \A t \in Summer : sumsPc[t] = "store" =>
    idx[t] \in 0 .. size - 1 /\ idx[t] <= m_current_idx /\ end[t] = idx[t] + 1

\* Nobody has stored the sum of a range that main has not come to.
RangeInv ==
  /\ sumsMainPc = "look" => m_current_idx < size /\ m_end = m_current_idx + 1
  /\ sumsMainPc # "look" => m_current_idx = size
  /\ \A i \in 0 .. size - 1 : i > m_current_idx => m_sum[i] = Sums!NoSum

SumsInv == /\ Sums!TypeOK /\ sumsPc \in [Summer -> {"read", "exchange", "enter", "store", "ended"}]
           /\ end \in [Summer -> Nat] /\ sum \in [Summer -> Nat]
           /\ StoreInv /\ RangeInv /\ Sums!SumsRight

LEMMA SumsStart == Sums!Init => SumsInv
<1> USE ProgramsAssumption DEF Sums!SumsAssumption
<1> QED
  BY DEF Sums!Init, SumsInv, Sums!TypeOK, StoreInv, RangeInv, Sums!SumsRight, Sums!NoSum

LEMMA SumsStep == SumsInv /\ [Sums!Next]_(Sums!sumsVars) => SumsInv'
<1> SUFFICES ASSUME SumsInv, [Sums!Next]_(Sums!sumsVars) PROVE SumsInv'
  OBVIOUS
<1>0. size \in Nat \ {0}
  BY ProgramsAssumption DEF Sums!SumsAssumption
<1> USE <1>0 DEF SumsInv, Sums!TypeOK, StoreInv, RangeInv, Sums!SumsRight, Sums!NoSum,
                 Sums!shared, Sums!locals, Sums!Goto
<1>1. CASE UNCHANGED Sums!sumsVars
  BY <1>1 DEF Sums!sumsVars
<1>2. ASSUME NEW t \in Summer, Sums!ReadRun(t)
      PROVE  SumsInv'
  BY <1>2 DEF Sums!ReadRun
<1>3. ASSUME NEW t \in Summer, Sums!ExchangeRun(t)
      PROVE  SumsInv'
  BY <1>3 DEF Sums!ExchangeRun
<1>4. ASSUME NEW t \in Summer, Sums!Enter(t)
      PROVE  SumsInv'
  <2>1. CASE m_current_idx < size
    <3>1. sumsMainPc = "look" /\ m_current_idx \in 0 .. size - 1 /\ m_end = m_current_idx + 1
      BY <2>1
    <3>2. /\ sumsPc[t] = "enter" /\ sumsPc' = [sumsPc EXCEPT ![t] = "store"] /\ UNCHANGED sumsMainPc
          /\ idx' = [idx EXCEPT ![t] = m_current_idx] /\ end' = [end EXCEPT ![t] = m_end]
          /\ sum' = [sum EXCEPT ![t] = m_sum[m_current_idx]]
          /\ UNCHANGED <<m_sum, m_current_idx, m_end, m_bRun, bRun>>
      BY <1>4, <2>1 DEF Sums!Enter
    <3>3. StoreInv'
      BY <3>1, <3>2
    <3>4. RangeInv' /\ Sums!SumsRight'
      BY <3>2
    <3>5. m_sum[m_current_idx] \in Nat /\ m_end \in Nat
      BY <3>1
    <3>6. /\ Sums!TypeOK' /\ sumsPc' \in [Summer -> {"read", "exchange", "enter", "store", "ended"}]
          /\ end' \in [Summer -> Nat] /\ sum' \in [Summer -> Nat]
      BY <3>1, <3>2, <3>5
    <3> HIDE DEF StoreInv, RangeInv, Sums!SumsRight, Sums!TypeOK
    <3> QED
      BY <3>3, <3>4, <3>6
  <2>2. CASE ~(m_current_idx < size)
    BY <1>4, <2>2 DEF Sums!Enter
  <2> QED
    BY <2>1, <2>2
<1>5. ASSUME NEW t \in Summer, Sums!Store(t)
      PROVE  SumsInv'
  BY <1>5 DEF Sums!Store
<1>6. ASSUME Sums!NextRange
      PROVE  SumsInv'
  <2>1. /\ m_current_idx \in 0 .. size - 1 /\ m_current_idx' = m_current_idx + 1
        /\ m_sum[m_current_idx] # 0 /\ sumsMainPc = "look"
    BY <1>6 DEF Sums!NextRange
  <2>2. UNCHANGED <<bRun, idx, end, sum, sumsPc>>
    BY <1>6 DEF Sums!NextRange
  <2>3. CASE m_current_idx + 1 < size
    <3>1. /\ m_sum' = [m_sum EXCEPT ![m_current_idx + 1] = 0] /\ m_end' = m_current_idx + 2
          /\ m_bRun' = m_bRun /\ sumsMainPc' = sumsMainPc
      BY <1>6, <2>3 DEF Sums!NextRange
    <3> QED
      BY <2>1, <2>2, <2>3, <3>1
  <2>4. CASE m_current_idx + 1 = size
    <3>1. m_sum' = m_sum /\ m_end' = m_end /\ m_bRun' = FALSE /\ sumsMainPc' = "join"
      BY <1>6, <2>4 DEF Sums!NextRange
    <3>2. RangeInv'
      BY <2>1, <2>4, <3>1
    <3>3. Sums!SumsRight'
      BY <2>1, <2>4, <3>1
    <3>4. StoreInv'
      BY <2>1, <2>2, <2>4, <3>1
    <3>6. /\ sumsPc' \in [Summer -> {"read", "exchange", "enter", "store", "ended"}]
          /\ end' \in [Summer -> Nat] /\ sum' \in [Summer -> Nat]
      BY <2>2
    <3>7. m_current_idx' \in 0 .. size
      BY <2>1, <2>4
    <3>8. m_bRun' \in BOOLEAN
      BY <3>1
    <3>9. /\ m_sum' \in [0 .. size - 1 -> 0 .. size] /\ m_end' \in 1 .. size
          /\ bRun' \in [Summer -> BOOLEAN] /\ idx' \in [Summer -> 0 .. size - 1]
      BY <2>2, <3>1
    <3>5. Sums!TypeOK'
      <4> HIDE DEF StoreInv, RangeInv, Sums!SumsRight, SumsInv
      <4> QED
        BY <3>7, <3>8, <3>9
    <3> HIDE DEF StoreInv, RangeInv, Sums!SumsRight, Sums!TypeOK
    <3> QED
      BY <3>2, <3>3, <3>4, <3>5, <3>6
  <2>5. m_current_idx + 1 < size \/ m_current_idx + 1 = size
    BY <1>0, <2>1
  <2> HIDE DEF SumsInv
  <2> QED
    BY <2>3, <2>4, <2>5
<1>7. ASSUME Sums!Join
      PROVE  SumsInv'
  BY <1>7 DEF Sums!Join
<1> QED
  <2> HIDE DEF SumsInv
  <2> QED
    BY <1>1, <1>2, <1>3, <1>4, <1>5, <1>6, <1>7 DEF Sums!Next, Sums!SummerStep, Sums!SumsMainStep

(* No work of the pool is taken twice, left out or taken before it is      *)
(* added, for any number of workers and works, also once an addition to a  *)
(* full array has kept the mutex; and a sum is the one of its range,       *)
(* however late the threads store theirs.                                  *)
THEOREM WorkAlwaysTakenOnce ==
  /\ Pool!Spec => []Pool!WorkTakenOnce
  /\ Sums!Spec => []Sums!SumsRight
  /\ PartSpec => []WorkTakenOnce
<1>1. PartInit => PoolInv /\ SumsInv
  BY PoolStart, SumsStart DEF PartInit
<1>2. PoolInv /\ SumsInv /\ [PartNext]_partVars => PoolInv' /\ SumsInv'
  BY PoolStep, SumsStep, PartSteps
<1>3. (PoolInv => Pool!WorkTakenOnce) /\ (SumsInv => Sums!SumsRight)
  BY DEF PoolInv, SumsInv
<1>4. Pool!WorkTakenOnce /\ Sums!SumsRight <=> WorkTakenOnce
  BY DEF WorkTakenOnce
<1>5. Pool!Spec => []Pool!WorkTakenOnce
  BY <1>3, PoolStart, PoolStep, PTL DEF Pool!Spec
<1>6. Sums!Spec => []Sums!SumsRight
  BY <1>3, SumsStart, SumsStep, PTL DEF Sums!Spec
<1>7. PartSpec => []WorkTakenOnce
  BY <1>1, <1>2, <1>3, <1>4, PTL DEF PartSpec
<1> QED
  BY <1>5, <1>6, <1>7

-----------------------------------------------------------------------------
(* The servers and the PUT request                                         *)

(* What each part does in a step of the suite is a step of its module.     *)
LEMMA ServerSteps ==
  ASSUME [PartNext]_partVars
  PROVE  /\ [Echo!Next]_(Echo!winsockVars) /\ [Server!Next]_(Server!serverVars)
         /\ [Put!Next]_(Put!putVars)
BY Zenon DEF PartNext, partVars, lockVars, mrwVars, poolVars, sumsVars, putVars, serverVars,
   echoVars, Echo!winsockVars, Server!serverVars, Server!clients, Server!port, Server!pcs,
   Server!history,
   Put!putVars, Put!choices, Put!environment, Put!reader, Put!file

\* The modules have the operators of FiniteSets under names of their own.
LEMMA ServerCardinality ==
  ASSUME NEW S
  PROVE  Echo!Cardinality(S) = Cardinality(S) /\ Server!Cardinality(S) = Cardinality(S)
BY Zenon DEF Cardinality, Echo!Cardinality, Server!Cardinality

LEMMA ServerFiniteness ==
  ASSUME NEW S
  PROVE  /\ Echo!IsFiniteSet(S) <=> IsFiniteSet(S)
         /\ Server!IsFiniteSet(S) <=> IsFiniteSet(S)
BY Zenon DEF IsFiniteSet, Echo!IsFiniteSet, Server!IsFiniteSet

-----------------------------------------------------------------------------
(* WinsockServer                                                           *)

\* Who has the data of client c: an operation, a completion or a worker.
HolderInv ==
  \A c \in Client :
    /\ \A v, w \in Worker : held[v][1] = c /\ held[w][1] = c => v = w
    /\ \A i, j \in DOMAIN completions : completions[i][1] = c /\ completions[j][1] = c => i = j
    /\ \A w \in Worker : held[w][1] = c =>
         /\ allocated[c] /\ posted[c] = "none"
         /\ \A i \in DOMAIN completions : completions[i][1] # c
    /\ \A i \in DOMAIN completions : completions[i][1] = c => allocated[c] /\ posted[c] = "none"
    /\ posted[c] # "none" => allocated[c]
    /\ allocated[c] => \/ posted[c] # "none"
                       \/ \E w \in Worker : held[w][1] = c
                       \/ \E i \in DOMAIN completions : completions[i][1] = c

\* A client whose first receive is still to come has no data and no bytes.
AcceptInv ==
  /\ winsockPc[Echo!Main] = "post" => echoAccepted \in Client
  /\ \A w \in Worker : winsockPc[w] \in {"wait", "post"} => held[w][1] = NoClient
  /\ \A c \in Client : echoConnection[c] \in {"none", "backlog"} => echoAccepted # c
  /\ \A c \in Client : echoConnection[c] \in {"none", "backlog"} \/ echoAccepted = c =>
       ~allocated[c] /\ echoReceived[c] = 0 /\ echoEchoed[c] = <<>>

\* The bytes that were received and not yet sent back are those between
\* BytesSEND and BytesRECV, to which a completion of n bytes will add n.
Fits(c, n) ==
  IF BytesRECV[c] = 0 THEN echoReceived[c] = Len(echoEchoed[c]) + n
  ELSE /\ n >= 1 /\ BytesSEND[c] + n <= BytesRECV[c]
       /\ echoReceived[c] - BytesRECV[c] + BytesSEND[c] + n = Len(echoEchoed[c])

BytesInv ==
  /\ echoEchoed \in [Client -> Seq(Int)] /\ echoReceived \in [Client -> Nat]
  /\ \A c \in Client : posted[c] = "WSARecv" =>
       BytesRECV[c] = 0 /\ echoReceived[c] = Len(echoEchoed[c])
  /\ \A c \in Client : posted[c] = "WSASend" =>
       /\ BytesSEND[c] < BytesRECV[c]
       /\ echoReceived[c] - BytesRECV[c] + BytesSEND[c] = Len(echoEchoed[c])
  /\ \A c \in Client : \A w \in Worker :
       held[w][1] = c /\ held[w][2] # -1 => Fits(c, held[w][2])
  /\ \A c \in Client : \A i \in DOMAIN completions :
       completions[i][1] = c /\ completions[i][2] # -1 => Fits(c, completions[i][2])

EchoInv == Echo!TypeOK /\ HolderInv /\ AcceptInv /\ BytesInv /\ Echo!EchoInOrder

LEMMA EchoConstants ==
  /\ NoClient \notin Client /\ IsFiniteSet(Worker)
  /\ DATA_BUFSIZE \in Nat \ {0} /\ EchoBytes \in [Client -> Nat] /\ MaxFailures \in Nat
<1>1. Echo!ServerAssumption
  BY ProgramsAssumption
<1>2. IsFiniteSet(Worker)
  BY <1>1, ServerFiniteness, Zenon DEF Echo!ServerAssumption
<1> QED
  BY <1>1, <1>2 DEF Echo!ServerAssumption

LEMMA EchoStart == Echo!Init => EchoInv
<1> SUFFICES ASSUME Echo!Init PROVE EchoInv
  OBVIOUS
<1> USE EchoConstants DEF Echo!Init
<1>1. Echo!TypeOK
  BY DEF Echo!TypeOK, Echo!Failure, Echo!Main
<1>2. HolderInv /\ AcceptInv
  BY DEF HolderInv, AcceptInv, Echo!Main
<1>3. BytesInv /\ Echo!EchoInOrder
  BY DEF BytesInv, Echo!EchoInOrder
<1> QED
  BY <1>1, <1>2, <1>3 DEF EchoInv

\* What becomes of the holders when an operation completes, when a worker
\* takes the completion, and when it posts the next operation.
LEMMA HolderCompletes ==
  ASSUME Echo!TypeOK, HolderInv, NEW d \in Client, NEW m, posted[d] # "none",
         posted' = [posted EXCEPT ![d] = "none"], completions' = Append(completions, <<d, m>>),
         UNCHANGED <<held, allocated>>
  PROVE  HolderInv'
<1>1. /\ completions \in Seq(Client \X (-1 .. DATA_BUFSIZE))
      /\ posted \in [Client -> {"none", "WSARecv", "WSASend"}]
  BY DEF Echo!TypeOK, Echo!Failure
<1>2. /\ \A i \in DOMAIN completions' :
           \/ i \in DOMAIN completions /\ completions'[i] = completions[i]
           \/ i = Len(completions) + 1 /\ completions'[i][1] = d
      /\ \A i \in DOMAIN completions : i \in DOMAIN completions' /\ completions'[i] = completions[i]
      /\ Len(completions) + 1 \in DOMAIN completions'
      /\ completions'[Len(completions) + 1][1] = d
  BY <1>1
<1>3. /\ \A w \in Worker : held[w][1] # d
      /\ \A i \in DOMAIN completions : completions[i][1] # d
      /\ allocated[d]
  BY DEF HolderInv
<1>4. /\ \A c \in Client : c # d => posted'[c] = posted[c]
      /\ posted'[d] = "none" /\ held' = held /\ allocated' = allocated
  BY <1>1
<1> QED
  BY <1>2, <1>3, <1>4 DEF HolderInv

LEMMA HolderTakes ==
  ASSUME Echo!TypeOK, HolderInv, NEW u \in Worker, held[u][1] = NoClient, completions # <<>>,
         held' = [held EXCEPT ![u] = Head(completions)], completions' = Tail(completions),
         UNCHANGED <<posted, allocated>>
  PROVE  HolderInv'
<1>1. completions \in Seq(Client \X (-1 .. DATA_BUFSIZE)) /\ NoClient \notin Client
  BY EchoConstants DEF Echo!TypeOK, Echo!Failure
<1>2. /\ \A i \in DOMAIN completions' : i + 1 \in DOMAIN completions /\ i + 1 # 1 /\ i \in Int
                                      /\ completions'[i] = completions[i + 1]
      /\ \A i \in DOMAIN completions : i = 1 \/ (i - 1 \in DOMAIN completions' /\ completions'[i - 1] = completions[i])
      /\ 1 \in DOMAIN completions /\ Head(completions) = completions[1]
  BY <1>1
<1>3. /\ held'[u] = completions[1]
      /\ \A w \in Worker : w # u => held'[w] = held[w]
      /\ posted' = posted /\ allocated' = allocated
  BY <1>2 DEF Echo!TypeOK
<1>4. ASSUME NEW c \in Client
      PROVE  /\ \A v, w \in Worker : held'[v][1] = c /\ held'[w][1] = c => v = w
             /\ \A i, j \in DOMAIN completions' :
                  completions'[i][1] = c /\ completions'[j][1] = c => i = j
  <2>1. \A v, w \in Worker : held'[v][1] = c /\ held'[w][1] = c => v = w
    BY <1>2, <1>3 DEF HolderInv
  <2>2. ASSUME NEW i \in DOMAIN completions', NEW j \in DOMAIN completions',
               completions'[i][1] = c, completions'[j][1] = c
        PROVE  i = j
    <3>1. i + 1 = j + 1
      BY <1>2, <2>2 DEF HolderInv
    <3> QED
      BY <1>2, <3>1
  <2> QED
    BY <2>1, <2>2
<1>5. ASSUME NEW c \in Client, NEW w \in Worker, held'[w][1] = c
      PROVE  /\ allocated[c] /\ posted[c] = "none"
             /\ \A i \in DOMAIN completions' : completions'[i][1] # c
  BY <1>1, <1>2, <1>3, <1>5 DEF HolderInv
<1>6. ASSUME NEW c \in Client, NEW i \in DOMAIN completions', completions'[i][1] = c
      PROVE  allocated[c] /\ posted[c] = "none"
  BY <1>2, <1>6 DEF HolderInv
<1>7. ASSUME NEW c \in Client, allocated[c]
      PROVE  \/ posted[c] # "none"
             \/ \E w \in Worker : held'[w][1] = c
             \/ \E i \in DOMAIN completions' : completions'[i][1] = c
  <2>1. CASE posted[c] # "none"
    BY <2>1
  <2>2. CASE \E w \in Worker : held[w][1] = c
    BY <1>1, <1>3, <2>2
  <2>3. CASE \E i \in DOMAIN completions : completions[i][1] = c
    <3>1. PICK i \in DOMAIN completions : completions[i][1] = c
      BY <2>3
    <3>2. CASE i = 1
      BY <1>3, <3>1, <3>2
    <3>3. CASE i # 1
      BY <1>2, <3>1, <3>3
    <3> QED
      BY <3>2, <3>3
  <2> QED
    BY <1>7, <2>1, <2>2, <2>3 DEF HolderInv
<1>8. \A c \in Client : posted[c] # "none" => allocated[c]
  BY DEF HolderInv
<1> QED
  BY <1>3, <1>4, <1>5, <1>6, <1>7, <1>8 DEF HolderInv

LEMMA HolderPosts ==
  ASSUME Echo!TypeOK, HolderInv, NEW u \in Worker, NEW d \in Client, held[u][1] = d,
         held' = [held EXCEPT ![u] = <<NoClient, 0>>], completions' = completions,
         \A c \in Client : c # d => posted'[c] = posted[c] /\ allocated'[c] = allocated[c],
         posted'[d] # "none" <=> allocated'[d]
  PROVE  HolderInv'
<1>1. /\ held'[u][1] = NoClient /\ NoClient \notin Client
      /\ \A w \in Worker : w # u => held'[w] = held[w]
  BY EchoConstants DEF Echo!TypeOK
<1>2. /\ \A w \in Worker : held'[w][1] # d
      /\ \A i \in DOMAIN completions : completions[i][1] # d
  BY <1>1 DEF HolderInv
<1> QED
  BY <1>1, <1>2 DEF HolderInv

LEMMA EchoStep == EchoInv /\ [Echo!Next]_(Echo!winsockVars) => EchoInv'
<1> SUFFICES ASSUME EchoInv, [Echo!Next]_(Echo!winsockVars) PROVE EchoInv'
  OBVIOUS
<1> USE EchoConstants DEF Echo!Failure, Echo!Main, Echo!Running, Echo!Fail, Echo!Goto,
        Echo!Complete, Echo!io, Echo!threads, Echo!Holds, Echo!BufferByte
<1>0. Echo!TypeOK /\ HolderInv /\ AcceptInv /\ BytesInv /\ Echo!EchoInOrder
  BY DEF EchoInv
<1>1. CASE UNCHANGED Echo!winsockVars
  BY <1>0, <1>1 DEF Echo!winsockVars, EchoInv, Echo!TypeOK, HolderInv, AcceptInv, BytesInv, Fits,
     Echo!EchoInOrder
<1>h. UNCHANGED <<held, completions, posted, allocated>> => HolderInv'
  BY <1>0 DEF HolderInv
<1>b. UNCHANGED <<held, completions, posted, BytesRECV, BytesSEND, echoReceived, echoEchoed>> =>
        BytesInv' /\ Echo!EchoInOrder'
  BY <1>0 DEF BytesInv, Fits, Echo!EchoInOrder
<1>2. ASSUME NEW d \in Client, Echo!Connect(d)
      PROVE  EchoInv'
  <2>1. Echo!TypeOK'
    BY <1>0, <1>2 DEF Echo!Connect, Echo!TypeOK, HolderInv, AcceptInv
  <2>2. HolderInv'
    BY <1>h, <1>2 DEF Echo!Connect
  <2>3. AcceptInv'
    BY <1>0, <1>2 DEF Echo!Connect, Echo!TypeOK, HolderInv, AcceptInv
  <2>4. BytesInv' /\ Echo!EchoInOrder'
    BY <1>b, <1>2 DEF Echo!Connect
  <2> QED
    BY <2>1, <2>2, <2>3, <2>4 DEF EchoInv
<1>3. ASSUME NEW d \in Client, Echo!Send(d)
      PROVE  EchoInv'
  <2>1. Echo!TypeOK'
    BY <1>0, <1>3 DEF Echo!Send, Echo!TypeOK, HolderInv, AcceptInv
  <2>2. HolderInv'
    BY <1>h, <1>3 DEF Echo!Send
  <2>3. AcceptInv'
    BY <1>0, <1>3 DEF Echo!Send, Echo!TypeOK, HolderInv, AcceptInv
  <2>4. BytesInv' /\ Echo!EchoInOrder'
    BY <1>b, <1>3 DEF Echo!Send
  <2> QED
    BY <2>1, <2>2, <2>3, <2>4 DEF EchoInv
<1>4. ASSUME NEW d \in Client, Echo!Disconnect(d)
      PROVE  EchoInv'
  <2>1. Echo!TypeOK'
    BY <1>0, <1>4 DEF Echo!Disconnect, Echo!TypeOK, HolderInv, AcceptInv
  <2>2. HolderInv'
    BY <1>h, <1>4 DEF Echo!Disconnect
  <2>3. AcceptInv'
    BY <1>0, <1>4 DEF Echo!Disconnect, Echo!TypeOK, HolderInv, AcceptInv
  <2>4. BytesInv' /\ Echo!EchoInOrder'
    BY <1>b, <1>4 DEF Echo!Disconnect
  <2> QED
    BY <2>1, <2>2, <2>3, <2>4 DEF EchoInv
<1>5. ASSUME NEW d \in Client, Echo!RecvCompletes(d)
      PROVE  EchoInv'
  <2>a. PICK n \in 0 .. DATA_BUFSIZE :
          /\ n <= echoSentIn[d] - echoReceived[d]
          /\ Echo!Complete(d, "WSARecv", n)
          /\ echoReceived' = [echoReceived EXCEPT ![d] = @ + n]
          /\ UNCHANGED <<echoEchoed, failed>>
    BY <1>5 DEF Echo!RecvCompletes
  <2>b. /\ posted[d] = "WSARecv" /\ posted' = [posted EXCEPT ![d] = "none"] /\ Echo!Running
        /\ completions' = Append(completions, <<d, n>>)
        /\ UNCHANGED <<echoConnection, echoSentIn, allocated, BytesRECV, BytesSEND, echoAccepted,
                       held, winsockPc>>
    BY <2>a
  <2>c. n \in -1 .. DATA_BUFSIZE
    BY <1>0, <2>a DEF Echo!TypeOK
  <2>d. echoEchoed \in [Client -> Seq(Int)] /\ echoReceived \in [Client -> Nat]
    BY <1>0 DEF BytesInv
  <2>e. /\ BytesRECV[d] = 0 /\ echoReceived[d] = Len(echoEchoed[d]) /\ echoReceived[d] \in Nat
        /\ echoReceived'[d] = echoReceived[d] + n
        /\ \A c \in Client : c # d => echoReceived'[c] = echoReceived[c]
    BY <1>0, <2>a, <2>b, <2>d DEF BytesInv
  <2>1. Echo!TypeOK'
    <3>1. completions' \in Seq(Client \X (-1 .. DATA_BUFSIZE))
      BY <1>0, <2>b, <2>c DEF Echo!TypeOK
    <3>2. posted' \in [Client -> {"none", "WSARecv", "WSASend"}]
      BY <1>0, <2>b DEF Echo!TypeOK
    <3>3. failed' \in 0 .. MaxFailures
      BY <1>0, <1>5, <2>a DEF Echo!RecvCompletes, Echo!TypeOK
    <3>4. \A c \in Client : echoReceived'[c] \in 0 .. echoSentIn[c] /\ echoSentIn[c] \in 0 .. EchoBytes[c]
      BY <1>0, <2>a, <2>c, <2>d, <2>e, SMTT(20) DEF Echo!TypeOK
    <3> QED
      BY <1>0, <2>b, <3>1, <3>2, <3>3, <3>4 DEF Echo!TypeOK
  <2>2. HolderInv'
    BY <1>0, <2>b, <2>c, HolderCompletes
  <2>3. AcceptInv'
    BY <1>0, <2>a, <2>b DEF AcceptInv, HolderInv
  <2>f. /\ \A w \in Worker : held[w][1] # d
        /\ \A i \in DOMAIN completions : completions[i][1] # d
    BY <1>0, <2>b DEF HolderInv
  <2>g. /\ \A i \in DOMAIN completions' :
             \/ i \in DOMAIN completions /\ completions'[i] = completions[i]
             \/ completions'[i][1] = d /\ completions'[i][2] = n
        /\ \A c \in Client : c # d => posted'[c] = posted[c]
        /\ posted'[d] = "none"
    BY <1>0, <2>b, <2>c DEF Echo!TypeOK
  <2>h. echoReceived'[d] = Len(echoEchoed'[d]) + n /\ BytesRECV'[d] = 0
    BY <2>a, <2>b, <2>c, <2>d, <2>e
  <2>4. BytesInv'
    <3>1. echoEchoed' \in [Client -> Seq(Int)] /\ echoReceived' \in [Client -> Nat]
      BY <2>a, <2>d
    <3>2. \A c \in Client : c # d => /\ echoReceived'[c] = echoReceived[c] /\ echoEchoed'[c] = echoEchoed[c]
                                   /\ BytesRECV'[c] = BytesRECV[c] /\ BytesSEND'[c] = BytesSEND[c]
      BY <2>a, <2>b, <2>d, <2>e
    <3>3. ASSUME NEW c \in Client, posted'[c] # "none" PROVE c # d /\ posted'[c] = posted[c]
      BY <2>g, <3>3
    <3>4. ASSUME NEW c \in Client, NEW w \in Worker, held'[w][1] = c, held'[w][2] # -1
          PROVE  Fits(c, held[w][2])' /\ held'[w] = held[w]
      BY <1>0, <2>b, <2>f, <3>2, <3>4 DEF BytesInv, Fits
    <3>5. ASSUME NEW c \in Client, NEW i \in DOMAIN completions', completions'[i][1] = c,
                 completions'[i][2] # -1
          PROVE  Fits(c, completions[i][2])'
      <4>1. CASE i \in DOMAIN completions /\ completions'[i] = completions[i]
        <5>1. c # d /\ Fits(c, completions[i][2])
          BY <1>0, <2>f, <3>5, <4>1 DEF BytesInv
        <5> QED
          BY <3>2, <4>1, <5>1 DEF Fits
      <4>2. CASE completions'[i][1] = d /\ completions'[i][2] = n
        BY <2>h, <3>5, <4>2 DEF Fits
      <4> QED
        BY <2>g, <4>1, <4>2
    <3> QED
      BY <1>0, <2>g, <3>1, <3>2, <3>3, <3>4, <3>5, ZenonT(40) DEF BytesInv
  <2>5. Echo!EchoInOrder'
    BY <1>0, <2>a, <2>b, <2>c, <2>d, <2>e DEF Echo!EchoInOrder, Echo!TypeOK
  <2> QED
    BY <2>1, <2>2, <2>3, <2>4, <2>5 DEF EchoInv
<1>6. ASSUME NEW d \in Client, Echo!SendCompletes(d)
      PROVE  EchoInv'
  <2>a. PICK n \in 1 .. BytesRECV[d] - BytesSEND[d] :
          /\ Echo!Complete(d, "WSASend", n)
          /\ echoEchoed' = [echoEchoed EXCEPT ![d] = @ \o [i \in 1 .. n |-> Echo!BufferByte(d, i)]]
          /\ UNCHANGED <<echoReceived, failed>>
    BY <1>6 DEF Echo!SendCompletes
  <2>b. /\ posted[d] = "WSASend" /\ posted' = [posted EXCEPT ![d] = "none"] /\ Echo!Running
        /\ completions' = Append(completions, <<d, n>>)
        /\ UNCHANGED <<echoConnection, echoSentIn, allocated, BytesRECV, BytesSEND, echoAccepted,
                       held, winsockPc>>
    BY <2>a
  <2>c. n \in -1 .. DATA_BUFSIZE
    BY <1>0, <2>a DEF Echo!TypeOK
  <2>d. /\ BytesSEND[d] < BytesRECV[d] /\ BytesRECV[d] \in 0 .. DATA_BUFSIZE
        /\ BytesSEND[d] \in 0 .. DATA_BUFSIZE /\ echoReceived[d] \in Nat
        /\ echoReceived[d] - BytesRECV[d] + BytesSEND[d] = Len(echoEchoed[d])
        /\ echoEchoed[d] \in Seq(Int) /\ echoEchoed \in [Client -> Seq(Int)]
        /\ echoReceived \in [Client -> Nat]
    BY <1>0, <2>b DEF BytesInv, Echo!TypeOK
  <2>e. /\ echoEchoed'[d] \in Seq(Int) /\ Len(echoEchoed'[d]) = Len(echoEchoed[d]) + n
        /\ \A i \in 1 .. Len(echoEchoed[d]) : echoEchoed'[d][i] = echoEchoed[d][i]
        /\ \A i \in 1 .. n : echoEchoed'[d][Len(echoEchoed[d]) + i] = Len(echoEchoed[d]) + i
        /\ \A c \in Client : c # d => echoEchoed'[c] = echoEchoed[c]
    <3> DEFINE L == Len(echoEchoed[d])
               more == [i \in 1 .. n |-> Echo!BufferByte(d, i)]
    <3>1. n \in Nat /\ L \in Nat /\ more = [i \in 1 .. n |-> L + i]
      BY <2>d DEF Echo!BufferByte
    <3>2. more \in Seq(Int) /\ Len(more) = n /\ \A i \in 1 .. n : more[i] = L + i
      BY <3>1
    <3>3. echoEchoed'[d] = echoEchoed[d] \o more /\ \A c \in Client : c # d => echoEchoed'[c] = echoEchoed[c]
      BY <2>a, <2>d
    <3> HIDE DEF more
    <3>4. /\ echoEchoed[d] \o more \in Seq(Int) /\ Len(echoEchoed[d] \o more) = L + n
          /\ \A i \in 1 .. L : (echoEchoed[d] \o more)[i] = echoEchoed[d][i]
          /\ \A i \in 1 .. n : (echoEchoed[d] \o more)[L + i] = more[i]
      BY <2>d, <3>1, <3>2
    <3> QED
      BY <3>2, <3>3, <3>4
  <2>1. Echo!TypeOK'
    <3>1. completions' \in Seq(Client \X (-1 .. DATA_BUFSIZE))
      BY <1>0, <2>b, <2>c DEF Echo!TypeOK
    <3>2. posted' \in [Client -> {"none", "WSARecv", "WSASend"}]
      BY <1>0, <2>b DEF Echo!TypeOK
    <3>3. failed' \in 0 .. MaxFailures
      BY <1>0, <1>6, <2>a DEF Echo!SendCompletes, Echo!TypeOK
    <3>4. \A c \in Client : echoReceived'[c] \in 0 .. echoSentIn[c] /\ echoSentIn[c] \in 0 .. EchoBytes[c]
      BY <1>0, <2>a, <2>c, <2>d, <2>e DEF Echo!TypeOK
    <3> QED
      BY <1>0, <2>b, <3>1, <3>2, <3>3, <3>4 DEF Echo!TypeOK
  <2>2. HolderInv'
    BY <1>0, <2>b, <2>c, HolderCompletes
  <2>3. AcceptInv'
    BY <1>0, <2>a, <2>b DEF AcceptInv, HolderInv
  <2>f. /\ \A w \in Worker : held[w][1] # d
        /\ \A i \in DOMAIN completions : completions[i][1] # d
    BY <1>0, <2>b DEF HolderInv
  <2>g. /\ \A i \in DOMAIN completions' :
             \/ i \in DOMAIN completions /\ completions'[i] = completions[i]
             \/ completions'[i][1] = d /\ completions'[i][2] = n
        /\ \A c \in Client : c # d => posted'[c] = posted[c]
        /\ posted'[d] = "none"
    BY <1>0, <2>b, <2>c DEF Echo!TypeOK
  <2>h. /\ n >= 1 /\ BytesSEND[d] + n <= BytesRECV[d] /\ BytesRECV[d] # 0
        /\ echoReceived[d] - BytesRECV[d] + BytesSEND[d] + n = Len(echoEchoed'[d])
        /\ echoReceived'[d] = echoReceived[d] /\ BytesRECV'[d] = BytesRECV[d]
        /\ BytesSEND'[d] = BytesSEND[d]
    <3>1. n \in 1 .. BytesRECV[d] - BytesSEND[d] /\ n \in Int
      OBVIOUS
    <3>2. n >= 1 /\ BytesSEND[d] + n <= BytesRECV[d]
      BY <2>d, <3>1
    <3>3. Len(echoEchoed'[d]) = Len(echoEchoed[d]) + n
      BY <2>e
    <3>4. BytesRECV[d] # 0
      BY <2>d
    <3>5. echoReceived[d] - BytesRECV[d] + BytesSEND[d] + n = Len(echoEchoed'[d])
      BY <2>d, <3>1, <3>3
    <3>6. UNCHANGED <<echoReceived, BytesRECV, BytesSEND>>
      BY <2>a, <2>b
    <3> QED
      BY <3>2, <3>4, <3>5, <3>6
  <2>4. BytesInv'
    <3>1. echoEchoed' \in [Client -> Seq(Int)] /\ echoReceived' \in [Client -> Nat]
      BY <2>a, <2>d, <2>e
    <3>2. \A c \in Client : c # d => /\ echoReceived'[c] = echoReceived[c] /\ echoEchoed'[c] = echoEchoed[c]
                                   /\ BytesRECV'[c] = BytesRECV[c] /\ BytesSEND'[c] = BytesSEND[c]
      BY <2>a, <2>b, <2>d, <2>e
    <3>3. ASSUME NEW c \in Client, posted'[c] # "none" PROVE c # d /\ posted'[c] = posted[c]
      BY <2>g, <3>3
    <3>4. ASSUME NEW c \in Client, NEW w \in Worker, held'[w][1] = c, held'[w][2] # -1
          PROVE  Fits(c, held[w][2])' /\ held'[w] = held[w]
      BY <1>0, <2>b, <2>f, <3>2, <3>4 DEF BytesInv, Fits
    <3>5. ASSUME NEW c \in Client, NEW i \in DOMAIN completions', completions'[i][1] = c,
                 completions'[i][2] # -1
          PROVE  Fits(c, completions[i][2])'
      <4>1. CASE i \in DOMAIN completions /\ completions'[i] = completions[i]
        <5>1. c # d /\ Fits(c, completions[i][2])
          BY <1>0, <2>f, <3>5, <4>1 DEF BytesInv
        <5> QED
          BY <3>2, <4>1, <5>1 DEF Fits
      <4>2. CASE completions'[i][1] = d /\ completions'[i][2] = n
        BY <2>h, <3>5, <4>2 DEF Fits
      <4> QED
        BY <2>g, <4>1, <4>2
    <3> QED
      BY <1>0, <2>g, <3>1, <3>2, <3>3, <3>4, <3>5, ZenonT(40) DEF BytesInv
  <2>5. Echo!EchoInOrder'
    <3>1. ASSUME NEW i \in 1 .. Len(echoEchoed'[d])
          PROVE  echoEchoed'[d][i] = i
      <4>1. CASE i <= Len(echoEchoed[d])
        <5>1. i \in 1 .. Len(echoEchoed[d])
          BY <2>d, <3>1, <4>1
        <5> QED
          BY <1>0, <2>e, <5>1 DEF Echo!EchoInOrder
      <4>2. CASE i > Len(echoEchoed[d])
        <5>1. PICK j \in 1 .. n : i = Len(echoEchoed[d]) + j
          <6>1. Len(echoEchoed[d]) \in Nat /\ n \in Int /\ i \in 1 .. Len(echoEchoed[d]) + n
            BY <2>c, <2>d, <2>e, <3>1
          <6>2. i - Len(echoEchoed[d]) \in 1 .. n /\ i = Len(echoEchoed[d]) + (i - Len(echoEchoed[d]))
            BY <4>2, <6>1, SMTT(20)
          <6> QED
            BY <6>2
        <5> QED
          BY <2>e, <5>1
      <4> QED
        BY <2>d, <2>e, <3>1, <4>1, <4>2
    <3>2. Len(echoEchoed'[d]) <= echoReceived'[d]
      BY <2>d, <2>e, <2>h, SMTT(20)
    <3>3. \A c \in Client : c # d => echoEchoed'[c] = echoEchoed[c] /\ echoReceived'[c] = echoReceived[c]
      BY <2>a, <2>e
    <3> QED
      BY <1>0, <3>1, <3>2, <3>3 DEF Echo!EchoInOrder
  <2> QED
    BY <2>1, <2>2, <2>3, <2>4, <2>5 DEF EchoInv
<1>7. ASSUME NEW d \in Client, Echo!OperationFails(d)
      PROVE  EchoInv'
  <2> DEFINE n == -1
  <2>a. /\ \E operation \in {"WSARecv", "WSASend"} : Echo!Complete(d, operation, n)
        /\ UNCHANGED <<echoEchoed, echoReceived>>
    BY <1>7 DEF Echo!OperationFails
  <2>b. /\ posted[d] # "none" /\ posted' = [posted EXCEPT ![d] = "none"] /\ Echo!Running
        /\ completions' = Append(completions, <<d, n>>)
        /\ UNCHANGED <<echoConnection, echoSentIn, allocated, BytesRECV, BytesSEND, echoAccepted,
                       held, winsockPc>>
    BY <2>a
  <2>c. n \in -1 .. DATA_BUFSIZE
    BY <1>0, <2>a DEF Echo!TypeOK
  <2>d. echoEchoed \in [Client -> Seq(Int)] /\ echoReceived \in [Client -> Nat]
    BY <1>0 DEF BytesInv
  <2>1. Echo!TypeOK'
    <3>1. completions' \in Seq(Client \X (-1 .. DATA_BUFSIZE))
      BY <1>0, <2>b, <2>c DEF Echo!TypeOK
    <3>2. posted' \in [Client -> {"none", "WSARecv", "WSASend"}]
      BY <1>0, <2>b DEF Echo!TypeOK
    <3>3. failed' \in 0 .. MaxFailures
      BY <1>0, <1>7, <2>a DEF Echo!OperationFails, Echo!TypeOK
    <3>4. \A c \in Client : echoReceived'[c] \in 0 .. echoSentIn[c] /\ echoSentIn[c] \in 0 .. EchoBytes[c]
      BY <1>0, <2>a, <2>c DEF Echo!TypeOK
    <3> QED
      BY <1>0, <2>b, <3>1, <3>2, <3>3, <3>4 DEF Echo!TypeOK
  <2>2. HolderInv'
    BY <1>0, <2>b, <2>c, HolderCompletes
  <2>3. AcceptInv'
    BY <1>0, <2>a, <2>b DEF AcceptInv, HolderInv
  <2>f. /\ \A w \in Worker : held[w][1] # d
        /\ \A i \in DOMAIN completions : completions[i][1] # d
    BY <1>0, <2>b DEF HolderInv
  <2>g. /\ \A i \in DOMAIN completions' :
             \/ i \in DOMAIN completions /\ completions'[i] = completions[i]
             \/ completions'[i][1] = d /\ completions'[i][2] = n
        /\ \A c \in Client : c # d => posted'[c] = posted[c]
        /\ posted'[d] = "none"
    BY <1>0, <2>b, <2>c DEF Echo!TypeOK
  <2>4. BytesInv'
    <3>1. echoEchoed' \in [Client -> Seq(Int)] /\ echoReceived' \in [Client -> Nat]
      BY <2>a, <2>d
    <3>2. \A c \in Client : c # d => /\ echoReceived'[c] = echoReceived[c] /\ echoEchoed'[c] = echoEchoed[c]
                                   /\ BytesRECV'[c] = BytesRECV[c] /\ BytesSEND'[c] = BytesSEND[c]
      BY <2>a, <2>b, <2>d
    <3>3. ASSUME NEW c \in Client, posted'[c] # "none" PROVE c # d /\ posted'[c] = posted[c]
      BY <2>g, <3>3
    <3>4. ASSUME NEW c \in Client, NEW w \in Worker, held'[w][1] = c, held'[w][2] # -1
          PROVE  Fits(c, held[w][2])' /\ held'[w] = held[w]
      BY <1>0, <2>b, <2>f, <3>2, <3>4 DEF BytesInv, Fits
    <3>5. ASSUME NEW c \in Client, NEW i \in DOMAIN completions', completions'[i][1] = c,
                 completions'[i][2] # -1
          PROVE  Fits(c, completions[i][2])'
      BY <1>0, <2>b, <2>c, <2>f, <2>g, <3>2, <3>5 DEF BytesInv, Fits
    <3> QED
      BY <1>0, <2>g, <3>1, <3>2, <3>3, <3>4, <3>5, ZenonT(40) DEF BytesInv
  <2>5. Echo!EchoInOrder'
    BY <1>0, <2>a, <2>b, <2>c, <2>d DEF Echo!EchoInOrder, Echo!TypeOK
  <2> QED
    BY <2>1, <2>2, <2>3, <2>4, <2>5 DEF EchoInv
<1>8. ASSUME NEW d \in Client, Echo!WSAAccept(d)
      PROVE  EchoInv'
  <2>1. Echo!TypeOK'
    BY <1>0, <1>8 DEF Echo!WSAAccept, Echo!TypeOK, HolderInv, AcceptInv
  <2>2. HolderInv'
    BY <1>h, <1>8 DEF Echo!WSAAccept
  <2>3. AcceptInv'
    BY <1>0, <1>8 DEF Echo!WSAAccept, Echo!TypeOK, HolderInv, AcceptInv
  <2>4. BytesInv' /\ Echo!EchoInOrder'
    BY <1>b, <1>8 DEF Echo!WSAAccept
  <2> QED
    BY <2>1, <2>2, <2>3, <2>4 DEF EchoInv
<1>9. ASSUME Echo!PostFirstRecv
      PROVE  EchoInv'
  <2> DEFINE d == echoAccepted
  <2>a. /\ d \in Client /\ ~allocated[d] /\ echoReceived[d] = 0 /\ echoEchoed[d] = <<>>
        /\ echoConnection[d] \notin {"none", "backlog"}
    BY <1>0, <1>9 DEF Echo!PostFirstRecv, AcceptInv
  <2>b. /\ echoAccepted' = NoClient /\ winsockPc' = [winsockPc EXCEPT !["main"] = "wait"]
        /\ winsockPc["main"] = "post"
        /\ allocated' = [allocated EXCEPT ![d] = TRUE]
        /\ BytesRECV' = [BytesRECV EXCEPT ![d] = 0] /\ BytesSEND' = [BytesSEND EXCEPT ![d] = 0]
        /\ posted' = [posted EXCEPT ![d] = "WSARecv"]
        /\ UNCHANGED <<echoConnection, echoSentIn, echoEchoed, echoReceived, completions, held, failed>>
    BY <1>9 DEF Echo!PostFirstRecv
  <2>c. /\ \A w \in Worker : held[w][1] # d
        /\ \A i \in DOMAIN completions : completions[i][1] # d
    BY <1>0, <2>a DEF HolderInv
  <2>1. Echo!TypeOK'
    BY <1>0, <2>a, <2>b DEF Echo!TypeOK
  <2>d. /\ \A c \in Client : c # d => /\ posted'[c] = posted[c] /\ allocated'[c] = allocated[c]
                                      /\ BytesRECV'[c] = BytesRECV[c] /\ BytesSEND'[c] = BytesSEND[c]
        /\ posted'[d] = "WSARecv" /\ allocated'[d] /\ BytesRECV'[d] = 0
    BY <1>0, <2>a, <2>b DEF Echo!TypeOK
  <2>2. HolderInv'
    BY <1>0, <2>a, <2>b, <2>c, <2>d DEF HolderInv
  <2>3. AcceptInv'
    BY <1>0, <2>a, <2>b, <2>d DEF AcceptInv, Echo!TypeOK
  <2>4. BytesInv'
    BY <1>0, <2>a, <2>b, <2>c, <2>d DEF BytesInv, Fits
  <2>5. Echo!EchoInOrder'
    BY <1>0, <2>b DEF Echo!EchoInOrder
  <2> QED
    BY <2>1, <2>2, <2>3, <2>4, <2>5 DEF EchoInv
<1>10. ASSUME Echo!MainReturns
       PROVE  EchoInv'
  <2>1. Echo!TypeOK'
    BY <1>0, <1>10 DEF Echo!MainReturns, Echo!TypeOK, HolderInv, AcceptInv
  <2>2. HolderInv'
    BY <1>h, <1>10 DEF Echo!MainReturns
  <2>3. AcceptInv'
    BY <1>0, <1>10 DEF Echo!MainReturns, Echo!TypeOK, HolderInv, AcceptInv
  <2>4. BytesInv' /\ Echo!EchoInOrder'
    BY <1>b, <1>10 DEF Echo!MainReturns
  <2> QED
    BY <2>1, <2>2, <2>3, <2>4 DEF EchoInv
<1>11. ASSUME NEW u \in Worker, Echo!GetQueuedCompletionStatus(u)
       PROVE  EchoInv'
  <2>a. /\ completions # <<>> /\ completions' = Tail(completions)
        /\ held' = [held EXCEPT ![u] = Head(completions)] /\ winsockPc[u] = "wait"
        /\ \E to \in {"handle", "ended"} : winsockPc' = [winsockPc EXCEPT ![u] = to]
        /\ UNCHANGED <<echoConnection, echoSentIn, echoEchoed, echoReceived, allocated, BytesRECV,
                       BytesSEND, posted, echoAccepted, failed>>
    BY <1>11 DEF Echo!GetQueuedCompletionStatus
  <2>b. held[u][1] = NoClient
    BY <1>0, <2>a DEF AcceptInv
  <2>c. /\ completions' \in Seq(Client \X (-1 .. DATA_BUFSIZE)) /\ completions[1] = Head(completions)
        /\ 1 \in DOMAIN completions /\ completions[1] \in Client \X (-1 .. DATA_BUFSIZE)
        /\ \A i \in DOMAIN completions' : i + 1 \in DOMAIN completions /\ completions'[i] = completions[i + 1]
    BY <1>0, <2>a DEF Echo!TypeOK
  <2>d. /\ held'[u] = completions[1] /\ \A w \in Worker : w # u => held'[w] = held[w]
        /\ held' \in [Worker -> (Client \cup {NoClient}) \X (-1 .. DATA_BUFSIZE)]
    BY <1>0, <2>a, <2>c DEF Echo!TypeOK
  <2>1. Echo!TypeOK'
    <3>1. winsockPc' \in [Worker \cup {"main"} -> {"wait", "post", "handle", "ended"}]
      BY <1>0, <2>a, SMTT(40) DEF Echo!TypeOK
    <3> QED
      BY <1>0, <2>a, <2>c, <2>d, <3>1 DEF Echo!TypeOK
  <2>2. HolderInv'
    BY <1>0, <2>a, <2>b, HolderTakes
  <2>3. AcceptInv'
    BY <1>0, <2>a, <2>d DEF AcceptInv, Echo!TypeOK
  <2>4. BytesInv'
    <3>1. ASSUME NEW c \in Client, NEW w \in Worker, held'[w][1] = c, held'[w][2] # -1
          PROVE  Fits(c, held[w][2])'
      BY <1>0, <2>a, <2>c, <2>d, <3>1, SMTT(20) DEF BytesInv, Fits
    <3>2. ASSUME NEW c \in Client, NEW i \in DOMAIN completions', completions'[i][1] = c,
                 completions'[i][2] # -1
          PROVE  Fits(c, completions[i][2])'
      <4>1. i + 1 \in DOMAIN completions /\ completions'[i] = completions[i + 1]
        BY <2>c, <3>2
      <4>2. Fits(c, completions[i + 1][2])
        BY <1>0, <3>2, <4>1 DEF BytesInv
      <4> QED
        BY <2>a, <4>1, <4>2 DEF Fits
    <3> QED
      BY <1>0, <2>a, <3>1, <3>2 DEF BytesInv
  <2>5. Echo!EchoInOrder'
    BY <1>0, <2>a DEF Echo!EchoInOrder
  <2> QED
    BY <2>1, <2>2, <2>3, <2>4, <2>5 DEF EchoInv
<1>12. ASSUME NEW u \in Worker, NEW d \in Client, Echo!Close(u, d)
       PROVE  EchoInv'
  <2>a. /\ held[u] = <<d, 0>> /\ held' = [held EXCEPT ![u] = <<NoClient, 0>>]
        /\ winsockPc' = [winsockPc EXCEPT ![u] = "wait"]
        /\ echoConnection' = [echoConnection EXCEPT ![d] = "gone"]
        /\ allocated' = [allocated EXCEPT ![d] = FALSE]
        /\ UNCHANGED <<echoSentIn, echoEchoed, echoReceived, BytesRECV, BytesSEND, posted, completions,
                       echoAccepted, failed>>
    BY <1>12 DEF Echo!Close
  <2>b. /\ held[u][1] = d /\ held[u][2] = 0 /\ held'[u] = <<NoClient, 0>>
        /\ \A w \in Worker : w # u => held'[w] = held[w]
    BY <1>0, <2>a DEF Echo!TypeOK
  <2>c. /\ allocated[d] /\ posted[d] = "none" /\ \A w \in Worker : held'[w][1] # d
        /\ \A i \in DOMAIN completions : completions[i][1] # d
    BY <1>0, <2>b DEF HolderInv
  <2>f. /\ \A c \in Client : c # d => /\ allocated'[c] = allocated[c]
                                      /\ echoConnection'[c] = echoConnection[c]
        /\ ~allocated'[d] /\ echoConnection'[d] = "gone" /\ echoAccepted # d
    BY <1>0, <2>a, <2>c DEF Echo!TypeOK, AcceptInv
  <2>1. Echo!TypeOK'
    BY <1>0, <2>a DEF Echo!TypeOK
  <2>2. HolderInv'
    <3>1. \A c \in Client : c # d => posted'[c] = posted[c] /\ allocated'[c] = allocated[c]
      BY <2>a, <2>f
    <3>2. posted'[d] # "none" <=> allocated'[d]
      BY <2>a, <2>c, <2>f
    <3>3. completions' = completions
      BY <2>a
    <3> QED
      BY <1>0, <2>a, <2>b, <3>1, <3>2, <3>3, HolderPosts
  <2>3. AcceptInv'
    BY <1>0, <2>a, <2>b, <2>f DEF AcceptInv, Echo!TypeOK
  <2>4. BytesInv'
    BY <1>0, <2>a, <2>b, <2>c DEF BytesInv, Fits
  <2>5. Echo!EchoInOrder'
    BY <1>0, <2>a DEF Echo!EchoInOrder
  <2> QED
    BY <2>1, <2>2, <2>3, <2>4, <2>5 DEF EchoInv
<1>13. ASSUME NEW u \in Worker, NEW d \in Client, NEW n \in 1 .. DATA_BUFSIZE, Echo!PostNext(u, d, n)
       PROVE  EchoInv'
  <2>a. /\ held[u] = <<d, n>> /\ held' = [held EXCEPT ![u] = <<NoClient, 0>>]
        /\ winsockPc' = [winsockPc EXCEPT ![u] = "wait"]
        /\ UNCHANGED <<echoConnection, echoSentIn, echoEchoed, echoReceived, allocated, completions,
                       echoAccepted, failed>>
    BY <1>13 DEF Echo!PostNext
  <2>b. /\ held[u][1] = d /\ held[u][2] = n /\ held'[u] = <<NoClient, 0>>
        /\ \A w \in Worker : w # u => held'[w] = held[w]
    BY <1>0, <2>a DEF Echo!TypeOK
  <2>c. /\ allocated[d] /\ posted[d] = "none" /\ \A w \in Worker : held'[w][1] # d
        /\ \A i \in DOMAIN completions : completions[i][1] # d
    BY <1>0, <2>b DEF HolderInv
  <2> DEFINE S == IF BytesRECV[d] = 0 THEN 0 ELSE BytesSEND[d] + n
             R == IF BytesRECV[d] = 0 THEN n ELSE BytesRECV[d]
  <2>d. /\ BytesRECV' = [BytesRECV EXCEPT ![d] = IF R > S THEN R ELSE 0]
        /\ BytesSEND' = [BytesSEND EXCEPT ![d] = S]
        /\ posted' = [posted EXCEPT ![d] = IF R > S THEN "WSASend" ELSE "WSARecv"]
    BY <1>13 DEF Echo!PostNext, Echo!CountBytes
  <2>e. /\ R \in 0 .. DATA_BUFSIZE /\ S \in 0 .. R /\ echoReceived[d] - R + S = Len(echoEchoed[d])
        /\ echoReceived[d] \in Nat
    <3>1. Fits(d, n) /\ n # -1
      BY <1>0, <2>b, SMTT(20) DEF BytesInv
    <3> QED
      BY <1>0, <3>1, SMTT(20) DEF Fits, Echo!TypeOK
  <2> HIDE DEF S, R
  <2>f. /\ \A c \in Client : c # d => /\ BytesRECV'[c] = BytesRECV[c] /\ BytesSEND'[c] = BytesSEND[c]
                                      /\ posted'[c] = posted[c]
        /\ BytesSEND'[d] = S /\ posted'[d] \in {"WSASend", "WSARecv"}
        /\ posted'[d] = "WSASend" => BytesRECV'[d] = R /\ S < R
        /\ posted'[d] = "WSARecv" => BytesRECV'[d] = 0 /\ S = R
    BY <1>0, <2>d, <2>e DEF Echo!TypeOK
  <2>1. Echo!TypeOK'
    <3>1. /\ BytesRECV' \in [Client -> 0 .. DATA_BUFSIZE]
          /\ BytesSEND' \in [Client -> 0 .. DATA_BUFSIZE]
      BY <1>0, <2>d, <2>e DEF Echo!TypeOK
    <3>2. posted' \in [Client -> {"none", "WSARecv", "WSASend"}]
      BY <1>0, <2>d DEF Echo!TypeOK
    <3>3. /\ held' \in [Worker -> (Client \cup {NoClient}) \X (-1 .. DATA_BUFSIZE)]
          /\ winsockPc' \in [Worker \cup {"main"} -> {"wait", "post", "handle", "ended"}]
      BY <1>0, <2>a DEF Echo!TypeOK
    <3> QED
      BY <1>0, <2>a, <3>1, <3>2, <3>3 DEF Echo!TypeOK
  <2>2. HolderInv'
    <3>1. /\ \A c \in Client : c # d => posted'[c] = posted[c] /\ allocated'[c] = allocated[c]
          /\ posted'[d] # "none" <=> allocated'[d]
          /\ completions' = completions
      BY <2>a, <2>c, <2>f
    <3> QED
      BY <1>0, <2>a, <2>b, <3>1, HolderPosts
  <2>3. AcceptInv'
    BY <1>0, <2>a, <2>b DEF AcceptInv, Echo!TypeOK
  <2>4. BytesInv'
    <3>2. ASSUME NEW c \in Client, NEW w \in Worker, held'[w][1] = c, held'[w][2] # -1
          PROVE  Fits(c, held[w][2])'
      <4>1. c # d /\ w # u /\ held'[w] = held[w]
        BY <2>b, <2>c, <3>2
      <4> QED
        BY <1>0, <2>a, <2>f, <3>2, <4>1 DEF BytesInv, Fits
    <3>3. ASSUME NEW c \in Client, NEW i \in DOMAIN completions', completions'[i][1] = c,
                 completions'[i][2] # -1
          PROVE  Fits(c, completions[i][2])'
      <4>1. c # d /\ completions' = completions
        BY <2>a, <2>c, <3>3
      <4> QED
        <5>1. Fits(c, completions[i][2])
          BY <1>0, <3>3, <4>1 DEF BytesInv
        <5> QED
          BY <2>a, <2>f, <4>1, <5>1 DEF Fits
    <3>4. ASSUME NEW c \in Client, posted'[c] = "WSARecv"
          PROVE  BytesRECV'[c] = 0 /\ echoReceived'[c] = Len(echoEchoed'[c])
      <4>1. CASE c = d
        BY <2>a, <2>e, <2>f, <3>4, <4>1
      <4>2. CASE c # d
        BY <1>0, <2>a, <2>f, <3>4, <4>2 DEF BytesInv
      <4> QED
        BY <4>1, <4>2
    <3>5. ASSUME NEW c \in Client, posted'[c] = "WSASend"
          PROVE  /\ BytesSEND'[c] < BytesRECV'[c]
                 /\ echoReceived'[c] - BytesRECV'[c] + BytesSEND'[c] = Len(echoEchoed'[c])
      <4>1. CASE c = d
        BY <2>a, <2>e, <2>f, <3>5, <4>1
      <4>2. CASE c # d
        BY <1>0, <2>a, <2>f, <3>5, <4>2 DEF BytesInv
      <4> QED
        BY <4>1, <4>2
    <3> QED
      BY <1>0, <2>a, <3>2, <3>3, <3>4, <3>5 DEF BytesInv
  <2>5. Echo!EchoInOrder'
    BY <1>0, <2>a DEF Echo!EchoInOrder
  <2> QED
    BY <2>1, <2>2, <2>3, <2>4, <2>5 DEF EchoInv
<1>14. ASSUME NEW u \in Worker, Echo!WorkerReturns(u)
       PROVE  EchoInv'
  <2>1. Echo!TypeOK'
    BY <1>0, <1>14 DEF Echo!WorkerReturns, Echo!TypeOK, HolderInv, AcceptInv
  <2>2. HolderInv'
    BY <1>h, <1>14 DEF Echo!WorkerReturns
  <2>3. AcceptInv'
    BY <1>0, <1>14 DEF Echo!WorkerReturns, Echo!TypeOK, HolderInv, AcceptInv
  <2>4. BytesInv' /\ Echo!EchoInOrder'
    BY <1>b, <1>14 DEF Echo!WorkerReturns
  <2> QED
    BY <2>1, <2>2, <2>3, <2>4 DEF EchoInv
<1> QED
  BY <1>1, <1>2, <1>3, <1>4, <1>5, <1>6, <1>7, <1>8, <1>9, <1>10, <1>11, <1>12, <1>13, <1>14 DEF Echo!Next, Echo!MainStep, Echo!WorkerStep

LEMMA EchoInvariant == Echo!Spec => []EchoInv
<1>1. Echo!Init => EchoInv
  BY EchoStart
<1>2. EchoInv /\ [Echo!Next]_(Echo!winsockVars) => EchoInv'
  BY EchoStep
<1> QED
  BY <1>1, <1>2, PTL DEF Echo!Spec

\* A set of which every two members are the same one.
LEMMA AtMostOne ==
  ASSUME NEW S, \A x, y \in S : x = y
  PROVE  /\ S = {} => Cardinality(S) = 0
         /\ S # {} => Cardinality(S) = 1
<1>1. S = {} => Cardinality(S) = 0
  BY FS_EmptySet
<1>2. ASSUME NEW x \in S PROVE Cardinality(S) = 1
  <2>1. S = {x}
    BY <1>2
  <2> QED
    BY <2>1, FS_Singleton
<1> QED
  BY <1>1, <1>2

LEMMA HoldersCount == Echo!TypeOK /\ HolderInv => Echo!OneHolder
<1> SUFFICES ASSUME Echo!TypeOK, HolderInv, NEW c \in Client
             PROVE  Echo!Holders(c) = IF allocated[c] THEN 1 ELSE 0
  BY DEF Echo!OneHolder
<1> DEFINE W == {w \in Worker : held[w][1] = c}
           Q == {i \in DOMAIN completions : completions[i][1] = c}
           p == IF posted[c] = "none" THEN 0 ELSE 1
<1>1. /\ \A x, y \in W : x = y
      /\ \A x, y \in Q : x = y
  BY DEF HolderInv
<1>2. /\ W # {} => Q = {} /\ posted[c] = "none" /\ allocated[c]
      /\ Q # {} => posted[c] = "none" /\ allocated[c]
      /\ posted[c] # "none" => allocated[c]
      /\ allocated[c] => W # {} \/ Q # {} \/ posted[c] # "none"
  BY DEF HolderInv
<1>3. Echo!Holders(c) = Echo!Cardinality(W) + Echo!Cardinality(Q) + p
  BY Zenon DEF Echo!Holders
<1> HIDE DEF W, Q
<1>4. /\ Echo!Cardinality(W) = IF W = {} THEN 0 ELSE 1
      /\ Echo!Cardinality(Q) = IF Q = {} THEN 0 ELSE 1
  BY <1>1, AtMostOne, ServerCardinality
<1> QED
  BY <1>2, <1>3, <1>4

(* The echo server of TestIOCPWinsockServer.cpp, with any number of clients*)
(* and workers: every client gets back a beginning of what it sent, each   *)
(* byte once and in order, although receives and sends are cut anywhere,   *)
(* and its buffer is always with one operation, one queued completion or   *)
(* one worker, until it is freed.                                          *)
THEOREM EchoAlwaysInOrder ==
  /\ Echo!Spec => []Echo!EchoInOrder /\ []Echo!OneHolder
  /\ PartSpec => []EchoInOrder
<1>1. EchoInv => Echo!EchoInOrder /\ Echo!OneHolder
  BY HoldersCount DEF EchoInv
<1>2. PartInit => EchoInv
  BY EchoStart DEF PartInit
<1>3. EchoInv /\ [PartNext]_partVars => EchoInv'
  BY EchoStep, ServerSteps
<1>4. EchoInv => EchoInOrder
  BY <1>1 DEF EchoInOrder
<1> QED
  BY <1>1, <1>2, <1>3, <1>4, EchoInvariant, PTL DEF PartSpec

-----------------------------------------------------------------------------
(* PutRequest                                                              *)

\* The bytes of s are those of the input that follow the first n.
FollowOn(s, n) == \A i \in 1 .. Len(s) : s[i] = n + i

\* How many bytes are in the file and in the buffer.
Stored == Len(output) + (IF buffer = Put!NoBuffer THEN 0 ELSE Len(buffer))

PutTypes ==
  /\ Put!TypeOK /\ inputLength \in Nat /\ sizes[1] \in Nat \ {0} /\ sizes[2] \in Nat \ {0}
  /\ putPc \in {"execute", "startRead", "loop", "read", "received", "waiting", "data", "done"}
  /\ done \in BOOLEAN /\ eof \in BOOLEAN /\ fileOpen \in BOOLEAN
  /\ pendingReadBuffer \in BOOLEAN /\ g_simulateAsyncTask \in BOOLEAN

\* What has been read is in the file, in the buffer and in what was received.
CopyInv ==
  /\ FollowOn(output, 0) /\ Len(output) <= offset /\ fileLength = Len(output)
  /\ buffer # Put!NoBuffer => FollowOn(buffer, Len(output)) /\ Len(buffer) <= sizes[1]
  /\ putPc \in {"execute", "startRead", "loop", "read", "data"} => Stored = offset
  /\ putPc \in {"received", "waiting"} =>
       Stored + Len(received) = offset /\ FollowOn(received, Stored)

\* The buffer is there, and has room, when a read needs it; one is pending
\* only while the driver waits or fills it on.
BufferInv ==
  /\ liveBuffers = IF buffer = Put!NoBuffer THEN 0 ELSE 1
  /\ putPc \in {"execute", "done"} => buffer = Put!NoBuffer
  /\ putPc \in {"read", "received", "waiting", "data"} => buffer # Put!NoBuffer
  /\ putPc \in {"startRead", "loop", "read"} /\ buffer # Put!NoBuffer => Len(buffer) < sizes[1]
  /\ putPc \in {"received", "waiting"} => Len(buffer) + Len(received) <= sizes[1]
  /\ putPc = "waiting" => pendingReadBuffer
  /\ putPc \in {"execute", "loop", "read", "received", "data", "done"} => ~pendingReadBuffer

\* The end of the input is not reported early, and nothing else ends a
\* request in which nothing failed.
EndInv ==
  /\ putPc \in {"execute", "startRead", "loop", "read", "received", "waiting"} => ~done /\ ~eof
  /\ putPc \in {"received", "waiting"} /\ received = <<>> /\ faults = 0 => offset = inputLength
  /\ putPc = "data" => (done <=> eof)
  /\ putPc = "data" /\ eof /\ faults = 0 => offset = inputLength
  /\ putPc \notin {"execute", "done"} /\ faults = 0 => fileOpen
  /\ putPc = "done" /\ faults = 0 =>
       /\ status = "CONTINUE" /\ Len(output) = inputLength
       /\ g_OutPutFileLength = inputLength

PutInv == PutTypes /\ CopyInv /\ BufferInv /\ EndInv

LEMMA PutConstants ==
  /\ InputLengths \subseteq Nat /\ MaxFaults \in Nat
  /\ ReadSizes \subseteq (Nat \ {0}) \X (Nat \ {0})
BY ProgramsAssumption DEF Put!PutAssumption

LEMMA PutStart == Put!Init => PutInv
<1> SUFFICES ASSUME Put!Init PROVE PutInv
  OBVIOUS
<1> USE PutConstants DEF Put!Init, Put!NoBuffer
<1>1. sizes[1] \in Nat \ {0} /\ sizes[2] \in Nat \ {0} /\ inputLength \in Nat
  OBVIOUS
<1>2. << 0 >> \in Seq(Nat) /\ <<>> \in Seq(Nat)
  OBVIOUS
<1>3. PutTypes
  <2>1. Put!TypeOK
    BY <1>1, <1>2 DEF Put!TypeOK
  <2> QED
    BY <1>1, <2>1 DEF PutTypes
<1>4. CopyInv /\ BufferInv /\ EndInv
  BY <1>1 DEF CopyInv, BufferInv, EndInv, FollowOn, Stored
<1> QED
  BY <1>3, <1>4 DEF PutInv

\* As many bytes as asked for, as there is room for and as there are left.
LEMMA AmountRead ==
  ASSUME PutTypes, BufferInv, putPc = "read"
  PROVE  /\ Put!ReadAmount \in Nat
         /\ Put!ReadAmount <= sizes[1] - Len(buffer) /\ Put!ReadAmount <= inputLength - offset
         /\ Put!ReadAmount = 0 => offset = inputLength
<1> DEFINE room == sizes[1] - Len(buffer)
           left == inputLength - offset
           S == {sizes[2], room, left}
           Fitting(n) == n <= sizes[2] /\ n <= room /\ n <= left
<1>1. room \in Nat /\ room > 0 /\ left \in Nat /\ sizes[2] \in Nat /\ sizes[2] > 0
  BY DEF PutTypes, Put!TypeOK, BufferInv
<1>2. \E n \in S : Fitting(n)
  <2> HIDE DEF room, left
  <2>1. CASE sizes[2] <= room /\ sizes[2] <= left
    BY <1>1, <2>1
  <2>2. CASE room <= sizes[2] /\ room <= left
    BY <1>1, <2>2
  <2>3. CASE left <= sizes[2] /\ left <= room
    BY <1>1, <2>3
  <2> QED
    BY <1>1, <2>1, <2>2, <2>3
<1>3. Put!ReadAmount = CHOOSE n \in S : Fitting(n)
  BY Zenon DEF Put!ReadAmount
<1>4. PICK n \in S : Fitting(n) /\ Put!ReadAmount = n
  BY <1>2, <1>3
<1>5. n = 0 => left = 0
  <2> HIDE DEF room, left
  <2> QED
    BY <1>1, <1>4
<1>6. n \in Nat
  <2> HIDE DEF room, left
  <2> QED
    BY <1>1, <1>4
<1> QED
  BY <1>1, <1>4, <1>5, <1>6 DEF PutTypes, Put!TypeOK

\* What is received next continues the buffer.
LEMMA Received ==
  ASSUME PutInv, NEW from \in {"received", "waiting"}, NEW notFull \in {"loop", "startRead"},
         Put!Receive(from, notFull), pendingReadBuffer' \in BOOLEAN,
         UNCHANGED <<inputLength, sizes, offset, received, output, fileLength, fileOpen, faults,
                     liveBuffers, status, g_OutPutFileLength, g_simulateAsyncTask>>,
         putPc' # "startRead" => ~pendingReadBuffer'
  PROVE  PutInv'
<1> USE DEF PutInv
<1>1. /\ putPc = from /\ buffer' = buffer \o received
      /\ eof' = (eof \/ received = <<>>) /\ done' = (done \/ received = <<>>)
      /\ putPc' = IF Len(buffer') = sizes[1] \/ done' THEN "data" ELSE notFull
  BY DEF Put!Receive
<1>2. /\ buffer # Put!NoBuffer /\ buffer \in Seq(Nat) /\ received \in Seq(Nat)
      /\ Len(buffer) + Len(received) <= sizes[1] /\ sizes[1] \in Nat /\ ~done /\ ~eof
      /\ Stored = Len(output) + Len(buffer) /\ output \in Seq(Nat)
      /\ FollowOn(buffer, Len(output)) /\ FollowOn(received, Len(output) + Len(buffer))
      /\ Stored + Len(received) = offset /\ offset \in Int
  BY <1>1 DEF BufferInv, EndInv, CopyInv, PutTypes, Put!TypeOK, Stored
<1>3. /\ buffer' \in Seq(Nat) /\ Len(buffer') = Len(buffer) + Len(received)
      /\ \A i \in 1 .. Len(buffer) : buffer'[i] = buffer[i]
      /\ \A i \in 1 .. Len(received) : buffer'[Len(buffer) + i] = received[i]
  BY <1>1, <1>2
<1>4. FollowOn(buffer', Len(output))
  <2> SUFFICES ASSUME NEW i \in 1 .. Len(buffer') PROVE buffer'[i] = Len(output) + i
    BY DEF FollowOn
  <2>1. CASE i <= Len(buffer)
    <3>1. i \in 1 .. Len(buffer)
      BY <1>2, <2>1
    <3> QED
      BY <1>2, <1>3, <3>1 DEF FollowOn
  <2>2. CASE i > Len(buffer)
    <3> DEFINE j == i - Len(buffer)
    <3>1. j \in 1 .. Len(received) /\ i = Len(buffer) + j /\ Len(output) \in Nat /\ Len(buffer) \in Nat
      BY <1>2, <1>3, <2>2
    <3> HIDE DEF j
    <3>2. buffer'[i] = received[j] /\ received[j] = Len(output) + Len(buffer) + j
      BY <1>2, <1>3, <3>1 DEF FollowOn
    <3> QED
      BY <3>1, <3>2
  <2> QED
    BY <1>2, <1>3, <2>1, <2>2
<1>5. buffer' # Put!NoBuffer
  <2>1. ASSUME buffer' = Put!NoBuffer PROVE FALSE
    <3>1. 1 \in 1 .. Len(buffer') /\ buffer'[1] = 0 /\ Len(output) \in Nat
      BY <1>2, <2>1 DEF Put!NoBuffer
    <3> QED
      BY <1>4, <3>1 DEF FollowOn
  <2> QED
    BY <2>1
<1>6. putPc' \in {"data", notFull} /\ (putPc' = "data" => Len(buffer') = sizes[1] \/ done')
      /\ (putPc' # "data" => Len(buffer') # sizes[1] /\ ~done') /\ (done' <=> eof')
  BY <1>1, <1>2
<1>7. PutTypes'
  BY <1>1, <1>3, <1>6 DEF PutTypes, Put!TypeOK
<1>8. CopyInv'
  <2>1. Stored' = Stored + Len(received)
    BY <1>2, <1>3, <1>5 DEF Stored, Put!NoBuffer
  <2> QED
    BY <1>1, <1>2, <1>3, <1>4, <1>6, <2>1 DEF CopyInv, FollowOn
<1>9. BufferInv'
  <2>1. liveBuffers' = 1 /\ putPc' \in {"data", "loop", "startRead"}
    BY <1>2, <1>6 DEF BufferInv
  <2>2. putPc' # "data" => Len(buffer') < sizes[1]
    <3>1. Len(buffer) \in Nat /\ Len(received) \in Nat
      BY <1>2
    <3>2. Len(buffer') \in Nat /\ Len(buffer') <= sizes[1] /\ sizes[1] \in Nat
      BY <1>2, <1>3, <3>1
    <3>3. putPc' # "data" => Len(buffer') # sizes[1]
      BY <1>6
    <3> QED
      BY <3>2, <3>3
  <2> QED
    BY <1>5, <2>1, <2>2 DEF BufferInv
<1>10. EndInv'
  <2>1. eof' /\ faults = 0 => offset = inputLength
    BY <1>1, <1>2 DEF EndInv
  <2> QED
    BY <1>1, <1>2, <1>6, <2>1 DEF EndInv
<1> QED
  BY <1>7, <1>8, <1>9, <1>10

LEMMA PutStepKeeps == PutInv /\ [Put!Next]_(Put!putVars) => PutInv'
<1> SUFFICES ASSUME PutInv, [Put!Next]_(Put!putVars) PROVE PutInv'
  OBVIOUS
<1> USE DEF PutInv, Put!Goto, Put!choices, Put!environment, Put!reader, Put!file
<1>0. PutTypes /\ CopyInv /\ BufferInv /\ EndInv
  OBVIOUS
<1>f. Put!Fault => faults' # 0 /\ faults' \in 0 .. MaxFaults
  BY PutConstants DEF PutTypes, Put!TypeOK, Put!Fault
<1>1. CASE UNCHANGED Put!putVars
  BY <1>1 DEF Put!putVars, PutTypes, Put!TypeOK, CopyInv, BufferInv, EndInv, FollowOn, Stored
<1>2. CASE Put!Execute
  <2>1. /\ putPc = "execute" /\ putPc' = "startRead"
        /\ \/ fileOpen' = TRUE /\ UNCHANGED faults
           \/ Put!Fault /\ UNCHANGED fileOpen
        /\ UNCHANGED <<inputLength, sizes, offset, g_simulateAsyncTask, received, buffer,
                       pendingReadBuffer, liveBuffers, done, eof, output, fileLength>>
    BY <1>2 DEF Put!Execute
  <2>2. PutTypes'
    BY <1>2, <1>f DEF Put!Execute, PutTypes, Put!TypeOK
  <2>3. CopyInv' /\ BufferInv'
    BY <2>1 DEF CopyInv, BufferInv, FollowOn, Stored
  <2>4. EndInv'
    BY <1>f, <2>1 DEF EndInv
  <2> QED
    BY <2>2, <2>3, <2>4
<1>3. CASE Put!StartRead
  BY <1>3 DEF Put!StartRead, PutTypes, Put!TypeOK, CopyInv, BufferInv, EndInv, FollowOn, Stored
<1>4. CASE Put!AllocateBuffer
  <2>1. /\ putPc = "loop" /\ putPc' = "read" /\ buffer = Put!NoBuffer /\ buffer' = <<>>
        /\ buffer' # Put!NoBuffer /\ liveBuffers' = liveBuffers + 1
        /\ UNCHANGED <<inputLength, sizes, offset, g_simulateAsyncTask, received, faults, fileOpen,
                       pendingReadBuffer, done, eof, output, fileLength, status, g_OutPutFileLength>>
    BY <1>4 DEF Put!AllocateBuffer, Put!NoBuffer
  <2>2. PutTypes'
    BY <2>1 DEF PutTypes, Put!TypeOK
  <2>3. CopyInv'
    BY <2>1 DEF CopyInv, FollowOn, Stored, PutTypes, Put!TypeOK
  <2>4. BufferInv'
    BY <2>1 DEF BufferInv, PutTypes
  <2>5. EndInv'
    BY <2>1 DEF EndInv
  <2> QED
    BY <2>2, <2>3, <2>4, <2>5
<1>5. CASE Put!KeepBuffer
  BY <1>5 DEF Put!KeepBuffer, PutTypes, Put!TypeOK, CopyInv, BufferInv, EndInv, FollowOn, Stored
<1>6. CASE Put!NoMemory
  <2>1. /\ putPc = "loop" /\ putPc' = "done" /\ Put!Fault /\ buffer = Put!NoBuffer
        /\ done' = TRUE /\ fileOpen' = FALSE /\ g_OutPutFileLength' = fileLength
        /\ UNCHANGED <<inputLength, sizes, offset, g_simulateAsyncTask, received, buffer,
                       pendingReadBuffer, liveBuffers, eof, output, fileLength>>
    BY <1>6 DEF Put!NoMemory, Put!CloseFile
  <2>2. PutTypes'
    BY <1>f, <2>1 DEF PutTypes, Put!TypeOK
  <2>3. CopyInv' /\ BufferInv'
    BY <2>1 DEF CopyInv, BufferInv, FollowOn, Stored
  <2>4. EndInv'
    BY <1>f, <2>1 DEF EndInv
  <2> QED
    BY <2>2, <2>3, <2>4
<1>7. CASE Put!ReadEntityBody
  <2> DEFINE k == Put!ReadAmount
             Reads(fails, bytes) ==
               /\ bytes = IF fails THEN <<>> ELSE SubSeq(Put!input, offset + 1, offset + k)
               /\ IF fails THEN Put!Fault ELSE UNCHANGED faults
               /\ received' = bytes /\ offset' = offset + Len(bytes)
               /\ g_simulateAsyncTask' = FALSE /\ pendingReadBuffer' = Put!Pending(bytes, fails)
               /\ putPc = "read"
               /\ putPc' = IF Put!Pending(bytes, fails) THEN "waiting" ELSE "received"
               /\ UNCHANGED <<inputLength, sizes, buffer, liveBuffers, done, eof, fileOpen,
                              output, fileLength, g_OutPutFileLength>>
  <2>0. PICK fails \in BOOLEAN : \E bytes : Reads(fails, bytes)
    BY <1>7 DEF Put!ReadEntityBody
  <2>1. PICK bytes : Reads(fails, bytes)
    BY <2>0
  <2>2. /\ k \in Nat /\ k <= sizes[1] - Len(buffer) /\ k <= inputLength - offset
        /\ k = 0 => offset = inputLength
    BY <2>1, AmountRead
  <2>3. /\ offset \in Nat /\ inputLength \in Nat /\ offset <= inputLength /\ buffer \in Seq(Nat)
        /\ sizes[1] \in Nat /\ Stored = offset
    BY <2>1 DEF PutTypes, Put!TypeOK, CopyInv
  <2> HIDE DEF k
  <2>4. /\ bytes \in Seq(Nat) /\ Len(bytes) = IF fails THEN 0 ELSE k
        /\ \A i \in 1 .. Len(bytes) : bytes[i] = offset + i
    <3>1. CASE fails
      BY <2>1, <3>1
    <3>2. CASE ~fails
      <4>1. /\ Put!input \in Seq(Nat) /\ Len(Put!input) = inputLength
            /\ \A i \in 1 .. inputLength : Put!input[i] = i
        BY <2>3 DEF Put!input
      <4>2. bytes = SubSeq(Put!input, offset + 1, offset + k)
        BY <2>1, <3>2
      <4>3. /\ bytes \in Seq(Nat) /\ Len(bytes) = k
            /\ \A i \in 1 .. k : bytes[i] = Put!input[offset + i]
        <5> HIDE DEF Put!input
        <5> QED
          BY <2>2, <2>3, <4>1, <4>2
      <4>4. \A i \in 1 .. k : offset + i \in 1 .. inputLength
        BY <2>2, <2>3
      <4> QED
        BY <3>2, <4>1, <4>3, <4>4
    <3> QED
      BY <3>1, <3>2
  <2>5. faults' \in 0 .. MaxFaults /\ (faults' = 0 => faults = 0 /\ ~fails)
    BY <1>f, <2>1 DEF PutTypes, Put!TypeOK
  <2>6. Put!Pending(bytes, fails) \in BOOLEAN
    BY DEF Put!Pending
  <2>7. PutTypes'
    <3>1. offset' \in 0 .. inputLength /\ received' \in Seq(Nat)
      BY <2>1, <2>2, <2>3, <2>4
    <3>2. Put!TypeOK'
      BY <2>1, <2>5, <3>1 DEF PutTypes, Put!TypeOK
    <3>3. putPc' \in {"waiting", "received"} /\ pendingReadBuffer' \in BOOLEAN
      BY <2>1, <2>6
    <3> QED
      BY <2>1, <3>2, <3>3 DEF PutTypes
  <2>8. CopyInv'
    <3>1. Stored' = Stored /\ Stored' = offset
      BY <2>1, <2>3 DEF Stored
    <3>2. FollowOn(received', offset) /\ offset + Len(received') = offset'
      BY <2>1, <2>4 DEF FollowOn
    <3>3. offset <= offset'
      BY <2>1, <2>3, <2>4
    <3>4. putPc' \in {"waiting", "received"}
      BY <2>1
    <3>5. Len(output)' <= offset'
      <4>1. Len(output) \in Nat /\ Len(output) <= offset /\ output' = output /\ offset' \in Int
        BY <2>1, <2>3, <2>4 DEF CopyInv, PutTypes, Put!TypeOK
      <4> QED
        BY <2>3, <3>3, <4>1
    <3> QED
      BY <2>1, <3>1, <3>2, <3>4, <3>5 DEF CopyInv, FollowOn
  <2>9. BufferInv'
    <3>1. Len(buffer) + Len(received') <= sizes[1]
      BY <2>1, <2>2, <2>3, <2>4 DEF BufferInv
    <3> QED
      BY <2>1, <2>6, <3>1 DEF BufferInv, PutTypes
  <2>10. EndInv'
    <3>1. received' = <<>> /\ faults' = 0 => offset' = inputLength
      BY <2>1, <2>2, <2>3, <2>4, <2>5
    <3> QED
      BY <2>1, <2>5, <3>1 DEF EndInv
  <2> QED
    BY <2>7, <2>8, <2>9, <2>10
<1>8. CASE Put!ReceiveInLine
  <2>1. /\ Put!Receive("received", "loop") /\ pendingReadBuffer' = pendingReadBuffer
        /\ UNCHANGED <<inputLength, sizes, offset, received, output, fileLength, fileOpen, faults,
                       liveBuffers, status, g_OutPutFileLength, g_simulateAsyncTask>>
    BY <1>8 DEF Put!ReceiveInLine
  <2>2. ~pendingReadBuffer' /\ pendingReadBuffer' \in BOOLEAN
    BY <2>1 DEF BufferInv, PutTypes, Put!Receive
  <2> QED
    BY <2>1, <2>2, Received
<1>9. CASE Put!OnIoComplete
  <2>1. /\ Put!Receive("waiting", "startRead")
        /\ pendingReadBuffer' = (pendingReadBuffer /\ putPc' # "data")
        /\ UNCHANGED <<inputLength, sizes, offset, received, output, fileLength, fileOpen, faults,
                       liveBuffers, status, g_OutPutFileLength, g_simulateAsyncTask>>
    BY <1>9 DEF Put!OnIoComplete
  <2>2. putPc' # "startRead" => ~pendingReadBuffer'
    BY <2>1 DEF Put!Receive
  <2>3. pendingReadBuffer' \in BOOLEAN
    BY <2>1
  <2> QED
    BY <2>1, <2>2, <2>3, Received
<1>10. CASE Put!OnReadData
  <2>1. PICK written \in BOOLEAN :
          /\ IF written \/ ~fileOpen THEN UNCHANGED faults ELSE Put!Fault
          /\ written => fileOpen
          /\ output' = IF written THEN output \o buffer ELSE output
          /\ fileLength' = IF written THEN fileLength + Len(buffer) ELSE fileLength
          /\ done' = (done \/ ~written)
          /\ CASE eof -> /\ fileOpen' = FALSE /\ g_OutPutFileLength' = fileLength'
                         /\ putPc' = "done" /\ status' = "CONTINUE"
               [] ~eof /\ written -> /\ putPc' = "startRead" /\ status' = "CONTINUE"
                                     /\ UNCHANGED <<fileOpen, g_OutPutFileLength>>
               [] OTHER -> /\ putPc' = "done" /\ status' = "FINISH_REQUEST"
                           /\ UNCHANGED <<fileOpen, g_OutPutFileLength>>
    BY <1>10 DEF Put!OnReadData
  <2>2. /\ putPc = "data" /\ buffer' = Put!NoBuffer /\ liveBuffers' = liveBuffers - 1
        /\ UNCHANGED <<inputLength, sizes, offset, g_simulateAsyncTask, received,
                       pendingReadBuffer, eof>>
    BY <1>10 DEF Put!OnReadData, Put!FreeBuffer
  <2>3. /\ buffer # Put!NoBuffer /\ buffer \in Seq(Nat) /\ output \in Seq(Nat) /\ liveBuffers = 1
        /\ FollowOn(output, 0) /\ FollowOn(buffer, Len(output)) /\ offset \in Nat
        /\ Len(output) + Len(buffer) = offset /\ fileLength = Len(output) /\ ~pendingReadBuffer
        /\ (done <=> eof) /\ (eof /\ faults = 0 => offset = inputLength)
        /\ (faults = 0 => fileOpen)
    BY <2>2 DEF BufferInv, CopyInv, EndInv, Stored, PutTypes, Put!TypeOK
  <2>4. /\ output' \in Seq(Nat) /\ FollowOn(output', 0) /\ fileLength' = Len(output')
        /\ written => Len(output') = offset
        /\ ~written => output' = output
        /\ Len(output') <= offset
    <3>1. CASE written
      <4>1. output' = output \o buffer /\ fileLength' = fileLength + Len(buffer)
        BY <2>1, <3>1
      <4>2. /\ output' \in Seq(Nat) /\ Len(output') = Len(output) + Len(buffer)
            /\ \A i \in 1 .. Len(output) : output'[i] = output[i]
            /\ \A i \in 1 .. Len(buffer) : output'[Len(output) + i] = buffer[i]
        BY <2>3, <4>1
      <4>3. ASSUME NEW i \in 1 .. Len(output') PROVE output'[i] = i
        <5>1. CASE i <= Len(output)
          <6>1. i \in 1 .. Len(output)
            BY <2>3, <5>1
          <6> QED
            BY <2>3, <4>2, <6>1 DEF FollowOn
        <5>2. CASE i > Len(output)
          <6> DEFINE j == i - Len(output)
          <6>1. j \in 1 .. Len(buffer) /\ i = Len(output) + j
            BY <2>3, <4>2, <5>2
          <6> HIDE DEF j
          <6> QED
            BY <2>3, <4>2, <6>1 DEF FollowOn
        <5> QED
          BY <2>3, <5>1, <5>2
      <4> QED
        BY <2>3, <3>1, <4>1, <4>2, <4>3 DEF FollowOn
    <3>2. CASE ~written
      BY <2>1, <2>3, <3>2
    <3> QED
      BY <3>1, <3>2
  <2>5. faults' \in 0 .. MaxFaults /\ (faults' = 0 => faults = 0 /\ written)
    BY <1>f, <2>1, <2>3 DEF PutTypes, Put!TypeOK
  <2>6. /\ putPc' \in {"startRead", "done"} /\ fileOpen' \in BOOLEAN
        /\ putPc' = "startRead" => ~eof /\ written /\ fileOpen' = fileOpen
        /\ putPc' = "done" => ~written \/ eof
        /\ eof => g_OutPutFileLength' = fileLength' /\ status' = "CONTINUE"
        /\ g_OutPutFileLength' \in {fileLength', g_OutPutFileLength}
    BY <2>1 DEF PutTypes
  <2>7. PutTypes'
    BY <2>1, <2>2, <2>3, <2>4, <2>5, <2>6 DEF PutTypes, Put!TypeOK, Put!NoBuffer
  <2>8. CopyInv'
    <3>1. putPc' = "startRead" => Stored' = offset
      BY <2>2, <2>4, <2>6 DEF Stored
    <3> QED
      BY <2>2, <2>4, <2>6, <3>1 DEF CopyInv
  <2>9. BufferInv'
    BY <2>2, <2>3, <2>6 DEF BufferInv
  <2>10. EndInv'
    <3>1. putPc' = "startRead" => ~eof' /\ ~done' /\ (faults' = 0 => fileOpen')
      <4>1. putPc' = "startRead" => ~eof /\ written /\ fileOpen' = fileOpen
        BY <2>6
      <4> QED
        BY <2>1, <2>2, <2>3, <4>1
    <3>2. putPc' = "done" /\ faults' = 0 =>
            status' = "CONTINUE" /\ Len(output') = inputLength /\ g_OutPutFileLength' = inputLength
      BY <2>3, <2>4, <2>5, <2>6
    <3> QED
      BY <2>2, <2>6, <3>1, <3>2 DEF EndInv
  <2> QED
    BY <2>7, <2>8, <2>9, <2>10
<1> HIDE DEF PutInv
<1> QED
  BY <1>1, <1>2, <1>3, <1>4, <1>5, <1>6, <1>7, <1>8, <1>9, <1>10 DEF Put!Next, Put!PutStep

LEMMA PutCopies ==
  PutInv => /\ Put!OutputIsPrefix /\ Put!CleanRunCopies
            /\ Put!OneBuffer /\ Put!CompletionFindsBuffer
<1> SUFFICES ASSUME PutInv
             PROVE  /\ Put!OutputIsPrefix /\ Put!CleanRunCopies
                    /\ Put!OneBuffer /\ Put!CompletionFindsBuffer
  OBVIOUS
<1>0. PutTypes /\ CopyInv /\ BufferInv /\ EndInv
  BY DEF PutInv
<1>1. /\ output \in Seq(Nat) /\ Put!input \in Seq(Nat) /\ Len(Put!input) = inputLength
      /\ \A i \in 1 .. inputLength : Put!input[i] = i
      /\ \A i \in 1 .. Len(output) : output[i] = i
      /\ Len(output) <= inputLength /\ inputLength \in Nat
  BY <1>0 DEF PutTypes, Put!TypeOK, CopyInv, FollowOn, Put!input
<1>2. Put!OutputIsPrefix
  <2>1. Put!IsPrefix(output, Put!input)
    <3> HIDE DEF Put!input
    <3>1. SubSeq(output, 1, Len(output)) = SubSeq(Put!input, 1, Len(output))
      BY <1>1
    <3> QED
      BY <1>1, <3>1 DEF Put!IsPrefix
  <2> QED
    BY <1>0, <2>1 DEF Put!OutputIsPrefix, CopyInv
<1>3. Put!CleanRunCopies
  <2>1. ASSUME Len(output) = inputLength PROVE output = Put!input
    BY <1>1, <2>1
  <2> QED
    BY <1>0, <2>1 DEF Put!CleanRunCopies, EndInv
<1>4. Put!OneBuffer /\ Put!CompletionFindsBuffer
  BY <1>0 DEF Put!OneBuffer, Put!CompletionFindsBuffer, BufferInv
<1> QED
  BY <1>2, <1>3, <1>4

(* A PUT request, with an input, a buffer and reads of any lengths and any *)
(* number of failures: the file always holds a beginning of the input, and *)
(* all of it when a request without a failure ends; it has one buffer at a *)
(* time, which a pending read finds again and none survives.               *)
THEOREM InputAlwaysCopied ==
  /\ Put!Spec => [](Put!OutputIsPrefix /\ Put!CleanRunCopies
                    /\ Put!OneBuffer /\ Put!CompletionFindsBuffer)
  /\ PartSpec => []InputCopied
<1>1. PutInv => InputCopied
  BY PutCopies DEF InputCopied
<1>2. PartInit => PutInv
  BY PutStart DEF PartInit
<1>3. PutInv /\ [PartNext]_partVars => PutInv'
  BY PutStepKeeps, ServerSteps
<1> QED
  BY <1>1, <1>2, <1>3, PutStart, PutStepKeeps, PutCopies, PTL DEF PartSpec, Put!Spec

-----------------------------------------------------------------------------
(* ServerIOCP                                                              *)

\* Who has the context of client c: an operation or the accept thread, a
\* completion, or a worker.
Operates(c) == pending[c] # "none" \/ accepted = c
Queued(i, c) == packets[i][1] = c
WorksOn(w, c) == workerPc[w] \in {"handle", "remove"} /\ packet[w][1] = c
Used(c) ==
  Operates(c) \/ (\E i \in DOMAIN packets : Queued(i, c)) \/ (\E w \in Worker : WorksOn(w, c))

UserInv ==
  \A c \in Client :
    /\ accepted = c => pending[c] = "none"
    /\ \A v, w \in Worker : WorksOn(v, c) /\ WorksOn(w, c) => v = w
    /\ \A i, j \in DOMAIN packets : Queued(i, c) /\ Queued(j, c) => i = j
    /\ \A w \in Worker : WorksOn(w, c) =>
         ~Operates(c) /\ \A i \in DOMAIN packets : ~Queued(i, c)
    /\ \A i \in DOMAIN packets : Queued(i, c) => ~Operates(c)

\* A context in use belongs to a connection that was accepted, and is in the
\* list until main cleans it.
ListInv ==
  \A c \in Client : Used(c) =>
    /\ connection[c] \notin {"none", "backlog"}
    /\ mainPc \notin {"clean", "done"} => c \in Server!ToSet(clientList)

ClientTypes ==
  /\ connection \in [Client -> {"none", "backlog", "open", "closed"}]
  /\ receivedFrom \in [Client -> Nat] /\ sentIn \in [Client -> Nat]
  /\ \A c \in Client : receivedFrom[c] <= sentIn[c]
  /\ workload \in Workloads /\ \A c \in DOMAIN workload : sentIn[c] <= workload[c]
  /\ echoed \in [Client -> Seq(Nat)]
Contexts == [op : {"OP_READ", "OP_WRITE"}, total : Nat, sent : Nat, buf : Nat, len : Nat]
PortTypes ==
  /\ pending \in [Client -> {"none", "WSARecv", "WSASend"}]
  /\ packets \in Seq((Client \cup {NoClient}) \X Nat)
  /\ clientList \in Seq(Client) /\ accepted \in Client \cup {NoClient}
WorkerTypes ==
  /\ packet \in [Worker -> (Client \cup {NoClient}) \X Nat]
  /\ workerPc \in [Worker -> {"check", "wait", "handle", "remove", "ended"}]
ServerTypes == ClientTypes /\ context \in [Client -> Contexts] /\ PortTypes /\ WorkerTypes

\* What is to be sent back has been received: a completion is that of a
\* receive if the context is in OP_WRITE.
TotalInv ==
  \A c \in Client :
    /\ context[c].total <= receivedFrom[c]
    /\ pending[c] = "WSASend" => context[c].op = "OP_READ"
    /\ context[c].op = "OP_WRITE" =>
         /\ \A i \in DOMAIN packets : Queued(i, c) => packets[i][2] <= receivedFrom[c]
         /\ \A w \in Worker : workerPc[w] = "handle" /\ packet[w][1] = c =>
              packet[w][2] <= receivedFrom[c]

ServerInv == ServerTypes /\ UserInv /\ ListInv /\ TotalInv

LEMMA ServerConstants ==
  /\ NoClient \notin Client /\ IsFiniteSet(Worker)
  /\ MAX_BUFFER_LEN \in Nat \ {0} /\ MaxFailures \in Nat
  /\ \A plan \in Workloads : DOMAIN plan \subseteq Client /\ \A c \in DOMAIN plan : plan[c] \in Nat
<1>1. Server!ServerAssumption
  BY ProgramsAssumption
<1>2. IsFiniteSet(Worker)
  BY <1>1, ServerFiniteness, Zenon DEF Server!ServerAssumption
<1> QED
  BY <1>1, <1>2 DEF Server!ServerAssumption

LEMMA ServerStart == Server!Init => ServerInv
<1> SUFFICES ASSUME Server!Init PROVE ServerInv
  OBVIOUS
<1> USE ServerConstants DEF Server!Init, Server!NewContext, Server!ShutdownPacket
<1>1. ServerTypes
  BY DEF ServerTypes, ClientTypes, Contexts, PortTypes, WorkerTypes
<1>2. UserInv
  BY DEF UserInv, Operates, Queued, WorksOn
<1>3. ListInv
  BY DEF ListInv, Used, Operates, Queued, WorksOn
<1>4. TotalInv
  BY DEF TotalInv, Queued
<1> QED
  BY <1>1, <1>2, <1>3, <1>4 DEF ServerInv

\* Erasing one client leaves the others in the list.
LEMMA OthersStay ==
  ASSUME clientList \in Seq(Client), NEW e, Server!Erase(e)
  PROVE  /\ clientList' \in Seq(Client)
         /\ \A d \in Server!ToSet(clientList) : d # e => d \in Server!ToSet(clientList')
<1> DEFINE s == clientList
<1>1. CASE UNCHANGED clientList
  BY <1>1
<1>2. CASE \E k \in DOMAIN s : s[k] = e /\ clientList' = Server!RemoveAt(s, k)
  <2>1. PICK k \in 1 .. Len(s) : s[k] = e /\ clientList' = Server!RemoveAt(s, k)
    BY <1>2
  <2> DEFINE a == SubSeq(s, 1, k - 1)
             b == SubSeq(s, k + 1, Len(s))
  <2>2. Len(s) \in Nat /\ k \in Nat
    OBVIOUS
  <2>3. a \in Seq(Client) /\ Len(a) = k - 1 /\ \A i \in 1 .. k - 1 : a[i] = s[i]
    BY <2>2
  <2>4. /\ b \in Seq(Client) /\ Len(b) = Len(s) - k
        /\ \A i \in 1 .. Len(s) - k : b[i] = s[k + i]
    BY <2>2
  <2>5. clientList' = a \o b
    BY <2>1 DEF Server!RemoveAt
  <2> HIDE DEF a, b
  <2>6. /\ a \o b \in Seq(Client) /\ Len(a \o b) = Len(s) - 1
        /\ \A i \in 1 .. Len(a) : (a \o b)[i] = a[i]
        /\ \A i \in 1 .. Len(b) : (a \o b)[Len(a) + i] = b[i]
    <3>1. /\ a \in Seq(Client) /\ b \in Seq(Client) /\ Len(a) \in Nat /\ Len(b) \in Nat
          /\ Len(a) + Len(b) = Len(s) - 1
      BY <2>2, <2>3, <2>4
    <3> QED
      BY <3>1
  <2>7. ASSUME NEW i \in 1 .. Len(s), s[i] # e
        PROVE  \E j \in 1 .. Len(s) - 1 : clientList'[j] = s[i]
    <3>1. CASE i < k
      <4>1. i \in 1 .. k - 1 /\ i \in 1 .. Len(s) - 1
        BY <2>2, <3>1
      <4> QED
        BY <2>3, <2>5, <2>6, <4>1
    <3>2. CASE i > k
      <4> DEFINE j == i - k
      <4>1. j \in 1 .. Len(s) - k /\ k - 1 + j \in 1 .. Len(s) - 1 /\ k + j = i
        BY <2>2, <3>2
      <4> HIDE DEF j
      <4> QED
        BY <2>3, <2>4, <2>5, <2>6, <4>1
    <3>3. i # k /\ i \in Nat
      BY <2>1, <2>7
    <3> QED
      BY <2>2, <3>1, <3>2, <3>3
  <2>8. clientList' \in Seq(Client) /\ DOMAIN clientList' = 1 .. Len(s) - 1
    BY <2>2, <2>5, <2>6
  <2>9. ASSUME NEW d \in Server!ToSet(s), d # e
        PROVE  d \in Server!ToSet(clientList')
    <3>1. PICK i \in 1 .. Len(s) : d = s[i]
      BY <2>9 DEF Server!ToSet
    <3> QED
      BY <2>7, <2>8, <2>9, <3>1 DEF Server!ToSet
  <2> QED
    BY <2>8, <2>9
<1> QED
  BY <1>1, <1>2 DEF Server!Erase

\* A context that is used no more than before stays in the list, and its
\* connection was accepted.
LEMMA ListKept ==
  ASSUME ListInv, \A c \in Client : Used(c)' => Used(c),
         \A c \in Client : connection[c] \notin {"none", "backlog"} =>
                             connection'[c] \notin {"none", "backlog"},
         mainPc' \notin {"clean", "done"} => mainPc \notin {"clean", "done"},
         \A c \in Client :
           (Used(c)' /\ mainPc' \notin {"clean", "done"} /\ c \in Server!ToSet(clientList))
              => c \in Server!ToSet(clientList')
  PROVE  ListInv'
BY DEF ListInv

\* A step that leaves alone who uses what.
LEMMA UsersStay ==
  ASSUME UserInv, ListInv, UNCHANGED <<pending, accepted, packets, packet, workerPc>>,
         \A c \in Client : connection[c] \notin {"none", "backlog"} =>
                             connection'[c] \notin {"none", "backlog"},
         mainPc' \notin {"clean", "done"} => mainPc \notin {"clean", "done"},
         mainPc' \notin {"clean", "done"} => clientList' = clientList
  PROVE  UserInv' /\ ListInv'
<1>1. \A c \in Client : /\ Operates(c)' <=> Operates(c)
                        /\ \A i : Queued(i, c)' <=> Queued(i, c)
                        /\ \A w : WorksOn(w, c)' <=> WorksOn(w, c)
  BY DEF Operates, Queued, WorksOn
<1>2. \A c \in Client : Used(c)' => Used(c)
  BY <1>1 DEF Used
<1>3. UserInv'
  BY <1>1 DEF UserInv
<1>4. ASSUME NEW c \in Client, mainPc' \notin {"clean", "done"}, c \in Server!ToSet(clientList)
      PROVE  c \in Server!ToSet(clientList')
  BY <1>4
<1> QED
  BY <1>2, <1>3, <1>4, ListKept

\* An operation of client d completes.
LEMMA UsersComplete ==
  ASSUME ServerInv, NEW d \in Client, NEW n \in Nat, NEW operation \in {"WSARecv", "WSASend"},
         Server!Complete(d, operation, n)
  PROVE  UserInv' /\ ListInv'
<1>0. ServerTypes /\ UserInv /\ ListInv
  BY DEF ServerInv
<1>1. /\ pending[d] # "none" /\ pending' = [pending EXCEPT ![d] = "none"]
      /\ packets' = Append(packets, <<d, n>>)
      /\ UNCHANGED <<connection, clientList, accepted, packet, workerPc, mainPc>>
  BY DEF Server!Complete, Server!pcs
<1>2. /\ packets \in Seq((Client \cup {NoClient}) \X Nat)
      /\ pending \in [Client -> {"none", "WSARecv", "WSASend"}]
  BY <1>0 DEF ServerTypes, ClientTypes, PortTypes, WorkerTypes
<1>3. /\ \A i \in DOMAIN packets' : \/ i \in DOMAIN packets /\ packets'[i] = packets[i]
                                    \/ i = Len(packets) + 1 /\ packets'[i] = <<d, n>>
      /\ \A i \in DOMAIN packets : i \in DOMAIN packets' /\ packets'[i] = packets[i]
      /\ Len(packets) + 1 \in DOMAIN packets'
  BY <1>1, <1>2
<1>4. /\ \A w \in Worker : ~WorksOn(w, d)
      /\ \A i \in DOMAIN packets : ~Queued(i, d)
      /\ accepted # d /\ Operates(d)
  BY <1>0, <1>1 DEF UserInv, Operates
<1>5. /\ ~Operates(d)'
      /\ \A c \in Client : c # d => pending'[c] = pending[c] /\ (Operates(c)' <=> Operates(c))
      /\ \A c \in Client : \A w \in Worker : WorksOn(w, c)' <=> WorksOn(w, c)
  BY <1>1, <1>2, <1>4 DEF Operates, WorksOn
<1>6. \A c \in Client : \A i \in DOMAIN packets' :
        Queued(i, c)' <=> \/ i \in DOMAIN packets /\ Queued(i, c)
                          \/ i = Len(packets) + 1 /\ c = d
  <2>1. Len(packets) + 1 \notin DOMAIN packets
    BY <1>2
  <2>2. packets'[Len(packets) + 1][1] = d
    BY <1>3, <2>1
  <2> QED
    BY <1>3, <2>1, <2>2 DEF Queued
<1>7. UserInv'
  <2>1. \A c \in Client : \A i, j \in DOMAIN packets' : Queued(i, c)' /\ Queued(j, c)' => i = j
    BY <1>0, <1>4, <1>6 DEF UserInv
  <2>2. \A c \in Client : \A w \in Worker : WorksOn(w, c)' =>
          ~Operates(c)' /\ \A i \in DOMAIN packets' : ~Queued(i, c)'
    BY <1>0, <1>4, <1>5, <1>6 DEF UserInv
  <2>3. \A c \in Client : \A i \in DOMAIN packets' : Queued(i, c)' => ~Operates(c)'
    BY <1>0, <1>4, <1>5, <1>6 DEF UserInv
  <2>4. \A c \in Client : accepted' = c => pending'[c] = "none"
    BY <1>0, <1>1, <1>4, <1>5 DEF UserInv
  <2> QED
    BY <1>0, <1>5, <2>1, <2>2, <2>3, <2>4 DEF UserInv
<1>8. \A c \in Client : Used(c)' => Used(c)
  BY <1>3, <1>4, <1>5, <1>6 DEF Used
<1> QED
  BY <1>0, <1>1, <1>7, <1>8, ListKept

\* A worker takes a completion.
LEMMA UsersTake ==
  ASSUME ServerInv, NEW u \in Worker, Server!GetQueuedCompletionStatus(u)
  PROVE  UserInv' /\ ListInv'
<1>0. ServerTypes /\ UserInv /\ ListInv
  BY DEF ServerInv
<1>1. /\ packets # <<>> /\ packets' = Tail(packets)
      /\ packet' = [packet EXCEPT ![u] = Head(packets)]
      /\ workerPc[u] = "wait"
      /\ workerPc' = [workerPc EXCEPT ![u] = Server!AfterPacket(Head(packets))]
      /\ UNCHANGED <<connection, clientList, accepted, pending, mainPc>>
  BY DEF Server!GetQueuedCompletionStatus, Server!WorkerGoto, Server!clients
<1>2. /\ packets \in Seq((Client \cup {NoClient}) \X Nat)
      /\ packet \in [Worker -> (Client \cup {NoClient}) \X Nat]
      /\ workerPc \in [Worker -> {"check", "wait", "handle", "remove", "ended"}]
  BY <1>0 DEF ServerTypes, ClientTypes, PortTypes, WorkerTypes
<1>3. /\ \A i \in DOMAIN packets' : i + 1 \in DOMAIN packets /\ i + 1 # 1 /\ i \in Int
                                    /\ packets'[i] = packets[i + 1]
      /\ 1 \in DOMAIN packets /\ Head(packets) = packets[1]
  BY <1>1, <1>2
<1>4. /\ packet'[u] = packets[1] /\ \A w \in Worker : w # u => packet'[w] = packet[w]
      /\ \A w \in Worker : w # u => workerPc'[w] = workerPc[w]
  BY <1>1, <1>2, <1>3
<1>5. ASSUME NEW c \in Client
      PROVE  /\ Operates(c)' <=> Operates(c)
             /\ \A i \in DOMAIN packets' : i + 1 \in DOMAIN packets /\ i + 1 # 1 /\ i \in Int
                                           /\ (Queued(i, c)' <=> Queued(i + 1, c))
             /\ WorksOn(u, c)' => Queued(1, c)
             /\ ~WorksOn(u, c)
             /\ \A w \in Worker : w # u => (WorksOn(w, c)' <=> WorksOn(w, c))
  BY <1>1, <1>3, <1>4 DEF Operates, Queued, WorksOn
<1>6. UserInv'
  <2>1. ASSUME NEW c \in Client, NEW v \in Worker, NEW w \in Worker,
               WorksOn(v, c)', WorksOn(w, c)'
        PROVE  v = w
    BY <1>0, <1>3, <1>5, <2>1 DEF UserInv
  <2>2. ASSUME NEW c \in Client, NEW i \in DOMAIN packets', NEW j \in DOMAIN packets',
               Queued(i, c)', Queued(j, c)'
        PROVE  i = j
    <3>1. i + 1 = j + 1
      BY <1>0, <1>5, <2>2 DEF UserInv
    <3> QED
      BY <1>3, <3>1
  <2>3. ASSUME NEW c \in Client, NEW w \in Worker, WorksOn(w, c)'
        PROVE  ~Operates(c)' /\ \A i \in DOMAIN packets' : ~Queued(i, c)'
    BY <1>0, <1>3, <1>5, <2>3 DEF UserInv
  <2>4. ASSUME NEW c \in Client, NEW i \in DOMAIN packets', Queued(i, c)'
        PROVE  ~Operates(c)'
    BY <1>0, <1>5, <2>4 DEF UserInv
  <2>5. \A c \in Client : accepted' = c => pending'[c] = "none"
    BY <1>0, <1>1 DEF UserInv
  <2> QED
    BY <2>1, <2>2, <2>3, <2>4, <2>5 DEF UserInv
<1>7. \A c \in Client : Used(c)' => Used(c)
  BY <1>3, <1>5 DEF Used
<1> QED
  BY <1>0, <1>1, <1>6, <1>7, ListKept

\* A worker posts the next operation of its client, or cannot.
LEMMA UsersPost ==
  ASSUME ServerInv, NEW u \in Worker, workerPc[u] = "handle", NEW operation, NEW ctx,
         Server!Post(u, operation, ctx)
  PROVE  UserInv' /\ ListInv'
<1>0. ServerTypes /\ UserInv /\ ListInv
  BY DEF ServerInv
<1>d. PICK d : d = packet[u][1]
  OBVIOUS
<1>1. /\ UNCHANGED <<connection, clientList, accepted, packets, mainPc>>
      /\ \/ /\ workerPc' = [workerPc EXCEPT ![u] = "check"]
            /\ pending' = [pending EXCEPT ![d] = operation]
            /\ packet' = [packet EXCEPT ![u] = <<NoClient, 0>>]
         \/ /\ workerPc' = [workerPc EXCEPT ![u] = "remove"]
            /\ UNCHANGED <<pending, packet>>
  BY <1>d DEF Server!Post, Server!WorkerGoto, Server!clients, Server!ShutdownPacket
<1>2. /\ pending \in [Client -> {"none", "WSARecv", "WSASend"}]
      /\ workerPc \in [Worker -> {"check", "wait", "handle", "remove", "ended"}]
      /\ packet \in [Worker -> (Client \cup {NoClient}) \X Nat]
  BY <1>0 DEF ServerTypes, ClientTypes, PortTypes, WorkerTypes
<1>3. \A c \in Client : \A i \in DOMAIN packets' : i \in DOMAIN packets /\ (Queued(i, c)' <=> Queued(i, c))
  BY <1>1 DEF Queued
<1>4. CASE workerPc' = [workerPc EXCEPT ![u] = "remove"] /\ UNCHANGED <<pending, packet>>
  <2>1. \A c \in Client : /\ Operates(c)' <=> Operates(c)
                          /\ \A w \in Worker : WorksOn(w, c)' <=> WorksOn(w, c)
    BY <1>1, <1>2, <1>4 DEF Operates, WorksOn
  <2>2. UserInv'
    BY <1>0, <1>1, <1>3, <1>4, <2>1 DEF UserInv
  <2>3. \A c \in Client : Used(c)' => Used(c)
    BY <1>3, <2>1 DEF Used
  <2> QED
    BY <1>0, <1>1, <2>2, <2>3, ListKept
<1>5. CASE /\ workerPc' = [workerPc EXCEPT ![u] = "check"]
           /\ pending' = [pending EXCEPT ![d] = operation]
           /\ packet' = [packet EXCEPT ![u] = <<NoClient, 0>>]
  <2>1. /\ \A c \in Client : ~WorksOn(u, c)'
        /\ \A c \in Client : \A w \in Worker : w # u => (WorksOn(w, c)' <=> WorksOn(w, c))
        /\ \A c \in Client : c # d => pending'[c] = pending[c] /\ (Operates(c)' <=> Operates(c))
        /\ accepted' = accepted
    BY <1>1, <1>2, <1>5 DEF Operates, WorksOn
  <2>2. ASSUME d \in Client
        PROVE  /\ WorksOn(u, d) /\ ~Operates(d)
               /\ \A w \in Worker : ~WorksOn(w, d)'
               /\ \A i \in DOMAIN packets : ~Queued(i, d)
    <3>1. WorksOn(u, d)
      BY <1>d DEF WorksOn
    <3>2. ~Operates(d) /\ \A i \in DOMAIN packets : ~Queued(i, d)
      BY <1>0, <2>2, <3>1 DEF UserInv
    <3>3. \A w \in Worker : WorksOn(w, d) => w = u
      BY <1>0, <2>2, <3>1 DEF UserInv
    <3> QED
      BY <2>1, <2>2, <3>1, <3>2, <3>3
  <2>3. UserInv'
    <3>1. \A c \in Client : accepted' = c => pending'[c] = "none"
      BY <1>0, <2>1, <2>2 DEF UserInv, Operates
    <3>2. \A c \in Client : \A w \in Worker : WorksOn(w, c)' => c # d /\ WorksOn(w, c)
      BY <2>1, <2>2
    <3>3. \A c \in Client : \A i \in DOMAIN packets' : Queued(i, c)' => c # d
      BY <1>3, <2>2
    <3> QED
      BY <1>0, <1>3, <2>1, <3>1, <3>2, <3>3 DEF UserInv
  <2>4. \A c \in Client : Used(c)' => Used(c)
    <3>1. ASSUME NEW c \in Client, Used(c)', c # d PROVE Used(c)
      BY <1>3, <2>1, <3>1 DEF Used
    <3>2. ASSUME d \in Client PROVE Used(d)
      BY <2>2, <3>2 DEF Used
    <3> QED
      BY <3>1, <3>2
  <2> QED
    BY <1>0, <1>1, <2>3, <2>4, ListKept
<1> QED
  BY <1>1, <1>4, <1>5

\* The accept thread takes a connection, posts its first receive or gives it
\* up again.
LEMMA UsersAccept ==
  ASSUME ServerInv, NEW d \in Client, Server!AcceptConnection(d)
  PROVE  UserInv' /\ ListInv'
<1>0. ServerTypes /\ UserInv /\ ListInv
  BY DEF ServerInv
<1>1. /\ accepted' = d /\ connection[d] = "backlog"
      /\ connection' = [connection EXCEPT ![d] = "open"] /\ clientList' = Append(clientList, d)
      /\ UNCHANGED <<pending, packets, packet, workerPc, mainPc>>
  BY DEF Server!AcceptConnection, Server!AcceptGoto, Server!port
<1>2. connection \in [Client -> {"none", "backlog", "open", "closed"}] /\ clientList \in Seq(Client)
  BY <1>0 DEF ServerTypes, ClientTypes, PortTypes, WorkerTypes
<1>3. ~Used(d) /\ pending[d] = "none"
  BY <1>0, <1>1 DEF ListInv, Used, Operates
<1>4. /\ \A c \in Client : c # d => (Operates(c)' => Operates(c))
      /\ \A c \in Client : \A i : Queued(i, c)' <=> Queued(i, c)
      /\ \A c \in Client : \A w : WorksOn(w, c)' <=> WorksOn(w, c)
      /\ packets' = packets /\ pending' = pending /\ mainPc' = mainPc
  BY <1>1 DEF Operates, Queued, WorksOn
<1>5. /\ \A i \in DOMAIN packets : ~Queued(i, d)
      /\ \A w \in Worker : ~WorksOn(w, d)
  BY <1>3 DEF Used
<1>6. UserInv'
  <2>1. \A c \in Client : accepted' = c => pending'[c] = "none"
    BY <1>1, <1>3
  <2>2. \A c \in Client : \A w \in Worker : WorksOn(w, c)' => c # d /\ WorksOn(w, c)
    BY <1>4, <1>5
  <2>3. \A c \in Client : \A i \in DOMAIN packets' : Queued(i, c)' => c # d
    BY <1>4, <1>5
  <2> QED
    BY <1>0, <1>4, <2>1, <2>2, <2>3 DEF UserInv
<1>7. ListInv'
  <2>1. /\ connection'[d] = "open" /\ \A c \in Client : c # d => connection'[c] = connection[c]
    BY <1>1, <1>2
  <2>2. /\ d \in Server!ToSet(clientList')
        /\ \A c \in Server!ToSet(clientList) : c \in Server!ToSet(clientList')
    <3>1. /\ DOMAIN clientList = 1 .. Len(clientList) /\ Len(clientList) \in Nat
          /\ DOMAIN clientList' = 1 .. Len(clientList) + 1
          /\ clientList'[Len(clientList) + 1] = d
          /\ \A i \in 1 .. Len(clientList) : clientList'[i] = clientList[i]
      BY <1>1, <1>2
    <3> QED
      BY <3>1 DEF Server!ToSet
  <2>3. \A c \in Client : c # d => (Used(c)' => Used(c))
    BY <1>4 DEF Used
  <2> QED
    BY <1>0, <1>4, <2>1, <2>2, <2>3 DEF ListInv
<1> QED
  BY <1>6, <1>7

LEMMA UsersPostFirst ==
  ASSUME ServerInv, Server!PostInitialRecv
  PROVE  UserInv' /\ ListInv'
<1>0. ServerTypes /\ UserInv /\ ListInv
  BY DEF ServerInv
<1>d. PICK d : d = accepted
  OBVIOUS
<1>1. /\ accepted' = NoClient /\ NoClient \notin Client
      /\ pending' = [pending EXCEPT ![d] = "WSARecv"] \/ UNCHANGED pending
      /\ UNCHANGED <<connection, clientList, packets, packet, workerPc, mainPc>>
  BY <1>d, ServerConstants DEF Server!PostInitialRecv, Server!AcceptGoto, Server!clients
<1>2. pending \in [Client -> {"none", "WSARecv", "WSASend"}]
  BY <1>0 DEF ServerTypes, ClientTypes, PortTypes, WorkerTypes
<1>3. \A c \in Client : pending'[c] = pending[c] \/ c = d
  BY <1>1, <1>2
<1>4. /\ \A c \in Client : Operates(c)' => Operates(c)
      /\ \A c \in Client : \A i : Queued(i, c)' <=> Queued(i, c)
      /\ \A c \in Client : \A w : WorksOn(w, c)' <=> WorksOn(w, c)
      /\ packets' = packets
  BY <1>d, <1>1, <1>3 DEF Operates, Queued, WorksOn
<1>5. UserInv'
  BY <1>0, <1>1, <1>4 DEF UserInv
<1>6. \A c \in Client : Used(c)' => Used(c)
  BY <1>4 DEF Used
<1> QED
  BY <1>0, <1>1, <1>5, <1>6, ListKept

LEMMA UsersGiveUp ==
  ASSUME ServerInv, Server!AssociateFails
  PROVE  UserInv' /\ ListInv'
<1>0. ServerTypes /\ UserInv /\ ListInv
  BY DEF ServerInv
<1>d. PICK d : d = accepted
  OBVIOUS
<1>1. /\ accepted' = NoClient /\ NoClient \notin Client /\ Server!Erase(d)
      /\ connection' = [connection EXCEPT ![d] = "closed"]
      /\ UNCHANGED <<pending, packets, packet, workerPc, mainPc>>
  BY <1>d, ServerConstants DEF Server!AssociateFails, Server!AcceptGoto, Server!port
<1>2. connection \in [Client -> {"none", "backlog", "open", "closed"}] /\ clientList \in Seq(Client)
  BY <1>0 DEF ServerTypes, ClientTypes, PortTypes, WorkerTypes
<1>3. \A c \in Client : connection'[c] = connection[c] \/ connection'[c] = "closed"
  BY <1>1, <1>2
<1>4. /\ \A c \in Client : Operates(c)' => Operates(c)
      /\ \A c \in Client : \A i : Queued(i, c)' <=> Queued(i, c)
      /\ \A c \in Client : \A w : WorksOn(w, c)' <=> WorksOn(w, c)
      /\ packets' = packets
  BY <1>1 DEF Operates, Queued, WorksOn
<1>5. UserInv'
  BY <1>0, <1>1, <1>4 DEF UserInv
<1>6. \A c \in Client : Used(c)' => Used(c)
  BY <1>4 DEF Used
<1>7. d \in Client => ~Used(d)'
  <2> SUFFICES ASSUME d \in Client PROVE ~Used(d)'
    OBVIOUS
  <2>1. pending[d] = "none" /\ Operates(d)
    BY <1>0, <1>d DEF UserInv, Operates
  <2>2. ~Operates(d)'
    BY <1>1, <2>1 DEF Operates
  <2>3. /\ \A w \in Worker : ~WorksOn(w, d)
        /\ \A i \in DOMAIN packets : ~Queued(i, d)
    BY <1>0, <2>1 DEF UserInv
  <2> QED
    BY <1>4, <2>2, <2>3 DEF Used
<1>8. ASSUME NEW c \in Client, Used(c)', c \in Server!ToSet(clientList)
      PROVE  c \in Server!ToSet(clientList')
  BY <1>1, <1>2, <1>7, <1>8, OthersStay
<1>9. \A c \in Client : connection[c] \notin {"none", "backlog"} =>
                          connection'[c] \notin {"none", "backlog"}
  BY <1>3
<1> QED
  BY <1>0, <1>1, <1>5, <1>6, <1>8, <1>9, ListKept

\* A worker frees the context it has: nobody else uses it.
LEMMA UsersRemove ==
  ASSUME ServerInv, NEW u \in Worker, Server!RemoveClient(u)
  PROVE  UserInv' /\ ListInv'
<1>0. ServerTypes /\ UserInv /\ ListInv
  BY DEF ServerInv
<1>d. PICK d : d = packet[u][1]
  OBVIOUS
<1>1. /\ workerPc[u] = "remove" /\ workerPc' = [workerPc EXCEPT ![u] = "check"]
      /\ Server!Erase(d) /\ connection' = [connection EXCEPT ![d] = "closed"]
      /\ packet' = [packet EXCEPT ![u] = <<NoClient, 0>>]
      /\ UNCHANGED <<pending, packets, accepted, mainPc>>
  BY <1>d DEF Server!RemoveClient, Server!WorkerGoto, Server!port, Server!ShutdownPacket
<1>2. /\ connection \in [Client -> {"none", "backlog", "open", "closed"}]
      /\ clientList \in Seq(Client)
      /\ workerPc \in [Worker -> {"check", "wait", "handle", "remove", "ended"}]
      /\ packet \in [Worker -> (Client \cup {NoClient}) \X Nat]
  BY <1>0 DEF ServerTypes, ClientTypes, PortTypes, WorkerTypes
<1>3. \A c \in Client : connection'[c] = connection[c] \/ connection'[c] = "closed"
  BY <1>1, <1>2
<1>4. /\ \A c \in Client : Operates(c)' <=> Operates(c)
      /\ \A c \in Client : \A i : Queued(i, c)' <=> Queued(i, c)
      /\ \A c \in Client : ~WorksOn(u, c)'
      /\ \A c \in Client : \A w \in Worker : w # u => (WorksOn(w, c)' <=> WorksOn(w, c))
      /\ packets' = packets /\ accepted' = accepted /\ pending' = pending
  BY <1>1, <1>2 DEF Operates, Queued, WorksOn
<1>5. UserInv'
  <2>1. \A c \in Client : \A w \in Worker : WorksOn(w, c)' => WorksOn(w, c)
    BY <1>4
  <2> QED
    BY <1>0, <1>4, <2>1 DEF UserInv
<1>6. \A c \in Client : Used(c)' => Used(c)
  BY <1>4 DEF Used
<1>7. d \in Client => ~Used(d)'
  <2> SUFFICES ASSUME d \in Client PROVE ~Used(d)'
    OBVIOUS
  <2>1. WorksOn(u, d)
    BY <1>d, <1>1 DEF WorksOn
  <2>2. /\ ~Operates(d) /\ \A i \in DOMAIN packets : ~Queued(i, d)
        /\ \A w \in Worker : WorksOn(w, d) => w = u
    BY <1>0, <2>1 DEF UserInv
  <2>3. \A w \in Worker : ~WorksOn(w, d)'
    BY <1>4, <2>2
  <2> QED
    BY <1>4, <2>2, <2>3 DEF Used
<1>8. ASSUME NEW c \in Client, Used(c)', c \in Server!ToSet(clientList)
      PROVE  c \in Server!ToSet(clientList')
  BY <1>1, <1>2, <1>7, <1>8, OthersStay
<1>9. \A c \in Client : connection[c] \notin {"none", "backlog"} =>
                          connection'[c] \notin {"none", "backlog"}
  BY <1>3
<1> QED
  BY <1>0, <1>1, <1>5, <1>6, <1>8, <1>9, ListKept

LEMMA UsersCheck ==
  ASSUME ServerInv, NEW u \in Worker, Server!WorkerCheck(u)
  PROVE  UserInv' /\ ListInv'
<1>0. ServerTypes /\ UserInv /\ ListInv
  BY DEF ServerInv
<1>1. /\ workerPc[u] = "check" /\ \E to \in {"ended", "wait"} : workerPc' = [workerPc EXCEPT ![u] = to]
      /\ UNCHANGED <<connection, clientList, pending, packets, packet, accepted, mainPc>>
  BY DEF Server!WorkerCheck, Server!WorkerGoto, Server!port, Server!clients
<1>2. workerPc \in [Worker -> {"check", "wait", "handle", "remove", "ended"}]
  BY <1>0 DEF ServerTypes, WorkerTypes
<1>3. /\ workerPc'[u] \in {"ended", "wait"} /\ \A w \in Worker : w # u => workerPc'[w] = workerPc[w]
  BY <1>1, <1>2
<1>4. /\ \A c \in Client : Operates(c)' <=> Operates(c)
      /\ \A c \in Client : \A i : Queued(i, c)' <=> Queued(i, c)
      /\ \A c \in Client : \A w \in Worker : WorksOn(w, c)' <=> WorksOn(w, c)
      /\ packets' = packets /\ accepted' = accepted /\ pending' = pending
  BY <1>1, <1>3 DEF Operates, Queued, WorksOn
<1>5. UserInv'
  BY <1>0, <1>4 DEF UserInv
<1>6. \A c \in Client : Used(c)' => Used(c)
  BY <1>4 DEF Used
<1> QED
  BY <1>0, <1>1, <1>5, <1>6, ListKept

\* main queues packets that are nobody's.
LEMMA UsersWake ==
  ASSUME ServerInv, Server!WakeWorkers
  PROVE  /\ UserInv' /\ ListInv' /\ packets' \in Seq((Client \cup {NoClient}) \X Nat)
         /\ \A c \in Client : \A i \in DOMAIN packets' : Queued(i, c)' =>
              i \in DOMAIN packets /\ Queued(i, c) /\ packets'[i] = packets[i]
<1>0. ServerTypes /\ UserInv /\ ListInv
  BY DEF ServerInv
<1> DEFINE N == Server!Cardinality(Worker)
           wake == [i \in 1 .. N |-> <<NoClient, 0>>]
<1>1. /\ packets' = packets \o wake /\ mainPc' = "waitWorkers" /\ mainPc = "waitAccept"
      /\ UNCHANGED <<connection, clientList, pending, packet, workerPc, accepted>>
  BY DEF Server!WakeWorkers, Server!MainGoto, Server!ShutdownPacket, Server!clients
<1>2. N \in Nat
  BY ServerConstants, ServerCardinality, FS_CardinalityType
<1>3. packets \in Seq((Client \cup {NoClient}) \X Nat) /\ NoClient \notin Client
  BY <1>0, ServerConstants DEF ServerTypes, ClientTypes, PortTypes, WorkerTypes
<1> HIDE DEF N
<1>4. /\ wake \in Seq((Client \cup {NoClient}) \X Nat) /\ Len(wake) = N
      /\ \A i \in 1 .. N : wake[i] = <<NoClient, 0>>
  BY <1>2
<1> HIDE DEF wake
<1>5. /\ packets' \in Seq((Client \cup {NoClient}) \X Nat)
      /\ Len(packets') = Len(packets) + N
      /\ \A i \in 1 .. Len(packets) : packets'[i] = packets[i]
      /\ \A i \in 1 .. N : packets'[Len(packets) + i] = wake[i]
  <2> DEFINE T == (Client \cup {NoClient}) \X Nat
  <2>1. packets \in Seq(T) /\ wake \in Seq(T) /\ Len(wake) = N
    BY <1>3, <1>4
  <2> HIDE DEF T
  <2>2. /\ packets \o wake \in Seq(T) /\ Len(packets \o wake) = Len(packets) + Len(wake)
        /\ \A i \in 1 .. Len(packets) : (packets \o wake)[i] = packets[i]
        /\ \A i \in 1 .. Len(wake) : (packets \o wake)[Len(packets) + i] = wake[i]
    BY <2>1
  <2> QED
    BY <1>1, <2>1, <2>2 DEF T
<1>6. ASSUME NEW i \in DOMAIN packets'
      PROVE  \/ i \in DOMAIN packets /\ packets'[i] = packets[i]
             \/ packets'[i] = <<NoClient, 0>>
  <2>1. i \in 1 .. Len(packets) + N /\ Len(packets) \in Nat
    BY <1>2, <1>3, <1>5
  <2>2. CASE i <= Len(packets)
    <3>1. i \in 1 .. Len(packets)
      BY <2>1, <2>2
    <3> QED
      BY <1>3, <1>5, <3>1
  <2>3. CASE i > Len(packets)
    <3> DEFINE j == i - Len(packets)
    <3>1. j \in 1 .. N /\ i = Len(packets) + j
      BY <1>2, <2>1, <2>3
    <3> HIDE DEF j
    <3> QED
      BY <1>4, <1>5, <3>1
  <2> QED
    BY <2>1, <2>2, <2>3
<1>7. /\ \A c \in Client : Operates(c)' <=> Operates(c)
      /\ \A c \in Client : \A w \in Worker : WorksOn(w, c)' <=> WorksOn(w, c)
      /\ \A c \in Client : \A i \in DOMAIN packets' : Queued(i, c)' =>
           i \in DOMAIN packets /\ Queued(i, c) /\ packets'[i] = packets[i]
      /\ accepted' = accepted /\ pending' = pending
  BY <1>1, <1>3, <1>6 DEF Operates, Queued, WorksOn
<1>8. UserInv'
  BY <1>0, <1>7 DEF UserInv
<1>9. \A c \in Client : Used(c)' => Used(c)
  BY <1>7 DEF Used
<1> QED
  BY <1>0, <1>1, <1>5, <1>7, <1>8, <1>9, ListKept

LEMMA TotalKept ==
  ASSUME ServerInv, [Server!Next]_(Server!serverVars)
  PROVE  TotalInv'
<1> USE DEF Server!clients, Server!port, Server!pcs, Server!WorkerGoto, Server!AcceptGoto,
        Server!MainGoto, Server!ShutdownPacket
<1>0. ServerTypes /\ UserInv /\ ListInv /\ TotalInv
  BY DEF ServerInv
<1>t. /\ receivedFrom \in [Client -> Nat] /\ context \in [Client -> Contexts]
      /\ pending \in [Client -> {"none", "WSARecv", "WSASend"}]
      /\ packets \in Seq((Client \cup {NoClient}) \X Nat)
      /\ packet \in [Worker -> (Client \cup {NoClient}) \X Nat]
      /\ workerPc \in [Worker -> {"check", "wait", "handle", "remove", "ended"}]
  BY <1>0 DEF ServerTypes, ClientTypes, PortTypes, WorkerTypes
<1>u. UNCHANGED <<receivedFrom, context, pending, packets, packet, workerPc>> => TotalInv'
  BY <1>0 DEF TotalInv, Queued
<1>1. CASE UNCHANGED Server!serverVars
  BY <1>1, <1>u DEF Server!serverVars
<1>2. ASSUME NEW d \in Client, Server!Connect(d) \/ Server!Send(d) \/ Server!Disconnect(d)
      PROVE  TotalInv'
  BY <1>2, <1>u DEF Server!Connect, Server!Send, Server!Disconnect
<1>c. ASSUME NEW d \in Client, NEW operation \in {"WSARecv", "WSASend"}, NEW n \in Nat,
             Server!Complete(d, operation, n), receivedFrom' \in [Client -> Nat],
             \A c \in Client : receivedFrom[c] <= receivedFrom'[c],
             operation = "WSARecv" => n <= receivedFrom'[d]
      PROVE  TotalInv'
  <2>1. /\ pending[d] = operation /\ pending' = [pending EXCEPT ![d] = "none"]
        /\ packets' = Append(packets, <<d, n>>) /\ UNCHANGED <<context, packet, workerPc>>
    BY <1>c DEF Server!Complete
  <2>2. \A i \in DOMAIN packets' : \/ i \in DOMAIN packets /\ packets'[i] = packets[i]
                                   \/ packets'[i] = <<d, n>>
    BY <1>t, <2>1
  <2>3. \A c \in Client : pending'[c] = "WSASend" => pending[c] = "WSASend"
    BY <1>t, <2>1
  <2>4. operation = "WSASend" => context[d].op = "OP_READ"
    BY <1>0, <2>1 DEF TotalInv
  <2>5. ASSUME NEW c \in Client PROVE context'[c].total <= receivedFrom'[c]
    <3>1. /\ context[c].total \in Nat /\ context[c].total <= receivedFrom[c]
          /\ receivedFrom[c] \in Nat /\ receivedFrom'[c] \in Nat /\ receivedFrom[c] <= receivedFrom'[c]
      BY <1>0, <1>t, <1>c DEF TotalInv, Contexts
    <3> QED
      BY <2>1, <3>1
  <2>6. ASSUME NEW c \in Client, context'[c].op = "OP_WRITE", NEW i \in DOMAIN packets', Queued(i, c)'
        PROVE  packets'[i][2] <= receivedFrom'[c]
    <3>1. CASE i \in DOMAIN packets /\ packets'[i] = packets[i]
      <4>1. packets[i][2] \in Nat /\ packets[i][2] <= receivedFrom[c]
        BY <1>0, <1>t, <2>1, <2>6, <3>1 DEF TotalInv, Queued
      <4> QED
        BY <1>t, <1>c, <3>1, <4>1
    <3>2. CASE packets'[i] = <<d, n>>
      <4>1. c = d /\ packets'[i][2] = n
        BY <2>6, <3>2 DEF Queued
      <4>2. operation = "WSARecv"
        BY <2>1, <2>4, <2>6, <4>1
      <4> QED
        BY <1>c, <4>1, <4>2
    <3> QED
      BY <2>2, <3>1, <3>2
  <2>7. ASSUME NEW c \in Client, context'[c].op = "OP_WRITE", NEW w \in Worker,
               workerPc'[w] = "handle", packet'[w][1] = c
        PROVE  packet'[w][2] <= receivedFrom'[c]
    <3>1. packet[w][2] \in Nat /\ packet[w][2] <= receivedFrom[c] /\ packet' = packet
      BY <1>0, <1>t, <2>1, <2>7 DEF TotalInv
    <3> QED
      BY <1>t, <1>c, <3>1
  <2> QED
    BY <1>0, <2>1, <2>3, <2>5, <2>6, <2>7 DEF TotalInv
<1>3. ASSUME NEW d \in Client, Server!RecvCompletes(d)
      PROVE  TotalInv'
  <2>1. PICK n \in 0 .. context[d].len :
          /\ Server!Complete(d, "WSARecv", n) /\ receivedFrom' = [receivedFrom EXCEPT ![d] = @ + n]
    BY <1>3 DEF Server!RecvCompletes
  <2>2. n \in Nat
    BY <1>t, <2>1 DEF Contexts
  <2>3. /\ receivedFrom' \in [Client -> Nat] /\ receivedFrom'[d] = receivedFrom[d] + n
        /\ \A c \in Client : c # d => receivedFrom'[c] = receivedFrom[c]
    BY <1>t, <2>1, <2>2
  <2>4. receivedFrom[d] \in Nat /\ n <= receivedFrom'[d] /\ receivedFrom[d] <= receivedFrom'[d]
    BY <1>t, <2>2, <2>3
  <2>5. \A c \in Client : c # d => receivedFrom[c] <= receivedFrom'[c]
    BY <1>t, <2>3
  <2>6. \A c \in Client : receivedFrom[c] <= receivedFrom'[c]
    BY <2>4, <2>5
  <2> QED
    BY <1>c, <2>1, <2>2, <2>3, <2>4, <2>6
<1>4. ASSUME NEW d \in Client, Server!SendCompletes(d)
      PROVE  TotalInv'
  <2>1. PICK n \in 0 .. context[d].len :
          Server!Complete(d, "WSASend", n) /\ UNCHANGED receivedFrom
    BY <1>4 DEF Server!SendCompletes
  <2>2. n \in Nat /\ \A c \in Client : receivedFrom[c] <= receivedFrom[c]
    BY <1>t, <2>1 DEF Contexts
  <2> QED
    BY <1>c, <1>t, <2>1, <2>2
<1>5. CASE Server!AcceptCheck \/ Server!AcceptTimeout
  BY <1>5, <1>u DEF Server!AcceptCheck, Server!AcceptTimeout
<1>6. ASSUME NEW d \in Client, Server!AcceptConnection(d)
      PROVE  TotalInv'
  BY <1>6, <1>u DEF Server!AcceptConnection
<1>7. CASE Server!PostInitialRecv
  <2>d. PICK d : d = accepted
    OBVIOUS
  <2>1. /\ context' = [context EXCEPT ![d].op = "OP_WRITE"]
        /\ pending' = [pending EXCEPT ![d] = "WSARecv"] \/ pending' = pending
        /\ UNCHANGED <<receivedFrom, packets, packet, workerPc>>
    BY <1>7, <2>d DEF Server!PostInitialRecv
  <2>2. \A c \in Client : context'[c].total = context[c].total
    BY <1>t, <2>1 DEF Contexts
  <2>3. \A c \in Client : c # d => context'[c] = context[c]
    BY <1>t, <2>1
  <2>4. \A c \in Client : pending'[c] = "WSASend" => c # d /\ pending[c] = "WSASend"
    BY <1>0, <1>t, <2>1, <2>d DEF UserInv
  <2>5. d \in Client => /\ \A i \in DOMAIN packets : ~Queued(i, d)
                        /\ \A w \in Worker : ~WorksOn(w, d)
    BY <1>0, <2>d DEF UserInv, Operates
  <2>6. \A c \in Client : \A i \in DOMAIN packets : Queued(i, c) => c # d
    BY <2>5
  <2>7. \A c \in Client : \A w \in Worker : workerPc[w] = "handle" /\ packet[w][1] = c => c # d
    BY <2>5 DEF WorksOn
  <2> QED
    BY <1>0, <2>1, <2>2, <2>3, <2>4, <2>6, <2>7 DEF TotalInv, Queued
<1>8. CASE Server!AssociateFails
  BY <1>8, <1>u DEF Server!AssociateFails
<1>9. ASSUME NEW u \in Worker, Server!WorkerCheck(u) \/ Server!RemoveClient(u)
      PROVE  TotalInv'
  <2>1. /\ UNCHANGED <<receivedFrom, context, pending, packets>>
        /\ \E to \in {"ended", "wait", "check"} : workerPc' = [workerPc EXCEPT ![u] = to]
        /\ UNCHANGED packet \/ packet' = [packet EXCEPT ![u] = <<NoClient, 0>>]
    BY <1>9 DEF Server!WorkerCheck, Server!RemoveClient
  <2>2. \A w \in Worker : workerPc'[w] = "handle" => workerPc[w] = "handle" /\ packet'[w] = packet[w]
    BY <1>t, <2>1
  <2> QED
    BY <1>0, <2>1, <2>2 DEF TotalInv, Queued
<1>10. ASSUME NEW u \in Worker, Server!GetQueuedCompletionStatus(u)
       PROVE  TotalInv'
  <2>1. /\ packets # <<>> /\ packets' = Tail(packets)
        /\ packet' = [packet EXCEPT ![u] = Head(packets)]
        /\ \E to \in {"ended", "remove", "handle"} : workerPc' = [workerPc EXCEPT ![u] = to]
        /\ UNCHANGED <<receivedFrom, context, pending>>
    BY <1>10 DEF Server!GetQueuedCompletionStatus, Server!AfterPacket
  <2>2. /\ \A i \in DOMAIN packets' : i + 1 \in DOMAIN packets /\ packets'[i] = packets[i + 1]
        /\ 1 \in DOMAIN packets /\ Head(packets) = packets[1]
    BY <1>t, <2>1
  <2>3. /\ packet'[u] = packets[1]
        /\ \A w \in Worker : w # u => packet'[w] = packet[w] /\ workerPc'[w] = workerPc[w]
    BY <1>t, <2>1, <2>2
  <2>4. ASSUME NEW c \in Client, context[c].op = "OP_WRITE", NEW i \in DOMAIN packets', Queued(i, c)'
        PROVE  packets'[i][2] <= receivedFrom[c]
    BY <1>0, <2>2, <2>4 DEF TotalInv, Queued
  <2>5. ASSUME NEW c \in Client, context[c].op = "OP_WRITE", NEW w \in Worker,
               workerPc'[w] = "handle", packet'[w][1] = c
        PROVE  packet'[w][2] <= receivedFrom[c]
    <3>1. CASE w = u
      BY <1>0, <2>2, <2>3, <2>5, <3>1 DEF TotalInv, Queued
    <3>2. CASE w # u
      BY <1>0, <2>3, <2>5, <3>2 DEF TotalInv
    <3> QED
      BY <3>1, <3>2
  <2> QED
    BY <1>0, <2>1, <2>4, <2>5 DEF TotalInv
<1>p. ASSUME NEW u \in Worker, workerPc[u] = "handle", NEW operation \in {"WSARecv", "WSASend"},
             NEW ctx, Server!Post(u, operation, ctx),
             packet[u][1] \in Client => ctx.total <= receivedFrom[packet[u][1]],
             (packet[u][1] \in Client /\ operation = "WSASend") => ctx.op = "OP_READ"
      PROVE  TotalInv'
  <2>d. PICK d : d = packet[u][1]
    OBVIOUS
  <2>1. /\ context' = [context EXCEPT ![d] = ctx]
        /\ UNCHANGED <<receivedFrom, packets>>
        /\ \/ /\ workerPc' = [workerPc EXCEPT ![u] = "check"]
              /\ pending' = [pending EXCEPT ![d] = operation]
              /\ packet' = [packet EXCEPT ![u] = <<NoClient, 0>>]
           \/ workerPc' = [workerPc EXCEPT ![u] = "remove"] /\ UNCHANGED <<pending, packet>>
    BY <1>p, <2>d DEF Server!Post
  <2>2. /\ \A c \in Client : c # d => context'[c] = context[c] /\ pending'[c] = pending[c]
        /\ d \in Client => context'[d] = ctx /\ pending'[d] \in {operation, pending[d]}
    BY <1>t, <2>1
  <2>3. \A w \in Worker : workerPc'[w] = "handle" =>
          w # u /\ workerPc[w] = "handle" /\ packet'[w] = packet[w]
    BY <1>t, <2>1
  <2>4. d \in Client => /\ pending[d] = "none" /\ \A i \in DOMAIN packets : ~Queued(i, d)
                        /\ \A w \in Worker : WorksOn(w, d) => w = u
    <3>1. WorksOn(u, d)
      BY <1>p, <2>d DEF WorksOn
    <3> QED
      BY <1>0, <3>1 DEF UserInv, Operates
  <2>5. ASSUME NEW c \in Client PROVE context'[c].total <= receivedFrom'[c]
    <3>1. CASE c = d
      BY <1>p, <2>d, <2>1, <2>2, <3>1
    <3>2. CASE c # d
      BY <1>0, <2>1, <2>2, <3>2 DEF TotalInv
    <3> QED
      BY <3>1, <3>2
  <2>6. ASSUME NEW c \in Client, pending'[c] = "WSASend" PROVE context'[c].op = "OP_READ"
    <3>1. CASE c = d
      BY <1>p, <2>d, <2>2, <2>4, <2>6, <3>1
    <3>2. CASE c # d
      BY <1>0, <2>2, <2>6, <3>2 DEF TotalInv
    <3> QED
      BY <3>1, <3>2
  <2>7. ASSUME NEW c \in Client, context'[c].op = "OP_WRITE", NEW i \in DOMAIN packets', Queued(i, c)'
        PROVE  packets'[i][2] <= receivedFrom'[c]
    <3>1. packets' = packets /\ i \in DOMAIN packets /\ Queued(i, c)
      BY <2>1, <2>7 DEF Queued
    <3>2. c # d
      BY <2>4, <3>1
    <3> QED
      BY <1>0, <2>1, <2>2, <2>7, <3>1, <3>2 DEF TotalInv
  <2>8. ASSUME NEW c \in Client, context'[c].op = "OP_WRITE", NEW w \in Worker,
               workerPc'[w] = "handle", packet'[w][1] = c
        PROVE  packet'[w][2] <= receivedFrom'[c]
    <3>1. w # u /\ workerPc[w] = "handle" /\ packet'[w] = packet[w] /\ WorksOn(w, c)
      BY <2>3, <2>8 DEF WorksOn
    <3>2. c # d
      BY <2>4, <3>1
    <3> QED
      BY <1>0, <2>1, <2>2, <2>8, <3>1, <3>2 DEF TotalInv
  <2> QED
    BY <2>5, <2>6, <2>7, <2>8 DEF TotalInv
<1>11. ASSUME NEW u \in Worker, Server!EchoReceived(u)
       PROVE  TotalInv'
  <2> DEFINE c == packet[u][1]
             ctx == [op |-> "OP_READ", total |-> packet[u][2], sent |-> 0,
                     buf |-> context[c].buf, len |-> packet[u][2]]
  <2>1. workerPc[u] = "handle" /\ context[c].op = "OP_WRITE" /\ Server!Post(u, "WSASend", ctx)
    BY <1>11 DEF Server!EchoReceived
  <2>2. c \in Client => ctx.total <= receivedFrom[c]
    BY <1>0, <2>1 DEF TotalInv
  <2>3. ctx.op = "OP_READ"
    OBVIOUS
  <2> HIDE DEF ctx
  <2> QED
    BY <1>p, <2>1, <2>2, <2>3
<1>12. ASSUME NEW u \in Worker, Server!SendRest(u)
       PROVE  TotalInv'
  <2> DEFINE c == packet[u][1]
             sent == context[c].sent + packet[u][2]
             ctx == [context[c] EXCEPT !.sent = sent, !.buf = @ + sent,
                                       !.len = context[c].total - sent]
  <2>1. workerPc[u] = "handle" /\ context[c].op = "OP_READ" /\ Server!Post(u, "WSASend", ctx)
    BY <1>12 DEF Server!SendRest
  <2> HIDE DEF sent
  <2>2. c \in Client => context[c] \in Contexts /\ context[c].total <= receivedFrom[c]
    BY <1>0, <1>t DEF TotalInv
  <2>3. c \in Client => ctx.total <= receivedFrom[c] /\ ctx.op = "OP_READ"
    BY <2>1, <2>2 DEF Contexts
  <2> HIDE DEF ctx
  <2> QED
    BY <1>p, <2>1, <2>3
<1>13. ASSUME NEW u \in Worker, Server!ReceiveNext(u)
       PROVE  TotalInv'
  <2> DEFINE c == packet[u][1]
             sent == context[c].sent + packet[u][2]
             ctx == [context[c] EXCEPT !.op = "OP_WRITE", !.sent = sent, !.buf = 0,
                                       !.len = MAX_BUFFER_LEN]
  <2>1. workerPc[u] = "handle" /\ Server!Post(u, "WSARecv", ctx)
    BY <1>13 DEF Server!ReceiveNext
  <2> HIDE DEF sent
  <2>2. c \in Client => context[c] \in Contexts /\ context[c].total <= receivedFrom[c]
    BY <1>0, <1>t DEF TotalInv
  <2>3. c \in Client => ctx.total <= receivedFrom[c]
    BY <2>2 DEF Contexts
  <2>4. "WSARecv" # "WSASend"
    OBVIOUS
  <2> HIDE DEF ctx
  <2> QED
    BY <1>p, <2>1, <2>3, <2>4
<1>14. CASE Server!WakeWorkers
  <2>1. \A c \in Client : \A i \in DOMAIN packets' : Queued(i, c)' =>
          i \in DOMAIN packets /\ Queued(i, c) /\ packets'[i] = packets[i]
    BY <1>14, UsersWake
  <2>2. UNCHANGED <<receivedFrom, context, pending, packet, workerPc>>
    BY <1>14 DEF Server!WakeWorkers
  <2> QED
    BY <1>0, <2>1, <2>2 DEF TotalInv
<1>15. CASE Server!Shutdown \/ Server!WorkersEnded \/ Server!ListCleaned \/ Server!CleanClient
  BY <1>15, <1>u DEF Server!Shutdown, Server!WorkersEnded, Server!ListCleaned, Server!CleanClient
<1> QED
  BY <1>1, <1>2, <1>3, <1>4, <1>5, <1>6, <1>7, <1>8, <1>9, <1>10, <1>11, <1>12, <1>13, <1>14, <1>15
     DEF Server!Next, Server!Network, Server!AcceptStep, Server!MainStep, Server!WorkerStep

\* The contexts that SendRest and ReceiveNext make of another.
LEMMA ContextResends ==
  ASSUME NEW r \in Contexts, NEW s \in Nat, NEW b \in Nat, NEW k \in Nat
  PROVE  [r EXCEPT !.sent = s, !.buf = b, !.len = k] \in Contexts
BY DEF Contexts

LEMMA ContextReceives ==
  ASSUME NEW r \in Contexts, NEW s \in Nat
  PROVE  [r EXCEPT !.op = "OP_WRITE", !.sent = s, !.buf = 0, !.len = MAX_BUFFER_LEN] \in Contexts
BY ServerConstants DEF Contexts

LEMMA ServerStep == ServerInv /\ [Server!Next]_(Server!serverVars) => ServerInv'
<1> SUFFICES ASSUME ServerInv, [Server!Next]_(Server!serverVars) PROVE ServerInv'
  OBVIOUS
<1> USE ServerConstants DEF Server!clients, Server!port, Server!pcs, Server!Fail,
        Server!WorkerGoto, Server!AcceptGoto, Server!MainGoto, Server!ShutdownPacket
<1>0. ServerTypes /\ UserInv /\ ListInv /\ TotalInv
  BY DEF ServerInv
<1>i. TotalInv'
  BY TotalKept
<1>t. /\ ClientTypes /\ PortTypes /\ WorkerTypes /\ context \in [Client -> Contexts]
      /\ UNCHANGED <<workload, connection, sentIn, receivedFrom, echoed>> => ClientTypes'
      /\ UNCHANGED <<pending, packets, clientList, accepted>> => PortTypes'
      /\ UNCHANGED <<packet, workerPc>> => WorkerTypes'
      /\ UNCHANGED context => context' \in [Client -> Contexts]
  BY <1>0 DEF ServerTypes, ClientTypes, PortTypes, WorkerTypes
<1>1. CASE UNCHANGED Server!serverVars
  <2>1. ServerTypes'
    BY <1>1, <1>t DEF Server!serverVars, ServerTypes
  <2> QED
    BY <1>0, <1>1, <2>1, UsersStay, <1>i DEF Server!serverVars, ServerInv
<1>2. ASSUME NEW d \in Client, Server!Connect(d) \/ Server!Send(d) \/ Server!Disconnect(d)
      PROVE  ServerInv'
  <2>1. ServerTypes'
    <3>1. CASE Server!Connect(d) \/ Server!Disconnect(d)
      <4>1. ClientTypes'
        BY <1>t, <3>1 DEF Server!Connect, Server!Disconnect, ClientTypes
      <4> QED
        BY <1>t, <3>1, <4>1 DEF Server!Connect, Server!Disconnect, ServerTypes
    <3>2. CASE Server!Send(d)
      <4>1. /\ sentIn[d] < workload[d] /\ sentIn' = [sentIn EXCEPT ![d] = @ + 1]
            /\ UNCHANGED <<workload, connection, receivedFrom, echoed>>
        BY <3>2 DEF Server!Send
      <4>2. /\ sentIn' \in [Client -> Nat] /\ sentIn'[d] = sentIn[d] + 1
            /\ \A c \in Client : c # d => sentIn'[c] = sentIn[c]
        BY <1>t, <4>1 DEF ClientTypes
      <4>3. \A c \in Client : receivedFrom'[c] <= sentIn'[c]
        BY <1>t, <4>1, <4>2 DEF ClientTypes
      <4>5. \A c \in DOMAIN workload : sentIn'[c] <= workload[c]
        <5>1. \A c \in DOMAIN workload : c \in Client /\ workload[c] \in Nat /\ sentIn[c] <= workload[c]
          BY <1>t DEF ClientTypes
        <5> QED
          BY <1>t, <4>1, <4>2, <5>1 DEF ClientTypes
      <4>4. ClientTypes'
        BY <1>t, <4>1, <4>2, <4>3, <4>5 DEF ClientTypes
      <4> QED
        BY <1>t, <3>2, <4>4 DEF Server!Send, ServerTypes
    <3> QED
      BY <1>2, <3>1, <3>2
  <2>2. \A c \in Client : connection[c] \notin {"none", "backlog"} =>
                            connection'[c] \notin {"none", "backlog"}
    BY <1>t, <1>2 DEF ClientTypes, Server!Connect, Server!Send, Server!Disconnect
  <2>3. UNCHANGED <<pending, accepted, packets, packet, workerPc, mainPc, clientList>>
    BY <1>2 DEF Server!Connect, Server!Send, Server!Disconnect
  <2> QED
    BY <1>0, <2>1, <2>2, <2>3, UsersStay, <1>i DEF ServerInv
<1>3. ASSUME NEW d \in Client, Server!RecvCompletes(d)
      PROVE  ServerInv'
  <2>1. PICK n \in 0 .. context[d].len :
          /\ n <= sentIn[d] - receivedFrom[d] /\ Server!Complete(d, "WSARecv", n)
          /\ receivedFrom' = [receivedFrom EXCEPT ![d] = @ + n] /\ UNCHANGED echoed
    BY <1>3 DEF Server!RecvCompletes
  <2>2. n \in Nat
    BY <1>t, <2>1 DEF Contexts
  <2>3. UserInv' /\ ListInv'
    BY <2>1, <2>2, UsersComplete
  <2>4. /\ pending' = [pending EXCEPT ![d] = "none"] /\ packets' = Append(packets, <<d, n>>)
        /\ UNCHANGED <<workload, connection, sentIn, context, clientList, accepted, packet, workerPc,
                       echoed>>
    BY <2>1 DEF Server!Complete
  <2>5. /\ packets' \in Seq((Client \cup {NoClient}) \X Nat)
        /\ pending' \in [Client -> {"none", "WSARecv", "WSASend"}]
    BY <1>t, <2>2, <2>4 DEF PortTypes
  <2>6. /\ receivedFrom' \in [Client -> Nat] /\ receivedFrom'[d] = receivedFrom[d] + n
        /\ \A c \in Client : c # d => receivedFrom'[c] = receivedFrom[c]
    BY <1>t, <2>1, <2>2 DEF ClientTypes
  <2>7. \A c \in Client : receivedFrom'[c] <= sentIn[c]
    BY <1>t, <2>1, <2>2, <2>6 DEF ClientTypes
  <2>8. ServerTypes'
    <3>1. ClientTypes'
      BY <1>t, <2>4, <2>6, <2>7 DEF ClientTypes
    <3>2. PortTypes'
      BY <1>t, <2>4, <2>5 DEF PortTypes
    <3> QED
      BY <1>t, <2>4, <3>1, <3>2 DEF ServerTypes
  <2> QED
    BY <2>3, <2>8, <1>i DEF ServerInv
<1>4. ASSUME NEW d \in Client, Server!SendCompletes(d)
      PROVE  ServerInv'
  <2>1. PICK n \in 0 .. context[d].len :
          /\ Server!Complete(d, "WSASend", n) /\ UNCHANGED receivedFrom
          /\ echoed' = [echoed EXCEPT ![d] = @ \o [i \in 1 .. n |-> Server!BufferByte(d, i)]]
    BY <1>4 DEF Server!SendCompletes
  <2>2. n \in Nat
    BY <1>t, <2>1 DEF Contexts
  <2>3. UserInv' /\ ListInv'
    BY <2>1, <2>2, UsersComplete
  <2>4. /\ pending' = [pending EXCEPT ![d] = "none"] /\ packets' = Append(packets, <<d, n>>)
        /\ UNCHANGED <<workload, connection, sentIn, context, clientList, accepted, packet, workerPc>>
    BY <2>1 DEF Server!Complete
  <2>5. /\ packets' \in Seq((Client \cup {NoClient}) \X Nat)
        /\ pending' \in [Client -> {"none", "WSARecv", "WSASend"}]
    BY <1>t, <2>2, <2>4 DEF PortTypes
  <2>6. [i \in 1 .. n |-> Server!BufferByte(d, i)] \in Seq(Nat)
    <3>1. ASSUME NEW i \in 1 .. n PROVE Server!BufferByte(d, i) \in Nat
      <4> DEFINE k == context[d].buf + i
      <4>1. /\ context[d].total <= receivedFrom[d] /\ context[d].total \in Nat
            /\ receivedFrom[d] \in Nat /\ k \in Nat
        <5>1. context[d] \in Contexts /\ receivedFrom[d] \in Nat
          BY <1>t DEF ClientTypes
        <5>2. context[d].total \in Nat /\ context[d].buf \in Nat
          BY <5>1 DEF Contexts
        <5>3. context[d].total <= receivedFrom[d]
          BY <1>0 DEF TotalInv
        <5> QED
          BY <2>2, <5>1, <5>2, <5>3
      <4>2. Server!BufferByte(d, i) =
              IF k <= context[d].total THEN receivedFrom[d] - context[d].total + k ELSE 0
        BY DEF Server!BufferByte
      <4> HIDE DEF k
      <4> QED
        BY <4>1, <4>2
    <3> QED
      BY <2>2, <3>1
  <2>7. ServerTypes'
    <3>1. ClientTypes'
      BY <1>t, <2>1, <2>4, <2>6 DEF ClientTypes
    <3>2. PortTypes'
      BY <1>t, <2>4, <2>5 DEF PortTypes
    <3> QED
      BY <1>t, <2>4, <3>1, <3>2 DEF ServerTypes
  <2> QED
    BY <2>3, <2>7, <1>i DEF ServerInv
<1>5. CASE Server!AcceptCheck \/ Server!AcceptTimeout
  <2>1. ServerTypes'
    BY <1>t, <1>5 DEF Server!AcceptCheck, Server!AcceptTimeout, ServerTypes
  <2>2. UNCHANGED <<connection, pending, accepted, packets, packet, workerPc, mainPc, clientList>>
    BY <1>5 DEF Server!AcceptCheck, Server!AcceptTimeout
  <2> QED
    BY <1>0, <2>1, <2>2, UsersStay, <1>i DEF ServerInv
<1>6. ASSUME NEW d \in Client, Server!AcceptConnection(d)
      PROVE  ServerInv'
  <2>1. ServerTypes'
    <3>1. ClientTypes'
      BY <1>t, <1>6 DEF Server!AcceptConnection, ClientTypes
    <3>2. PortTypes'
      BY <1>t, <1>6 DEF Server!AcceptConnection, PortTypes
    <3> QED
      BY <1>t, <1>6, <3>1, <3>2 DEF Server!AcceptConnection, ServerTypes
  <2> QED
    BY <1>6, <2>1, UsersAccept, <1>i DEF ServerInv
<1>7. CASE Server!PostInitialRecv
  <2>1. ServerTypes'
    <3>1. PortTypes'
      BY <1>t, <1>7 DEF Server!PostInitialRecv, PortTypes
    <3>2. context' \in [Client -> Contexts]
      BY <1>t, <1>7 DEF Server!PostInitialRecv, Contexts
    <3> QED
      BY <1>t, <1>7, <3>1, <3>2 DEF Server!PostInitialRecv, ServerTypes
  <2> QED
    BY <1>7, <2>1, UsersPostFirst, <1>i DEF ServerInv
<1>8. CASE Server!AssociateFails
  <2>1. clientList' \in Seq(Client)
    BY <1>t, <1>8, OthersStay DEF Server!AssociateFails, PortTypes
  <2>2. ServerTypes'
    <3>1. ClientTypes'
      BY <1>t, <1>8 DEF Server!AssociateFails, ClientTypes
    <3>2. PortTypes'
      BY <1>t, <1>8, <2>1 DEF Server!AssociateFails, PortTypes
    <3> QED
      BY <1>t, <1>8, <3>1, <3>2 DEF Server!AssociateFails, ServerTypes
  <2> QED
    BY <1>8, <2>2, UsersGiveUp, <1>i DEF ServerInv
<1>9. ASSUME NEW u \in Worker, Server!WorkerCheck(u)
      PROVE  ServerInv'
  <2>1. ServerTypes'
    <3>1. WorkerTypes'
      BY <1>t, <1>9 DEF Server!WorkerCheck, WorkerTypes
    <3> QED
      BY <1>t, <1>9, <3>1 DEF Server!WorkerCheck, ServerTypes
  <2> QED
    BY <1>9, <2>1, UsersCheck, <1>i DEF ServerInv
<1>10. ASSUME NEW u \in Worker, Server!GetQueuedCompletionStatus(u)
       PROVE  ServerInv'
  <2>1. /\ packets # <<>> /\ packets' = Tail(packets)
        /\ packet' = [packet EXCEPT ![u] = Head(packets)]
        /\ workerPc' = [workerPc EXCEPT ![u] = Server!AfterPacket(Head(packets))]
        /\ UNCHANGED <<workload, connection, sentIn, echoed, receivedFrom, context, pending, clientList,
                       accepted>>
    BY <1>10 DEF Server!GetQueuedCompletionStatus
  <2>2. /\ packets' \in Seq((Client \cup {NoClient}) \X Nat)
        /\ Head(packets) \in (Client \cup {NoClient}) \X Nat
    BY <1>t, <2>1 DEF PortTypes
  <2>3. Server!AfterPacket(Head(packets)) \in {"ended", "remove", "handle"}
    BY DEF Server!AfterPacket
  <2>4. ServerTypes'
    <3>1. PortTypes'
      BY <1>t, <2>1, <2>2 DEF PortTypes
    <3>2. WorkerTypes'
      BY <1>t, <2>1, <2>2, <2>3 DEF WorkerTypes
    <3> QED
      BY <1>t, <2>1, <3>1, <3>2 DEF ServerTypes
  <2> QED
    BY <1>10, <2>4, UsersTake, <1>i DEF ServerInv
<1>p. ASSUME NEW u \in Worker, workerPc[u] = "handle", NEW operation \in {"WSARecv", "WSASend"},
             NEW ctx, Server!Post(u, operation, ctx),
             packet[u][1] \in Client => ctx \in Contexts
      PROVE  ServerInv'
  <2>1. context' \in [Client -> Contexts]
    BY <1>t, <1>p DEF Server!Post
  <2>2. PortTypes'
    BY <1>t, <1>p DEF Server!Post, PortTypes
  <2>3. WorkerTypes'
    <3>1. \/ /\ workerPc' = [workerPc EXCEPT ![u] = "check"]
             /\ packet' = [packet EXCEPT ![u] = <<NoClient, 0>>]
          \/ workerPc' = [workerPc EXCEPT ![u] = "remove"] /\ UNCHANGED packet
      BY <1>p DEF Server!Post
    <3> QED
      BY <1>t, <3>1 DEF WorkerTypes
  <2>4. UNCHANGED <<workload, connection, sentIn, echoed, receivedFrom>>
    BY <1>p DEF Server!Post
  <2>5. ServerTypes'
    BY <1>t, <2>1, <2>2, <2>3, <2>4 DEF ServerTypes
  <2> QED
    BY <1>p, <2>5, UsersPost, <1>i DEF ServerInv
<1>11. ASSUME NEW u \in Worker, Server!EchoReceived(u)
       PROVE  ServerInv'
  <2> DEFINE c == packet[u][1]
             ctx == [op |-> "OP_READ", total |-> packet[u][2], sent |-> 0,
                     buf |-> context[c].buf, len |-> packet[u][2]]
  <2>1. workerPc[u] = "handle" /\ Server!Post(u, "WSASend", ctx)
    BY <1>11 DEF Server!EchoReceived
  <2>2. c \in Client => ctx \in Contexts
    <3>1. packet[u][2] \in Nat
      BY <1>t DEF WorkerTypes
    <3>2. c \in Client => context[c] \in Contexts
      BY <1>t
    <3> HIDE DEF c
    <3> QED
      BY <3>1, <3>2 DEF Contexts
  <2> QED
    BY <1>p, <2>1, <2>2
<1>12. ASSUME NEW u \in Worker, Server!SendRest(u)
       PROVE  ServerInv'
  <2> DEFINE c == packet[u][1]
             sent == context[c].sent + packet[u][2]
             ctx == [context[c] EXCEPT !.sent = sent, !.buf = @ + sent,
                                       !.len = context[c].total - sent]
  <2>1. workerPc[u] = "handle" /\ sent < context[c].total /\ Server!Post(u, "WSASend", ctx)
    BY <1>12 DEF Server!SendRest
  <2>2. c \in Client => ctx \in Contexts
    <3> SUFFICES ASSUME c \in Client PROVE ctx \in Contexts
      OBVIOUS
    <3>1. context[c] \in Contexts /\ packet[u][2] \in Nat
      BY <1>t DEF WorkerTypes
    <3>2. sent \in Nat /\ context[c].total - sent \in Nat /\ context[c].buf + sent \in Nat
      BY <2>1, <3>1 DEF Contexts
    <3> HIDE DEF c, sent
    <3> QED
      BY <3>1, <3>2, ContextResends
  <2> QED
    BY <1>p, <2>1, <2>2
<1>13. ASSUME NEW u \in Worker, Server!ReceiveNext(u)
       PROVE  ServerInv'
  <2> DEFINE c == packet[u][1]
             sent == context[c].sent + packet[u][2]
             ctx == [context[c] EXCEPT !.op = "OP_WRITE", !.sent = sent, !.buf = 0,
                                       !.len = MAX_BUFFER_LEN]
  <2>1. workerPc[u] = "handle" /\ Server!Post(u, "WSARecv", ctx)
    BY <1>13 DEF Server!ReceiveNext
  <2>2. c \in Client => ctx \in Contexts
    <3>1. packet[u][2] \in Nat
      BY <1>t DEF WorkerTypes
    <3>2. c \in Client => context[c] \in Contexts
      BY <1>t
    <3>3. c \in Client => sent \in Nat
      BY <3>1, <3>2 DEF Contexts
    <3> HIDE DEF c, sent
    <3> QED
      BY <3>2, <3>3, ContextReceives
  <2> QED
    BY <1>p, <2>1, <2>2
<1>14. ASSUME NEW u \in Worker, Server!RemoveClient(u)
       PROVE  ServerInv'
  <2>1. clientList' \in Seq(Client)
    BY <1>t, <1>14, OthersStay DEF Server!RemoveClient, PortTypes
  <2>2. ServerTypes'
    <3>1. ClientTypes'
      BY <1>t, <1>14 DEF Server!RemoveClient, ClientTypes
    <3>2. PortTypes'
      BY <1>t, <1>14, <2>1 DEF Server!RemoveClient, PortTypes
    <3>3. WorkerTypes'
      BY <1>t, <1>14 DEF Server!RemoveClient, WorkerTypes
    <3>4. context' \in [Client -> Contexts]
      BY <1>t, <1>14 DEF Server!RemoveClient
    <3> QED
      BY <3>1, <3>2, <3>3, <3>4 DEF ServerTypes
  <2> QED
    BY <1>14, <2>2, UsersRemove, <1>i DEF ServerInv
<1>15. CASE Server!WakeWorkers
  <2>1. packets' \in Seq((Client \cup {NoClient}) \X Nat) /\ UserInv' /\ ListInv'
    BY <1>15, UsersWake
  <2>2. UNCHANGED <<workload, connection, sentIn, echoed, receivedFrom, context, pending, clientList,
                    accepted, packet, workerPc>>
    BY <1>15 DEF Server!WakeWorkers
  <2>3. ServerTypes'
    BY <1>t, <2>1, <2>2 DEF ServerTypes, PortTypes
  <2> QED
    BY <2>1, <2>3, <1>i DEF ServerInv
<1>16. CASE Server!Shutdown \/ Server!WorkersEnded \/ Server!ListCleaned
  <2>1. ServerTypes'
    BY <1>t, <1>16 DEF Server!Shutdown, Server!WorkersEnded, Server!ListCleaned, ServerTypes
  <2>2. /\ UNCHANGED <<connection, pending, accepted, packets, packet, workerPc, clientList>>
        /\ mainPc' \notin {"clean", "done"} => mainPc \notin {"clean", "done"}
    BY <1>16 DEF Server!Shutdown, Server!WorkersEnded, Server!ListCleaned
  <2> QED
    BY <1>0, <2>1, <2>2, UsersStay, <1>i DEF ServerInv
<1>17. CASE Server!CleanClient
  <2>1. clientList' \in Seq(Client)
    BY <1>t, <1>17 DEF Server!CleanClient, PortTypes
  <2>2. ServerTypes'
    <3>1. ClientTypes'
      BY <1>t, <1>17 DEF Server!CleanClient, ClientTypes
    <3>2. PortTypes'
      BY <1>t, <1>17, <2>1 DEF Server!CleanClient, PortTypes
    <3> QED
      BY <1>t, <1>17, <3>1, <3>2 DEF Server!CleanClient, ServerTypes
  <2>3. \A c \in Client : connection[c] \notin {"none", "backlog"} =>
                            connection'[c] \notin {"none", "backlog"}
    BY <1>t, <1>17 DEF ClientTypes, Server!CleanClient
  <2>4. mainPc' = "clean" /\ UNCHANGED <<pending, accepted, packets, packet, workerPc>>
    BY <1>17 DEF Server!CleanClient
  <2> QED
    BY <1>0, <2>2, <2>3, <2>4, UsersStay, <1>i DEF ServerInv
<1> QED
  BY <1>1, <1>2, <1>3, <1>4, <1>5, <1>6, <1>7, <1>8, <1>9, <1>10, <1>11, <1>12, <1>13, <1>14,
     <1>15, <1>16, <1>17
     DEF Server!Next, Server!Network, Server!AcceptStep, Server!MainStep, Server!WorkerStep

LEMMA UsersCount == ServerInv => Server!OneOperation
<1> SUFFICES ASSUME ServerInv, NEW c \in Client
             PROVE  /\ Server!Users(c) <= 1
                    /\ Server!Users(c) = 1 /\ mainPc \notin {"clean", "done"} =>
                         c \in Server!ToSet(clientList)
  BY DEF Server!OneOperation
<1>0. UserInv /\ ListInv
  BY DEF ServerInv
<1> DEFINE Q == {i \in DOMAIN packets : packets[i][1] = c}
           W == {w \in Worker : workerPc[w] \in {"handle", "remove"} /\ packet[w][1] = c}
           p == IF pending[c] # "none" \/ accepted = c THEN 1 ELSE 0
<1>1. /\ \A x, y \in W : x = y
      /\ \A x, y \in Q : x = y
  BY <1>0 DEF UserInv, WorksOn, Queued
<1>2. /\ W # {} => Q = {} /\ p = 0
      /\ Q # {} => p = 0
  BY <1>0 DEF UserInv, WorksOn, Queued, Operates
<1>3. W # {} \/ Q # {} \/ p = 1 => Used(c)
  BY DEF Used, WorksOn, Queued, Operates
<1>4. Server!Users(c) = p + Server!Cardinality(Q) + Server!Cardinality(W)
  BY Zenon DEF Server!Users
<1>5. p \in {0, 1}
  OBVIOUS
<1> HIDE DEF W, Q, p
<1>6. /\ Server!Cardinality(W) = IF W = {} THEN 0 ELSE 1
      /\ Server!Cardinality(Q) = IF Q = {} THEN 0 ELSE 1
  BY <1>1, AtMostOne, ServerCardinality
<1>7. Server!Users(c) <= 1
  BY <1>2, <1>4, <1>5, <1>6
<1>8. Server!Users(c) = 1 => Used(c)
  BY <1>3, <1>4, <1>5, <1>6
<1> QED
  BY <1>0, <1>7, <1>8 DEF ListInv

(* The echo server of IOCP/ServerIOCP, with any number of clients, workers *)
(* and failures: the context of a client is with one operation, one        *)
(* completion or one thread, and nobody still uses one that was freed.     *)
THEOREM AlwaysOneOperation ==
  /\ Server!Spec => []Server!OneOperation
  /\ PartSpec => []OneOperation
<1>1. ServerInv => OneOperation
  BY UsersCount DEF OneOperation
<1>2. PartInit => ServerInv
  BY ServerStart DEF PartInit
<1>3. ServerInv /\ [PartNext]_partVars => ServerInv'
  BY ServerStep, ServerSteps
<1> QED
  BY <1>1, <1>2, <1>3, ServerStart, ServerStep, UsersCount, PTL DEF PartSpec, Server!Spec

\* A completion of n bytes: of a receive, which are still to be sent back, or
\* of a send, by which the context has still to move on.
Completed(c, n) ==
  IF context[c].op = "OP_WRITE"
  THEN Len(echoed[c]) + n = receivedFrom[c] /\ context[c].buf = 0
  ELSE /\ Len(echoed[c]) + context[c].total = receivedFrom[c] + context[c].sent + n
       /\ context[c].sent + n <= context[c].total
       /\ c \notin split => context[c].buf = context[c].sent

\* What was sent back to a client is what was received from it, but for what
\* its operation, its completion or its worker has still to deal with.
Fresh(c) == connection[c] \in {"none", "backlog"} \/ accepted = c
SentBackInv(c) ==
  /\ Len(echoed[c]) <= receivedFrom[c] /\ (c \notin split => Server!InOrder(c))
  /\ Fresh(c) => Len(echoed[c]) = receivedFrom[c] /\ context[c].buf = 0
  /\ pending[c] = "WSARecv" => context[c].op = "OP_WRITE" /\ Completed(c, 0)
  /\ pending[c] = "WSASend" => /\ context[c].op = "OP_READ" /\ Completed(c, 0)
                               /\ context[c].len = context[c].total - context[c].sent
  /\ \A i \in DOMAIN packets : Queued(i, c) => Completed(c, packets[i][2])
  /\ \A w \in Worker : workerPc[w] = "handle" /\ packet[w][1] = c => Completed(c, packet[w][2])

ReturnInv ==
  ServerInv /\ split \subseteq Client \cup {NoClient} /\ \A c \in Client : SentBackInv(c)

LEMMA ReturnStart == Server!Init => ReturnInv
<1> SUFFICES ASSUME Server!Init PROVE ReturnInv
  OBVIOUS
<1>1. \A c \in Client : SentBackInv(c)
  BY DEF Server!Init, Server!NewContext, Server!ShutdownPacket, SentBackInv, Completed, Queued,
         Server!InOrder
<1> QED
  BY <1>1, ServerStart DEF ReturnInv, Server!Init

\* A step that leaves a client's bytes and context alone, whoever deals with
\* its completion.
LEMMA BytesStay ==
  ASSUME NEW c \in Client, SentBackInv(c),
         echoed'[c] = echoed[c], receivedFrom'[c] = receivedFrom[c], context'[c] = context[c],
         pending'[c] = pending[c], c \in split' <=> c \in split, Fresh(c)' => Fresh(c),
         \A i \in DOMAIN packets' : packets'[i][1] = c =>
           \E j \in DOMAIN packets : packets[j] = packets'[i],
         \A w \in Worker : workerPc'[w] = "handle" /\ packet'[w][1] = c =>
           \/ workerPc[w] = "handle" /\ packet'[w] = packet[w]
           \/ \E j \in DOMAIN packets : packets[j] = packet'[w]
  PROVE  SentBackInv(c)'
<1>1. \A n : Completed(c, n)' <=> Completed(c, n)
  BY DEF Completed
<1>2. Completed(c, 0)' <=> Completed(c, 0)
  BY DEF Completed
<1>3. ASSUME NEW i \in DOMAIN packets', Queued(i, c)' PROVE Completed(c, packets[i][2])'
  <2>1. PICK j \in DOMAIN packets : packets[j] = packets'[i]
    BY <1>3 DEF Queued
  <2>2. Completed(c, packets[j][2])
    BY <1>3, <2>1 DEF Queued, SentBackInv
  <2> QED
    BY <2>1, <2>2 DEF Completed
<1>4. ASSUME NEW w \in Worker, workerPc'[w] = "handle", packet'[w][1] = c
      PROVE  Completed(c, packet[w][2])'
  <2>1. CASE workerPc[w] = "handle" /\ packet'[w] = packet[w]
    <3>1. Completed(c, packet[w][2])
      BY <1>4, <2>1 DEF SentBackInv
    <3> QED
      BY <2>1, <3>1 DEF Completed
  <2>2. ASSUME NEW j \in DOMAIN packets, packets[j] = packet'[w]
        PROVE  Completed(c, packet[w][2])'
    <3>1. Completed(c, packets[j][2])
      BY <1>4, <2>2 DEF Queued, SentBackInv
    <3> QED
      BY <2>2, <3>1 DEF Completed
  <2> QED
    BY <1>4, <2>1, <2>2
<1>5. /\ Len(echoed'[c]) <= receivedFrom'[c] /\ (c \notin split' => Server!InOrder(c)')
      /\ Fresh(c)' => Len(echoed'[c]) = receivedFrom'[c] /\ context'[c].buf = 0
  BY DEF SentBackInv, Server!InOrder
<1> QED
  BY <1>2, <1>3, <1>4, <1>5 DEF SentBackInv

\* The client whose completion a worker deals with is in nobody else's hand.
LEMMA BytesPosted ==
  ASSUME ReturnInv, NEW u \in Worker, workerPc[u] = "handle",
         NEW d \in Client, packet[u][1] = d,
         NEW operation \in {"WSARecv", "WSASend"}, NEW ctx, Server!Post(u, operation, ctx),
         split \subseteq split',
         operation = "WSARecv" =>
           /\ ctx.op = "OP_WRITE" /\ ctx.buf = 0
           /\ Len(echoed[d]) = receivedFrom[d],
         operation = "WSASend" =>
           /\ ctx.op = "OP_READ" /\ ctx.sent <= ctx.total /\ ctx.len = ctx.total - ctx.sent
           /\ Len(echoed[d]) + ctx.total = receivedFrom[d] + ctx.sent
           /\ d \notin split' => ctx.buf = ctx.sent,
         ctx \in Contexts
  PROVE  SentBackInv(d)'
<1>1. SentBackInv(d) /\ ServerTypes /\ UserInv /\ ListInv
  BY DEF ReturnInv, ServerInv
<1>2. /\ receivedFrom \in [Client -> Nat] /\ echoed \in [Client -> Seq(Nat)]
      /\ context \in [Client -> Contexts]
      /\ pending \in [Client -> {"none", "WSARecv", "WSASend"}]
      /\ packet \in [Worker -> (Client \cup {NoClient}) \X Nat]
      /\ workerPc \in [Worker -> {"check", "wait", "handle", "remove", "ended"}]
  BY <1>1 DEF ServerTypes, ClientTypes, PortTypes, WorkerTypes
<1>3. WorksOn(u, d)
  BY DEF WorksOn
<1>4. /\ pending[d] = "none" /\ accepted # d /\ connection[d] \notin {"none", "backlog"}
      /\ \A i \in DOMAIN packets : ~Queued(i, d)
      /\ \A w \in Worker : WorksOn(w, d) => w = u
  BY <1>1, <1>3 DEF UserInv, ListInv, Used, Operates
<1>5. /\ context' = [context EXCEPT ![d] = ctx]
      /\ UNCHANGED <<connection, echoed, receivedFrom, packets, accepted>>
      /\ \/ /\ workerPc' = [workerPc EXCEPT ![u] = "check"]
            /\ pending' = [pending EXCEPT ![d] = operation]
            /\ packet' = [packet EXCEPT ![u] = <<NoClient, 0>>]
         \/ workerPc' = [workerPc EXCEPT ![u] = "remove"] /\ UNCHANGED <<pending, packet>>
  BY DEF Server!Post, Server!WorkerGoto, Server!ShutdownPacket, Server!clients
<1>6. /\ context'[d] = ctx /\ (pending'[d] = operation \/ pending'[d] = "none")
      /\ \A w \in Worker : workerPc'[w] = "handle" =>
           w # u /\ workerPc[w] = "handle" /\ packet'[w] = packet[w]
  BY <1>1, <1>2, <1>4, <1>5
<1>7. ASSUME NEW w \in Worker, workerPc'[w] = "handle", packet'[w][1] = d PROVE FALSE
  BY <1>4, <1>6, <1>7 DEF WorksOn
<1>8. /\ Len(echoed'[d]) <= receivedFrom'[d] /\ (d \notin split' => Server!InOrder(d)')
      /\ ~Fresh(d)' /\ \A i \in DOMAIN packets' : ~Queued(i, d)'
  BY <1>1, <1>4, <1>5 DEF SentBackInv, Server!InOrder, Fresh, Queued
<1>9. Len(echoed[d]) \in Nat /\ receivedFrom[d] \in Nat
  BY <1>1, <1>2
<1>10. ctx.total \in Nat /\ ctx.sent \in Nat /\ ctx.buf \in Nat
  BY DEF Contexts
<1>11. ASSUME pending'[d] = "WSARecv"
       PROVE  context'[d].op = "OP_WRITE" /\ Completed(d, 0)'
  BY <1>5, <1>6, <1>9, <1>11 DEF Completed
<1>12. ASSUME pending'[d] = "WSASend"
       PROVE  /\ context'[d].op = "OP_READ" /\ Completed(d, 0)'
              /\ context'[d].len = context'[d].total - context'[d].sent
  BY <1>5, <1>6, <1>9, <1>10, <1>12 DEF Completed
<1> QED
  BY <1>7, <1>8, <1>11, <1>12 DEF SentBackInv

\* A step that touches neither bytes nor contexts nor completions.
LEMMA BytesQuiet ==
  ASSUME ReturnInv,
         UNCHANGED <<echoed, receivedFrom, context, pending, packets, packet, split>>,
         \A w \in Worker : workerPc'[w] = "handle" => workerPc[w] = "handle",
         \A c \in Client : Fresh(c)' => Fresh(c)
  PROVE  \A c \in Client : SentBackInv(c)'
<1> TAKE c \in Client
<1>1. SentBackInv(c)
  BY DEF ReturnInv
<1> QED
  BY <1>1, BytesStay

\* Client d's operation completes with n bytes.
LEMMA BytesComplete ==
  ASSUME ReturnInv, NEW d \in Client, NEW operation \in {"WSARecv", "WSASend"}, NEW n \in Nat,
         Server!Complete(d, operation, n),
         \A c \in Client : c # d => echoed'[c] = echoed[c] /\ receivedFrom'[c] = receivedFrom[c],
         Completed(d, n)', Len(echoed'[d]) <= receivedFrom'[d],
         d \notin split => Server!InOrder(d)'
  PROVE  \A c \in Client : SentBackInv(c)'
<1>0. ServerInv /\ ServerTypes /\ UserInv /\ ListInv
  BY DEF ReturnInv, ServerInv
<1>1. /\ pending[d] = operation /\ pending' = [pending EXCEPT ![d] = "none"]
      /\ packets' = Append(packets, <<d, n>>)
      /\ UNCHANGED <<connection, context, accepted, packet, workerPc, split>>
  BY DEF Server!Complete, Server!pcs, Server!history
<1>2. /\ packets \in Seq((Client \cup {NoClient}) \X Nat)
      /\ pending \in [Client -> {"none", "WSARecv", "WSASend"}]
  BY <1>0 DEF ServerTypes, PortTypes
<1>3. \A i \in DOMAIN packets' : \/ i \in DOMAIN packets /\ packets'[i] = packets[i]
                                 \/ packets'[i] = <<d, n>>
  BY <1>1, <1>2
<1>4. /\ Operates(d) /\ accepted # d /\ connection[d] \notin {"none", "backlog"}
      /\ \A w \in Worker : ~WorksOn(w, d)
      /\ \A i \in DOMAIN packets : ~Queued(i, d)
  BY <1>0, <1>1 DEF UserInv, ListInv, Operates, Used
<1>5. ASSUME NEW c \in Client, c # d PROVE SentBackInv(c)'
  <2>1. SentBackInv(c)
    BY DEF ReturnInv
  <2>2. pending'[c] = pending[c] /\ context'[c] = context[c] /\ (Fresh(c)' => Fresh(c))
    BY <1>1, <1>2, <1>5 DEF Fresh
  <2>3. ASSUME NEW i \in DOMAIN packets', packets'[i][1] = c
        PROVE  \E j \in DOMAIN packets : packets[j] = packets'[i]
    BY <1>3, <1>5, <2>3
  <2>4. \A w \in Worker : workerPc'[w] = "handle" => workerPc[w] = "handle" /\ packet'[w] = packet[w]
    BY <1>1
  <2> QED
    BY <1>1, <1>5, <2>1, <2>2, <2>3, <2>4, BytesStay
<1>6. SentBackInv(d)'
  <2>1. ~Fresh(d)' /\ pending'[d] = "none" /\ (d \notin split' <=> d \notin split)
    BY <1>1, <1>2, <1>4 DEF Fresh
  <2>2. ASSUME NEW i \in DOMAIN packets', Queued(i, d)' PROVE Completed(d, packets[i][2])'
    <3>1. CASE i \in DOMAIN packets /\ packets'[i] = packets[i]
      BY <1>4, <2>2, <3>1 DEF Queued
    <3>2. CASE packets'[i] = <<d, n>>
      BY <3>2 DEF Completed
    <3> QED
      BY <1>3, <3>1, <3>2
  <2>3. \A w \in Worker : ~(workerPc'[w] = "handle" /\ packet'[w][1] = d)
    BY <1>1, <1>4 DEF WorksOn
  <2> QED
    BY <2>1, <2>2, <2>3 DEF SentBackInv
<1> QED
  BY <1>5, <1>6

LEMMA ReturnStep == ReturnInv /\ [Server!Next]_(Server!serverVars) => ReturnInv'
<1> SUFFICES ASSUME ReturnInv, [Server!Next]_(Server!serverVars) PROVE ReturnInv'
  OBVIOUS
<1> USE ServerConstants DEF Server!clients, Server!port, Server!pcs, Server!history
<1>0. /\ ServerInv /\ ServerTypes /\ UserInv /\ ListInv
      /\ split \subseteq Client \cup {NoClient} /\ \A c \in Client : SentBackInv(c)
  BY DEF ReturnInv, ServerInv
<1>i. ServerInv'
  BY <1>0, ServerStep
<1>t. /\ connection \in [Client -> {"none", "backlog", "open", "closed"}]
      /\ receivedFrom \in [Client -> Nat] /\ echoed \in [Client -> Seq(Nat)]
      /\ context \in [Client -> Contexts]
      /\ pending \in [Client -> {"none", "WSARecv", "WSASend"}]
      /\ packets \in Seq((Client \cup {NoClient}) \X Nat)
      /\ packet \in [Worker -> (Client \cup {NoClient}) \X Nat]
      /\ workerPc \in [Worker -> {"check", "wait", "handle", "remove", "ended"}]
  BY <1>0 DEF ServerTypes, ClientTypes, PortTypes, WorkerTypes
<1>g. ASSUME UNCHANGED split, \A c \in Client : SentBackInv(c)' PROVE ReturnInv'
  BY <1>0, <1>i, <1>g DEF ReturnInv
<1>1. CASE UNCHANGED Server!serverVars
  <2>1. /\ UNCHANGED <<echoed, receivedFrom, context, pending, packets, packet, split>>
        /\ UNCHANGED <<workerPc, connection, accepted>>
    BY <1>1 DEF Server!serverVars
  <2>2. \A c \in Client : Fresh(c)' => Fresh(c)
    BY <2>1 DEF Fresh
  <2> QED
    BY <2>1, <2>2, BytesQuiet, <1>g
<1>2. ASSUME NEW d \in Client, Server!Connect(d) \/ Server!Send(d) \/ Server!Disconnect(d)
      PROVE  ReturnInv'
  <2>1. /\ UNCHANGED <<echoed, receivedFrom, context, pending, packets, packet, split>>
        /\ UNCHANGED <<workerPc, accepted>>
    BY <1>2 DEF Server!Connect, Server!Send, Server!Disconnect
  <2>2. \A c \in Client : Fresh(c)' => Fresh(c)
    BY <1>2, <1>t, <2>1 DEF Fresh, Server!Connect, Server!Send, Server!Disconnect
  <2> QED
    BY <2>1, <2>2, BytesQuiet, <1>g
<1>3. ASSUME NEW d \in Client, Server!RecvCompletes(d)
      PROVE  ReturnInv'
  <2>1. PICK n \in 0 .. context[d].len :
          /\ Server!Complete(d, "WSARecv", n) /\ UNCHANGED echoed
          /\ receivedFrom' = [receivedFrom EXCEPT ![d] = @ + n]
    BY <1>3 DEF Server!RecvCompletes
  <2>2. n \in Nat /\ Len(echoed[d]) \in Nat /\ receivedFrom[d] \in Nat
    BY <1>t, <2>1 DEF Contexts
  <2>3. pending[d] = "WSARecv" /\ UNCHANGED <<context, split>>
    BY <2>1 DEF Server!Complete
  <2>4. context[d].op = "OP_WRITE" /\ Len(echoed[d]) + 0 = receivedFrom[d] /\ context[d].buf = 0
    BY <1>0, <2>3 DEF SentBackInv, Completed
  <2>5. /\ receivedFrom'[d] = receivedFrom[d] + n /\ echoed'[d] = echoed[d]
        /\ \A c \in Client : c # d => echoed'[c] = echoed[c] /\ receivedFrom'[c] = receivedFrom[c]
    BY <1>t, <2>1
  <2>6. Completed(d, n)' /\ Len(echoed'[d]) <= receivedFrom'[d]
    BY <2>2, <2>3, <2>4, <2>5 DEF Completed
  <2>7. d \notin split => Server!InOrder(d)'
    BY <1>0, <2>5 DEF SentBackInv, Server!InOrder
  <2>8. \A c \in Client : SentBackInv(c)'
    BY <2>1, <2>2, <2>5, <2>6, <2>7, BytesComplete
  <2> QED
    BY <2>3, <2>8, <1>g
<1>4. ASSUME NEW d \in Client, Server!SendCompletes(d)
      PROVE  ReturnInv'
  <2>1. PICK n \in 0 .. context[d].len :
          /\ Server!Complete(d, "WSASend", n) /\ UNCHANGED receivedFrom
          /\ echoed' = [echoed EXCEPT ![d] = @ \o [i \in 1 .. n |-> Server!BufferByte(d, i)]]
    BY <1>4 DEF Server!SendCompletes
  <2> DEFINE bytes == [i \in 1 .. n |-> Server!BufferByte(d, i)]
             e == echoed[d]
  <2>2. /\ n \in Nat /\ e \in Seq(Nat) /\ Len(e) \in Nat /\ receivedFrom[d] \in Nat
        /\ context[d].total \in Nat /\ context[d].sent \in Nat /\ context[d].len \in Nat
    BY <1>t, <2>1 DEF Contexts
  <2>3. pending[d] = "WSASend" /\ UNCHANGED <<context, split>>
    BY <2>1 DEF Server!Complete
  <2>4. /\ context[d].op = "OP_READ" /\ context[d].len = context[d].total - context[d].sent
        /\ Len(e) + context[d].total = receivedFrom[d] + context[d].sent + 0
        /\ d \notin split => context[d].buf = context[d].sent
    BY <1>0, <2>3 DEF SentBackInv, Completed
  <2>5. /\ echoed'[d] = e \o bytes
        /\ \A c \in Client : c # d => echoed'[c] = echoed[c] /\ receivedFrom'[c] = receivedFrom[c]
    BY <1>t, <2>1
  <2>6. /\ echoed'[d] \in Seq(Nat)
        /\ bytes \in Seq(Nat) /\ Len(bytes) = n
    <3>1. ClientTypes'
      BY <1>i DEF ServerInv, ServerTypes
    <3>2. echoed'[d] \in Seq(Nat)
      BY <3>1 DEF ClientTypes
    <3>3. ASSUME NEW i \in 1 .. n PROVE Server!BufferByte(d, i) \in Nat
      <4>1. context[d].total <= receivedFrom[d]
        BY <1>0 DEF ServerInv, TotalInv
      <4>2. context[d].buf + i \in Nat
        BY <1>t, <2>2 DEF Contexts
      <4> QED
        BY <2>2, <4>1, <4>2 DEF Server!BufferByte
    <3>4. bytes \in Seq(Nat) /\ Len(bytes) = n
      BY <2>2, <3>3
    <3> QED
      BY <3>2, <3>4
  <2>7. ASSUME d \notin split, NEW i \in 1 .. n PROVE bytes[i] = Len(e) + i
    <3>1. context[d].buf = context[d].sent
      BY <2>4, <2>7
    <3>2. context[d].buf + i <= context[d].total
      BY <2>1, <2>2, <2>4, <3>1
    <3>3. bytes[i] = Server!BufferByte(d, i)
      OBVIOUS
    <3>4. bytes[i] = receivedFrom[d] - context[d].total + (context[d].buf + i)
      BY <3>2, <3>3 DEF Server!BufferByte
    <3>5. i \in Nat
      BY <2>2
    <3>6. receivedFrom[d] - context[d].total + (context[d].sent + i) = Len(e) + i
      <4>1. PICK l \in Nat, s \in Nat, r \in Nat, k \in Nat :
              /\ l = Len(e) /\ s = context[d].sent
              /\ r = receivedFrom[d] /\ k = context[d].total
        BY <2>2, Zenon
      <4>2. l + k = r + s + 0
        BY <2>4, <4>1, Zenon
      <4>3. r - k + (s + i) = l + i
        BY <3>5, <4>2
      <4> QED
        BY <4>1, <4>3, Zenon
    <3> QED
      BY <3>1, <3>4, <3>6, Zenon
  <2> HIDE DEF bytes, e
  <2>8. /\ Len(e \o bytes) = Len(e) + n
        /\ \A i \in 1 .. Len(e) : (e \o bytes)[i] = e[i]
        /\ \A i \in 1 .. n : (e \o bytes)[Len(e) + i] = bytes[i]
    <3>1. /\ e \in Seq(Nat) /\ bytes \in Seq(Nat) /\ Len(bytes) = n
      BY <2>2, <2>6
    <3>2. /\ Len(e \o bytes) = Len(e) + Len(bytes)
          /\ \A i \in 1 .. Len(e) : (e \o bytes)[i] = e[i]
          /\ \A i \in 1 .. Len(bytes) : (e \o bytes)[Len(e) + i] = bytes[i]
      BY <3>1
    <3> QED
      BY <3>1, <3>2
  <2>9. Completed(d, n)' /\ Len(echoed'[d]) <= receivedFrom'[d]
    <3>1. receivedFrom'[d] = receivedFrom[d] /\ n <= context[d].total - context[d].sent
      BY <2>1, <2>4
    <3>2. Len(echoed'[d]) + context[d].total = receivedFrom[d] + context[d].sent + n
      BY <2>2, <2>4, <2>5, <2>8
    <3>3. context[d].sent + n <= context[d].total /\ Len(echoed'[d]) <= receivedFrom[d]
      BY <2>2, <2>5, <2>6, <3>1, <3>2
    <3> QED
      BY <2>3, <2>4, <3>1, <3>2, <3>3 DEF Completed
  <2>10. d \notin split => Server!InOrder(d)'
    <3> SUFFICES ASSUME d \notin split, NEW i \in DOMAIN echoed'[d] PROVE echoed'[d][i] = i
      BY DEF Server!InOrder
    <3>1. i \in 1 .. Len(e) + n
      BY <2>5, <2>6, <2>8
    <3>2. CASE i <= Len(e)
      <4>1. i \in 1 .. Len(e) /\ i \in DOMAIN echoed[d]
        BY <2>2, <3>1, <3>2 DEF e
      <4>2. echoed[d][i] = i
        BY <1>0, <4>1 DEF SentBackInv, Server!InOrder
      <4> QED
        BY <2>5, <2>8, <4>1, <4>2 DEF e
    <3>3. CASE i > Len(e)
      <4> DEFINE j == i - Len(e)
      <4>1. j \in 1 .. n /\ i = Len(e) + j
        BY <2>2, <3>1, <3>3
      <4> HIDE DEF j
      <4> QED
        BY <2>5, <2>7, <2>8, <4>1
    <3> QED
      BY <2>2, <3>1, <3>2, <3>3
  <2>11. \A c \in Client : SentBackInv(c)'
    BY <2>1, <2>2, <2>5, <2>9, <2>10, BytesComplete
  <2> QED
    BY <2>3, <2>11, <1>g
<1>5. CASE \/ Server!AcceptCheck \/ Server!AcceptTimeout
           \/ Server!Shutdown \/ Server!WorkersEnded \/ Server!ListCleaned
  <2>1. /\ UNCHANGED <<echoed, receivedFrom, context, pending, packets, packet, split>>
        /\ UNCHANGED <<workerPc, connection, accepted>>
    BY <1>5 DEF Server!AcceptCheck, Server!AcceptTimeout, Server!Shutdown, Server!WorkersEnded,
       Server!ListCleaned, Server!AcceptGoto, Server!MainGoto
  <2>2. \A c \in Client : Fresh(c)' => Fresh(c)
    BY <2>1 DEF Fresh
  <2> QED
    BY <2>1, <2>2, BytesQuiet, <1>g
<1>6. ASSUME NEW d \in Client, Server!AcceptConnection(d)
      PROVE  ReturnInv'
  <2>1. /\ UNCHANGED <<echoed, receivedFrom, context, pending, packets, packet, split, workerPc>>
        /\ accepted' = d /\ connection[d] = "backlog"
        /\ connection' = [connection EXCEPT ![d] = "open"]
    BY <1>6 DEF Server!AcceptConnection, Server!AcceptGoto
  <2>2. \A c \in Client : Fresh(c)' => Fresh(c)
    BY <1>t, <2>1 DEF Fresh
  <2> QED
    BY <2>1, <2>2, BytesQuiet, <1>g
<1>7. CASE Server!PostInitialRecv
  <2>d. PICK d : d = accepted
    OBVIOUS
  <2>1. /\ UNCHANGED <<connection, echoed, receivedFrom, packets, packet, split, workerPc>>
        /\ accepted' = NoClient /\ context' = [context EXCEPT ![d].op = "OP_WRITE"]
        /\ pending' = [pending EXCEPT ![d] = "WSARecv"] \/ UNCHANGED pending
    BY <1>7, <2>d DEF Server!PostInitialRecv, Server!AcceptGoto
  <2>2. ASSUME NEW c \in Client, c # d PROVE SentBackInv(c)'
    <3>1. context'[c] = context[c] /\ pending'[c] = pending[c]
      BY <1>t, <2>1, <2>2
    <3>2. Fresh(c)' => Fresh(c)
      BY <2>1 DEF Fresh
    <3> QED
      BY <1>0, <2>1, <3>1, <3>2, BytesStay
  <2>3. ASSUME d \in Client PROVE SentBackInv(d)'
    <3>1. /\ context'[d] = [context[d] EXCEPT !.op = "OP_WRITE"]
          /\ pending'[d] \in {"none", "WSARecv"}
      <4>1. pending[d] = "none"
        BY <1>0, <2>d, <2>3 DEF UserInv
      <4> QED
        BY <1>t, <2>1, <2>3, <4>1
    <3>2. Fresh(d) /\ Operates(d) /\ SentBackInv(d)
      BY <1>0, <2>d, <2>3 DEF Fresh, Operates
    <3>3. /\ Len(echoed[d]) = receivedFrom[d] /\ Len(echoed[d]) \in Nat
          /\ context[d].buf = 0 /\ context[d] \in Contexts
      BY <1>t, <2>3, <3>2 DEF SentBackInv
    <3>4. context'[d].op = "OP_WRITE" /\ context'[d].buf = 0
      BY <3>1, <3>3 DEF Contexts
    <3>5. Completed(d, 0)'
      BY <2>1, <3>3, <3>4 DEF Completed
    <3>6. /\ \A i \in DOMAIN packets' : ~Queued(i, d)'
          /\ \A w \in Worker : ~WorksOn(w, d)'
      BY <1>0, <2>1, <2>3, <3>2 DEF UserInv, Queued, WorksOn
    <3>7. /\ Len(echoed'[d]) <= receivedFrom'[d] /\ (d \notin split' => Server!InOrder(d)')
          /\ Len(echoed'[d]) = receivedFrom'[d]
      BY <2>1, <3>2, <3>3 DEF SentBackInv, Server!InOrder
    <3> QED
      BY <3>1, <3>4, <3>5, <3>6, <3>7 DEF SentBackInv, WorksOn
  <2>4. \A c \in Client : SentBackInv(c)'
    BY <2>2, <2>3
  <2> QED
    BY <2>1, <2>4, <1>g
<1>8. CASE Server!AssociateFails
  <2>1. /\ UNCHANGED <<echoed, receivedFrom, context, pending, packets, packet, split, workerPc>>
        /\ accepted' = NoClient /\ connection' = [connection EXCEPT ![accepted] = "closed"]
    BY <1>8 DEF Server!AssociateFails, Server!AcceptGoto
  <2>2. \A c \in Client : Fresh(c)' => Fresh(c)
    BY <1>t, <2>1 DEF Fresh
  <2> QED
    BY <2>1, <2>2, BytesQuiet, <1>g
<1>9. ASSUME NEW u \in Worker, Server!WorkerCheck(u)
      PROVE  ReturnInv'
  <2>1. /\ UNCHANGED <<echoed, receivedFrom, context, pending, packets, packet, split>>
        /\ UNCHANGED <<connection, accepted>>
        /\ \E to \in {"ended", "wait"} : workerPc' = [workerPc EXCEPT ![u] = to]
    BY <1>9 DEF Server!WorkerCheck, Server!WorkerGoto
  <2>2. \A w \in Worker : workerPc'[w] = "handle" => workerPc[w] = "handle"
    BY <1>t, <2>1
  <2>3. \A c \in Client : Fresh(c)' => Fresh(c)
    BY <2>1 DEF Fresh
  <2> QED
    BY <2>1, <2>2, <2>3, BytesQuiet, <1>g
<1>10. ASSUME NEW u \in Worker, Server!GetQueuedCompletionStatus(u)
       PROVE  ReturnInv'
  <2>1. /\ UNCHANGED <<connection, accepted, echoed, receivedFrom, context, pending, split>>
        /\ packets # <<>> /\ packets' = Tail(packets)
        /\ packet' = [packet EXCEPT ![u] = Head(packets)]
        /\ workerPc' = [workerPc EXCEPT ![u] = Server!AfterPacket(Head(packets))]
    BY <1>10 DEF Server!GetQueuedCompletionStatus, Server!WorkerGoto
  <2>2. /\ \A i \in DOMAIN packets' : i + 1 \in DOMAIN packets /\ packets'[i] = packets[i + 1]
        /\ 1 \in DOMAIN packets /\ Head(packets) = packets[1]
    BY <1>t, <2>1
  <2>3. /\ packet'[u] = packets[1]
        /\ \A w \in Worker : w # u => packet'[w] = packet[w] /\ workerPc'[w] = workerPc[w]
    BY <1>t, <2>1, <2>2
  <2>4. ASSUME NEW c \in Client PROVE SentBackInv(c)'
    <3>1. \A i \in DOMAIN packets' : \E j \in DOMAIN packets : packets[j] = packets'[i]
      BY <2>2
    <3>2. ASSUME NEW w \in Worker, workerPc'[w] = "handle"
          PROVE  \/ workerPc[w] = "handle" /\ packet'[w] = packet[w]
                 \/ \E j \in DOMAIN packets : packets[j] = packet'[w]
      BY <2>2, <2>3, <3>2
    <3>3. Fresh(c)' => Fresh(c)
      BY <2>1 DEF Fresh
    <3> QED
      BY <1>0, <2>1, <3>1, <3>2, <3>3, BytesStay
  <2> QED
    BY <2>1, <2>4, <1>g
<1>p. ASSUME NEW u \in Worker, workerPc[u] = "handle", NEW operation, NEW ctx,
             Server!Post(u, operation, ctx), NEW c \in Client, c # packet[u][1],
             c \in split' <=> c \in split
      PROVE  SentBackInv(c)'
  <2> DEFINE d == packet[u][1]
  <2>1. /\ UNCHANGED <<connection, accepted, echoed, receivedFrom, packets>>
        /\ context' = [context EXCEPT ![d] = ctx]
        /\ \/ /\ workerPc' = [workerPc EXCEPT ![u] = "check"]
              /\ pending' = [pending EXCEPT ![d] = operation]
              /\ packet' = [packet EXCEPT ![u] = <<NoClient, 0>>]
           \/ workerPc' = [workerPc EXCEPT ![u] = "remove"] /\ UNCHANGED <<pending, packet>>
    BY <1>p DEF Server!Post, Server!WorkerGoto, Server!ShutdownPacket
  <2>2. context'[c] = context[c] /\ pending'[c] = pending[c]
    BY <1>t, <1>p, <2>1
  <2>3. \A w \in Worker : workerPc'[w] = "handle" => workerPc[w] = "handle" /\ packet'[w] = packet[w]
    BY <1>t, <2>1
  <2>4. Fresh(c)' => Fresh(c)
    BY <2>1 DEF Fresh
  <2> QED
    BY <1>0, <1>p, <2>1, <2>2, <2>3, <2>4, BytesStay
<1>r. ASSUME NEW u \in Worker, workerPc[u] = "handle", packet[u][1] \in Client
      PROVE  Completed(packet[u][1], packet[u][2]) /\ packet[u][2] \in Nat
  BY <1>0, <1>t, <1>r DEF SentBackInv
<1>11. ASSUME NEW u \in Worker, Server!EchoReceived(u)
       PROVE  ReturnInv'
  <2>c. PICK c, n : c = packet[u][1] /\ n = packet[u][2]
    OBVIOUS
  <2> DEFINE ctx == [op |-> "OP_READ", total |-> n, sent |-> 0, buf |-> context[c].buf, len |-> n]
  <2>1. /\ workerPc[u] = "handle" /\ context[c].op = "OP_WRITE"
        /\ Server!Post(u, "WSASend", ctx) /\ UNCHANGED split
    BY <1>11, <2>c DEF Server!EchoReceived
  <2>2. ASSUME c \in Client PROVE SentBackInv(c)'
    <3>1. /\ Len(echoed[c]) + n = receivedFrom[c] /\ context[c].buf = 0 /\ n \in Nat
      BY <1>r, <2>c, <2>1, <2>2 DEF Completed
    <3>2. /\ ctx.op = "OP_READ" /\ ctx.total = n /\ ctx.sent = 0 /\ ctx.buf = 0 /\ ctx.len = n
          /\ ctx \in Contexts
      BY <3>1 DEF Contexts
    <3>3. receivedFrom[c] \in Nat
      BY <1>t, <2>2
    <3> HIDE DEF ctx
    <3>4. /\ ctx.sent <= ctx.total /\ ctx.len = ctx.total - ctx.sent
          /\ Len(echoed[c]) + ctx.total = receivedFrom[c] + ctx.sent /\ ctx.buf = ctx.sent
      BY <3>1, <3>2, <3>3
    <3> QED
      BY <2>1, <2>2, <3>2, <3>4, <2>c, BytesPosted
  <2> HIDE DEF ctx
  <2>3. \A x \in Client : SentBackInv(x)'
    BY <1>p, <2>c, <2>1, <2>2
  <2> QED
    BY <2>1, <2>3, <1>g
<1>12. ASSUME NEW u \in Worker, Server!SendRest(u)
       PROVE  ReturnInv'
  <2>c. PICK c, n, r : c = packet[u][1] /\ n = packet[u][2] /\ r = context[c]
    OBVIOUS
  <2> DEFINE sent == r.sent + n
             ctx == [r EXCEPT !.sent = sent, !.buf = @ + sent, !.len = r.total - sent]
  <2>1. /\ workerPc[u] = "handle" /\ r.op = "OP_READ" /\ sent < r.total
        /\ Server!Post(u, "WSASend", ctx)
        /\ split' = IF r.sent > 0 THEN split \cup {c} ELSE split
    BY <1>12, <2>c DEF Server!SendRest
  <2>2. c \in Client \cup {NoClient}
    BY <1>t, <2>c
  <2>3. ASSUME c \in Client PROVE SentBackInv(c)'
    <3>1. /\ Len(echoed[c]) + r.total = receivedFrom[c] + r.sent + n
          /\ c \notin split => r.buf = r.sent
          /\ n \in Nat /\ r \in Contexts /\ receivedFrom[c] \in Nat /\ Len(echoed[c]) \in Nat
      BY <1>r, <1>t, <2>c, <2>1, <2>3 DEF Completed
    <3>2. /\ r.sent \in Nat /\ r.total \in Nat /\ r.buf \in Nat /\ sent \in Nat
          /\ r.buf + sent \in Nat /\ r.total - sent \in Nat
      BY <2>1, <3>1 DEF Contexts
    <3>3. /\ ctx.op = "OP_READ" /\ ctx.total = r.total /\ ctx.sent = sent
          /\ ctx.buf = r.buf + sent /\ ctx.len = r.total - sent
      BY <2>1, <3>1 DEF Contexts
    <3>4. ctx \in Contexts
      BY <3>1, <3>2, ContextResends
    <3>5. c \notin split' => ctx.buf = ctx.sent
      <4> SUFFICES ASSUME c \notin split' PROVE ctx.buf = ctx.sent
        OBVIOUS
      <4>1. ~(r.sent > 0) /\ c \notin split
        BY <2>1
      <4>2. r.sent = 0 /\ r.buf = 0
        BY <3>1, <3>2, <4>1
      <4> HIDE DEF ctx, sent
      <4> QED
        BY <3>2, <3>3, <4>2
    <3>6. sent = r.sent + n
      OBVIOUS
    <3>7. split \subseteq split'
      BY <2>1
    <3> HIDE DEF ctx, sent
    <3>8. /\ ctx.sent <= ctx.total /\ ctx.len = ctx.total - ctx.sent
          /\ Len(echoed[c]) + ctx.total = receivedFrom[c] + ctx.sent
      BY <2>1, <3>1, <3>2, <3>3, <3>6
    <3> QED
      BY <2>1, <2>3, <3>3, <3>4, <3>5, <3>7, <3>8, <2>c, BytesPosted
  <2> HIDE DEF ctx
  <2>4. ASSUME NEW x \in Client, x # c PROVE SentBackInv(x)'
    <3>1. x \in split' <=> x \in split
      BY <2>1, <2>4
    <3> QED
      BY <1>p, <2>c, <2>1, <2>4, <3>1
  <2>5. \A x \in Client : SentBackInv(x)'
    BY <2>3, <2>4
  <2>6. split' \subseteq Client \cup {NoClient}
    BY <1>0, <2>1, <2>2
  <2> QED
    BY <2>5, <2>6, <1>i DEF ReturnInv
<1>13. ASSUME NEW u \in Worker, Server!ReceiveNext(u)
       PROVE  ReturnInv'
  <2>c. PICK c, n, r : c = packet[u][1] /\ n = packet[u][2] /\ r = context[c]
    OBVIOUS
  <2> DEFINE sent == r.sent + n
             ctx == [r EXCEPT !.op = "OP_WRITE", !.sent = sent, !.buf = 0, !.len = MAX_BUFFER_LEN]
  <2>1. /\ workerPc[u] = "handle" /\ r.op = "OP_READ" /\ sent >= r.total
        /\ Server!Post(u, "WSARecv", ctx) /\ UNCHANGED split
    BY <1>13, <2>c DEF Server!ReceiveNext
  <2>2. ASSUME c \in Client PROVE SentBackInv(c)'
    <3>0. Completed(c, n) /\ n \in Nat /\ context[c].op = "OP_READ"
      BY <1>r, <2>c, <2>1, <2>2
    <3>1. /\ Len(echoed[c]) + r.total = receivedFrom[c] + r.sent + n /\ r.sent + n <= r.total
          /\ n \in Nat /\ r \in Contexts /\ receivedFrom[c] \in Nat /\ Len(echoed[c]) \in Nat
      BY <1>t, <2>c, <2>2, <3>0 DEF Completed
    <3>2. r.sent \in Nat /\ r.total \in Nat /\ sent \in Nat
      BY <3>1 DEF Contexts
    <3>3. ctx.op = "OP_WRITE" /\ ctx.buf = 0
      BY <3>1 DEF Contexts
    <3>4. ctx \in Contexts
      BY <3>1, <3>2, ContextReceives
    <3>5. Len(echoed[c]) = receivedFrom[c]
      BY <2>1, <3>1, <3>2
    <3> HIDE DEF ctx
    <3> QED
      BY <2>1, <2>2, <3>3, <3>4, <3>5, <2>c, BytesPosted
  <2> HIDE DEF ctx
  <2>3. \A x \in Client : SentBackInv(x)'
    BY <1>p, <2>c, <2>1, <2>2
  <2> QED
    BY <2>1, <2>3, <1>g
<1>14. ASSUME NEW u \in Worker, Server!RemoveClient(u)
       PROVE  ReturnInv'
  <2>d. PICK d : d = packet[u][1]
    OBVIOUS
  <2>1. /\ UNCHANGED <<echoed, receivedFrom, context, pending, packets, split, accepted>>
        /\ workerPc' = [workerPc EXCEPT ![u] = "check"]
        /\ packet' = [packet EXCEPT ![u] = <<NoClient, 0>>]
        /\ connection' = [connection EXCEPT ![d] = "closed"]
    BY <1>14, <2>d DEF Server!RemoveClient, Server!WorkerGoto, Server!ShutdownPacket
  <2>2. \A w \in Worker : workerPc'[w] = "handle" => workerPc[w] = "handle" /\ packet'[w] = packet[w]
    BY <1>t, <2>1
  <2>3. \A c \in Client : Fresh(c)' => Fresh(c)
    BY <1>t, <2>1 DEF Fresh
  <2>4. ASSUME NEW c \in Client PROVE SentBackInv(c)'
    BY <1>0, <2>1, <2>2, <2>3, BytesStay
  <2> QED
    BY <2>1, <2>4, <1>g
<1>15. CASE Server!WakeWorkers
  <2>1. UNCHANGED <<connection, accepted, echoed, receivedFrom, context, pending, split, packet, workerPc>>
    BY <1>15 DEF Server!WakeWorkers, Server!MainGoto
  <2>2. \A c \in Client : \A i \in DOMAIN packets' : Queued(i, c)' =>
          i \in DOMAIN packets /\ Queued(i, c) /\ packets'[i] = packets[i]
    BY <1>0, <1>15, UsersWake
  <2>3. ASSUME NEW c \in Client PROVE SentBackInv(c)'
    <3>1. Fresh(c)' => Fresh(c)
      BY <2>1 DEF Fresh
    <3>2. ASSUME NEW i \in DOMAIN packets', packets'[i][1] = c
          PROVE  \E j \in DOMAIN packets : packets[j] = packets'[i]
      <4>1. Queued(i, c)'
        BY <3>2 DEF Queued
      <4> QED
        BY <2>2, <4>1
    <3> QED
      BY <1>0, <2>1, <3>1, <3>2, BytesStay
  <2> QED
    BY <2>1, <2>3, <1>g
<1>16. CASE Server!CleanClient
  <2>1. /\ UNCHANGED <<echoed, receivedFrom, context, pending, packets, packet, split>>
        /\ UNCHANGED <<accepted, workerPc>>
        /\ connection' = [connection EXCEPT ![Head(clientList)] = "closed"]
    BY <1>16 DEF Server!CleanClient
  <2>2. \A c \in Client : Fresh(c)' => Fresh(c)
    BY <1>t, <2>1 DEF Fresh
  <2> QED
    BY <2>1, <2>2, BytesQuiet, <1>g
<1> QED
  BY <1>1, <1>2, <1>3, <1>4, <1>5, <1>6, <1>7, <1>8, <1>9, <1>10, <1>11, <1>12, <1>13, <1>14,
     <1>15, <1>16
     DEF Server!Next, Server!Network, Server!AcceptStep, Server!MainStep, Server!WorkerStep

(* The echo server gives a client back as many bytes as it received from   *)
(* it, each message before it receives the next, and in order what was     *)
(* sent back in two parts at most: the position at which the second of     *)
(* them begins is right, and only a third one begins too far on.           *)
THEOREM EchoAlwaysAsReceived ==
  /\ Server!Spec => []Server!EchoesShortSends
  /\ PartSpec => []EchoesShortSends
<1>1. ReturnInv => Server!EchoesShortSends /\ EchoesShortSends
  <2> SUFFICES ASSUME ReturnInv PROVE Server!EchoesShortSends
    BY DEF EchoesShortSends
  <2> SUFFICES ASSUME NEW c \in Client
               PROVE  /\ Len(echoed[c]) <= receivedFrom[c]
                      /\ pending[c] = "WSARecv" => Len(echoed[c]) = receivedFrom[c]
                      /\ c \notin split => Server!InOrder(c)
    BY DEF Server!EchoesShortSends
  <2>1. SentBackInv(c) /\ ServerTypes
    BY DEF ReturnInv, ServerInv
  <2>2. Len(echoed[c]) \in Nat
    BY <2>1 DEF ServerTypes, ClientTypes
  <2> QED
    BY <2>1, <2>2 DEF SentBackInv, Completed
<1>2. PartInit => ReturnInv
  BY ReturnStart DEF PartInit
<1>3. ReturnInv /\ [PartNext]_partVars => ReturnInv'
  BY ReturnStep, ServerSteps
<1> QED
  BY <1>1, <1>2, <1>3, ReturnStart, ReturnStep, PTL DEF PartSpec, Server!Spec

-----------------------------------------------------------------------------
(* All programs                                                            *)

LEMMA ServerTypesOK == ServerTypes /\ split \subseteq Client \cup {NoClient} => Server!TypeOK
<1> SUFFICES ASSUME ServerTypes, split \subseteq Client \cup {NoClient} PROVE Server!TypeOK
  OBVIOUS
<1>1. /\ \A c \in Client : receivedFrom[c] \in 0 .. sentIn[c]
      /\ \A c \in DOMAIN workload : sentIn[c] \in 0 .. workload[c]
  BY ServerConstants DEF ServerTypes, ClientTypes
<1> QED
  BY <1>1 DEF ServerTypes, ClientTypes, Contexts, PortTypes, WorkerTypes, Server!TypeOK

(* Whichever program runs, however many threads, clients, works or failures*)
(* it has, every variable keeps to its type: the counter of the lock stays *)
(* in its bounds, the pool's indices and the mutex's depth too, and nobody *)
(* receives more than was sent.                                            *)
THEOREM SuiteTypesOK == PartSpec => []TypesOK
<1> DEFINE Inv == LockInv /\ MrwInv /\ PoolInv /\ SumsInv /\ EchoInv /\ PutInv /\ ReturnInv
<1>0. Mrw!ProcessAssumption
  BY ProgramsAssumption
<1>1. PartInit => Inv
  BY <1>0, LockStart, MrwStart, PoolStart, SumsStart, EchoStart, PutStart, ReturnStart
     DEF PartInit
<1>2. Inv /\ [PartNext]_partVars => Inv'
  <2> SUFFICES ASSUME Inv, [PartNext]_partVars PROVE Inv'
    OBVIOUS
  <2>1. LockInv' /\ MrwInv'
    BY <1>0, PartSteps, LockStep, MrwStep
  <2>2. PoolInv' /\ SumsInv'
    BY PartSteps, PoolStep, SumsStep
  <2>3. EchoInv' /\ PutInv' /\ ReturnInv'
    BY ServerSteps, EchoStep, PutStepKeeps, ReturnStep
  <2> QED
    BY <2>1, <2>2, <2>3
<1>3. Inv => TypesOK
  <2>1. Inv => Lock!TypeOK /\ Mrw!TypeOK /\ Pool!TypeOK /\ Sums!TypeOK
    BY DEF LockInv, MrwInv, PoolInv, SumsInv
  <2>2. Inv => Echo!TypeOK /\ Put!TypeOK /\ Server!TypeOK
    BY ServerTypesOK DEF EchoInv, PutInv, PutTypes, ReturnInv, ServerInv
  <2> QED
    BY <2>1, <2>2 DEF TypesOK
<1> QED
  BY <1>1, <1>2, <1>3, PTL DEF PartSpec

=============================================================================
