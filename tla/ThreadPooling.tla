---------------------------- MODULE ThreadPooling ----------------------------
(***************************************************************************)
(* The thread pool of chapter 15 (ThreadPooling.cpp): main makes a number  *)
(* of worker threads and then adds works to an array, behind a mutex, and  *)
(* sets the event of every worker after each.  A worker takes the next     *)
(* work, or waits for its auto-reset event if there is none.  Works are    *)
(* known by their place in the array.  AddWorkToPool returns with the      *)
(* mutex in its hands when the array is full; main, which owns the mutex,  *)
(* may take it again, and nobody else can.  main's Sleep at the end is     *)
(* taken to be long enough, and CreateEvent and CreateThread to succeed.    *)
(***************************************************************************)
EXTENDS Integers, FiniteSets

CONSTANTS
  WorkerThread,    \* 0 .. numOfThread - 1
  WORK_MAX,        \* room in workList
  Works            \* how many works main may add (100)

PoolAssumption ==
  /\ IsFiniteSet(WorkerThread) /\ WorkerThread = 0 .. Cardinality(WorkerThread) - 1
  /\ WorkerThread # {}
  /\ WORK_MAX \in Nat \ {0} /\ Works \subseteq Nat

Main == -1
Nobody == -2

VARIABLES
  idxOfCurrentWork, idxOfLastAddedWork, threadIdx,   \* gThreadPool
  owner, depth,       \* the mutex: who has it, and how often
  workerEvent,        \* whether each worker's event is set
  works,              \* how many works main adds
  added, signalled,   \* main's loop indices
  work,               \* the work each worker took
  taken,              \* history: the works that were taken, and how often
  ran,                \* history: the works that were run
  poolMainPc, poolPc

poolVars == <<idxOfCurrentWork, idxOfLastAddedWork, threadIdx, owner, depth, workerEvent, works,
              added, signalled, work, taken, ran, poolMainPc, poolPc>>
pool == <<idxOfCurrentWork, idxOfLastAddedWork, threadIdx>>
mutex == <<owner, depth>>
mainVars == <<works, added, signalled>>
workerVars == <<work, taken, ran>>

Init ==
  /\ idxOfCurrentWork = 0 /\ idxOfLastAddedWork = 0 /\ threadIdx = 0
  /\ owner = Nobody /\ depth = 0
  /\ workerEvent = [w \in WorkerThread |-> FALSE]
  /\ works \in Works /\ added = 0 /\ signalled = 0
  /\ work = [w \in WorkerThread |-> 0]
  /\ taken = [k \in 0 .. WORK_MAX |-> 0] /\ ran = {}
  /\ poolMainPc = "makeThread" /\ poolPc = [w \in WorkerThread |-> "none"]

MainGoto(from, to) == poolMainPc = from /\ poolMainPc' = to
WorkerGoto(w, from, to) ==
  poolPc[w] = from /\ poolPc' = [poolPc EXCEPT ![w] = to] /\ UNCHANGED poolMainPc

\* Fault: nobody waits for the mutex.
AcquireMutexAtOnce(me) == owner' = me /\ depth' = 1

AcquireMutex(me) == owner \in {Nobody, me} /\ owner' = me /\ depth' = depth + 1
\* A thread that does not own the mutex gets an error, and goes on.
ReleaseMutex(me) ==
  IF owner # me THEN UNCHANGED mutex
  ELSE depth' = depth - 1 /\ owner' = IF depth = 1 THEN Nobody ELSE me

-----------------------------------------------------------------------------
(* main                                                                    *)
\* MakeThreadToPool: CreateThread, which starts the worker at once
CreateWorker ==
  /\ MainGoto("makeThread", "countThread")
  /\ poolPc' = [poolPc EXCEPT ![threadIdx] = "acquire"]
  /\ UNCHANGED <<pool, mutex, workerEvent, mainVars, workerVars>>

CountThread ==
  /\ threadIdx' = threadIdx + 1
  /\ MainGoto("countThread", IF threadIdx' \in WorkerThread THEN "makeThread" ELSE "acquire")
  /\ UNCHANGED <<idxOfCurrentWork, idxOfLastAddedWork, mutex, workerEvent, mainVars,
                 workerVars, poolPc>>

\* AddWorkToPool
AddAcquires ==
  /\ added < works /\ MainGoto("acquire", "add") /\ AcquireMutex(Main)
  /\ UNCHANGED <<pool, workerEvent, mainVars, workerVars, poolPc>>

AddFails ==
  /\ idxOfLastAddedWork >= WORK_MAX
  /\ MainGoto("add", "acquire") /\ added' = added + 1
  /\ UNCHANGED <<pool, mutex, workerEvent, works, signalled, workerVars, poolPc>>

AddWork ==
  /\ idxOfLastAddedWork < WORK_MAX /\ MainGoto("add", "signal")
  /\ idxOfLastAddedWork' = idxOfLastAddedWork + 1 /\ signalled' = 0
  /\ UNCHANGED <<idxOfCurrentWork, threadIdx, mutex, workerEvent, works, added, workerVars, poolPc>>

SignalWorker ==
  /\ signalled < threadIdx /\ MainGoto("signal", "signal")
  /\ workerEvent' = [workerEvent EXCEPT ![signalled] = TRUE] /\ signalled' = signalled + 1
  /\ UNCHANGED <<pool, mutex, works, added, workerVars, poolPc>>

AddReleases ==
  /\ signalled = threadIdx /\ MainGoto("signal", "acquire")
  /\ ReleaseMutex(Main) /\ added' = added + 1
  /\ UNCHANGED <<pool, workerEvent, works, signalled, workerVars, poolPc>>

MainStep ==
  \/ CreateWorker \/ CountThread
  \/ AddAcquires \/ AddFails \/ AddWork \/ SignalWorker \/ AddReleases

-----------------------------------------------------------------------------
(* WorkerThreadFunction                                                    *)
GetAcquires(w) ==
  /\ WorkerGoto(w, "acquire", "look") /\ AcquireMutex(w)
  /\ UNCHANGED <<pool, workerEvent, mainVars, workerVars>>

\* Fault: the mutex is kept, as AddFails keeps it.
FindNoneKeepingMutex(w) ==
  /\ idxOfCurrentWork >= idxOfLastAddedWork
  /\ WorkerGoto(w, "look", "wait")
  /\ UNCHANGED <<pool, mutex, workerEvent, mainVars, workerVars>>

FindNone(w) ==
  /\ idxOfCurrentWork >= idxOfLastAddedWork
  /\ WorkerGoto(w, "look", "wait") /\ ReleaseMutex(w)
  /\ UNCHANGED <<pool, workerEvent, mainVars, workerVars>>

FindWork(w) ==
  /\ idxOfCurrentWork < idxOfLastAddedWork
  /\ WorkerGoto(w, "look", "take")
  /\ UNCHANGED <<pool, mutex, workerEvent, mainVars, workerVars>>

TakeWork(w) ==
  /\ WorkerGoto(w, "take", "run") /\ ReleaseMutex(w)
  /\ work' = [work EXCEPT ![w] = idxOfCurrentWork]
  /\ idxOfCurrentWork' = idxOfCurrentWork + 1
  /\ taken' = [taken EXCEPT ![idxOfCurrentWork] = @ + 1]
  /\ UNCHANGED <<idxOfLastAddedWork, threadIdx, workerEvent, mainVars, ran>>

RunWork(w) ==
  /\ WorkerGoto(w, "run", "acquire") /\ ran' = ran \cup {work[w]}
  /\ UNCHANGED <<pool, mutex, workerEvent, mainVars, work, taken>>

WaitForEvent(w) ==
  /\ workerEvent[w] /\ WorkerGoto(w, "wait", "acquire")
  /\ workerEvent' = [workerEvent EXCEPT ![w] = FALSE]
  /\ UNCHANGED <<pool, mutex, mainVars, workerVars>>

WorkerStep(w) ==
  \/ GetAcquires(w) \/ FindNone(w) \/ FindWork(w) \/ TakeWork(w) \/ RunWork(w)
  \/ WaitForEvent(w)

Next == MainStep \/ \E w \in WorkerThread : WorkerStep(w)

(* Every thread runs on.  Additions come to an end, so that no thread can  *)
(* keep another one from the mutex for ever.                               *)
PoolFairness == WF_poolVars(MainStep) /\ \A w \in WorkerThread : WF_poolVars(WorkerStep(w))

Spec == Init /\ [][Next]_poolVars /\ PoolFairness

-----------------------------------------------------------------------------
TypeOK ==
  /\ idxOfCurrentWork \in 0 .. WORK_MAX /\ idxOfLastAddedWork \in 0 .. WORK_MAX
  /\ threadIdx \in 0 .. Cardinality(WorkerThread)
  /\ owner \in WorkerThread \cup {Main, Nobody} /\ depth \in 0 .. works + 1
  /\ workerEvent \in [WorkerThread -> BOOLEAN]
  /\ works \in Works /\ added \in 0 .. works /\ signalled \in 0 .. Cardinality(WorkerThread)
  /\ work \in [WorkerThread -> 0 .. WORK_MAX] /\ ran \subseteq 0 .. WORK_MAX
  /\ taken \in [0 .. WORK_MAX -> Nat]
  /\ poolMainPc \in {"makeThread", "countThread", "acquire", "add", "signal"}
  /\ poolPc \in [WorkerThread -> {"none", "acquire", "look", "wait", "take", "run"}]

(* GetWorkFromPool gives each work to one worker, in the order in which    *)
(* AddWorkToPool got them, and nothing that was not added.                 *)
WorkTakenOnce ==
  /\ idxOfCurrentWork <= idxOfLastAddedWork
  /\ \A k \in 0 .. WORK_MAX : taken[k] = IF k < idxOfCurrentWork THEN 1 ELSE 0

(* Every addition returns, and the works that were added are run, although *)
(* a worker may have looked at the empty array just before and wait only   *)
(* after the events were set; unless an addition that found the array full *)
(* has kept the mutex.                                                     *)
MutexKept == poolMainPc = "acquire" /\ owner = Main
EveryWorkRuns ==
  poolMainPc = "acquire" ~>
    added = works /\ (0 .. idxOfLastAddedWork - 1 \subseteq ran \/ MutexKept)
=============================================================================
