------------------------------- MODULE RWLock -------------------------------
(***************************************************************************)
(* CWSDRWLock, the reader/writer lock of HASH_TABLE and TREE_HASH_TABLE,   *)
(* in its Windows XP form: a critical section that a writer keeps for as   *)
(* long as it writes, a count of active readers, and an auto-reset event   *)
(* on which a writer waits for the readers that were inside before it.     *)
(* Every access to the lock's fields is one step.  (The Vista form wraps   *)
(* SRWLOCK, which the operating system implements.)                        *)
(***************************************************************************)
EXTENDS Integers, FiniteSets

CONSTANTS
  Thread,     \* the threads that share the lock
  NoThread,   \* no thread at all
  MaxWrites   \* bound: how many exclusive acquisitions the threads start

LockAssumption == IsFiniteSet(Thread) /\ NoThread \notin Thread /\ MaxWrites \in Nat

VARIABLES
  critsec,          \* the owner of the critical section, or NoThread
  lockCount,        \* LockCount: readers inside, or -1
  fWriterWaiting,   \* the writer's announcement
  readersDoneEvent, \* the auto-reset event: signalled or not
  lockPc,               \* where each thread is
  count,            \* each thread's local Count in ReleaseRWLock
  writes,           \* exclusive acquisitions started so far
  lateSignal        \* history: a signal has ended a writer's wait although readers were inside

vars == <<critsec, lockCount, fWriterWaiting, readersDoneEvent, lockPc, count, writes, lateSignal>>

PC == {"idle", "sharedIncrement", "sharedLeave", "reading",
       "announce", "checkReaders", "wait", "claim", "writing",
       "branch", "signal", "resetCount", "resetFlag", "leave"}

Init ==
  /\ critsec = NoThread
  /\ lockCount = 0
  /\ fWriterWaiting = FALSE
  /\ readersDoneEvent = FALSE
  /\ lockPc = [t \in Thread |-> "idle"]
  /\ count = [t \in Thread |-> 0]
  /\ writes = 0
  /\ lateSignal = FALSE

Goto(t, from, to) == lockPc[t] = from /\ lockPc' = [lockPc EXCEPT ![t] = to]

(* SharedAcquire *)
\* Fault: readers do not queue for the critical section.
SharedEnterUnlocked(t) ==
  /\ Goto(t, "idle", "sharedIncrement")
  /\ UNCHANGED <<critsec, lockCount, fWriterWaiting, readersDoneEvent, count, writes, lateSignal>>

SharedEnter(t) ==
  /\ Goto(t, "idle", "sharedIncrement")
  /\ critsec = NoThread /\ critsec' = t
  /\ UNCHANGED <<lockCount, fWriterWaiting, readersDoneEvent, count, writes, lateSignal>>

SharedIncrement(t) ==
  /\ Goto(t, "sharedIncrement", "sharedLeave")
  /\ lockCount' = lockCount + 1
  /\ UNCHANGED <<critsec, fWriterWaiting, readersDoneEvent, count, writes, lateSignal>>

SharedLeave(t) ==
  /\ Goto(t, "sharedLeave", "reading")
  /\ critsec' = NoThread
  /\ UNCHANGED <<lockCount, fWriterWaiting, readersDoneEvent, count, writes, lateSignal>>

(* ExclusiveAcquire *)
ExclusiveEnter(t) ==
  /\ writes < MaxWrites /\ writes' = writes + 1
  /\ Goto(t, "idle", "announce")
  /\ critsec = NoThread /\ critsec' = t
  /\ UNCHANGED <<lockCount, fWriterWaiting, readersDoneEvent, count, lateSignal>>

Announce(t) ==
  /\ Goto(t, "announce", "checkReaders")
  /\ fWriterWaiting' = TRUE
  /\ UNCHANGED <<critsec, lockCount, readersDoneEvent, count, writes, lateSignal>>

\* Fault: a single reader is overlooked.
CheckReadersOffByOne(t) ==
  /\ Goto(t, "checkReaders", IF lockCount > 1 THEN "wait" ELSE "claim")
  /\ UNCHANGED <<critsec, lockCount, fWriterWaiting, readersDoneEvent, count, writes, lateSignal>>

CheckReaders(t) ==
  /\ Goto(t, "checkReaders", IF lockCount > 0 THEN "wait" ELSE "claim")
  /\ UNCHANGED <<critsec, lockCount, fWriterWaiting, readersDoneEvent, count, writes, lateSignal>>

\* Taking the signal of an auto-reset event resets it.
WaitForReaders(t) ==
  /\ Goto(t, "wait", "claim")
  /\ readersDoneEvent /\ readersDoneEvent' = FALSE
  /\ lateSignal' = (lateSignal \/ lockCount > 0)
  /\ UNCHANGED <<critsec, lockCount, fWriterWaiting, count, writes>>

Claim(t) ==
  /\ Goto(t, "claim", "writing")
  /\ lockCount' = -1
  /\ UNCHANGED <<critsec, fWriterWaiting, readersDoneEvent, count, writes, lateSignal>>

(* ReleaseRWLock, called by SharedRelease and by ExclusiveRelease *)
\* Fault: the new count is not written back.
DecrementNotStored(t) ==
  /\ \E from \in {"reading", "writing"} : Goto(t, from, "branch")
  /\ count' = [count EXCEPT ![t] = lockCount - 1]
  /\ UNCHANGED <<critsec, lockCount, fWriterWaiting, readersDoneEvent, writes, lateSignal>>

Decrement(t) ==
  /\ \E from \in {"reading", "writing"} : Goto(t, from, "branch")
  /\ lockCount' = lockCount - 1
  /\ count' = [count EXCEPT ![t] = lockCount - 1]
  /\ UNCHANGED <<critsec, fWriterWaiting, readersDoneEvent, writes, lateSignal>>

BranchReader(t) ==
  /\ count[t] >= 0
  /\ Goto(t, "branch", IF fWriterWaiting /\ count[t] = 0 THEN "signal" ELSE "idle")
  /\ count' = [count EXCEPT ![t] = 0]
  /\ UNCHANGED <<critsec, lockCount, fWriterWaiting, readersDoneEvent, writes, lateSignal>>

SignalReadersDone(t) ==
  /\ Goto(t, "signal", "idle")
  /\ readersDoneEvent' = TRUE
  /\ UNCHANGED <<critsec, lockCount, fWriterWaiting, count, writes, lateSignal>>

BranchWriter(t) ==
  /\ count[t] < 0
  /\ Goto(t, "branch", "resetFlag")
  /\ lockCount' = 0
  /\ count' = [count EXCEPT ![t] = 0]
  /\ UNCHANGED <<critsec, fWriterWaiting, readersDoneEvent, writes, lateSignal>>

ResetFlag(t) ==
  /\ Goto(t, "resetFlag", "leave")
  /\ fWriterWaiting' = FALSE
  /\ UNCHANGED <<critsec, lockCount, readersDoneEvent, count, writes, lateSignal>>

ExclusiveLeave(t) ==
  /\ Goto(t, "leave", "idle")
  /\ critsec' = NoThread
  /\ UNCHANGED <<lockCount, fWriterWaiting, readersDoneEvent, count, writes, lateSignal>>

\* What a thread does once it is inside an operation of the lock.
Step(t) ==
  \/ SharedIncrement(t) \/ SharedLeave(t)
  \/ Announce(t) \/ CheckReaders(t) \/ WaitForReaders(t) \/ Claim(t)
  \/ Decrement(t) \/ BranchReader(t) \/ SignalReadersDone(t)
  \/ BranchWriter(t) \/ ResetFlag(t) \/ ExclusiveLeave(t)

Next == \E t \in Thread : SharedEnter(t) \/ ExclusiveEnter(t) \/ Step(t)

(***************************************************************************)
(* A thread that is running keeps running, and a thread that holds the     *)
(* lock gives it back; nothing obliges a thread to ask for the lock.       *)
(***************************************************************************)
Fairness == \A t \in Thread : WF_vars(Step(t))

Spec == Init /\ [][Next]_vars /\ Fairness

-----------------------------------------------------------------------------
(* The fields keep their types, even once a reader and a writer overlap. *)
TypeOK ==
  /\ critsec \in Thread \cup {NoThread}
  /\ lockCount \in -1 - Cardinality(Thread) .. Cardinality(Thread)
  /\ fWriterWaiting \in BOOLEAN
  /\ readersDoneEvent \in BOOLEAN
  /\ lockPc \in [Thread -> PC]
  /\ count \in [Thread -> -1 - Cardinality(Thread) .. Cardinality(Thread)]
  /\ writes \in 0 .. MaxWrites
  /\ lateSignal \in BOOLEAN

(***************************************************************************)
(* What ExclusiveAcquire says it does ("Wait for all the readers to get    *)
(* done.."): no thread reads while a thread writes, and only one writes.   *)
(***************************************************************************)
MutualExclusion ==
  \A t, u \in Thread :
    (lockPc[t] = "writing" /\ t # u) => lockPc[u] \notin {"reading", "writing"}

(***************************************************************************)
(* A signal that comes late is the only way past a reader: the path of     *)
(* ExclusiveAcquire that does not wait is sound, and so is a wait that     *)
(* ends when the readers are gone, although readers leave, look for a      *)
(* writer and signal in steps of their own.  (After a late signal nothing  *)
(* holds any more: the reader that was overtaken releases the lock as a    *)
(* writer does, critical section included.)                                *)
(***************************************************************************)
NoReaderOvertaken == lateSignal \/ MutualExclusion

(***************************************************************************)
(* No wake-up is lost: the last reader's decrement and its look at         *)
(* fWriterWaiting are two steps, and so are the writer's announcement and  *)
(* its look at LockCount; whatever their order, a writer that waits for    *)
(* the readers in ExclusiveAcquire is let in.                              *)
(***************************************************************************)
GetsIn(t) == (lockPc[t] = "wait") ~> (lockPc[t] = "writing" \/ lateSignal)
WaiterGetsIn == \A t \in Thread : GetsIn(t)
=============================================================================
