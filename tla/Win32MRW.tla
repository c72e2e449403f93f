------------------------------ MODULE Win32MRW ------------------------------
(***************************************************************************)
(* Processes that share a piece of memory by named auto-reset events       *)
(* (Win32MRW.cpp): one write event, and one read event for each reader     *)
(* that may be inside at a time.  A process reads or writes, again and     *)
(* again, as its user chooses; waiting for an event resets it.             *)
(***************************************************************************)
EXTENDS Naturals, FiniteSets

CONSTANTS
  Process,
  MAX_READ_PROCESSES_ALLOWED

ProcessAssumption == IsFiniteSet(Process) /\ MAX_READ_PROCESSES_ALLOWED \in Nat \ {0}

VARIABLES
  writeEvent, readEvent,   \* signalled or not
  ii,                      \* each process's loop counter
  mrwPc

mrwVars == <<writeEvent, readEvent, ii, mrwPc>>

ReadEvents == 0 .. MAX_READ_PROCESSES_ALLOWED - 1

Init ==
  /\ writeEvent = TRUE /\ readEvent = [e \in ReadEvents |-> TRUE]
  /\ ii = [p \in Process |-> 0]
  /\ mrwPc = [p \in Process |-> "option"]

Goto(p, from, to) == mrwPc[p] = from /\ mrwPc' = [mrwPc EXCEPT ![p] = to]
SetCounter(p, n) == ii' = [ii EXCEPT ![p] = n]

\* The user's choice.
ChooseOption(p) ==
  /\ \E to \in {"writeWaitsWriting", "readWaitsWriting"} : Goto(p, "option", to)
  /\ UNCHANGED <<writeEvent, readEvent, ii>>

-----------------------------------------------------------------------------
(* WriteAndPrint                                                           *)
WriteWaitsWriting(p) ==
  /\ Goto(p, "writeWaitsWriting", "writeWaitsReading")
  /\ writeEvent /\ writeEvent' = FALSE
  /\ UNCHANGED <<readEvent, ii>>

\* Fault: one of the read events is enough (the wait is not for all).
WriteWaitsOneReading(p) ==
  /\ Goto(p, "writeWaitsReading", "writing")
  /\ \E e \in ReadEvents : readEvent[e] /\ readEvent' = [readEvent EXCEPT ![e] = FALSE]
  /\ UNCHANGED <<writeEvent, ii>>

WriteWaitsReading(p) ==
  /\ Goto(p, "writeWaitsReading", "writing")
  /\ \A e \in ReadEvents : readEvent[e]
  /\ readEvent' = [e \in ReadEvents |-> FALSE]
  /\ UNCHANGED <<writeEvent, ii>>

\* The write event is set first, so that others come in while the rest is set.
EndWriting(p) ==
  /\ Goto(p, "writing", "setReadEvents")
  /\ writeEvent' = TRUE
  /\ SetCounter(p, 0)
  /\ UNCHANGED readEvent

SetReadEvent(p) ==
  /\ mrwPc[p] = "setReadEvents"
  /\ readEvent' = [readEvent EXCEPT ![ii[p]] = TRUE]
  /\ IF ii[p] + 1 \in ReadEvents
     THEN SetCounter(p, ii[p] + 1) /\ UNCHANGED mrwPc
     ELSE SetCounter(p, 0) /\ Goto(p, "setReadEvents", "option")
  /\ UNCHANGED writeEvent

-----------------------------------------------------------------------------
(* ReadAndPrint                                                            *)
ReadWaitsWriting(p) ==
  /\ Goto(p, "readWaitsWriting", "findReadEvent")
  /\ writeEvent /\ writeEvent' = FALSE
  /\ SetCounter(p, 0)
  /\ UNCHANGED readEvent

TakeReadEvent(p) ==
  /\ Goto(p, "findReadEvent", "setWriteEvent")
  /\ readEvent[ii[p]] /\ readEvent' = [readEvent EXCEPT ![ii[p]] = FALSE]
  /\ UNCHANGED <<writeEvent, ii>>

\* After WAIT_TIME_OUT the next event is tried; after the last one all over.
ReadEventTimeout(p) ==
  /\ mrwPc[p] = "findReadEvent" /\ ~readEvent[ii[p]]
  /\ IF ii[p] + 1 \in ReadEvents
     THEN SetCounter(p, ii[p] + 1) /\ UNCHANGED <<mrwPc, writeEvent>>
     ELSE SetCounter(p, 0) /\ Goto(p, "findReadEvent", "readWaitsWriting") /\ writeEvent' = TRUE
  /\ UNCHANGED readEvent

SetWriteEvent(p) ==
  /\ Goto(p, "setWriteEvent", "reading")
  /\ writeEvent' = TRUE
  /\ UNCHANGED <<readEvent, ii>>

\* Fault: always the first event is set.
EndReadingFirst(p) ==
  /\ Goto(p, "reading", "option")
  /\ readEvent' = [readEvent EXCEPT ![0] = TRUE]
  /\ SetCounter(p, 0)
  /\ UNCHANGED writeEvent

EndReading(p) ==
  /\ Goto(p, "reading", "option")
  /\ readEvent' = [readEvent EXCEPT ![ii[p]] = TRUE]
  /\ SetCounter(p, 0)
  /\ UNCHANGED writeEvent

MrwStep(p) ==
  \/ WriteWaitsWriting(p) \/ WriteWaitsReading(p) \/ EndWriting(p) \/ SetReadEvent(p)
  \/ ReadWaitsWriting(p) \/ TakeReadEvent(p) \/ ReadEventTimeout(p)
  \/ SetWriteEvent(p) \/ EndReading(p)

Next == \E p \in Process : ChooseOption(p) \/ MrwStep(p)

(***************************************************************************)
(* A process that is not waiting for its user goes on, and Windows keeps   *)
(* nobody from an event that is signalled again and again.                 *)
(***************************************************************************)
MrwFairness ==
  \A p \in Process :
    /\ WF_mrwVars(MrwStep(p))
    /\ SF_mrwVars(WriteWaitsWriting(p))

Spec == Init /\ [][Next]_mrwVars /\ MrwFairness

-----------------------------------------------------------------------------
PCs == {"option", "writeWaitsWriting", "writeWaitsReading", "writing", "setReadEvents",
        "readWaitsWriting", "findReadEvent", "setWriteEvent", "reading"}

TypeOK ==
  /\ writeEvent \in BOOLEAN /\ readEvent \in [ReadEvents -> BOOLEAN]
  /\ ii \in [Process -> ReadEvents] /\ mrwPc \in [Process -> PCs]

Inside == {p \in Process : mrwPc[p] \in {"setWriteEvent", "reading"}}
Writing == {p \in Process : mrwPc[p] = "writing"}

(***************************************************************************)
(* Nobody reads or writes beside a process that writes, no more readers    *)
(* are inside than there are read events, and no two hold the same event,  *)
(* though the writer gives its events back one by one after it has let     *)
(* others pass the write event.                                            *)
(***************************************************************************)
WriterAlone ==
  /\ Writing # {} => Inside = {} /\ Cardinality(Writing) = 1
  /\ \A p, q \in Inside : ii[p] = ii[q] => p = q

(***************************************************************************)
(* Readers that come and go do not keep a writer waiting for ever: once it *)
(* has the write event no new reader gets in.                              *)
(***************************************************************************)
GetsIn(p) == mrwPc[p] = "writeWaitsWriting" ~> mrwPc[p] = "writing"
WriterGetsIn == \A p \in Process : GetsIn(p)
=============================================================================
