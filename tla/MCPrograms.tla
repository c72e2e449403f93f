---------------------------- MODULE MCPrograms ----------------------------
(***************************************************************************)
(* Instances of the reader/writer lock and of the programs that wait for   *)
(* events and completions, each checked by itself: `part` names the one    *)
(* that runs, and the variables of the others stay as they are.            *)
(***************************************************************************)
EXTENDS Integers, Sequences

CONSTANTS
  Thread, NoThread, MaxWrites,                                      \* RWLock
  InputLengths, ReadSizes, MaxFaults,                               \* PutRequest
  Client, Worker, NoClient, MAX_BUFFER_LEN, Workloads, MaxFailures,  \* ServerIOCP
  Process, MAX_READ_PROCESSES_ALLOWED,                              \* Win32MRW
  WorkerThread, WORK_MAX, Works,                                    \* ThreadPooling
  DATA_BUFSIZE, EchoBytes,                                          \* WinsockServer
  Summer, size                                                      \* PartialSums

VARIABLES
  part,
  critsec, lockCount, fWriterWaiting, readersDoneEvent, lockPc, count, writes, lateSignal,
  inputLength, sizes, offset, g_simulateAsyncTask, completionEvent, received, buffer,
  pendingReadBuffer, liveBuffers, done, eof, fileOpen, output, fileLength,
  g_OutPutFileLength, status, faults, putPc,
  workload, connection, sentIn, echoed, receivedFrom, context, pending, clientList, packets,
  shutdownEvent, accepted, packet, acceptPc, workerPc, mainPc, failures, split,
  writeEvent, readEvent, ii, mrwPc,
  idxOfCurrentWork, idxOfLastAddedWork, threadIdx, owner, depth, workerEvent, works, added,
  signalled, work, taken, ran, poolMainPc, poolPc,
  echoConnection, echoSentIn, echoEchoed, echoReceived, allocated, BytesRECV, BytesSEND, posted,
  completions, echoAccepted, held, winsockPc, failed,
  m_sum, m_current_idx, m_end, m_bRun, bRun, idx, end, sum, sumsPc, sumsMainPc

Lock == INSTANCE RWLock
Put == INSTANCE PutRequest
Server == INSTANCE ServerIOCP
Mrw == INSTANCE Win32MRW
Pool == INSTANCE ThreadPooling
Echo == INSTANCE WinsockServer WITH
  MaxBytes <- EchoBytes, connection <- echoConnection, sentIn <- echoSentIn,
  echoed <- echoEchoed, receivedFrom <- echoReceived, accepted <- echoAccepted
Sums == INSTANCE PartialSums

ASSUME ProgramsAssumption ==
  /\ Lock!LockAssumption /\ Put!PutAssumption /\ Server!ServerAssumption
  /\ Mrw!ProcessAssumption /\ Pool!PoolAssumption /\ Echo!ServerAssumption
  /\ Sums!SumsAssumption

lockVars == <<critsec, lockCount, fWriterWaiting, readersDoneEvent, lockPc, count, writes,
              lateSignal>>
putVars == <<inputLength, sizes, offset, g_simulateAsyncTask, completionEvent, received, buffer,
             pendingReadBuffer, liveBuffers, done, eof, fileOpen, output, fileLength,
             g_OutPutFileLength, status, faults, putPc>>
serverVars == <<workload, connection, sentIn, echoed, receivedFrom, context, pending, clientList,
                packets, shutdownEvent, accepted, packet, acceptPc, workerPc, mainPc, failures,
                split>>
mrwVars == <<writeEvent, readEvent, ii, mrwPc>>
poolVars == <<idxOfCurrentWork, idxOfLastAddedWork, threadIdx, owner, depth, workerEvent, works,
              added, signalled, work, taken, ran, poolMainPc, poolPc>>
echoVars == <<echoConnection, echoSentIn, echoEchoed, echoReceived, allocated, BytesRECV,
              BytesSEND, posted, completions, echoAccepted, held, winsockPc, failed>>
sumsVars == <<m_sum, m_current_idx, m_end, m_bRun, bRun, idx, end, sum, sumsPc, sumsMainPc>>
partVars == <<part, lockVars, putVars, serverVars, mrwVars, poolVars, echoVars, sumsVars>>

\* What a part chooses in the beginning matters only if it runs.
PartInit ==
  /\ part \in {"lock", "put", "server", "mrw", "pool", "echo", "sums"}
  /\ Lock!Init /\ Put!Init /\ Server!Init /\ Mrw!Init /\ Pool!Init /\ Echo!Init /\ Sums!Init
  /\ part # "server" => workload = CHOOSE plan \in Workloads : TRUE
  /\ part # "pool" => works = CHOOSE n \in Works : TRUE
  /\ part # "put" => /\ inputLength = CHOOSE n \in InputLengths : TRUE
                     /\ sizes = CHOOSE s \in ReadSizes : TRUE
                     /\ g_simulateAsyncTask

\* A request and the sums come to their end, main adds no more works, and a
\* server may stop.
Ended == part \in {"put", "server", "pool", "echo", "sums"}

PartNext ==
  \/ /\ part = "lock" /\ Lock!Next
     /\ UNCHANGED <<part, putVars, serverVars, mrwVars, poolVars, echoVars, sumsVars>>
  \/ /\ part = "put" /\ Put!Next
     /\ UNCHANGED <<part, lockVars, serverVars, mrwVars, poolVars, echoVars, sumsVars>>
  \/ /\ part = "server" /\ Server!Next
     /\ UNCHANGED <<part, lockVars, putVars, mrwVars, poolVars, echoVars, sumsVars>>
  \/ /\ part = "mrw" /\ Mrw!Next
     /\ UNCHANGED <<part, lockVars, putVars, serverVars, poolVars, echoVars, sumsVars>>
  \/ /\ part = "pool" /\ Pool!Next
     /\ UNCHANGED <<part, lockVars, putVars, serverVars, mrwVars, echoVars, sumsVars>>
  \/ /\ part = "echo" /\ Echo!Next
     /\ UNCHANGED <<part, lockVars, putVars, serverVars, mrwVars, poolVars, sumsVars>>
  \/ /\ part = "sums" /\ Sums!Next
     /\ UNCHANGED <<part, lockVars, putVars, serverVars, mrwVars, poolVars, echoVars>>
  \/ Ended /\ UNCHANGED partVars

\* The fairness of the module that runs, as it states it.
PartFairness ==
  /\ \A t \in Thread : WF_lockVars(part = "lock" /\ Lock!Step(t))
  /\ WF_putVars(part = "put" /\ Put!PutStep)
  /\ WF_serverVars(part = "server" /\ Server!AcceptStep)
  /\ WF_serverVars(part = "server" /\ Server!MainStep)
  /\ \A w \in Worker : WF_serverVars(part = "server" /\ Server!WorkerStep(w))
  /\ \A c \in Client : WF_serverVars(part = "server" /\ Server!Network(c))
  /\ \A p \in Process : /\ WF_mrwVars(part = "mrw" /\ Mrw!MrwStep(p))
                         /\ SF_mrwVars(part = "mrw" /\ Mrw!WriteWaitsWriting(p))
  /\ WF_poolVars(part = "pool" /\ Pool!MainStep)
  /\ \A w \in WorkerThread : WF_poolVars(part = "pool" /\ Pool!WorkerStep(w))
  /\ WF_echoVars(part = "echo" /\ Echo!MainStep)
  /\ \A w \in Worker : WF_echoVars(part = "echo" /\ Echo!WorkerStep(w))
  /\ \A c \in Client : WF_echoVars(part = "echo" /\ Echo!Network(c))
  /\ WF_sumsVars(part = "sums" /\ Sums!SumsMainStep)
  /\ \A t \in Summer : WF_sumsVars(part = "sums" /\ Sums!SummerStep(t))

PartSpec == PartInit /\ [][PartNext]_partVars /\ PartFairness

-----------------------------------------------------------------------------
(* The properties, which the modules of the parts state and explain.       *)

(* The variables of all parts keep to their types.                         *)
TypesOK ==
  Lock!TypeOK /\ Put!TypeOK /\ Server!TypeOK /\ Mrw!TypeOK /\ Pool!TypeOK /\ Echo!TypeOK
  /\ Sums!TypeOK

(* A writer gets past a thread that reads by a late signal only.           *)
NoReaderOvertaken == Lock!NoReaderOvertaken
(* A writer that waits for the readers is let in.  The threads are alike,  *)
(* so that one stands for all.                                             *)
WaiterGetsIn == Lock!GetsIn(CHOOSE t \in Thread : TRUE)

(* The file holds a beginning of the input, and all of it if nothing fails;*)
(* one buffer at a time, which a read that is pending finds again.         *)
InputCopied == /\ Put!OutputIsPrefix /\ Put!CleanRunCopies
               /\ Put!OneBuffer /\ Put!CompletionFindsBuffer

(* A client's context is in one hand, and not freed before it is let go.   *)
OneOperation == Server!OneOperation
(* Clients get back as much as was received from them, and what they sent, *)
(* in order, where each message is sent back in two parts at most.         *)
EchoesShortSends == Server!EchoesShortSends
(* What a client sends comes back from either server, as long as it stays; *)
(* the other sends nothing.                                                *)
MessagesComeBack == Server!ComesBack("c1") /\ Echo!ComesBack("c1")
(* Shutting down ends every thread, and a request comes to its end, as do  *)
(* the sums; the one of the two that stands still is never over.           *)
ThreadsStop ==
  Server!ThreadsStop /\ (part \in {"put", "sums"} ~> Put!Over \/ Sums!Over)

(* Nobody is inside beside a process that writes.                          *)
WriterAlone == Mrw!WriterAlone
(* A process that wants to write gets to it; they are alike too.           *)
WriterGetsIn == Mrw!GetsIn(CHOOSE p \in Process : TRUE)

(* Each work of a pool is taken by one worker, in order, and a sum that    *)
(* several threads compute is the one of its range.                        *)
WorkTakenOnce == Pool!WorkTakenOnce /\ Sums!SumsRight
(* Every work of a pool is added and run.                                  *)
EveryWorkRuns == Pool!EveryWorkRuns

(* The clients of the other server get back what they sent, in order, and  *)
(* their data is in one hand.                                              *)
EchoInOrder == Echo!EchoInOrder /\ Echo!OneHolder

-----------------------------------------------------------------------------
\* A buffer that two reads fill, one that they do not fill evenly, one of a
\* byte, and one that is smaller than what is asked for.
MCReadSizes == {<<4, 2>>, <<3, 2>>, <<1, 1>>, <<2, 3>>}

\* One client sends as much as a buffer holds and can be sent back in three
\* parts; or it sends two bytes, while another comes and goes.
MCWorkloads == {[c \in {"c1"} |-> 3], [c \in Client |-> IF c = "c1" THEN 2 ELSE 0]}
MCEchoBytes == [c \in Client |-> IF c = "c1" THEN 3 ELSE 0]
=============================================================================
