---------------------------- MODULE WinsockServer ----------------------------
(***************************************************************************)
(* The echo server of TestIOCPWinsockServer.cpp: the main thread accepts   *)
(* connections and posts the first receive, and worker threads take the    *)
(* completions.  A client has one PER_IO_OPERATION_DATA, in which BytesRECV*)
(* = 0 tells a completed receive from a completed send.  A call that fails *)
(* is not repaired: a worker returns, with what it held, and a main thread *)
(* that returns ends the process.  The bytes of a client are numbered.     *)
(***************************************************************************)
EXTENDS Integers, SequencesExt

CONSTANTS
  Client, Worker, NoClient,
  DATA_BUFSIZE,
  MaxBytes,      \* bound: bytes that each client sends
  MaxFailures    \* bound: calls and operations that fail

ServerAssumption ==
  /\ NoClient \notin Client /\ IsFiniteSet(Worker)
  /\ DATA_BUFSIZE \in Nat \ {0} /\ MaxBytes \in [Client -> Nat] /\ MaxFailures \in Nat

VARIABLES
  connection, sentIn, echoed,    \* per client
  receivedFrom,
  allocated,                     \* its PER_HANDLE_DATA and PER_IO_OPERATION_DATA
  BytesRECV, BytesSEND,
  posted,                        \* the operation in progress
  completions,                   \* what is queued at CompletionPort
  accepted, held,                \* what the main thread and each worker deal with
  winsockPc, failed

winsockVars == <<connection, sentIn, echoed, receivedFrom, allocated, BytesRECV, BytesSEND,
                 posted, completions, accepted, held, winsockPc, failed>>
io == <<BytesRECV, BytesSEND>>
threads == <<accepted, held, winsockPc>>

Main == "main"
Failure == -1     \* in a completion's place of BytesTransferred

Init ==
  /\ connection = [c \in Client |-> "none"]
  /\ sentIn = [c \in Client |-> 0] /\ echoed = [c \in Client |-> <<>>]
  /\ receivedFrom = [c \in Client |-> 0]
  /\ allocated = [c \in Client |-> FALSE]
  /\ BytesRECV = [c \in Client |-> 0] /\ BytesSEND = [c \in Client |-> 0]
  /\ posted = [c \in Client |-> "none"]
  /\ completions = <<>> /\ accepted = NoClient
  /\ held = [w \in Worker |-> <<NoClient, 0>>]
  /\ winsockPc = [x \in Worker \cup {Main} |-> "wait"]
  /\ failed = 0

Running == winsockPc[Main] # "ended"
Fail == failed < MaxFailures /\ failed' = failed + 1
Goto(x, from, to) == Running /\ winsockPc[x] = from /\ winsockPc' = [winsockPc EXCEPT ![x] = to]

-----------------------------------------------------------------------------
(* The clients and the network                                             *)
Connect(c) ==
  /\ connection[c] = "none" /\ connection' = [connection EXCEPT ![c] = "backlog"]
  /\ UNCHANGED <<sentIn, echoed, receivedFrom, allocated, io, posted, completions, threads, failed>>

Send(c) ==
  /\ connection[c] = "open" /\ sentIn[c] < MaxBytes[c]
  /\ sentIn' = [sentIn EXCEPT ![c] = @ + 1]
  /\ UNCHANGED <<connection, echoed, receivedFrom, allocated, io, posted, completions, threads,
                 failed>>

Disconnect(c) ==
  /\ connection[c] = "open" /\ connection' = [connection EXCEPT ![c] = "closed"]
  /\ UNCHANGED <<sentIn, echoed, receivedFrom, allocated, io, posted, completions, threads, failed>>

Complete(c, operation, n) ==
  /\ Running /\ posted[c] = operation /\ posted' = [posted EXCEPT ![c] = "none"]
  /\ completions' = Append(completions, <<c, n>>)
  /\ UNCHANGED <<connection, sentIn, allocated, io, threads>>

RecvCompletes(c) ==
  \E n \in 0 .. DATA_BUFSIZE :
    /\ n <= sentIn[c] - receivedFrom[c]
    /\ n = 0 => connection[c] = "closed" /\ receivedFrom[c] = sentIn[c]
    /\ Complete(c, "WSARecv", n)
    /\ receivedFrom' = [receivedFrom EXCEPT ![c] = @ + n]
    /\ UNCHANGED <<echoed, failed>>

\* The byte that DataBuf.buf + i - 1 points to.
BufferByte(c, i) == receivedFrom[c] - BytesRECV[c] + BytesSEND[c] + i

\* A send may complete with a part of its bytes.
SendCompletes(c) ==
  \E n \in 1 .. BytesRECV[c] - BytesSEND[c] :
    /\ Complete(c, "WSASend", n)
    /\ echoed' = [echoed EXCEPT ![c] = @ \o [i \in 1 .. n |-> BufferByte(c, i)]]
    /\ UNCHANGED <<receivedFrom, failed>>

\* The operation ends with an error, because the client has reset the connection.
OperationFails(c) ==
  /\ connection[c] = "closed" /\ Fail
  /\ \E operation \in {"WSARecv", "WSASend"} : Complete(c, operation, Failure)
  /\ UNCHANGED <<echoed, receivedFrom>>

Network(c) == RecvCompletes(c) \/ SendCompletes(c)

-----------------------------------------------------------------------------
(* TestIOCPWinSockServer                                                   *)
WSAAccept(c) ==
  /\ Goto(Main, "wait", "post") /\ accepted' = c
  /\ connection[c] = "backlog" /\ connection' = [connection EXCEPT ![c] = "open"]
  /\ UNCHANGED <<sentIn, echoed, receivedFrom, allocated, io, posted, completions, held, failed>>

\* The allocations, CreateIoCompletionPort and WSARecv
PostFirstRecv ==
  /\ Goto(Main, "post", "wait") /\ accepted' = NoClient
  /\ allocated' = [allocated EXCEPT ![accepted] = TRUE]
  /\ BytesRECV' = [BytesRECV EXCEPT ![accepted] = 0]
  /\ BytesSEND' = [BytesSEND EXCEPT ![accepted] = 0]
  /\ posted' = [posted EXCEPT ![accepted] = "WSARecv"]
  /\ UNCHANGED <<connection, sentIn, echoed, receivedFrom, completions, held, failed>>

\* One of them fails, or WSAAccept: the function returns, and so does main.
MainReturns ==
  /\ Fail /\ \E from \in {"wait", "post"} : Goto(Main, from, "ended")
  /\ UNCHANGED <<connection, sentIn, echoed, receivedFrom, allocated, io, posted, completions,
                 accepted, held>>

MainStep == PostFirstRecv \/ \E c \in Client : WSAAccept(c)

-----------------------------------------------------------------------------
(* TestIOCPWinSockServer_ServerWorkerThread                                *)
GetQueuedCompletionStatus(w) ==
  /\ completions # <<>> /\ completions' = Tail(completions)
  /\ held' = [held EXCEPT ![w] = Head(completions)]
  /\ Goto(w, "wait", IF Head(completions)[2] = Failure THEN "ended" ELSE "handle")
  /\ UNCHANGED <<connection, sentIn, echoed, receivedFrom, allocated, io, posted, accepted, failed>>

Holds(w, c, n) == held[w] = <<c, n>> /\ held' = [held EXCEPT ![w] = <<NoClient, 0>>]

Close(w, c) ==
  /\ Goto(w, "handle", "wait") /\ Holds(w, c, 0)
  /\ connection' = [connection EXCEPT ![c] = "gone"]
  /\ allocated' = [allocated EXCEPT ![c] = FALSE]
  /\ UNCHANGED <<sentIn, echoed, receivedFrom, io, posted, completions, accepted, failed>>

\* What the completion of n bytes makes of the two counters.
CountBytes(c, n) ==
  IF BytesRECV[c] = 0 THEN [recv |-> n, send |-> 0]
  ELSE [recv |-> BytesRECV[c], send |-> BytesSEND[c] + n]

\* Fault: a send that was not complete is taken for one that was.
PostNextReceiving(w, c, n) ==
  /\ Goto(w, "handle", "wait") /\ n > 0 /\ Holds(w, c, n)
  /\ LET first == BytesRECV[c] = 0
     IN  /\ BytesRECV' = [BytesRECV EXCEPT ![c] = IF first THEN n ELSE 0]
         /\ BytesSEND' = [BytesSEND EXCEPT ![c] = IF first THEN 0 ELSE n]
         /\ posted' = [posted EXCEPT ![c] = IF first THEN "WSASend" ELSE "WSARecv"]
  /\ UNCHANGED <<connection, sentIn, echoed, receivedFrom, allocated, completions, accepted, failed>>

PostNext(w, c, n) ==
  LET counts == CountBytes(c, n)
      more == counts.recv > counts.send
  IN  /\ Goto(w, "handle", "wait") /\ n > 0 /\ Holds(w, c, n)
      /\ BytesRECV' = [BytesRECV EXCEPT ![c] = IF more THEN counts.recv ELSE 0]
      /\ BytesSEND' = [BytesSEND EXCEPT ![c] = counts.send]
      /\ posted' = [posted EXCEPT ![c] = IF more THEN "WSASend" ELSE "WSARecv"]
      /\ UNCHANGED <<connection, sentIn, echoed, receivedFrom, allocated, completions, accepted,
                     failed>>

\* closesocket, WSASend or WSARecv fails: the worker returns.
WorkerReturns(w) ==
  /\ Goto(w, "handle", "ended") /\ Fail
  /\ UNCHANGED <<connection, sentIn, echoed, receivedFrom, allocated, io, posted, completions,
                 accepted, held>>

WorkerStep(w) ==
  \/ GetQueuedCompletionStatus(w)
  \/ \E c \in Client : Close(w, c) \/ \E n \in 1 .. DATA_BUFSIZE : PostNext(w, c, n)

Next ==
  \/ \E c \in Client : \/ Connect(c) \/ Send(c) \/ Disconnect(c)
                       \/ RecvCompletes(c) \/ SendCompletes(c) \/ OperationFails(c)
  \/ MainStep \/ MainReturns
  \/ \E w \in Worker : WorkerStep(w) \/ WorkerReturns(w)

(* Threads run on and the network completes what it can; nothing has to    *)
(* fail, and clients need not do anything.                                 *)
Fairness ==
  /\ WF_winsockVars(MainStep)
  /\ \A w \in Worker : WF_winsockVars(WorkerStep(w))
  /\ \A c \in Client : WF_winsockVars(Network(c))

Spec == Init /\ [][Next]_winsockVars /\ Fairness

-----------------------------------------------------------------------------
TypeOK ==
  /\ connection \in [Client -> {"none", "backlog", "open", "closed", "gone"}]
  /\ \A c \in Client : receivedFrom[c] \in 0 .. sentIn[c] /\ sentIn[c] \in 0 .. MaxBytes[c]
  /\ allocated \in [Client -> BOOLEAN]
  /\ BytesRECV \in [Client -> 0 .. DATA_BUFSIZE] /\ BytesSEND \in [Client -> 0 .. DATA_BUFSIZE]
  /\ posted \in [Client -> {"none", "WSARecv", "WSASend"}]
  /\ completions \in Seq(Client \X (Failure .. DATA_BUFSIZE))
  /\ accepted \in Client \cup {NoClient}
  /\ held \in [Worker -> (Client \cup {NoClient}) \X (Failure .. DATA_BUFSIZE)]
  /\ winsockPc \in [Worker \cup {Main} -> {"wait", "post", "handle", "ended"}]
  /\ failed \in 0 .. MaxFailures

(* A client gets back a beginning of what it sent, each byte once, however *)
(* its bytes are cut into receives and sends.                              *)
EchoInOrder ==
  \A c \in Client :
    /\ Len(echoed[c]) <= receivedFrom[c]
    /\ \A i \in 1 .. Len(echoed[c]) : echoed[c][i] = i

(* The data of a client is with one operation, one completion or one       *)
(* worker, and with none when it has been freed.                           *)
Holders(c) ==
  Cardinality({w \in Worker : held[w][1] = c}) + Cardinality({i \in DOMAIN completions :
    completions[i][1] = c}) + (IF posted[c] = "none" THEN 0 ELSE 1)
OneHolder == \A c \in Client : Holders(c) = IF allocated[c] THEN 1 ELSE 0

(* As long as c stays connected, all that it has sent comes back, unless   *)
(* the main thread or every worker has returned, or one has with c's data. *)
ServerGone(c) ==
  \/ ~Running \/ \A w \in Worker : winsockPc[w] = "ended"
  \/ \E w \in Worker : winsockPc[w] = "ended" /\ held[w][1] = c
ComesBack(c) ==
  connection[c] = "open" /\ Len(echoed[c]) < sentIn[c] ~>
    Len(echoed[c]) = sentIn[c] \/ connection[c] # "open" \/ ServerGone(c)
=============================================================================
