----------------------------- MODULE ServerIOCP -----------------------------
(***************************************************************************)
(* The echo server of IOCP/ServerIOCP: a thread that accepts connections   *)
(* and posts the first receive of each, worker threads that take           *)
(* completions from a completion port and post the next operation, and the *)
(* main thread, which shuts all of them down.  Every client has one        *)
(* CClientContext with one OVERLAPPED, so that it must never have two      *)
(* operations.  A worker owns the context from the completion it takes to  *)
(* the operation it posts, which is one step.  An accept() that fails adds *)
(* a context and removes it again, and is no step here.  The bytes that a  *)
(* client sends are numbered; 0 is a byte from behind the message.         *)
(***************************************************************************)
EXTENDS Integers, SequencesExt

CONSTANTS
  Client, Worker, NoClient,
  MAX_BUFFER_LEN,
  Workloads,     \* bound: which clients come, and how many bytes each sends
  MaxFailures    \* bound: calls that fail

ServerAssumption ==
  /\ NoClient \notin Client /\ IsFiniteSet(Worker)
  /\ MAX_BUFFER_LEN \in Nat \ {0} /\ MaxFailures \in Nat
  /\ \A plan \in Workloads : DOMAIN plan \subseteq Client /\ \A c \in DOMAIN plan : plan[c] \in Nat

VARIABLES
  workload,
  connection, sentIn, echoed,   \* the clients' side: what each sent and got back
  receivedFrom,          \* bytes received from each client
  context,           \* nOpCode, nTotalBytes, nSentBytes, and m_pwbuf: buf and len
  pending,           \* the overlapped operation in progress
  clientList,        \* g_ClientContext
  packets,           \* what is queued at the completion port
  shutdownEvent,     \* g_hShutdownEvent
  accepted,          \* the client AcceptConnection is about
  packet,            \* what each worker got and still has to deal with
  acceptPc, workerPc, mainPc,
  failures,
  split              \* history: clients one of whose messages took a third send

clients == <<workload, connection, sentIn, echoed>>
port == <<receivedFrom, context, pending, packets>>
pcs == <<acceptPc, workerPc, mainPc>>
history == <<failures, split>>
serverVars == <<clients, port, clientList, shutdownEvent, accepted, packet, pcs, history>>

NewContext == [op |-> "OP_READ", total |-> 0, sent |-> 0, buf |-> 0, len |-> MAX_BUFFER_LEN]
ShutdownPacket == <<NoClient, 0>>

Init ==
  /\ workload \in Workloads
  /\ connection = [c \in Client |-> "none"] /\ sentIn = [c \in Client |-> 0]
  /\ echoed = [c \in Client |-> <<>>] /\ receivedFrom = [c \in Client |-> 0]
  /\ context = [c \in Client |-> NewContext]
  /\ pending = [c \in Client |-> "none"]
  /\ clientList = <<>> /\ packets = <<>> /\ shutdownEvent = FALSE
  /\ accepted = NoClient /\ packet = [w \in Worker |-> ShutdownPacket]
  /\ acceptPc = "check" /\ workerPc = [w \in Worker |-> "check"] /\ mainPc = "running"
  /\ failures = 0 /\ split = {}

Fail == failures < MaxFailures /\ failures' = failures + 1
WorkerGoto(w, from, to) == workerPc[w] = from /\ workerPc' = [workerPc EXCEPT ![w] = to]
                           /\ UNCHANGED <<acceptPc, mainPc>>
AcceptGoto(from, to) == acceptPc = from /\ acceptPc' = to /\ UNCHANGED <<workerPc, mainPc>>
MainGoto(from, to) == mainPc = from /\ mainPc' = to /\ UNCHANGED <<workerPc, acceptPc>>

-----------------------------------------------------------------------------
(* The clients and the network                                             *)
Connect(c) ==
  /\ c \in DOMAIN workload
  /\ connection[c] = "none" /\ connection' = [connection EXCEPT ![c] = "backlog"]
  /\ UNCHANGED <<workload, sentIn, echoed, port, clientList, shutdownEvent, accepted, packet, pcs, history>>

Send(c) ==
  /\ connection[c] = "open" /\ sentIn[c] < workload[c]
  /\ sentIn' = [sentIn EXCEPT ![c] = @ + 1]
  /\ UNCHANGED <<workload, connection, echoed, port, clientList, shutdownEvent, accepted, packet, pcs, history>>

Disconnect(c) ==
  /\ connection[c] = "open" /\ connection' = [connection EXCEPT ![c] = "closed"]
  /\ UNCHANGED <<workload, sentIn, echoed, port, clientList, shutdownEvent, accepted, packet, pcs, history>>

\* A completion: n bytes, or none if the client has closed the connection.
Complete(c, operation, n) ==
  /\ pending[c] = operation /\ pending' = [pending EXCEPT ![c] = "none"]
  /\ n = 0 => connection[c] = "closed"
  /\ packets' = Append(packets, <<c, n>>)
  /\ UNCHANGED <<workload, connection, sentIn, context, clientList, shutdownEvent, accepted, packet, pcs, history>>

RecvCompletes(c) ==
  \E n \in 0 .. context[c].len :
    /\ n <= sentIn[c] - receivedFrom[c]
    /\ Complete(c, "WSARecv", n)
    /\ receivedFrom' = [receivedFrom EXCEPT ![c] = @ + n]
    /\ UNCHANGED echoed

\* The i-th byte that m_pwbuf->buf points to.
BufferByte(c, i) ==
  LET k == context[c].buf + i
  IN  IF k <= context[c].total THEN receivedFrom[c] - context[c].total + k ELSE 0

SendCompletes(c) ==
  \E n \in 0 .. context[c].len :
    /\ Complete(c, "WSASend", n)
    /\ echoed' = [echoed EXCEPT ![c] = @ \o [i \in 1 .. n |-> BufferByte(c, i)]]
    /\ UNCHANGED receivedFrom

-----------------------------------------------------------------------------
(* AcceptThread                                                            *)
AcceptCheck ==
  /\ AcceptGoto("check", IF shutdownEvent THEN "ended" ELSE "wait")
  /\ UNCHANGED <<clients, port, clientList, shutdownEvent, accepted, packet, history>>

AcceptTimeout ==
  /\ AcceptGoto("wait", "check") /\ \A c \in Client : connection[c] # "backlog"
  /\ UNCHANGED <<clients, port, clientList, shutdownEvent, accepted, packet, history>>

AcceptConnection(c) ==
  /\ AcceptGoto("wait", "post") /\ accepted' = c
  /\ connection[c] = "backlog" /\ connection' = [connection EXCEPT ![c] = "open"]
  /\ clientList' = Append(clientList, c)
  /\ UNCHANGED <<workload, sentIn, echoed, port, shutdownEvent, packet, history>>

PostInitialRecv ==
  /\ AcceptGoto("post", "check") /\ accepted' = NoClient
  /\ context' = [context EXCEPT ![accepted].op = "OP_WRITE"]
  /\ \/ pending' = [pending EXCEPT ![accepted] = "WSARecv"] /\ UNCHANGED failures
     \/ Fail /\ UNCHANGED pending    \* "Error in Initial Post."
  /\ UNCHANGED <<clients, receivedFrom, clientList, packets, shutdownEvent, packet, split>>

\* RemoveFromClientListAndFreeMemory: the first entry that is c is erased.
Erase(c) ==
  \/ c \notin ToSet(clientList) /\ UNCHANGED clientList
  \/ \E i \in DOMAIN clientList :
       /\ clientList[i] = c /\ c \notin ToSet(SubSeq(clientList, 1, i - 1))
       /\ clientList' = RemoveAt(clientList, i)

\* Fault: the receive is posted all the same.
AssociateFailsUnnoticed ==
  /\ AcceptGoto("post", "check") /\ accepted' = NoClient /\ Fail
  /\ Erase(accepted)
  /\ connection' = [connection EXCEPT ![accepted] = "closed"]
  /\ pending' = [pending EXCEPT ![accepted] = "WSARecv"]
  /\ UNCHANGED <<workload, sentIn, echoed, receivedFrom, context, packets, shutdownEvent, packet, split>>

AssociateFails ==
  /\ AcceptGoto("post", "check") /\ accepted' = NoClient /\ Fail
  /\ Erase(accepted)
  /\ connection' = [connection EXCEPT ![accepted] = "closed"]
  /\ UNCHANGED <<workload, sentIn, echoed, port, shutdownEvent, packet, split>>

-----------------------------------------------------------------------------
(* WorkerThread                                                            *)
WorkerCheck(w) ==
  /\ WorkerGoto(w, "check", IF shutdownEvent THEN "ended" ELSE "wait")
  /\ UNCHANGED <<clients, port, clientList, shutdownEvent, accepted, packet, history>>

AfterPacket(p) ==
  CASE p = ShutdownPacket -> "ended"
    [] p # ShutdownPacket /\ p[2] = 0 -> "remove"
    [] OTHER -> "handle"

GetQueuedCompletionStatus(w) ==
  /\ packets # <<>>
  /\ WorkerGoto(w, "wait", AfterPacket(Head(packets)))
  /\ packet' = [packet EXCEPT ![w] = Head(packets)] /\ packets' = Tail(packets)
  /\ UNCHANGED <<clients, receivedFrom, context, pending, clientList, shutdownEvent, accepted, history>>

\* The context changes, and then the operation is posted or cannot be.
Post(w, operation, ctx) ==
  LET c == packet[w][1]
  IN  /\ context' = [context EXCEPT ![c] = ctx]
      /\ \/ /\ WorkerGoto(w, "handle", "check") /\ UNCHANGED failures
            /\ pending' = [pending EXCEPT ![c] = operation]
            /\ packet' = [packet EXCEPT ![w] = ShutdownPacket]
         \/ /\ WorkerGoto(w, "handle", "remove") /\ Fail
            /\ UNCHANGED <<pending, packet>>
      /\ UNCHANGED <<clients, receivedFrom, clientList, packets, shutdownEvent, accepted>>

\* Fault: the whole buffer is sent back.
EchoWholeBuffer(w) ==
  LET c == packet[w][1]  n == packet[w][2]
  IN  /\ workerPc[w] = "handle" /\ context[c].op = "OP_WRITE"
      /\ Post(w, "WSASend", [op |-> "OP_READ", total |-> n, sent |-> 0,
                             buf |-> context[c].buf, len |-> MAX_BUFFER_LEN])
      /\ UNCHANGED split

EchoReceived(w) ==
  LET c == packet[w][1]  n == packet[w][2]
  IN  /\ workerPc[w] = "handle" /\ context[c].op = "OP_WRITE"
      /\ Post(w, "WSASend", [op |-> "OP_READ", total |-> n, sent |-> 0,
                             buf |-> context[c].buf, len |-> n])
      /\ UNCHANGED split

\* Fault: what is left is not sent.
SendNoRest(w) ==
  LET c == packet[w][1]  ctx == context[c]  sent == ctx.sent + packet[w][2]
  IN  /\ workerPc[w] = "handle" /\ ctx.op = "OP_READ" /\ sent < ctx.total
      /\ Post(w, "WSARecv", [ctx EXCEPT !.op = "OP_WRITE", !.sent = sent, !.buf = 0,
                                        !.len = MAX_BUFFER_LEN])
      /\ UNCHANGED split

\* The position moves by all the bytes sent, not by those sent last.
SendRest(w) ==
  LET c == packet[w][1]  ctx == context[c]  sent == ctx.sent + packet[w][2]
  IN  /\ workerPc[w] = "handle" /\ ctx.op = "OP_READ" /\ sent < ctx.total
      /\ Post(w, "WSASend", [ctx EXCEPT !.sent = sent, !.buf = @ + sent, !.len = ctx.total - sent])
      /\ split' = IF ctx.sent > 0 THEN split \cup {c} ELSE split

ReceiveNext(w) ==
  LET c == packet[w][1]  ctx == context[c]  sent == ctx.sent + packet[w][2]
  IN  /\ workerPc[w] = "handle" /\ ctx.op = "OP_READ" /\ sent >= ctx.total
      /\ Post(w, "WSARecv", [ctx EXCEPT !.op = "OP_WRITE", !.sent = sent, !.buf = 0,
                                        !.len = MAX_BUFFER_LEN])
      /\ UNCHANGED split

\* RemoveFromClientListAndFreeMemory; the destructor waits for the operation.
RemoveClient(w) ==
  LET c == packet[w][1]
  IN  /\ WorkerGoto(w, "remove", "check")
      /\ pending[c] = "none"
      /\ Erase(c)
      /\ connection' = [connection EXCEPT ![c] = "closed"]
      /\ packet' = [packet EXCEPT ![w] = ShutdownPacket]
      /\ UNCHANGED <<workload, sentIn, echoed, port, shutdownEvent, accepted, history>>

-----------------------------------------------------------------------------
(* main: CleanUp                                                           *)
Shutdown ==
  /\ MainGoto("running", "waitAccept") /\ shutdownEvent' = TRUE
  /\ UNCHANGED <<clients, port, clientList, accepted, packet, history>>

\* Fault: one worker is forgotten.
WakeAllButOne ==
  /\ MainGoto("waitAccept", "waitWorkers") /\ acceptPc = "ended"
  /\ packets' = packets \o [i \in 1 .. Cardinality(Worker) - 1 |-> ShutdownPacket]
  /\ UNCHANGED <<clients, receivedFrom, context, pending, clientList, shutdownEvent, accepted, packet, history>>

WakeWorkers ==
  /\ MainGoto("waitAccept", "waitWorkers") /\ acceptPc = "ended"
  /\ packets' = packets \o [i \in 1 .. Cardinality(Worker) |-> ShutdownPacket]
  /\ UNCHANGED <<clients, receivedFrom, context, pending, clientList, shutdownEvent, accepted, packet, history>>

WorkersEnded ==
  /\ MainGoto("waitWorkers", "clean") /\ \A w \in Worker : workerPc[w] = "ended"
  /\ UNCHANGED <<clients, port, clientList, shutdownEvent, accepted, packet, history>>

\* CleanClientList, where the destructors wait again.
CleanClient ==
  /\ mainPc = "clean" /\ clientList # <<>> /\ pending[Head(clientList)] = "none"
  /\ clientList' = Tail(clientList)
  /\ connection' = [connection EXCEPT ![Head(clientList)] = "closed"]
  /\ UNCHANGED <<workload, sentIn, echoed, port, shutdownEvent, accepted, packet, pcs, history>>

ListCleaned ==
  /\ MainGoto("clean", "done") /\ clientList = <<>>
  /\ UNCHANGED <<clients, port, clientList, shutdownEvent, accepted, packet, history>>

AcceptStep ==
  \/ AcceptCheck \/ AcceptTimeout \/ PostInitialRecv \/ AssociateFails
  \/ \E c \in Client : AcceptConnection(c)
WorkerStep(w) ==
  \/ WorkerCheck(w) \/ GetQueuedCompletionStatus(w) \/ RemoveClient(w)
  \/ EchoReceived(w) \/ SendRest(w) \/ ReceiveNext(w)
MainStep == WakeWorkers \/ WorkersEnded \/ CleanClient \/ ListCleaned
Network(c) == RecvCompletes(c) \/ SendCompletes(c)

Next ==
  \/ \E c \in Client : Connect(c) \/ Send(c) \/ Disconnect(c) \/ Network(c)
  \/ AcceptStep \/ MainStep \/ Shutdown
  \/ \E w \in Worker : WorkerStep(w)

(***************************************************************************)
(* Threads run and the network delivers; a client need not do anything,    *)
(* and nobody need press the key that stops the server.                    *)
(***************************************************************************)
ServerFairness ==
  /\ WF_serverVars(AcceptStep) /\ WF_serverVars(MainStep)
  /\ \A w \in Worker : WF_serverVars(WorkerStep(w))
  /\ \A c \in Client : WF_serverVars(Network(c))

Spec == Init /\ [][Next]_serverVars /\ ServerFairness

-----------------------------------------------------------------------------
TypeOK ==
  /\ connection \in [Client -> {"none", "backlog", "open", "closed"}]
  /\ workload \in Workloads
  /\ \A c \in Client : receivedFrom[c] \in 0 .. sentIn[c]
  /\ \A c \in DOMAIN workload : sentIn[c] \in 0 .. workload[c]
  /\ echoed \in [Client -> Seq(Nat)]
  /\ context \in [Client -> [op : {"OP_READ", "OP_WRITE"}, total : Nat, sent : Nat,
                             buf : Nat, len : Nat]]
  /\ pending \in [Client -> {"none", "WSARecv", "WSASend"}]
  /\ split \subseteq Client \cup {NoClient} /\ clientList \in Seq(Client)
  /\ packets \in Seq((Client \cup {NoClient}) \X Nat)

(***************************************************************************)
(* A client's context is in one hand: it has at most one operation, or     *)
(* completion, or thread that works on it, and whoever still has to use it *)
(* finds it in the list, so that it has not been freed.                    *)
(***************************************************************************)
Users(c) ==
  (IF pending[c] # "none" \/ accepted = c THEN 1 ELSE 0)
  + Cardinality({i \in DOMAIN packets : packets[i][1] = c})
  + Cardinality({w \in Worker : workerPc[w] \in {"handle", "remove"} /\ packet[w][1] = c})

OneOperation ==
  \A c \in Client :
    /\ Users(c) <= 1
    /\ Users(c) = 1 /\ mainPc \notin {"clean", "done"} => c \in ToSet(clientList)

(***************************************************************************)
(* A client gets back what it sent, in order, also if a send completes in  *)
(* part.                                                                   *)
(***************************************************************************)
InOrder(c) == \A i \in DOMAIN echoed[c] : echoed[c][i] = i
EchoesMessage == \A c \in Client : InOrder(c)

(***************************************************************************)
(* A client gets back as many bytes as were received from it, a message    *)
(* before the next is received, and what it sent, in order, if each of its *)
(* messages was sent back in two parts at most.                            *)
(***************************************************************************)
EchoesShortSends ==
  \A c \in Client :
    /\ Len(echoed[c]) <= receivedFrom[c]
    /\ pending[c] = "WSARecv" => Len(echoed[c]) = receivedFrom[c]
    /\ c \notin split => InOrder(c)

(***************************************************************************)
(* What a client sends comes back as long as it stays and nothing fails    *)
(* and the server runs.                                                    *)
(***************************************************************************)
ComesBack(c) ==
  (connection[c] = "open" /\ Len(echoed[c]) < sentIn[c]) ~>
    (Len(echoed[c]) = sentIn[c] \/ connection[c] = "closed" \/ shutdownEvent \/ failures > 0)
MessagesComeBack == \A c \in Client : ComesBack(c)

(***************************************************************************)
(* Every thread ends once the event is set: one packet per worker is       *)
(* enough, whatever completions are queued before them.                    *)
(***************************************************************************)
ThreadsStop == mainPc = "waitAccept" ~> mainPc \in {"clean", "done"}
=============================================================================
