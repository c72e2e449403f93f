----------------------------- MODULE PutRequest -----------------------------
(***************************************************************************)
(* A PUT request that copies an entity body to a file: PUT_VERB_HANDLER    *)
(* and its CAsyncReader (TestIISLib/ASYNC_FILE_BUFFER_FACTORY.h), with the *)
(* driver that runs them (TestIISLib/TestBuffer.cpp).  A read may complete *)
(* in line or later, through an event and OnIoComplete; the creation of    *)
(* the file, reads, writes and allocations may fail.  PUT_VERB_HANDLER     *)
(* never keeps a buffer, so that ReleaseBuffer and the quota of kept       *)
(* buffers, which no other sink of the repository uses, do not occur.      *)
(* Bytes are numbered by their places in the input.                        *)
(***************************************************************************)
EXTENDS Integers, SequencesExt

CONSTANTS
  InputLengths,
  ReadSizes,     \* pairs of READBUFFERSIZE and g_ReadThisAmountForEachTime
  MaxFaults      \* bound: failures in a run

PutAssumption ==
  /\ InputLengths \subseteq Nat /\ MaxFaults \in Nat
  /\ ReadSizes \subseteq (Nat \ {0}) \X (Nat \ {0})

VARIABLES
  inputLength, sizes,    \* chosen once
  offset,                \* how far the input has been read
  g_simulateAsyncTask,   \* the next read is to complete later
  completionEvent,       \* g_EventAsyncCompletion
  received,              \* bytes of the last read; in g_CompletionInfo if pending
  buffer,                \* the valid bytes of the buffer in use, or NoBuffer
  pendingReadBuffer,     \* _PendingReadBuffer points to it
  liveBuffers,           \* buffers allocated and not freed
  done, eof,             \* _Done and _EOF
  fileOpen, output,      \* the output file: whether open, and its bytes
  fileLength, g_OutPutFileLength,
  status,
  faults,
  putPc

NoBuffer == <<0>>
input == [i \in 1 .. inputLength |-> i]

choices == <<inputLength, sizes>>
environment == <<offset, g_simulateAsyncTask, completionEvent, received>>
reader == <<buffer, pendingReadBuffer, liveBuffers, done, eof>>
file == <<fileOpen, output, fileLength, g_OutPutFileLength>>
putVars == <<choices, environment, reader, file, status, faults, putPc>>

Init ==
  /\ inputLength \in InputLengths /\ sizes \in ReadSizes
  /\ offset = 0 /\ g_simulateAsyncTask \in BOOLEAN
  /\ completionEvent = FALSE /\ received = <<>>
  /\ buffer = NoBuffer /\ pendingReadBuffer = FALSE /\ liveBuffers = 0
  /\ done = FALSE /\ eof = FALSE
  /\ fileOpen = FALSE /\ output = <<>> /\ fileLength = 0 /\ g_OutPutFileLength = 0
  /\ status = "NONE" /\ faults = 0
  /\ putPc = "execute"

Fault == faults < MaxFaults /\ faults' = faults + 1
Goto(from, to) == putPc = from /\ putPc' = to

-----------------------------------------------------------------------------
\* DoCreateFile answers S_FALSE if it fails, which counts as success.
Execute ==
  /\ Goto("execute", "startRead")
  /\ \/ fileOpen' = TRUE /\ UNCHANGED faults
     \/ Fault /\ UNCHANGED fileOpen
  /\ UNCHANGED <<choices, environment, reader, output, fileLength, g_OutPutFileLength, status>>

\* Fault: the buffer that waits to be filled is left behind.
StartReadAfresh ==
  /\ Goto("startRead", "loop")
  /\ pendingReadBuffer' = FALSE /\ buffer' = NoBuffer
  /\ UNCHANGED <<choices, environment, liveBuffers, done, eof, file, status, faults>>

StartRead ==
  /\ Goto("startRead", "loop")
  /\ pendingReadBuffer' = FALSE
  /\ UNCHANGED <<choices, environment, buffer, liveBuffers, done, eof, file, status, faults>>

AllocateBuffer ==
  /\ Goto("loop", "read") /\ buffer = NoBuffer
  /\ buffer' = <<>> /\ liveBuffers' = liveBuffers + 1
  /\ UNCHANGED <<choices, environment, pendingReadBuffer, done, eof, file, status, faults>>

KeepBuffer ==
  /\ Goto("loop", "read") /\ buffer # NoBuffer
  /\ UNCHANGED <<choices, environment, reader, file, status, faults>>

\* OnReadError: Cleanup closes the file.
CloseFile == fileOpen' = FALSE /\ g_OutPutFileLength' = fileLength

NoMemory ==
  /\ Goto("loop", "done") /\ buffer = NoBuffer /\ Fault
  /\ done' = TRUE /\ status' = "FINISH_REQUEST"
  /\ CloseFile
  /\ UNCHANGED <<choices, environment, buffer, pendingReadBuffer, liveBuffers, eof, output, fileLength>>

\* ReadEntityBody: at most g_ReadThisAmountForEachTime bytes, as many as the
\* buffer has room for and the file has left; a failure to read answers
\* S_FALSE with no bytes.
ReadAmount ==
  LET room == sizes[1] - Len(buffer)  left == inputLength - offset
  IN  CHOOSE n \in {sizes[2], room, left} : n <= sizes[2] /\ n <= room /\ n <= left

\* EOF is an error, so that StartRead undoes what it set up for a read that is
\* pending, and goes on in line.
Pending(bytes, failed) == g_simulateAsyncTask /\ (bytes # <<>> \/ failed)

ReadEntityBody ==
  \E failed \in BOOLEAN :
    LET bytes == IF failed THEN <<>> ELSE SubSeq(input, offset + 1, offset + ReadAmount)
    IN  /\ IF failed THEN Fault ELSE UNCHANGED faults
        /\ received' = bytes /\ offset' = offset + Len(bytes)
        /\ completionEvent' = (completionEvent \/ g_simulateAsyncTask)
        /\ g_simulateAsyncTask' = FALSE
        /\ pendingReadBuffer' = Pending(bytes, failed)
        /\ Goto("read", IF Pending(bytes, failed) THEN "waiting" ELSE "received")
        /\ status' = IF Pending(bytes, failed) THEN "PENDING" ELSE status
        /\ UNCHANGED <<choices, buffer, liveBuffers, done, eof, file>>

\* What is received is added to the buffer, which goes to the file once it is
\* full or the input ends.
Receive(from, notFull) ==
  /\ putPc = from
  /\ buffer' = buffer \o received
  /\ eof' = (eof \/ received = <<>>) /\ done' = (done \/ received = <<>>)
  /\ putPc' = IF Len(buffer') = sizes[1] \/ done' THEN "data" ELSE notFull

ReceiveInLine ==
  /\ Receive("received", "loop")
  /\ UNCHANGED <<choices, environment, pendingReadBuffer, liveBuffers, file, status, faults>>

\* The driver waits for the event and calls OnAsyncCompletion.  A buffer that
\* is not full stays _PendingReadBuffer, where StartRead finds it.
OnIoComplete ==
  /\ completionEvent /\ completionEvent' = FALSE
  /\ Receive("waiting", "startRead")
  /\ pendingReadBuffer' = (pendingReadBuffer /\ putPc' # "data")
  /\ UNCHANGED <<choices, offset, g_simulateAsyncTask, received, liveBuffers, file, status, faults>>

FreeBuffer == buffer' = NoBuffer /\ liveBuffers' = liveBuffers - 1

\* OnReadData, and what StartRead and OnIoComplete make of its answer: the end
\* of the input is reported whatever the answer was.
OnReadData ==
  /\ putPc = "data"
  /\ \E written \in BOOLEAN :
       /\ IF written \/ ~fileOpen THEN UNCHANGED faults ELSE Fault
       /\ written => fileOpen
       /\ output' = IF written THEN output \o buffer ELSE output
       /\ fileLength' = IF written THEN fileLength + Len(buffer) ELSE fileLength
       /\ done' = (done \/ ~written)
       /\ CASE eof -> /\ fileOpen' = FALSE /\ g_OutPutFileLength' = fileLength'
                      /\ putPc' = "done" /\ status' = "CONTINUE"
            [] ~eof /\ written -> /\ putPc' = "startRead" /\ status' = "CONTINUE"
                                  /\ UNCHANGED <<fileOpen, g_OutPutFileLength>>
            [] OTHER -> /\ putPc' = "done" /\ status' = "FINISH_REQUEST"
                        /\ UNCHANGED <<fileOpen, g_OutPutFileLength>>
  /\ FreeBuffer
  /\ UNCHANGED <<choices, environment, pendingReadBuffer, eof>>

PutStep ==
  \/ Execute \/ StartRead \/ AllocateBuffer \/ KeepBuffer \/ NoMemory
  \/ ReadEntityBody \/ ReceiveInLine \/ OnIoComplete \/ OnReadData

Next == PutStep \/ (putPc = "done" /\ UNCHANGED putVars)

Spec == Init /\ [][Next]_putVars /\ WF_putVars(PutStep)

-----------------------------------------------------------------------------
TypeOK ==
  /\ offset \in 0 .. inputLength /\ liveBuffers \in Nat
  /\ received \in Seq(Nat) /\ buffer \in Seq(Nat) /\ output \in Seq(Nat)
  /\ fileLength \in Nat /\ g_OutPutFileLength \in Nat /\ faults \in 0 .. MaxFaults

(***************************************************************************)
(* Whatever fails, the file holds the beginning of the input: no byte is   *)
(* left out, none is there twice, also when a read completed later into a  *)
(* buffer that other reads go on filling.                                  *)
(***************************************************************************)
OutputIsPrefix == IsPrefix(output, input) /\ (~fileOpen \/ fileLength = Len(output))

(***************************************************************************)
(* There is one buffer at a time, the one in use, and none is left when    *)
(* the request is over.                                                    *)
(***************************************************************************)
OneBuffer ==
  /\ liveBuffers = IF buffer = NoBuffer THEN 0 ELSE 1
  /\ putPc = "done" => buffer = NoBuffer /\ ~pendingReadBuffer

(* A read that completes finds the buffer it was started with.             *)
CompletionFindsBuffer == putPc = "waiting" => pendingReadBuffer /\ buffer # NoBuffer

(***************************************************************************)
(* If nothing fails the whole input is copied and the test is told so.     *)
(***************************************************************************)
CleanRunCopies ==
  putPc = "done" /\ faults = 0 =>
    status = "CONTINUE" /\ output = input /\ g_OutPutFileLength = inputLength

(* The request comes to an end: nothing waits for an event that was taken. *)
Over == putPc = "done"
RequestEnds == <>Over
=============================================================================
