---------------------------- MODULE PartialSums ----------------------------
(***************************************************************************)
(* test_multi_threads of WinAPIMultithreadingSynchronization.cpp: worker   *)
(* threads compute one sum after the other, all of them the same one, and  *)
(* main goes on to the next range when it finds a sum.  What is done in    *)
(* the critical section is one step.  A sum is known by its range, and a   *)
(* range by the power of ten that it ends at.                              *)
(***************************************************************************)
EXTENDS Naturals

CONSTANTS
  Summer,   \* the threads, one less than there are processors
  size      \* how many sums

SumsAssumption == Summer # {} /\ size \in Nat \ {0}

VARIABLES
  m_sum, m_current_idx, m_end, m_bRun,
  bRun,             \* what a thread has read of m_bRun and writes back
  idx, end, sum,    \* its local variables
  sumsPc, sumsMainPc

shared == <<m_sum, m_current_idx, m_end>>
locals == <<idx, end, sum>>
sumsVars == <<shared, m_bRun, bRun, locals, sumsPc, sumsMainPc>>

NoSum == 0

Init ==
  /\ m_sum = [i \in 0 .. size - 1 |-> NoSum] /\ m_current_idx = 0 /\ m_end = 1
  /\ m_bRun = TRUE /\ bRun = [t \in Summer |-> FALSE]
  /\ idx = [t \in Summer |-> 0] /\ end = [t \in Summer |-> 0] /\ sum = [t \in Summer |-> NoSum]
  /\ sumsPc = [t \in Summer |-> "read"] /\ sumsMainPc = "look"

Goto(t, from, to) ==
  sumsPc[t] = from /\ sumsPc' = [sumsPc EXCEPT ![t] = to] /\ UNCHANGED sumsMainPc

\* InterlockedExchange(&m_bRun, m_bRun): the argument is read before the
\* exchange, which writes it back.
ReadRun(t) ==
  /\ Goto(t, "read", "exchange")
  /\ bRun' = [bRun EXCEPT ![t] = m_bRun]
  /\ UNCHANGED <<shared, m_bRun, locals>>

ExchangeRun(t) ==
  /\ Goto(t, "exchange", IF m_bRun THEN "enter" ELSE "ended")
  /\ m_bRun' = bRun[t]
  /\ UNCHANGED <<shared, bRun, locals>>

\* Behind the last sum a thread ends, whatever m_bRun is.
Enter(t) ==
  LET i == m_current_idx
  IN  /\ \/ /\ i < size /\ Goto(t, "enter", "store")
            /\ idx' = [idx EXCEPT ![t] = i] /\ end' = [end EXCEPT ![t] = m_end]
            /\ sum' = [sum EXCEPT ![t] = m_sum[i]]
         \/ i >= size /\ Goto(t, "enter", "ended") /\ UNCHANGED locals
      /\ UNCHANGED <<shared, m_bRun, bRun>>

\* Outside of the critical section: the sum may be there by now, and main on
\* its way.
Store(t) ==
  /\ Goto(t, "store", "read")
  /\ m_sum' = IF sum[t] = NoSum THEN [m_sum EXCEPT ![idx[t]] = end[t]] ELSE m_sum
  /\ UNCHANGED <<m_current_idx, m_end, m_bRun, bRun, locals>>

\* main looks for the current sum, and once more when it has slept.
NextRange ==
  LET i == m_current_idx + 1
  IN  /\ sumsMainPc = "look" /\ m_sum[m_current_idx] # NoSum
      /\ m_current_idx' = i
      /\ \/ /\ i < size /\ m_sum' = [m_sum EXCEPT ![i] = NoSum] /\ m_end' = i + 1
            /\ UNCHANGED <<m_bRun, sumsMainPc>>
         \/ /\ i = size /\ m_bRun' = FALSE /\ sumsMainPc' = "join"
            /\ UNCHANGED <<m_sum, m_end>>
      /\ UNCHANGED <<bRun, locals, sumsPc>>

Join ==
  /\ sumsMainPc = "join" /\ \A t \in Summer : sumsPc[t] = "ended"
  /\ sumsMainPc' = "over"
  /\ UNCHANGED <<shared, m_bRun, bRun, locals, sumsPc>>

SummerStep(t) == ReadRun(t) \/ ExchangeRun(t) \/ Enter(t) \/ Store(t)
SumsMainStep == NextRange \/ Join

Next == (\E t \in Summer : SummerStep(t)) \/ SumsMainStep

Spec ==
  /\ Init /\ [][Next]_sumsVars
  /\ \A t \in Summer : WF_sumsVars(SummerStep(t))
  /\ WF_sumsVars(SumsMainStep)

-----------------------------------------------------------------------------
TypeOK ==
  /\ m_sum \in [0 .. size - 1 -> 0 .. size]
  /\ m_current_idx \in 0 .. size /\ m_end \in 1 .. size /\ m_bRun \in BOOLEAN
  /\ bRun \in [Summer -> BOOLEAN] /\ idx \in [Summer -> 0 .. size - 1]

(***************************************************************************)
(* A sum is the one of its own range, though threads that were late store  *)
(* theirs when main has gone on to another range, and those that main has  *)
(* gone past are there.                                                    *)
(***************************************************************************)
SumsRight ==
  \A i \in 0 .. size - 1 :
    /\ m_sum[i] \in {NoSum, i + 1}
    /\ i < m_current_idx => m_sum[i] # NoSum

(***************************************************************************)
(* The end of the program, to which it comes although a thread may write   *)
(* m_bRun back as it was before main set it to FALSE, and the others go on *)
(* then.                                                                   *)
(***************************************************************************)
Over == sumsMainPc = "over"
=============================================================================
