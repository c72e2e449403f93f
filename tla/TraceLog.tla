------------------------------- MODULE TraceLog -------------------------------
(***************************************************************************)
(* The trace log of tracelog.c, in which reftrace.c keeps the history of   *)
(* reference counts: a ring of entries that threads write without a lock.  *)
(* A thread takes a slot with one InterlockedIncrement and then copies its *)
(* entry into it, a cell at a time; a reset zeroes the log a cell at a     *)
(* time, while others write; a debugger looks at the memory.  The counter  *)
(* wraps at 2^32 (CounterModulus).  Memory is what lies behind the         *)
(* TRACE_LOG structure: the extra header bytes, then the entries.  Entries *)
(* are numbered as they are started; 0 is a cell that was zeroed.          *)
(***************************************************************************)
EXTENDS Integers, FiniteSets, SequencesExt

CONSTANTS
  Thread,
  LogSizes, EntrySizes, ExtraSizes,   \* the arguments of CreateTraceLog
  HeaderSize,                         \* sizeof(TRACE_LOG)
  CounterModulus, SizeModulus,        \* 2^32, for the counter and for sizes
  MaxEntries, MaxResets               \* bounds: entries written, resets

TraceLogAssumption ==
  /\ LogSizes \subseteq Nat \ {0} /\ EntrySizes \subseteq Nat \ {0} /\ ExtraSizes \subseteq Nat
  /\ HeaderSize \in Nat \ {0} /\ {CounterModulus, SizeModulus} \subseteq Nat \ {0}
  /\ MaxEntries \in Nat /\ MaxResets \in Nat

VARIABLES
  LogSize, EntrySize, ExtraBytesInHeader,
  NextEntry, memory,
  index, entry,                     \* per thread: the slot and the entry it writes
  copied, logPc,                    \* per thread: the cells it has copied or zeroed
  started, resets,
  latest,      \* history: the last entry that took each slot, since a reset
  disturbed,   \* history: slots taken during a copy or ahead of a reset, or
               \* copied to when a reset began
  order        \* history: the slots taken since a reset

logVars == <<LogSize, EntrySize, ExtraBytesInHeader, NextEntry, memory, index, entry, copied,
             logPc, started, resets, latest, disturbed, order>>
sizes == <<LogSize, EntrySize, ExtraBytesInHeader>>

(* What CreateTraceLog allocates behind the structure, or -1 if it refuses *)
(* the sizes.                                                              *)
Allocated(n, extra, size) ==
  LET total == n * size + HeaderSize + extra
  IN  IF \/ n * size >= SizeModulus                 \* ULongMult
         \/ HeaderSize + extra >= SizeModulus       \* ULongAdd
         \/ total >= SizeModulus                    \* ULongAdd
         \/ total >= SizeModulus \div 2             \* 0x7FFFFFFF
      THEN -1 ELSE total - HeaderSize

Slots == 0 .. LogSize - 1

Init ==
  /\ LogSize \in LogSizes /\ EntrySize \in EntrySizes /\ ExtraBytesInHeader \in ExtraSizes
  /\ NextEntry = CounterModulus - 1     \* -1
  /\ memory = [c \in 0 .. Allocated(LogSize, ExtraBytesInHeader, EntrySize) - 1 |-> 0]
  /\ index = [t \in Thread |-> 0] /\ entry = [t \in Thread |-> 0]
  /\ copied = [t \in Thread |-> 0]
  /\ logPc = [t \in Thread |->
                IF Allocated(LogSize, ExtraBytesInHeader, EntrySize) = -1 THEN "noLog" ELSE "idle"]
  /\ started = 0 /\ resets = 0
  /\ latest = [s \in Slots |-> 0] /\ disturbed = {} /\ order = <<>>

LogGoto(t, from, to) == logPc[t] = from /\ logPc' = [logPc EXCEPT ![t] = to]

Copying == {t \in Thread : logPc[t] = "copy"}
Zeroing == {t \in Thread : logPc[t] = "zero"}

(* A reset zeroes as many bytes as the entries have, but from the extra    *)
(* header on.  A slot is ahead of it as long as it has still to zero one   *)
(* of the slot's cells.                                                    *)
Zeroed == 0 .. LogSize * EntrySize - 1
CellsOf(s) == {ExtraBytesInHeader + s * EntrySize + i : i \in 0 .. EntrySize - 1}
Ahead(t, s) == \E c \in CellsOf(s) : c \in Zeroed /\ c >= copied[t]
AheadOfReset(s) == \E t \in Zeroing : Ahead(t, s)

-----------------------------------------------------------------------------
\* Fault: the remainder of a LONG, which is negative in the upper half.
IndexOfSigned(counter) ==
  IF counter < CounterModulus \div 2 THEN counter % LogSize
  ELSE -((CounterModulus - counter) % LogSize)

IndexOf(counter) == counter % LogSize

\* WriteTraceLog: InterlockedIncrement
TakeSlot(t) ==
  LET counter == (NextEntry + 1) % CounterModulus
      slot == IndexOf(counter)
  IN  /\ LogGoto(t, "idle", "copy")
      /\ started < MaxEntries /\ started' = started + 1
      /\ NextEntry' = counter
      /\ index' = [index EXCEPT ![t] = slot]
      /\ entry' = [entry EXCEPT ![t] = started + 1]
      /\ copied' = [copied EXCEPT ![t] = 0]
      /\ latest' = [latest EXCEPT ![slot] = started + 1]
      /\ disturbed' = IF AheadOfReset(slot) \/ \E o \in Copying : index[o] = slot
                      THEN disturbed \cup {slot} ELSE disturbed \ {slot}
      /\ order' = Append(order, slot)
      /\ UNCHANGED <<sizes, memory, resets>>

Target(t) == ExtraBytesInHeader + index[t] * EntrySize + copied[t]

\* WriteTraceLog: RtlCopyMemory, one cell of it
CopyCell(t) ==
  /\ LogGoto(t, "copy", IF copied[t] + 1 = EntrySize THEN "idle" ELSE "copy")
  /\ memory' = [memory EXCEPT ![Target(t)] = entry[t]]
  /\ copied' = [copied EXCEPT ![t] = @ + 1]
  /\ UNCHANGED <<sizes, NextEntry, index, entry, started, resets, latest, disturbed, order>>

(* ResetTraceLog, RtlZeroMemory: it begins, and goes on one cell a time.   *)
ResetTraceLog(t) ==
  /\ LogGoto(t, "idle", "zero") /\ resets < MaxResets /\ resets' = resets + 1
  /\ copied' = [copied EXCEPT ![t] = 0]
  /\ latest' = [s \in Slots |-> 0]
  /\ disturbed' = {index[o] : o \in Copying}
  /\ UNCHANGED <<sizes, NextEntry, memory, index, entry, started, order>>

ZeroCell(t) ==
  /\ LogGoto(t, "zero", IF copied[t] + 1 \in Zeroed THEN "zero" ELSE "reset")
  /\ memory' = [memory EXCEPT ![copied[t]] = 0]
  /\ copied' = [copied EXCEPT ![t] = @ + 1]
  /\ UNCHANGED <<sizes, NextEntry, index, entry, started, resets, latest, disturbed, order>>

ResetCounter(t) ==
  /\ LogGoto(t, "reset", "idle") /\ NextEntry' = CounterModulus - 1 /\ order' = <<>>
  /\ UNCHANGED <<sizes, memory, index, entry, copied, started, resets, latest, disturbed>>

Next == \E t \in Thread : TakeSlot(t) \/ CopyCell(t)
                          \/ ResetTraceLog(t) \/ ZeroCell(t) \/ ResetCounter(t)

Spec == Init /\ [][Next]_logVars

-----------------------------------------------------------------------------
TypeOK ==
  /\ LogSize \in LogSizes /\ EntrySize \in EntrySizes /\ ExtraBytesInHeader \in ExtraSizes
  /\ NextEntry \in 0 .. CounterModulus - 1
  /\ memory \in [DOMAIN memory -> 0 .. MaxEntries]
  /\ index \in [Thread -> Slots] /\ entry \in [Thread -> 0 .. MaxEntries]
  /\ copied \in [Thread -> 0 .. LogSize * EntrySize]
  /\ logPc \in [Thread -> {"noLog", "idle", "copy", "zero", "reset"}]
  /\ started \in 0 .. MaxEntries /\ resets \in 0 .. MaxResets
  /\ latest \in [Slots -> 0 .. MaxEntries] /\ disturbed \subseteq Slots
  /\ order \in Seq(Slots)

(* WriteTraceLog writes inside the entries that CreateTraceLog allocated,  *)
(* whatever the sizes are and however often the counter has wrapped.       *)
WritesInside ==
  \A t \in Copying : Target(t) \in DOMAIN memory /\ Target(t) >= ExtraBytesInHeader

(* An entry is there, whole, to the last cell, if its slot was not taken   *)
(* during a copy into it or ahead of a reset, and no reset began during    *)
(* its own; a slot that no entry took since a reset is empty, as far as    *)
(* the reset has come, but for its cells in the last ExtraBytesInHeader    *)
(* bytes, which ResetTraceLog leaves alone.                                *)
EntriesWhole ==
  \A s \in Slots \ disturbed :
    (/\ logPc # [t \in Thread |-> "noLog"]
     /\ ~AheadOfReset(s) /\ \A t \in Copying : index[t] # s) =>
      \A c \in CellsOf(s) :
        memory[c] = latest[s] \/ (latest[s] = 0 /\ c >= LogSize * EntrySize)

(* The last LogSize entries are in slots of their own, so that the log has *)
(* them all, unless the counter has wrapped and the number of slots does   *)
(* not divide 2^32.                                                        *)
Wrapped == Len(order) > NextEntry + 1
LatestEntriesKept ==
  LET n == Len(order)
  IN  CounterModulus % LogSize = 0 \/ ~Wrapped =>
        \A i, j \in 1 .. n : n - LogSize < i /\ i < j => order[i] # order[j]
=============================================================================
