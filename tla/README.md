# Verification of LKRhash, IISLib and the concurrent samples

This directory holds TLA+ specifications of the concurrent code of the repository,
the TLC configurations that check them on small instances, and theorems about them that
TLAPS proves for every instance.

The repository is a collection of Windows samples, libraries and tools, most of them a row
of calls of one system interface.  Its real concurrent algorithm is **LKRhash**, the
scalable linear hash table (`src/projects/NativeAPITest/lkrhash.h`,
`.../TestLKRHashing.cpp`); next to it stand the hand-made structures of **IISLib** (a lock,
two hash tables, an allocation cache, a trace log, an asynchronous file writer), and a handful
of programs whose threads or processes wait for each other.  These are what is modelled here.

## 1. Inventory

| component | where | state | operations | modelled |
|---|---|---|---|---|
| `CLKRLinearHashTable` | `lkrhash.h`, `TestLKRHashing.cpp` | address variables (level, masks, expansion index), segment directory, bucket chains, record count, a table lock and a lock per bucket | insert, delete, find, clear, check, expand, contract, Apply/ApplyIf/DeleteIf | `LinearHash` (concurrency), `NodeClumps` (chains), `SubTables` (walks) |
| its construction | `_Initialize`, `_SetSegVars` | the same fields while they are computed | choose size, allocate directory and segments, undo | `TableSetup` |
| `CLKRHashTable` | the same files | an array of linear tables | construction, destruction; forwards by signature; walks under all locks | `SubTables`, `SubTableSetup`, but for the sums over subtables |
| iterators, STL interface | the same files | position, a bucket lock, a reference | increment, erase | `NodeClumps`, on one linear table |
| `CWSDRWLock` | `IISLib/rwlock.h` | critical section, `LockCount`, `fWriterWaiting`, event | shared/exclusive acquire and release | `RWLock` (the form for XP) |
| `HASH_TABLE` | `IISLib/hashtable.h` | buckets, record count, a `CWSDRWLock` | find, insert, delete, DeleteIf, Apply, Clear, rehash | `HashTable` |
| `TREE_HASH_TABLE` | `IISLib/treehash.h` | the same, and a tree over the nodes | the same, deletions of subtrees | `TreeHashTable` |
| allocation cache | `IISLib/acache.cxx` | a free list per processor | alloc, free, destroy | `AllocCache` |
| trace and reference logs | `IISLib/tracelog.c`, `reftrace.c` | ring of entries, counter | create, write, reset | `TraceLog` |
| `ASYNC_FILE_BUFFER_FACTORY` | `TestIISLib/` | buffer in use, pending read, file | read, complete, write, finish | `PutRequest`, with its driver |
| IOCP servers | `IOCP/ServerIOCP`, `TestIOCPWinsockServer.cpp` | contexts, client list, completion port | accept, receive, send, shut down | `ServerIOCP`, `WinsockServer` |
| thread pool | `HanbitMedia/.../15/ThreadPooling.cpp` | array of works, mutex, an event per worker | add, take, run | `ThreadPooling` |
| sums | `WinAPIMultithreadingSynchronization.cpp` | sums, current range, a flag, critical section | compute, store, go on | `PartialSums` |
| readers and writers | `Win32MRW/Win32MRW.cpp` | a write event, some read events | read, write | `Win32MRW` |
| strings, buffers, base64, lists | `IISLib/*.cpp`, `*.h` | bytes | conversions | no: section 8 |
| HTTP, pipe, IIS, WebSocket, MSDTC samples | `projects/HTTPAPI`, `src/IIS`, ... | handles | calls of a service | no: section 8 |

**How the parts interact.**  Clients call a linear table directly or through
`CLKRHashTable`.  An operation of the linear table takes the *table lock* (read for finds, write for
insertions and deletions), computes the bucket's address, takes the *bucket lock* while it
still holds the table lock, gives the table lock back and works on the chain.
`_InsertRecord` then calls `_Expand`, and `_DeleteKey`/`_DeleteRecord` call `_Contract`, in a loop;
each takes the table lock and two bucket locks, changes the address variables, gives the table
lock back and only then moves records.  `Clear`, `CheckTable` and the walks keep the table
lock(s) and lock one bucket after the other.  The table tells its client about references
through `_AddRefRecord`.  `HASH_TABLE` and `TREE_HASH_TABLE` use `CWSDRWLock`.  The programs stand by
themselves: their threads meet at a completion port, a mutex or events.

**What is hard.**  Addresses change before records move, so that correctness rests on the
overlap of two kinds of locks; a resize is decided on without any lock and may run out of memory at
four places; counts change under different locks; segments, and the locks in them, are freed
while other threads run.  The tables of IISLib insert under a *shared* lock with a
compare-and-swap.  Buffers and contexts pass from a starter to whoever gets the completion.
Wake-ups can be lost, mutexes kept, counters wrap.  `hazards` in `PROJECT.json` lists all of
this at its lines.

## 2. Modules

| module | what it is |
|---|---|
| `RecordTable` | abstract specification of all four tables: a set of records with distinct keys, and atomic operations |
| `LinearHashAddress` | the address arithmetic: `H0`, `H1`, `BucketAddress`, and what `_SetSegVars` computes, in closed form |
| `LinearHash` | the linear table under several threads, one action per step; refinement of `RecordTable` |
| `NodeClumps` | the chains of two buckets, slot by slot: insertion, `_DeleteNode`, `_DeleteIf`, iterators, split and merge with their free lists |
| `SubTables` | `CLKRHashTable` and the walks through it; refinement of `RecordTable` |
| `TableSizes` | the sizes a table can be asked for, and what they come to |
| `TableSetup` | `_Initialize` and `_SetSegVars`, one action per loop iteration |
| `SubTableSetup` | `NumSubTables`, the constructor and the destructor of `CLKRHashTable` |
| `RWLock` | `CWSDRWLock`, one action per access of a field |
| `HashTable`, `TreeHashTable` | the tables of IISLib; refinements of `RecordTable` |
| `AllocCache` | the allocation cache |
| `TraceLog` | the trace log, cell by cell |
| `PutRequest` | a PUT request copied to a file |
| `ServerIOCP`, `WinsockServer` | the two echo servers, with their network and clients |
| `ThreadPooling`, `Win32MRW` | the thread pool; the processes that read and write |
| `PartialSums` | threads that compute sums while main goes from range to range |
| `LinearHashProofs` | theorems about `LinearHash`, in four parts: the arithmetic; types, the table lock, the address variables; the bucket locks, where records are, keys; references, `CheckTable`, and that the table implements `RecordTable` |
| `ProgramsProofs` | theorems about `RWLock`, `Win32MRW`, `ThreadPooling`, `PartialSums`, `WinsockServer`, `PutRequest`, `ServerIOCP`, and the types of all of them |
| `StructuresProofs` | theorems about `SubTables` with its refinement, the two set-ups, `AllocCache` and `TraceLog` |
| `TablesProofs` | theorems about `HashTable` with its refinement |
| `TreeChainsProofs` | what the operators of `TreeHashTable` on chains, buckets and lists of children do |
| `TreesProofs` | theorems about `TreeHashTable` with its refinement |
| `ClumpsProofs` | theorems about `NodeClumps` |
| `SuiteProofs` | the properties of `MCStructures` that take theorems of several of these modules |
| `MCLinearHash`, `MCLinearHashWorkloads`, `MCTableSetup`, `MCServerIOCP` | instances for TLC |
| `MCStructures`, `MCPrograms` | suites: one part of several runs (below) |

In all modules the variables have the names of the fields, and an action the name of the
function, or of the step of it, that it stands for; `map` in `PROJECT.json` gives its lines.
A definition whose comment starts with "Fault:" is not part of a
specification.  It is the next action with one mistake in it, kept to show that the
property named for it in `PROJECT.json` notices that mistake.

**The suites.**  `MCStructures` and `MCPrograms` INSTANCE several modules that have nothing
to do with each other.  The variable `part` is chosen in the beginning and says which of them
runs; the others' variables stay as they are.  The states of a suite are therefore
the sum, not the product, of the states of its parts, and a property of a part holds trivially
in the others (the refinements ask only the steps of their own part for an abstract step; the other parts' leave
their variables alone, which TLC need not find out each time).  A property of a suite is the conjunction of a module's properties that
fail for related reasons; the modules state and explain each one.

### LinearHash

A thread is at a point `pc[t]` of its operation `op[t]` with record `rec[t]`.
`bucket[a]` is the set of records in the chain of bucket `a`, `segs` the directory entries
that hold a segment, `refs` the reference count each record has, `moved[t]` the records that a
split or merge is about to move.

| code | actions |
|---|---|
| public wrappers | `Call` |
| `WriteLock`/`_ReadOrWriteLock` and `_BucketAddress` in every operation | `LockTable`, `LockTableWithoutDirectory` |
| `_FindBucket`'s bucket lock and the table's unlock | `LockBucket` |
| `_InsertRecord` | `InsertExisting`, `InsertUpdate`, `InsertNew`, `InsertNoMemory`, `Grow` |
| `_DeleteKey`, `_DeleteRecord`, `_DeleteNode` | `DeleteFound`, `DeleteMissing`, `Snapshot`, `Shrink` |
| `_FindKey`, `_FindRecord`, and the client's release | `FindKey`, `FindOther`, `Release` |
| `_Expand`, `_SplitRecordSet` | `ExpandTable`, `ExpandNoDirectory`, `ExpandNoSegment`, `ExpandOld`, `ExpandNew`, `ExpandNoClump`, `Split`, `Abandon` |
| `_Contract`, `_MergeRecordSets` | `ContractTable`, `ContractMinimal`, `ContractLast`, `ContractTarget`, `ContractNoClump`, `Merge` |
| `Clear`, `_Clear`, `_SetSegVars` | `ClearNothing`, `ClearTable`, `ClearBucket`, `ClearRecord`, `ClearCount`, `ClearNext`, `ClearReset` |
| `CheckTable` | `CheckInvalid`, `CheckTable`, `CheckBucket`, `CheckCount` |

What is abstracted:

- **A step** ends where another thread can matter.  What happens to a chain under its lock is
  one step together with the unlocking.  The two comparisons of a resize loop, which read
  shared fields without a lock, are one step (`Grow`, `Shrink`).
- **The locks** exclude as a writer lock and a reader lock do; a waiting writer does not
  bar readers.  They are the lock types LKRhash is instantiated with, whose code is
  not in this repository.
- **A chain** is a set of records.  Whether an allocation is needed follows from the number of
  records and `NodesPerClump`, since chains are always compact: `NodeClumps` shows that.
- **The count** `m_cRecords` is kept modulo `CountModulus`, so that a lost update can wrap it as a `DWORD`.
- **A callback** (`_AddRefRecord`, key and hash functions) is atomic and does not call back
  into the table.  Signatures are a function of the key.
- **After a table has lost its directory** a caller that already passed `IsUsable`
  dereferences it: `crashed` stands for that.
- **A table that is given an invalid size** by `_SetSegVars` is excluded by the assumption
  `IsTableSize`; `TableSetup` shows which sizes those are.

### NodeClumps and SubTables

`NodeClumps` takes two buckets that split into each other and merge, under their locks, and a
chain as a sequence of clumps of slots.  Loops over records are one action per slot, with the
position `at` of the loop; `due` (history) is what the loop has still to meet.  When the
table grows and shrinks depends on all its buckets and is left open.  An iterator that erases
a range, and the table's own `_DeleteIf`, share `DeleteNode`, which backs the position up.

`SubTables` has the table locks and two buckets of each subtable.  A record that a thread
inserts, deletes or moves is protected by a bucket lock taken before the walk took the table
lock; the walk therefore waits at that bucket.  `met` and `removed` (history) are what a walk has seen and
taken out.  To `RecordTable` a walk is atomic at its end: until then what it has removed counts as there
(`Seen`), as nobody can look at it; an ApplyIf under write locks, which may delete, is a DeleteIf (`Operation`).

### HashTable and TreeHashTable

A search is one step, since under the shared lock nodes are only added in front of
others: it sees what the last pointer it reads shows.  The compare-and-swap, the reference and
the count that follow are steps of their own, and so is every look at `_nItems` without the
lock.  `TreeHashTable` names a node by its path; `path[t]` goes down the ancestors
that `AddNodes` has to create, and a thread that loses a race goes on below the
winner's node.  The lock excludes, as `SRWLOCK` does; what `CWSDRWLock` adds is in `RWLock`.

### AllocCache, TraceLog, TableSetup, RWLock

`AllocCache`: a thread chooses its list (`StartAlloc`, `StartFree`), and may be moved to another processor
afterwards, so that any thread may use any list; reading the depth and pushing are two
steps.  The system's `SList` operations are atomic.

`TraceLog`: taking a slot is one `InterlockedIncrement`; the copy goes cell by cell, and so does the `RtlZeroMemory` of a
reset (`ResetTraceLog`, `ZeroCell`), with which nothing keeps the writers apart.  `disturbed` (history) are the slots of whose
entry nothing can be said: taken while another entry was being copied to them, taken while a reset had still to zero some
of their cells, or being copied to when a reset began.  Counter and
sizes have moduli of their own (`CounterModulus`, `SizeModulus`), both of which stand for
2^32, because a small instance needs a counter that wraps soon and sizes that do not.

`TableSetup`: the loops of `_SetSegVars`, `counter` being the loop's variable; every
allocation may fail.  `SubTableSetup`: one action per subtable; that a subtable has been allocated
and could not be set up is one of the failures (`TableSetup` shows how that comes about).  `RWLock`: each Interlocked call, plain store, `SetEvent` and wait is a
step; critical section and auto-reset event behave as Windows documents them.  `lateSignal` (history) is whether
a signal has ever ended a writer's wait while readers were inside.

### The programs

`PutRequest`: the driver's loop, the handler and the reader as one thread, as they are in the code, with
the event that tells of a completion; any read, write, creation or allocation may fail.
Bytes are numbered by their places, so that "copied" means the right bytes in the right
order.

`ServerIOCP`, `WinsockServer`: a completion queue, one overlapped operation per client
whose result the network chooses (`RecvCompletes`, `SendCompletes`: any number of bytes up to
what was asked for), clients that connect, send and leave, and calls that fail up to
`MaxFailures` times.  The threads take and handle completions as the code does; a worker of
`ServerIOCP` repairs a failure by removing the client (`Erase`: the first entry of the list that is the client's), one of
`WinsockServer` returns.  In `ServerIOCP` `workload` says which clients come and how much each of them may send, and `split` (history)
who had a message sent back in more than two parts, after which the server sends the wrong bytes (`echo`, section 5).

`ThreadPooling`: main and the workers, the recursive mutex with its depth, the array of
works.  `Win32MRW`: processes that choose to read or write, the events as
booleans that a successful wait resets, the timeouts of the readers' search.
`PartialSums`: main and the threads of `test_multi_threads`; a critical section is one step, the two accesses of
`InterlockedExchange(&p.m_bRun, p.m_bRun)` are two.  A sum is known by its range.

## 3. Runs

| run | question | bounds | states |
|---|---|---|---|
| `table` | Do the invariants hold while buckets split and merge under three threads? | 3 threads, 3 calls, 6 records, 5 keys, 4 buckets at first | 1.3 million |
| `table_refines` | Is every operation atomic, Clear and CheckTable included, when any allocation may fail? | 2 threads, 3 calls, 2 buckets at first | 1.2 million |
| `table_failures` | Does a failed allocation leave exact references, and does every call return? | one thread with 4 calls of any operation, or two with 3 calls of insert, find, clear, check | 393,000 |
| `structures` | Is each data structure right by itself? | below | 423,000 |
| `programs` | Does each program keep its promises, and does who waits get on? | below | 180,000 |

The other seven are disagreements (section 5).

| part | bounds |
|---|---|
| `structures`: cache | 2 threads, 2 processors, 4 blocks, threshold 1, depth modulo 4 |
| hash | 2 threads, 3 calls, 4 records, 3 keys, two of one hash; 1 bucket at first, so that the first insertions make it grow |
| tree | 2 threads, 3 calls, 4 records on 3 of 4 paths, up to 3 names deep; bucket-mates that are parent and child |
| clumps | 5 records, 2 nodes per clump, so up to 3 clumps in a chain; 4 ways to split |
| subtables | 2 threads, 3 calls, 2 subtables of 1 or 2 buckets, 4 records, 3 keys |
| setup | the real constants; 360 sizes around the limits |
| array | the real constants; 17 sizes, 8 numbers of subtables, 1 to 20 processors |
| log | 2 threads, logs of 2 and 3 entries, 7 entries, one reset, a counter modulo 4 |
| `programs`: lock | 3 threads, 2 exclusive acquisitions |
| put | inputs of 0 to 8 bytes, 4 pairs of sizes, 2 failures |
| server | 2 workers, buffers of 3 bytes, 1 failure; one client that sends 3 bytes, or two of which one sends 2 and one only comes and goes |
| echo | 2 workers, 2 clients (one sends 3 bytes, one only comes and goes), buffers of 2 |
| mrw | 4 processes, 2 read events |
| pool | 2 workers, room for 2 works, 2 or 4 additions |
| sums | 2 threads, 3 ranges |

**Why the bounds suffice.**  In `LinearHash`, segments of two buckets (`SegBits = 1`), a smallest
directory of one entry and a load limit of 1.2 make a few calls cross every boundary of the
code: the directory doubles and halves, segments are allocated and freed, the expansion index
wraps both ways, a level is gained and lost.  `MaxLevel = 3` is not reached by the
calls made.  The signatures 0, 2, 4, 1, 0 give a key that moves when its bucket splits, one that
stays, two keys with one signature, and two records with one key.  One node per clump makes
every second record of a chain need an allocation.  Three calls in flight cover two
resizes and an observer; a single thread suffices for most failures because a failed step changes nothing
another thread could have prepared for, and the concurrent ones are in `table_refines` and in the
runs `freed_lock` and `unusable`.

In the parts, two threads are two insertions, or an insertion and a deletion, or a walk and a
thread that is still in a bucket; the third call gives each of these a table that is not as it
was in the beginning.  Three clumps are a first, a middle and a last one.  Works beyond
`WORK_MAX` make `AddWorkToPool` find the array full.  A buffer of three bytes is
sent back in up to three parts, after the second of which `ServerIOCP` goes wrong: `EchoesShortSends` says what holds then and before, the
run `echo` shows what does not.  Four processes for two read
events make a third reader time out while a writer waits.

`MAXDWORD`, to which the subtraction from 0 in `NumSubTables` wraps, is 2^30 - 1 instead of 2^32 - 1, which TLC's integers do
not hold; both are far above the largest table.

Bounds on the length of a run are `MaxOps`, `MaxCalls` (calls), `MaxWrites` (exclusive
acquisitions), `MaxEntries`, `MaxResets`, `Workloads`, `MaxBytes`, `MaxFailures`, `MaxFaults`.

**Symmetry.**  Threads are exchangeable in `table`, `table_refines` and `structures`, which check
invariants and refinements, no liveness.  `programs` has no symmetry set; there `WaiterGetsIn`
and `WriterGetsIn` are checked of one thread, and one process, which stands for
the others since nothing in `RWLock` and `Win32MRW` tells them apart.

**Fairness.**  Everywhere, weak fairness of each thread's steps: a thread that can go on does.
Nothing is asked of callers, clients and users: no call, no connection, no message has to
come, and nobody need press the key that stops a server.  The network (`Network`) in the end completes what it can.

- `LinearHash`: weak fairness is enough for a lock, because the number of calls is bounded and a
  waiting thread is in the end the only one.
- `RWLock`: every step but the two that enter the lock, as a thread outside need not come.
- `ThreadPooling`: additions end and works are finite, so that the mutex is free in the end.
- `PartialSums`: weak fairness only; a thread sleeps outside of the critical section.
- `Win32MRW`: processes come and go for ever, so that a writer needs strong fairness of its wait for
  the *write event* (`WriteWaitsWriting`): Windows serves waiting threads roughly in the order in which they came.
  Nothing but weak fairness is asked of the wait for the read events, which is where readers could starve it.

**Deadlock** is checked in all passing runs.  `LinearHash` has an explicit `Done` for the state in which all
calls have returned or crashed; the suites have `Ended`, which for the tables and the log is true only
when all threads are idle, so that a call of a table that cannot return is a
deadlock.  The programs that come to an end (`put`, `server`, `pool`, `echo`, `sums`) may stop
anywhere; what must not stop there is stated as liveness.

## 4. Properties

Of the linear table:

- `AddressesValid`: the assertions of `_FindBucket` and `_Bucket`, at every moment.
- `RecordsReachable`: a record that is away from the bucket its signature addresses is
  covered by a lock: the lock of the addressed bucket, held by the thread that has it or is
  moving it, or, while a contraction waits for the locks of the bucket it gives up (`GivenUp`), the table
  lock, without which nobody can compute an address.
- `KeysUnique`: no record twice, no key twice, counting the chains cut off but not yet merged.
- `ReferencesExact`: a record's references are the table's one and the finders'.
- `LockedBucketsExist`: no lock is held in a segment that is freed.
- `CheckTableConsistent`: `CheckTable` returns 0 whatever else runs; without Clear, which miscounts (`clear_count`).
- `Linearizable`: the table implements `RecordTable`.  An operation takes
  effect in its bucket, Clear when it ends; until then what it has removed counts as there
  (`cleared`, a history variable), which is right as no operation can look at a bucket while Clear
  holds the table lock, and those that locked one before are ahead of it.
- `OperationsReturn`: every call returns (or has met the table without a directory of `unusable`).

Of the structures:

- `ChainsCompact`, `ClumpsSuffice`: what every scan relies on, a chain without a hole; and that a clump or two
  allocated beforehand are enough for a split or a merge, with none lost or freed twice.
- `LoopMeetsEveryRecord`: loops that delete as they go visit each record once, though
  `_DeleteNode` moves others into the hole; references are balanced.
- `HashChainsInOrder`, `HashCountsRight`, `TreeMatchesTable`, `TreeCountsRight`: insertions side by side neither lose a node nor
  make two for a key; counts and references are exact up to the insertions that are about to change them.
- `ApplyMeetsRecords`: walks meet all records, of a `CLKRHashTable` once, while insertions go on in the tables of IISLib.
- `HashImplements`, `TreeImplements`, `SubTablesImplement`: each table implements `RecordTable`.  A deletion in
  the tree takes a subtree; inner nodes without a record never show.
- `DepthBounded`, `BlocksAccounted`: the lists stay near the threshold, and every block is in one place.
- `LogKeepsEntries`: writes stay inside the log; an entry is whole, to the last cell, unless its slot was taken by another
  during the copy, or a reset was, or came, in the way of it; and the
  last ones are kept, unless the counter has wrapped and the number of slots does not divide its range.
- `SetupAsSpecified`: the loops arrive at the closed forms from which `LinearHash` starts, and all buckets are
  addressed; subtables have together the buckets that were asked for, though a share of one to three buckets is
  taken for a code of a size, and each is selected by some signature, with a mask or without.
- `FailureUndone`: a table or an array of tables that cannot be set up leaves nothing behind, but for the case in section 5.

Of the programs:

- `NoReaderOvertaken` (`RWLock`): nobody is inside beside a writer unless a signal has come too late, so that the fast path
  and a wait that ends in time are sound.  `WaiterGetsIn`: no wake-up is lost, with the same exception.
- `InputCopied`: the file is a beginning of the input, all of it if nothing failed; one buffer, which a completion finds again.
- `OneOperation`: a client's data is in one hand and not freed before.
- `EchoesShortSends` (`ServerIOCP`): a client never gets back more bytes than were received from it, as many when the next
  message is received, and its own in order as long as no message of its took a third send, with any sends of its
  other messages, any completions of other clients and any failures.  `EchoesMessage`, without the last condition, is what
  the run `echo` refutes.
- `EchoInOrder` (`WinsockServer`): a client gets back its bytes in order, in any number of parts.
  `MessagesComeBack`: all of them, as long as client and server stay.
- `ThreadsStop`: one packet per worker is enough to end them all; a request ends; the sums end, though a
  thread may write the flag back as it was before main cleared it.
- `WriterAlone`, `WriterGetsIn` (`Win32MRW`).
- `WorkTakenOnce`, `EveryWorkRuns` (`ThreadPooling`): no work is run twice or forgotten, although a worker may look just
  before an addition and wait just after; unless an addition to a full array kept the mutex.
  A sum of `PartialSums` stays that of its range, though threads store theirs when main has gone on.

## 5. Disagreements between the code and what it says

Each is a run that TLC ends with a counterexample; `findings` in `PROJECT.json` quotes the lines.

| run | what happens |
|---|---|
| `rwlock_exclusion` | a reader that left the count at 0 looks for a writer only later; a new reader has come in and a writer is waiting for it, and the late signal lets the writer in |
| `table_livelock` | `_DeleteKey` shrinks towards an old record count while `_InsertRecord` grows towards the new one: both loops can run for ever |
| `clear_count` | `_Clear`'s plain `m_cRecords--` loses an insertion's `InterlockedIncrement` |
| `freed_lock` | an `_Expand` that found no clump takes its new bucket back and gives up the table lock while it still holds that bucket's lock; a `_Contract` gives up the bucket before, the first of the segment, and frees the segment with the lock in it (bucket 5, then 4, in segments of two) |
| `unusable` | `Clear` runs out of memory between `IsUsable` and the lock |
| `setup_overrun` | 513 buckets need 9 segments and get a directory of 8 entries |
| `echo` | after a second partial send `ServerIOCP` moves its position by all that was sent instead of by the last part, and sends from behind the message |

The livelock needs a schedule in which the two loops alternate for ever, which fairness of
the threads does not exclude; TLC finds it as a lasso.  It takes both loops: `table_failures`, whose
threads either only grow the table or are one, shows that every call returns otherwise.

After the late signal of `rwlock_exclusion` the lock holds no promise any more.  The reader that was overtaken finds a negative
count when it leaves and takes the writer's branch of `ReleaseRWLock`: it sets the count to 0, clears the flag and leaves a
critical section that is not its own.  With four threads and two exclusive acquisitions a second writer then overtakes a
reader on the path that does not wait, or waits for a signal nobody sends.  `NoReaderOvertaken` and `WaiterGetsIn`
therefore except what follows a late signal (`lateSignal`), and nothing else.

In `freed_lock` the directory is large enough not to be halved, so that the contraction does come to `_FreeSegment`.  Where it is halved, the segment is
dropped with its directory entry and not freed: that is a leak, but nobody touches freed memory.

More follow from the same code and have no run of their own; the models follow the code in them,
or leave the case out where said.

- *LKRhash.*  The count that `clear_count` shows to be lost has a consequence: it is
  2^32 - 1 after the Clear, the next insertion brings it to 0, and the next Clear believes it (`ClearNothing`),
  returns `LK_SUCCESS` and leaves the record in the table.  So the table with Clear does not implement
  `RecordTable` in long runs; `table_refines` stays below their length, and
  `LinearizableWithClear` (section 6) has as its hypothesis that this does not happen.
  A segment that the failed `_Expand` of `freed_lock` has allocated is not freed by `_Clear`.
  The limit of `_Expand` is tested before the lock, so that two threads can double a directory that is at
  `MAX_DIRSIZE`.  `CLKRHashTable::ApplyIf` goes on in the next subtable after an action returned
  `LKA_ABORT` (`TestLKRHashing.cpp:1736`), which `lkrhash.h:286` says stops the walk.
  The constructor of `CLKRHashTable` frees the subtables before one that failed ("Destroy everything allocated so far",
  `TestLKRHashing.cpp:429`), but not that one itself when it was allocated and its own set-up failed.  A client that asks for more
  than `MAX_SUBTABLES` gets that many, each with a share for the number asked, so fewer buckets than asked for
  (`TestLKRHashing.cpp:533`, `:568`); `ArrayFreed` and `CapacityAsAsked` leave these two cases out.
  Erasing a range deletes records that `_DeleteNode` has moved into it from behind
  (`TestLKRHashing.cpp:4282`).
- *HASH_TABLE.*  `Initialize`, which allocates the buckets before anybody has the table, and the destructors are left out: the
  model begins with a table that was initialized.
- *TREE_HASH_TABLE.*  `InsertRecord` releases the shared lock also after the failure that precedes its acquisition
  (`treehash.h:541`); left out.
- *Allocation cache.*  A threshold of 0xffff is let through, with which a list may reach 2^16 blocks and look
  empty (`acache.cxx:302`); excluded by `DepthAssumption`.
- *Trace log.*  `ResetTraceLog` zeroes from behind the structure, hence the extra header too, and as many bytes at the
  end of the entries stay; `NextEntry` is the index last used, not the next as `tracelog.h:28` says.
- *ServerIOCP.*  A context's destructor waits for its pending operation (`ServerIOCP.h:172`) before the socket is closed,
  so that stopping the server waits for its clients, where `ServerIOCP.cpp:577` says the operation is cancelled; a failed initial receive
  leaves its client in the list (`ServerIOCP.cpp:356`).
- *WinsockServer.*  A worker ends with the first completion that reports an error.
- *ThreadPooling.*  `AddWorkToPool` returns with the mutex when the array is full (`ThreadPooling.cpp:93`);
  `MakeThreadToPool` compares with `WORK_MAX` (`:143`).
- *PartialSums.*  `InterlockedExchange(&p.m_bRun, p.m_bRun)` (`WinAPIMultithreadingSynchronization.cpp:125`) writes back what it has
  read and may undo main's FALSE; the threads end all the same, by the index.  With one processor there is no thread, and
  main waits for ever (`:173`): `SumsAssumption` leaves this out.

## 6. Theorems

`LinearHashProofs` proves about the arithmetic, for every signature and level:

- `AddressInTable`: every signature has an address below the number of buckets;
- `SplitMovesOneBucket`: advancing the expansion index re-addresses only the
  signatures of the bucket split, and only to the new bucket;
- `NextLevelMovesNothing`: wrapping the index to the next level re-addresses nothing.

They rest on division and remainder: `DivMod`, `ModUnique`, `DivMono`, `DivLess`, `ModDouble`, `AddressCases`.

About `Spec`, its second part proves, for any number of threads, records, keys,
operations, sizes and failing allocations:

- `TypeCorrect`: `Spec => []TypeOK`
- `TableLockHeld`: `Spec => []TableLockInv`
- `AddressesAlwaysValid`: `Spec => []AddressesValid`

None of the three is inductive alone.  That the masks fit the level after an expansion
needs that no other thread changed them since this one took the table lock, which needs
`TableLockInv`; that a contraction may restore them needs `ResizeInv`, what a resizing
thread relies on while it waits for a bucket lock; that every bucket has a segment after
the directory is halved needs `DirectoryInv`, its size being a doubling of the smallest;
and that a bucket is an address at all needs `CallInv` and the types.  So

    IInv == TypeOK /\ CallInv /\ TableLockInv /\ DirectoryInv /\ ResizeInv /\ AddressesValid

is proved by `InitInv` (Init => IInv) and `StepInv` (IInv /\ [Next]_vars => IInv'), the
latter from `TypeStep`, `CallStep`, `LockStep` and `AddressStep`, each with a case per
action.

Its third part proves, again for every instance:

- `BucketLocksHeld`: `Spec => []BucketLockInv`
- `RecordsAlwaysReachable`: `Spec => []RecordsReachable`
- `KeysAlwaysUnique`: `Spec => []KeysUnique`
- `LockedBucketsAlwaysExist`: `Spec => []LockedBucketsExist`, if `"clump" \notin MayFail`

    PInv == IInv /\ BucketLockInv /\ HomeInv /\ ScanInv /\ NoTableInv /\ PlaceInv /\ KeyInv

`RecordsReachable` is not inductive: it says where a misplaced record may be, not where it is
going.  `PlaceInv` says of every record in a bucket that it is where its signature addresses, by the
index that counts for settled records (`Settled`: the new one once a resize has changed it, the old one
as long as the resize only waits for its locks), or in the chain that a thread in the middle
of a split or merge is about to move, whose two ends (`home`, `other`) `HomeInv` ties to the
address variables.  A step of `_Expand` or `_Contract` that changes the index then moves no record but those of one bucket, by
`SplitMovesOneBucket` and `NextLevelMovesNothing`, and that the thread has locked.
`KeyInv` follows because records of one key have one address: an insertion that finds no record of its key in
the bucket it has locked has looked where all of them are.  `NoTableInv` and `ScanInv` say what holds once the directory
is gone and behind the scan of a Clear or a check.  `BucketLockInv` derives the holders of all bucket locks from the points
at which the threads are.  Without the condition on clumps `LockedBucketsExist` is false (`freed_lock`).

Its last part proves:

- `ReferencesAlwaysExact`: `Spec => []ReferencesExact`
- `CheckTableAlwaysConsistent`: `Spec => []CheckTableConsistent`, if `"Clear" \notin Ops` and there are fewer
  records than `CountModulus`
- `LinearizableTable`: `Spec => Linearizable`, if `"Clear" \notin Ops`
- `LinearizableWithClear`: `Spec /\ []ClearKnowsEmpty => Linearizable`, for every `Ops`

The refinement mapping is that of `LinearHash` (`Table`, `Phase`); `Implements` has a case for each action, in
which the step either is the one atomic operation of `RecordTable` its call stands for or leaves `Table` as it is.  That an
operation in its bucket sees the whole table's answer (`BodySees`) is where `PInv` is used: a record
of the key anywhere in the table is in the bucket that the thread has locked.

    RInv == PInv /\ OpInv /\ ClearedInv /\ NoneMisplaced

adds what a thread is called for at each point, what Clear has removed so far, and
that a check never meets a misplaced record.  `RefInv` counts a record's references as set
cardinalities, and `CountInv` keeps `cRecords` equal to the number of records and the tally of a check equal to the
records in the buckets it has passed, which nobody can change as long as it has the table lock
and each bucket it has counted is free.  The two conditions on Clear are the findings of section 5: the count is wrong after a Clear
that raced an insertion, so that `CheckTable` reports a fault and a later Clear may overlook a record.
`ClearKnowsEmpty` is the second of these, and nothing else of Clear needs a hypothesis.

Proving corrected the model's `RecordsReachable`: an earlier form did not allow for a merge into the bucket that
another thread, waiting at the table's end for a lock with the table lock in its hands, is giving up, which takes seven
buckets and is out of reach of the runs.

`ProgramsProofs` proves about the programs, for any numbers of threads, processes, works, clients and
failures, each of the module's own `Spec` and of the suite's `PartSpec`:

- `OnlyLateSignalsOvertake`: `NoReaderOvertaken`; `LockTypesOK`: the bounds of `LockCount`
- `WriterAlwaysAlone`: `WriterAlone`
- `WorkAlwaysTakenOnce`: `WorkTakenOnce`, for the pool and for the sums
- `EchoAlwaysInOrder`: `EchoInOrder` and `OneHolder`
- `InputAlwaysCopied`: the four parts of `InputCopied`
- `AlwaysOneOperation`: `OneOperation`
- `EchoAlwaysAsReceived`: `EchoesShortSends`, for buffers of any size
- `SuiteTypesOK`: `TypesOK`, all the type invariants together

The inductive invariants say who has what:

    LockInv   == Lock!TypeOK /\ CountInv /\ (~lateSignal => OwnerInv /\ ReadersInv)
    MrwInv    == Mrw!TypeOK /\ EventsInv
    PoolInv   == Pool!TypeOK /\ MutexInv /\ MadeInv /\ TakeInv /\ Pool!WorkTakenOnce
    SumsInv   == Sums!TypeOK /\ ... /\ StoreInv /\ RangeInv /\ Sums!SumsRight
    EchoInv   == Echo!TypeOK /\ HolderInv /\ AcceptInv /\ BytesInv /\ Echo!EchoInOrder
    PutInv    == PutTypes /\ CopyInv /\ BufferInv /\ EndInv
    ServerInv == ServerTypes /\ UserInv /\ ListInv /\ TotalInv
    ReturnInv == ServerInv /\ split \subseteq Client \cup {NoClient} /\ \A c \in Client : SentBackInv(c)

- *Lock.*  While no signal was late, the count is the number of readers between entering and leaving, -1 while a thread writes
  (`ReadersInv`), and whoever has the critical section is at a point where the code has it (`OwnerInv`).  A writer that waits passes
  with no reader inside, because it notes in `lateSignal` if there is one, and since it keeps the critical section nobody enters.
  Afterwards only the bounds of the count are left (`CountInv`): each decrement takes away a thread that has still to make one.
- *Readers and writers.*  `EventsInv`: each read event is signalled or has one owner.  A writer gives them back one by one
  (`ii`), so that a reader may take one while the writer still has others, but not while it writes.
- *Pool.*  `MutexInv` ties the mutex's owner and depth to the points of the threads, main's depth to the additions to
  a full array; what a worker saw under the mutex is still there when it takes it (`TakeInv`).
- *Echo servers.*  The counts of operations, completions and threads in `OneHolder` and `OneOperation` are split into statements about pairs
  (`HolderInv`, `UserInv`): if one has the context, no other has.  Then every handler may rely on what it read.
  `BytesInv` says that what has come back ends where, in what was received, the part still to be sent begins, so that
  `EchoInOrder` follows by appending.  `ListInv` says that a context in use is in the list; `OthersStay`, that erasing one client keeps the others there.
  `SentBackInv` is the balance of `ServerIOCP`: what has been sent back to a client, and what its operation, its completion or the
  worker at it has still to deal with (`Completed`), is what was received from it.  As nobody else has the context
  (`UserInv`), a worker closes the balance with the values it has read.  It holds after the wrong step of
  `echo`, too, which counts correctly; only the position `buf` is then no longer `sent`, which is what `split` tells.
- *PUT.*  What is in the file, the buffer and the last read are, in this order, the bytes of the input up to the offset (`CopyInv`,
  `FollowOn`).  `EndInv`: nothing is left when a request without failures is done.

`StructuresProofs` proves about the suite's `PartSpec`, for any numbers of threads, records, subtables and entries, and any
sizes and failures:

- `SubTablesAlwaysImplement`: `SubTablesImplement`, the refinement of `RecordTable`
- `WalksAlwaysMeetRecords`: `SubTables`' `WalkMeetsRecords`, which is a part of `ApplyMeetsRecords`
- `FailureAlwaysUndone`: `FailureUndone`, of `TableSetup` and of `SubTableSetup`
- `LogAlwaysKeepsEntries`: `LogKeepsEntries`, its three parts
- `CacheTypesOK`, `ListsStayShort`, `NoBlockLost`: the cache's types, `DepthBounded`, `BlocksAccounted`

Their inductive invariants:

    SubInv   == SubTabs!TypeOK /\ SubCallInv /\ WhereInv /\ TableLocksInv /\ InsideInv /\ HomeInv /\ WalkInv
    LogInv   == Log!TypeOK /\ LogRoomInv /\ CopyInv /\ OrderInv
    CacheInv == TypeOK /\ HandsInv /\ DepthInv /\ KnownInv /\ ApartInv /\ CleanInv

- *Subtables.*  `WalkMeetsRecords` says what a walk has met, not why nothing gets past it.  `WalkInv` adds who is where: in a bucket
  that the walk has passed, or of a record that it has met, no thread is at work any more, but for readers beside a reader.
  A thread that has its bucket lock from before the walk and inserts, deletes or moves (`InsideInv`, `IsIn`) is therefore ahead of it, and no
  other gets in, because the walk holds every table lock (`TableLocksInv`).  `HomeInv` ties a record to the one bucket where it can be.
  For the refinement, a walk's end is the one atomic operation: what has been met and not removed is the table,
  and what was removed has not come back.  An operation on one key sees the table's answer because records of a
  key have one bucket, which is the assumption that a record's subtable and bucket are functions of its key.
- *Log.*  Writers and resets share the memory without a lock.  `WriteTraceLog` writes inside the log because a cell is of one entry
  (`CellsApart`).  `CopyInv` says of the slots that are not disturbed who may still write there.  While an entry is copied to one, nobody else
  copies there and no reset has it still to pass, so that the cells passed are the entry's (`CopyingInv`).  Otherwise the entry is whole and no
  reset will come by; or the slot has no entry since a reset, and every cell that is not yet 0 is ahead of a thread that zeroes, or behind
  all that is zeroed (`WholeInv`): a reset that is overtaken by a second one is covered, since the second has these cells ahead.  A slot taken
  ahead of a reset becomes disturbed in the same step, which is what makes this inductive.  `OrderInv`: the slots taken are those of a
  counter modulo the entries, so that the last ones are all different, as long as the counter has not wrapped or if the number
  of entries divides `CounterModulus`.
- *Set-up.*  `SegmentsInv` and `SubTablesInv`: what has been allocated is what the loop has been at.
- *Cache.*  `DepthBounded` becomes inductive when the threads that have read the depth and not yet pushed count with
  the blocks on the list (`DepthInv`): reading the depth adds one to their number only below the
  threshold, and a push moves one from them to the list.  It needs that the depth read is the
  length (`DepthIsLength`), which is what `DepthAssumption` is for.  `BlocksAccounted` is taken apart
  into who knows of a block (`KnownInv`), that it is in one place (`ApartInv`) and what the destructor has
  emptied (`CleanInv`).

`TablesProofs` proves about `HASH_TABLE`, in `PartSpec`, for any numbers of threads, records, keys, calls and buckets, any
hashes and any primes the table may grow to:

- `ChainsAlwaysInOrder`: `HashChainsInOrder`
- `CountsAlwaysRight`: `HashCountsRight`
- `HashAppliesMeetRecords`: `HashTable`'s `ApplyMeetsRecords`
- `HashAlwaysImplements`: `HashImplements`, the refinement of `RecordTable`
- `HashTypesOK`: the types

    HashInv == BucketsGood(buckets) /\ CallInv /\ HashLockInv /\ OwnInv /\ SearchInv /\ ApplyInv /\ ReferenceInv /\ ItemsInv

The point is the insertion beside other insertions.  `SearchInv` says what a thread still knows when it comes to link its
node: if the pointer it read is unchanged, so that the compare-and-swap succeeds, then everything before the
place is smaller and everything behind it larger than its key, whatever the others have put in elsewhere.  This
is why one word compared suffices; and it holds because nodes are only taken out under the
exclusive lock (`HashLockInv`, from the points at which threads are).  `OwnInv`: a record is inserted by one call at a time, and is in the
table from its link on.  `ApplyInv`: what a walk has still to meet is ahead of it, insertions behind it notwithstanding.  `ReferenceInv` and
`ItemsInv` count the threads between link, reference and count.  In the refinement the link of an insertion is the atomic operation,
for the others the step under the lock.  A rehash distributes the records
anew (`Distribute`); that it keeps them, in order and without their keys doubled, is an induction over the chain.  The
library's induction theorems cannot be used, but for the recursive functions of `HashTable` the same induction is done on a set: of the
lengths for which a claim fails there is a least one.

`TreesProofs` proves about `TREE_HASH_TABLE`, in `PartSpec`, for any numbers of threads, records, calls and buckets, any
tree of paths, any hashes and any primes:

- `TreeAlwaysMatches`: `TreeMatchesTable`, which is the order of the chains and the agreement of tree and table
- `TreeCountsAlwaysRight`: `TreeCountsRight`
- `TreeAppliesMeetRecords`: `TreeHashTable`'s `ApplyMeetsRecords`
- `TreeAlwaysImplements`: `TreeImplements`, the refinement of `RecordTable`
- `TreeTypesOK`: the types

    ShapeInv == NodeInv /\ ChildInv /\ FamilyInv /\ UnlinkedInv
    TreeInv  == /\ TreeGood(treeBuckets) /\ TreeCallInv /\ TreePathInv /\ TreeLockInv /\ ShapeInv
                /\ TreeSearchInv /\ TreeApplyInv /\ TreeOwnInv /\ TreeReferenceInv /\ TreeItemsInv

As in `HASH_TABLE`, an insertion knows more than the pointer it compares (`TreeSearchInv`), but it makes several nodes, each of which
two threads may be at.

- *Tree.*  A path goes in from the top, so that when a thread links a node its parent is in the table (`TreePathInv`), and stays
  there under the shared lock.  A node is on its parent's list, or exactly one insertion, the one whose compare-and-swap put it into its
  chain, is about to link it there (`FamilyInv`, `UnlinkedInv`): a thread that loses goes on below the winner's node without touching
  the list, though that node may not be on it yet.
- *Deletions* take a subtree, which they find by the lists.  They hold the lock exclusively, so that no node is
  unlinked, and what the lists reach is closed under children (`ClosureIs`: a set of
  paths cannot grow more often than there are paths).  So no node is left whose parent is gone (`UprootsIs`).
- *Counts.*  A node counts from its link on but for the threads between link and count (`TreeItemsInv`); a record is referred to by
  its node and the finders, but for the thread between setting it and the reference (`TreeReferenceInv`), which is one, since a call owns its
  record (`TreeOwnInv`).
- *Refinement.*  An insertion takes effect when its record is set, with the node or by the compare-and-swap on a node that
  was there without one; `TreeTableStep` says which steps change the records, `TreeSeesAll` that a step on one key sees
  the table's answer.

`TreeChainsProofs` has what this rests on: insertion, removal, distribution and the searches on a chain of paths (`PathPlaced`,
`PathSpotIs`, `TreeDistributeIs`, `TreeThinnedIs`), the lists of children (`ChildAdded`, `ChildrenThinned`) and the lines of ancestors
(`LineIs`), by the same least length.

`ClumpsProofs` proves about the bucket chains, in `PartSpec`, for any records, any number of nodes per clump and any choice of
the records that a split moves:

- `ChainsAlwaysCompact`: `ChainsCompact`
- `ClumpsAlwaysSuffice`: `ClumpsSuffice`
- `LoopsMeetEveryRecord`: `LoopMeetsEveryRecord`
- `ClumpTypesOK`: the types

    ClumpInv == ChainsInv /\ OldInv /\ RoomInv /\ AtInv /\ DueInv /\ RefInv /\ CountInv

- *Compact.*  Every chain is `Packed(chain, k)`: all clumps are full but the last, of which the first k slots are used, at least one unless
  it is the bucket's own (`ChainsInv`).  An insertion goes to the first empty slot, a removal takes the last record out of the
  last slot and drops the clump when k was 1.  The old chain of a split or merge is packed but for what has been moved
  (`PackedFrom`).
- *Clumps.*  `RoomInv` is the argument that the clumps allocated beforehand suffice, which the code does not give.  When the c-th clump of the
  old chain is being emptied, as many slots have been filled as have been left, so that c - 1 less the number of new clumps tells, up to
  two clumps, how far the two chains are filled (`Clumpful`).  The free list has the primed clumps, and those emptied but the first,
  less the new ones.  A split needs another when a chain is full; then the other has less than a clump to spare
  (`SplitTakes`).  A merge primes none, one or two (`Primed`), which is enough because the last clump of
  the chain it appends to had k0 records (`MergeTakes`); the surplus from which it computes their number is a cardinality (`UsedCount`,
  `EmptyCount`).  `CountInv`: clumps go from the old chain to the free list and from there to a new chain, and nowhere else.
- *Loops.*  `DueInv`: what a loop has still to meet is what is at its position and behind it, in its chain and the chains
  to come (`FromHere`).  A removal moves the last record of the chain into the hole and backs the position up
  by one slot, in front of it (`FromBack`), so that the next step of the loop meets it; `FollowingIs` says where an iterator goes on.

`SuiteProofs` puts these together, in `PartSpec`:

- `AppliesAlwaysMeetRecords`: `ApplyMeetsRecords`, of the two tables of IISLib and of `CLKRHashTable`
- `StructuresTypesOK`: `TypesOK`

The assumptions are those of the modules, which TLC evaluates in every run of them.
`PowersAssumption` states elementary facts about `2 ^ n` for n up to the bound: the provers know
exponentiation only as a symbol and cannot do the induction.  `IsTableSize` says that the
initial sizes are ones for which the directory covers the buckets.

Proving corrected the model here too.  `NoReaderOvertaken` said of each step that a writer overtakes a reader by a late signal
only, and `WaiterGetsIn` said that every writer that waits gets in.  Both held in the runs with three threads and one exclusive
acquisition; no invariant was inductive for them, and TLC found them false with four threads and two acquisitions,
after a late signal.  Both are now stated up to the first late signal.

**Only model-checked:**

- liveness, which is out of the prover's reach: `OperationsReturn`, `MessagesComeBack`, `ThreadsStop`, `WaiterGetsIn`, `WriterGetsIn`,
  `EveryWorkRuns`;
- `SetupAsSpecified`, which says that loops compute what closed forms say.

## 7. Plan

Done: `RWLock`; `LinearHash` with its arithmetic, refinement, failures and liveness; `TableSetup`; the proofs of
`LinearHash`'s `IInv`; then `NodeClumps`, `SubTables`, `HashTable`, `TreeHashTable`, `AllocCache` with its proofs,
`PutRequest`, `ServerIOCP`, `Win32MRW`, `TraceLog`, `ThreadPooling`, `WinsockServer`, `SubTableSetup`,
`PartialSums`.

Then the proofs of `LinearHash`: the bucket locks, `RecordsReachable`, `KeysUnique`, `ReferencesExact`,
`CheckTableConsistent` and the refinement.

Then the proofs of the programs: `NoReaderOvertaken`, `WriterAlone`, `WorkTakenOnce`, `EchoInOrder`, `InputCopied`,
`OneOperation`, `TypesOK`.

Then the proofs of the structures that need no induction over data: the refinement of `SubTables` and its walks, the set-ups'
failures, the entries of `TraceLog`.

Then those that do: `HASH_TABLE` with its refinement; the chains of `NodeClumps`; `TREE_HASH_TABLE` with its tree, its counts and its
refinement.  And the bytes of `ServerIOCP`, up to a third send.

Next: the model of multi-key tables, the statistics of a `CLKRHashTable`, its iterator, `PER_CPU`.

## 8. Not modelled

- **Copies.**  `TestIISLib/ttt/TestLKRHashing.cpp` and `TestIISLib/lkrhash.h` are copies of files
  that are modelled.
- **Strings, buffers, base64, multi-strings, lists.**  Sequential conversions of characters; their correctness is in
  the bytes, and the states of a model would be the bytes.
- **HTTP, named pipe, IIS, WebSocket and MSDTC samples.**  They call a service in a row.  The protocol, and all
  concurrency, is in the service, which is not in this repository; a model of them would be one of a guess.
- **`TestThreadPoolManager.cpp`, `IoCompletionPort.cpp`.**  The first calls the system's pool with Sleep in between; the second has the
  pattern of `ServerIOCP` with less in it.
- **Localization, PowerShell, Docker, CSS, debugger exercises.**  Scripts and data.

These are most of the repository, so that the modelled lines are a small share of its lines, and
nearly all of those in which threads share state that the repository itself manages.

## 9. Running

    tlc -workers 2 -config MCLinearHash.cfg MCLinearHash
    tlc -workers 2 -config MCStructures.cfg MCStructures
    tlc -workers 2 -config MCPrograms.cfg MCPrograms
    tlapm LinearHashProofs.tla
    tlapm ProgramsProofs.tla
    tlapm StructuresProofs.tla
    tlapm TablesProofs.tla
    tlapm ClumpsProofs.tla
    tlapm TreeChainsProofs.tla
    tlapm TreesProofs.tla
    tlapm SuiteProofs.tla

`PROJECT.json` lists every run with its module and configuration.
