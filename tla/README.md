# A TLA+ model of the AESD character device and its socket server

The repository holds a Linux character device driver that keeps the last ten
lines written to it (`src/aesd-char-driver`), a TCP server that writes what
clients send to that device and sends the device's contents back
(`src/server`), and a set of smaller course programs (`src/examples`,
`src/finder-app`). This directory models the driver, both builds of the server
and the course programs, checks the models with TLC on small instances and
proves with TLAPS, for every instance, the safety properties of all of them, and
that the library and the driver implement their abstractions.

## Inventory

| Component | State it keeps | Operations | Hard part |
|---|---|---|---|
| circular buffer library, `aesd-circular-buffer.c` | ten entries, `in_offs`, `out_offs` (both `uint8_t`), `full` | init, add_entry, find_entry_offset_for_fpos | wrap-around, full against empty, C's `%` on a difference |
| character driver, `main.c` | `aesd_dev`: the same ring, the unfinished line `curr_input`, `total_bytes_evicted`, a semaphore | open, release, read, write, module load and unload | concurrent files, eviction under a reader's position, allocations and copies that fail half way |
| server threads, `server.c` `handleRequests` | `recv_buf`, `send_buf`, the mutex `fmutex` | recv, write to the device, read it back, send | one critical section of several system calls, a byte stream cut anywhere |
| server main, `server.c` `main` and `signal_handler` | `CLOSE_SERVER`, `SERVER_LISTENING`, `sockfd`, the list of entries | accept, create threads, signal, join, exit | signals between any two steps, freeing entries while threads run |
| regular-file build of the server (without `USE_AESD_CHAR_DEVICE`, `server.c:33`) | `wptr` and its position, a timer thread | append what clients send, append a time stamp every ten seconds, send the file back | one position shared by all threads, a timer and a signal at any moment |
| threading example | `thread_data`, a mutex | sleep, lock, sleep, unlock | ownership of `thread_data`, interrupted sleeps |
| system call example | descriptors, stdio's buffer, child processes | `do_system`, `do_exec`, `do_exec_redirect` | what a fork copies, descriptors and children on error paths |
| writer and finder utilities | a directory of files | write a file, count files and lines, test both | short writes, failures that a script must not take for success |
| image and load scripts, tests, CI | the file system | - | - |

How they interact: `SIGINT`/`SIGTERM` and connections drive server main, which
starts one thread per connection; the threads share the device through
`fmutex` and system calls; the device serialises these calls with `dev->sem`
and allocates with `kmalloc`; unloading the module needs every file closed.

What makes each one correct:

- the library: the ring is a sliding window over the adds, and the search
  finds the byte at each position of the concatenated entries;
- the driver: the ring holds the newest lines byte for byte, a read returns
  the bytes at its position, positions skip evicted bytes only, no buffer is
  lost, shared or used after it was freed, each call returns;
- the server threads: an answer is one consistent picture of the device, a
  client's bytes arrive complete and in order, every client is served;
- server main: entries outlive their threads, all threads are joined, the
  server stops; what it calls by a descriptor's number is the file it opened;
- the regular-file build: an answer is the whole file as far as it is sent,
  nothing is overwritten, no stamp is early, the file outlives its users and
  not the server;
- the examples: a wait is slept in full and the mutex held through it; `true`
  means that the command succeeded, and output is where it was directed; the test
  script says success exactly when every file was written.

`PROJECT.json` lists the hazards line by line, each with the properties that
watch it or the reason why none does.

## Modules

| Module | What it is |
|---|---|
| `RingIndex` | index arithmetic shared by library and driver: C's truncating `%`, stores to `uint8_t`, the next slot, the number of entries, the k-th slot |
| `CircularBuffer` | the library; `AddEntry` is `aesd_circular_buffer_add_entry`, `FindEntryOffsetForFpos` the search |
| `SlidingWindow` | abstract: the last `Capacity` items |
| `AesdChar` | the driver, with the kernel heap and the user threads around it |
| `LineLog` | abstract: a log that takes bytes, keeps the last lines, answers reads in one step |
| `AesdCharLog` | the refinement mapping from `AesdChar` to `LineLog` |
| `SocketWorker` | `handleRequests` of all connections, on a device that is an instance of `LineLog` |
| `SocketMain` | `main`, `signal_handler` and the life of each thread |
| `SocketDescriptors` | the descriptor numbers main and the threads share |
| `SocketFile` | the build of the server on a regular file, with the timer thread |
| `Threading` | `examples/threading/threading.c` and a caller that joins its threads |
| `SystemCalls` | `examples/systemcalls/systemcalls.c` over fork, exec, wait and descriptors |
| `FinderApp` | `finder-app/writer.c`, `finder.sh` and `finder-test.sh` |
| `CircularBufferProofs`, `AesdCharProofs` | lemmas and theorems about the library and the driver |
| `SocketWorkerProofs`, `SocketMainProofs`, `SocketDescriptorsProofs`, `SocketFileProofs` | lemmas and theorems about the server |
| `ThreadingProofs` | lemmas and theorems about the threading example |
| `ProcessProofs` | lemmas and theorems about `SystemCalls`, and about `FinderApp`, of which it has an instance |
| `MC*` and their `.cfg` files | TLC instances |

### The driver

`aesd_read` and `aesd_write` run between `down` and `up`. The model cuts each
at its loops: `WriteBegin` (down, kmalloc, growing `curr_input`,
copy_from_user), one `WriteByte` or `WriteNewline` per iteration of the loop,
`WriteEnd`, `WriteOut`; `ReadBegin`, one `FindNext` per entry scanned,
`FindHit` or `FindEof`, one `CopyEntry` per entry copied, `CopyToUser`,
`ReadOut`. The semaphore is part of the state, so the interleaving of calls is
what the code allows, not what the model assumes. `WriteNewline` is the whole
`'\n'` branch: eviction, commit, the allocation for the rest, and the short
write when that allocation fails.

The heap is a set of addresses in use and the contents of each. A freed buffer
loses its contents, so that reading it afterwards gives wrong bytes and shows
up in the properties. `kmalloc(0)` returns `ZERO_SIZE_PTR` as the kernel does;
`kmalloc` fails when no address is left or when a failure is injected.
`kmalloc` and the VFS (which stores `f_pos` only when `read` succeeds) are
external and modelled from how `main.c` uses them.

The history variables `stream` (every byte taken) and `marks` (where each
committed line ends) are what the properties compare the device with; nothing
in the driver reads them. `wr[t].buf` is the caller's buffer: `aesd_write` copies
from it once, and `WriteReportsWhatItTook` compares it, byte for byte, with what
the device took when the call returns.

### The server

`SocketWorker` replaces the device by `LineLog`, which `AesdChar` is shown to
implement (run `driver`): the worker's system calls on the device are the
log's actions. Lines are written byte by byte under `fmutex`; the answer is a
loop of `read` and `sendto`. The history variable `taken` keeps, per connection,
the bytes the device took of it. `open`, `write`, `read`, `recv` and `sendto` may
fail, and `sendto` to a client that is gone may end the process (SIGPIPE is
not handled). `RecvEnd` is the end of the connection, `RecvFails` an error.

`SocketMain` keeps only the life of each thread. Signals are handled in the
main thread (the kernel gives a signal sent to a process to the main thread
when it does not block it) between any two of its steps. The handler calls
`syslog` and `exit`, which are not async-signal-safe: a signal that comes while
main itself is in `syslog`, or at the start in `getaddrinfo`, `malloc` or
`freeaddrinfo`, may leave the process `"stuck"`. The list macro reads the `next`
pointer of an entry that was just freed (`server.c:412-416`). That is undefined,
and the model assumes, without checking it, the outcome the C library produces:
the pointer is the last word of the block and survives `free`. What holds of the
list after a join rests on this. A `pthread_join` of a thread id nobody wrote either fails or crashes.

`SocketDescriptors` has the same threads and looks at numbers only. What a
number is (nothing, the listening socket, a connection, a device file opened by
some thread to write or to read) is one function, `fds`; the variables of the
code (`sockfd`, `conn_fd`, `write_fd`, `local_read_fd`) hold numbers. After a
failed `accept` main closes `sockfd` and tries again, so from then on each
failure closes whatever has that number. Any free number may be given out: an
`accept` that waits in the kernel has reserved the lowest one already.

`SocketFile` is the build on `/var/tmp/aesdsocketdata`. The state is the file,
the position of `wptr` that all threads share, main up to the exit, the flag,
and the timer's clock. A piece of what a client sends is tagged with its
connection and its number, so that order and loss can be told; one iteration of
the `fread` loop is `ReadAndSend`. The socket does not block (`server.c:373`), so
an iteration may also be `SendShort`: `sendto` takes a part of the buffer or
nothing, the code logs it and goes on, and the answer has a gap, marked `Unsent`.
`fwrite` and the flush after it may fail (`WriteFails`, `TimerWriteFails`), which
is logged too: a part of the piece is in the file, or nothing (`LosePiece`), and
when it is the flush in the rewind that fails, the position stays at the end and
the answer is empty. `fread` may fail, and a `sendto` to a client that is gone
ends the process. Main leaves its loop by the flag (`Stop`) or by the breaks at
`server.c:376` and `383`, with the flag as it is (`AcceptBreaks`). The timer
compares the clock in `TimerDue` and takes the time it writes in `TakeTime`, any
time later. The clock of the timer has `Tick` parts in a
second, because `writeTimeEvery10sec` adds ten seconds to the second of the
clock and keeps the nanoseconds of the start.

### The examples

`Threading`: one action per step of `threadfunc`. A sleep is a
`struct timespec`; `Interrupted` stores the rest into the other of the two
structures and swaps the pointers, as the loops of the code do. `slept` is a
history variable that adds up what was really slept.

`SystemCalls`: a call is a sequence of `fork`, what the child does, and
`waitpid`. Each call has its own child, which goes on beside the next calls when
`waitpid` was interrupted. A descriptor is the file it names; stdio's buffer is
one flag, which a fork copies, an `exec` drops and an `exit` writes out. The
wait status is the number the kernel gives, taken apart as the macros do.

`FinderApp`: the writer is a process of its own, started by a user or by the
script; the file it writes is absent, empty, or holds part of the text or all of
it. `finder.sh` is one step, as nothing else writes while it counts.

## Runs

| Run | Instance | States | What it shows |
|---|---|---|---|
| `circular_buffer` | 3 slots, entry sizes 0 and 2, 7 adds | 22 K | types; the number of entries scanned; the newest entries held; the search against a plain concatenation; refinement of `SlidingWindow` |
| `driver` | 2 threads (symmetric), 2 lines, 5 bytes, reads of 0 and 3, one failure anywhere | 1.9 M | semaphore, contents, evicted count, buffer ownership, results of short and failed writes, what reads return and how positions move, every call ends, refinement of `LineLog` |
| `worker` | 2 connections, a device of 2 lines, `BUFSIZE` 2, one failure | 0.6 M | consistent answers; after a failure gaps, but nothing twice or out of place; order of bytes; every message served |
| `main` | 3 connections, 2 signals, 2 failures | 0.1 M | entries outlive threads, list complete, nobody cut off, the server stops, and what a signal is worth |
| `descriptors` | 3 connections and 4 numbers (both symmetric), 2 failures | 79 K | a name of the code names its own file or one that main closed; no number is lost but that of `server.c:192` |
| `file_server` | 2 connections with 2 pieces and 1, `fread` of 2, a stamp every second of 2 ticks, 5 ticks, one failure | 0.9 M | whole answers, with gaps only where a call failed; nothing overwritten, a failed write loses itself only; no stamp early; life of the file; the flag stops the timer |
| `threading` | 2 threads, waits of -1, 0 and 1500 ms, 2 interrupted sleeps, one failure, a caller that locks | 75 K | `thread_data` reaches its joiner, waits are slept in full, threads end |
| `system_calls` | 2 calls, descriptors 0 to 3, with and without a stdout, 2 failures | 48 K | `true` means success, where the output of each command is and which is lost, calls return and reap |
| `finder_app` | 3 files, 2 runs of the script, 2 failures | 0.2 M | what success means for the script and for the writer |
| `driver_unload`, `worker_echo`, `main_signal` | smallest that shows it | - | the three findings below |

Bounds. `MaxEntries` is 10 in the source; two or three slots are enough for a
ring to be empty, partly filled, full, and to wrap more than once, and the
theorems about the ring hold for every size up to 255. Writes of nothing, of
part of a line, of an empty line with the start of the next, and of two lines
give lines of one and two bytes, which a read of three bytes ends inside, at the
end of, or beyond; the position it starts from next is then in front of, inside
or at the edge of a line, and an eviction can happen between two reads of a file.
`MaxStream` (bytes taken since the load) is enough for a full ring to evict.
`MCPtr` has six addresses: two lines, the unfinished line, the buffer that
replaces it, one for a reader, and one that can be lost to the leak described
below before `kmalloc` fails for want of memory. `MaxFaults` bounds the failures
that are injected; each can hit any call. In `worker` the
buffer is smaller than what is sent and than what is sent back, in `file_server`
than the file, so that both take several rounds. `MaxSignals` is two so that a second signal meets a server
that is already stopping. Four numbers are fewer than main and three threads
want, so that `descriptors` also meets a full table. In `threading`
a wait of 1500 ms can be cut at 0, 400 and 1000 ms, twice, and so across the
second that separates the two fields of a `timespec`. In `file_server` the
clock runs for more than two periods. In `system_calls` two calls let a child
that was given up live beside the next call.

Symmetry is used in `driver` (threads) and `descriptors` (connections and
numbers): no liveness property is checked there, and no definition, invariant
or action property tells their members apart.

`CHECK_DEADLOCK FALSE` is used where the system ends: all adds made, connections
closed, process exited, all calls or runs made. The driver's runs check
deadlock: some thread can always go on.

## Fairness

- The driver needs none. That its calls end is the action property
  `CallsComeToAnEnd`: every step a thread makes with the semaphore
  lowers `StepsLeft`, a number, so no loop of the handlers runs for ever; and
  `SemaphoreHeldByOne` says that the semaphore is free when nobody holds it.
  That a waiting thread is served is up to `down`, which queues its waiters.
- `SocketWorker`, `SocketMain`, `SocketFile`, `Threading`: weak fairness of
  each thread, main included. Nothing is assumed of the order in which a mutex
  is granted: each thread (and in `Threading` the caller) takes it finitely
  often, so overtaking ends. Clients need not connect, send or leave, signals
  need not come, the clock need not go on.
- `Threading`: also that the caller unlocks what it locked.
- `SystemCalls`: weak fairness of the program inside a call and of each child,
  that is, commands end.
- Failures have no fairness anywhere: where the fair action of a thread offers
  failing steps (`SocketWorker`, `SocketMain`) they are bounded, and in the
  other modules they are outside it.

## Findings

1. `driver_unload`, `main.c:219`: after a line that ends a write, `curr_input`
   holds a one-byte buffer and size 0. The next write frees the old buffer only
   if the size is not 0, so each such write leaks a buffer, and module unload
   cannot free it.
2. `worker_echo`, `server.c:198`: the device is sent back after every `recv`.
   A line longer than `BUFSIZE`, or cut by TCP, is answered more than once,
   where `test.sh:56` compares all the client received with the contents once.
3. `main_signal`, `server.c:364`: a signal between the test of `CLOSE_SERVER`
   and `accept` does not end the server until the next connection.

Seen while modelling, in the models, and without a run of their own:

- `server.c:66`: the handler's `syslog` or `exit` in the middle of a call of main
  that holds a lock of the C library may never return (`SignalEndsTheServer` names
  the case).
- `server.c:156`: `!CLOSE_SERVER || !conn_closed` is never false inside the
  loop, as only the way out sets `conn_closed`: a server told to stop waits for
  every client to leave (named by `SignalEndsTheServer` too).
- `server.c:369`: after one failed `accept`, `sockfd` is closed and the loop goes
  on, closing that number again each time (`SocketDescriptors`).
- `server.c:224`: what `sendto` did not take is not sent again, and the socket is
  made non-blocking in line 373, where the comment in line 223 says "Blocking
  write". `AnswerIsTheFile` and `AnswerIsTheDevice` promise whole answers only as
  long as no call failed, and `AnswerKeepsTheOrder` what is left after one did.
- `server.c:405`: after a break at line 376 or 383 the flag is not set, the log says
  "Caught signal, exiting" (line 402), and main waits for a timer that goes on
  until a signal comes. `TimerStops` therefore begins with the flag.
- `server.c:192`: a failed second `open` leaves `write_fd` open (`leaked`).
- `server.c:282`: `fopen` with `w+` empties the file before the server knows
  whether it can bind, so that a second server empties the file of the first.
- `systemcalls.c:124`: the descriptor opened for the redirect is closed in the
  child (line 147) and on no path of the parent, where the comment above the
  function (line 105) says of the file that it "will be closed at completion of
  the function call".
- `systemcalls.c:143`: in a program without a stdout `open` returns descriptor 1,
  `dup2` leaves it alone and line 147 closes it: the output is lost, where line 104
  says that it goes to the file, and the output of later calls goes there instead.
  `OutputGoesToItsFile` says exactly that.
- `systemcalls.c:150`: a child that cannot execute its command writes the text
  it inherited from the parent's stdio into the file. `OutputGoesToItsFile`
  names it as the one text of the program that may be found there.
- `threading.c:68`: success is recorded before the mutex is released, where
  `threading.h:19-20` says that it is false if an error occurred: a failing
  unlock leaves it true.
- `writer.c:17`: the argument check lets a call without a string through, which
  empties the file and then reads a null pointer.

## Proofs

The library and the driver compute with the same indices, and the lemmas on what
the C expressions give for indices in range stand at the head of both their
proofs: `NextSlot` and `SlotAfter` wrap once at `MaxEntries`, `EntriesBetween` is
the distance from `out_offs` to `in_offs`. The two facts about `%` they need
(`ModSmall`, `ModWrap`) are lemmas of their own.

`CircularBufferProofs`. None of the properties of the library is inductive.
The inductive invariant `IInv` is the conjunction of `TypeOK`, `Shape` and
`HoldsTheNewest`. `Shape` relates the offsets to the number `n` of adds: before
the ring is full, `out_offs = 0` and `in_offs = n`, with `n` below
`MaxEntries`; once it is full, `in_offs = out_offs` and `n` is at least
`MaxEntries`. It is needed because the count of entries is computed
from a difference that would be ambiguous, or negative, in any other shape.
For the refinement `HoldsTheNewest` is restated as an equality of sequences
(`HeldIsNewest`). What the search returns is a fact about one state, but it
compares two recursive definitions, the running sum `Count` of the scan and
`FlattenSeq`. Both are functions defined by recursion on a range of numbers, and
what holds of all their values is shown by taking the least number at which it
fails (`LeastNatural`, from the library's theorem that `<` on the naturals is
well-founded): that such a function exists (`SumsExist`, `FlattenExists`), that
sums never shrink (`SumsGrow`), and that the byte at position `off` of a
concatenation is in the piece whose running sums lie around `off`
(`FlattenPositions`). `FirstHit` and `NoHit` say that the scan stops there.

From `IInv` follow, for every ring size from 1 to 255:

- `TypeCorrect`: `Spec => []TypeOK`;
- `ScanIsExact`: `Spec => []ScansWhatIsHeld`;
- `NewestAreHeld`: `Spec => []HoldsTheNewest`;
- `ImplementsSlidingWindow`: `Spec => RefinesSlidingWindow`, the initial state
  maps to the empty window and each add to an `Add` of the same item;
- `FindsEveryByte`: `Spec => []FindsTheByteOfTheConcatenation`, for entries of
  any size, 0 included.

`AesdCharProofs` has all theorems about the driver, in the order they build on
each other.

The semaphore. `MutualExclusion`, `Spec => []SemaphoreHeldByOne`, for every
number of threads, heap and set of payloads. The property alone is not
inductive: loading the module sets the semaphore to 1 whatever the threads do.
`SemInv` adds that no file is open while the module is not loaded, which
`CleanupModule`'s guard (the module's reference count) maintains. The proof
has one lemma per way a step can touch the semaphore (`Enter`, `Leave`,
`Stay`, `Unchanged`) and one step per action.

Types and the heap. `DriverTypeCorrect`, `Spec => []TypeOK`, and
`BuffersAreOwnedOnce`, `Spec => []BuffersOwnedOnce`. The two have one inductive
invariant, `IInv`, because they need each other: that the loops of both
handlers stay inside their buffers (and so read bytes and count upwards) needs
the length of each buffer, which needs that nobody else frees it or writes to
it; and that an eviction frees only its own line needs the buffer lengths,
since only a buffer of at least one byte can be given to the ring. Its parts:

- `SemInv`, from the theorem above: a thread that takes a step inside a handler
  is alone there, so only its own locals have to be looked at (`HolderAlone`);
- `RingOK`: a ring that is not full starts in slot 0, a full one has
  `in_offs = out_offs`, and every slot holding a line has a heap buffer;
- `HeapOK`: every buffer of the device is as long as its owner says, in use,
  and owned once. It speaks of the buffers only while the module is loaded;
- `ThreadsOK`: the loop of a write works on `curr_input`'s buffer, which holds
  what it went through and what it has not (`WriterOK`); a read copies to a
  buffer that is not the device's, from inside an entry (`ReaderOK`).

There is one lemma per action. `ReaderStep`, `ReaderHeapStep` and `WriterStep`
reduce each to what the action really changes, `GrowInputInv`, `CommitHeap` and
`PrivateWrite` are the three ways the heap changes. A held slot is reached once
in a turn of the scan (`SlotOfInjective`), which takes the step from slots of
the array to the lines `BuffersOwnedOnce` counts.

Lines, bytes and calls. Six properties follow from one inductive invariant,
`LInv`: `NewestLinesAreHeld` (`HoldsTheNewestLines`), `EvictedBytesAreExact`
(`EvictedBytesExact`), `WritesAreReported` (`WriteReportsWhatItTook`),
`ReadsReturnTheStream` (`ReadReturnsTheStream`), and the action properties
`ReadersKeepTheirPlace` (`ReaderSkipsOnlyEvicted`) and `CallsEnd`
(`CallsComeToAnEnd`). None of them is inductive: what a read returns depends on
what its scan and its loop did many steps earlier, what a line contains on the
bytes that `curr_input`'s buffer held before there was a line. `LInv` is `IInv`
together with

- `RingLinesOK`: the ends of the lines grow (`MarksOK`), the offsets count the
  lines (`CountOK`), an entry's size is the length of its line (`SizesOK`), and
  `total_bytes_evicted` is where the oldest line begins;
- `BytesOK`: the buffer of each line held contains its bytes;
- `TailOK`: the bytes after the last line are the front of `curr_input`'s buffer.
  How many they are is `curr_input.size`, but during the loop of a write it is
  the local `curr_size`;
- `CallsOK`: for a write, what it took is the front of the caller's buffer and
  the rest of it is in `new_buf` behind the unfinished line (`WroteOK`); for a
  read, that the scan's sum is the position of the line it looks at, that
  `kernel_buf` holds the stream from the reader's position on, and that the next
  entry to copy continues it (`ReadOK`);
- `FreeIsEmpty` and `FilesOK`: what `kmalloc` returns has no old bytes in it, and
  a file that is opened starts at 0.

Lines are numbered from the first one ever completed, so that line `l` stays in
its slot until it is evicted and a commit to a full ring disturbs one slot only.
Contents are stated byte by byte (`Holds`), never with `SubSeq` or `\o`: what the
properties say in sequences is derived from that at the end. That calls end is
the bound of `StepsLeft`, the terms of which `IInv` and `ReadOK` keep natural
numbers.

The log. `ImplementsLineLog`, `Spec => RefinesLineLog`: initial states map to
initial states, and each step to one action of `LineLog` or to none. `LogView`
is the mapping's value written with `LInv`'s line numbers. Most steps are quiet
(`SameContents`): a write changes the log in `WriteByte` and `WriteNewline`
only, and a read when it has copied its last entry. That the answer is then the
part of the concatenated lines it claims to be rests on `FlattenIs`, the value
of `FlattenSeq`, again by least counterexample.

`SocketWorkerProofs`: `OneThreadAtTheDevice`, `BytesArriveInOrder` (`ClientBytesInOrder`) and `AnswersAreWhole`
(`AnswerIsTheDevice`), for every number of connections, every device, buffer and
message. `Inv` carries the types (`TypeOK`), `MutexHeld` (a thread holds `fmutex` exactly
between its lock and its unlock, or was ended there by SIGPIPE) and `PlacesOK`
(what is empty and where the file position is at each place of
`handleRequests`). `EchoOK` describes an answer in the making: what was sent and
what was read but not sent are the device's text up to the reader's position,
except before the first read, when the position is 0 and may lie before the
oldest byte, because evictions never moved it. That the text cannot change
meanwhile is `MutexHeld`: only a thread inside writes. `AnswerKeepsTheOrder`, which
compares with a fold, is model-checked only.

`SocketFileProofs`: `AnswersAreTheFile` (`AnswerIsTheFile`), `NothingIsLost`
(`FileHoldsEverything`), `TimestampsAreNotEarly` (`StampsAreNotEarly`) and
`FileOutlivesItsUsers` (`FileLivesAsLongAsItsUsers`), all with failing writes, sends
and reads. The invariant `FInv` adds `MutexHeld`, `EchoOK` (an answer so far is the
file up to the one position all threads share, but for what a failed call left out;
true only for the thread that holds the mutex), `LifeOK` (who may be where at each
point of main) and `StampsOK`: with `n` stamps taken the target is not before the
time the next one is due, and while the timer is about to take one, the clock has
passed that time already. That a failed write takes no other piece with it is
`LoseHolds`, next to `AppendHolds` for one that succeeds.

`SocketMainProofs`: three properties of the server process, for every number of
clients, signals and failures: `EntriesOutliveThreads`
(`EntryOutlivesThread`), `ListIsComplete` (`ListIsAllEntries`) and `NobodyIsCutOff`
(`NoThreadCutOff`). They share one inductive invariant: `TypeOK`, `QueueOK` (the accept queue
repeats nobody and holds only clients without entry or thread), `ListOK` (the list
repeats nobody and is the set of allocated entries), `EntryOK` (the connection
main holds between `accept` and `pthread_create` is in neither or in the list, as far
as main got; while main joins, `np` is the first entry of the list), `NewOK`,
`EarlyOK` (no thread before `SERVER_LISTENING`, so a signal or a failure that exits
early cuts nobody off) and `EndedOK` (a thread that ended closed its connection).
That `np` is always the first entry is what makes `SLIST_REMOVE` and the step to the
next entry take the list apart from the front. The invariant was checked with TLC
on the main run's instance before it was proved. Four lemmas say what `Tail`,
`Append`, a prepend and `RemoveAt` do to a sequence without repetitions.

`SocketDescriptorsProofs`: `NamesAreKept` (`NumbersNameTheirFiles`) and
`NumbersAreOwned` (`NumbersAreAccounted`), for every number of connections and
every table. The invariant adds `MutexHeld` (device files are opened and closed
with `fmutex` held, so no thread opens a number another gave up in between) and
`SockfdIsNoConnection` (after its first close `sockfd` may become a device file,
which the repeated `close(sockfd)` then takes away, but never a connection, since
that needs an accept on it).

`ThreadingProofs`: `ThreadDataIsOwned` (`ThreadDataReachesItsJoiner`) and
`WaitsAreWhole` (`HoldsForTheWholeWait`), for every number of threads and every
pair of waits. The invariant `WaitsAddUp` says that at every moment of a wait what
was slept and what is requested next are the whole wait, and that the request is
valid; `HolderReports` that a thread past its lock holds the mutex and reports
success before it unlocks. `TimespecIsExact` shows that the conversion to seconds
and nanoseconds loses nothing for a wait of a natural number of milliseconds.

`ProcessProofs`, first part: `AnswersAreTrue` (`TrueMeansItsCommandSucceeded`) and
`OutputIsWhereItBelongs` (`OutputGoesToItsFile`), for every number of calls,
descriptors and failures. Neither is inductive: an answer is made from a status
that a child left steps before, and a text lands where a `dup2` or a `fork` steps
before has pointed the child's stdout, which may be the child of an earlier call
whose `waitpid` was interrupted. `CallInv` (`CallSafety`) is both properties with

- `CallTypes` and `NotYet`: what a call that has not begun, not forked or not
  returned cannot have yet: a file, a child, an answer;
- `Statuses`: a child that ended has the status of its own command or that of
  `exit(-1)`, and of these only `Exited(0)` passes for success (`SucceededValue`);
- `Stdouts`: the stdout of each child is `Inherited` before its `dup2` and `Output`,
  the one its output belongs to, after it. Both are computed from `fds[1]` as it is
  now, not as it was at the fork: `open` takes a free descriptor and the program
  closes none, so that its stdout, once open, is never changed, and a file that
  took the place of a missing one belongs to a call that is not before
  (`InheritedNow`, `OutputStays`).

Second part: `SuccessIsDeserved` (`SuccessMeansAllWritten`) and `ZeroIsDeserved`
(`ZeroMeansWritten`), for every number of files, runs and failures. The module
takes `FinderApp` as an instance, so what that module assumes of `MaxFiles` is a
hypothesis of these theorems. `FinderInv` (`FinderSafety`) is `FinderTypes`,
`AtWork` (while a writer runs for the script nobody else writes, and it is at file
`i`), `SoFar` (in the loop the files that are there are those before `i`, and
those with the text are the ones that were written) and `Counted` (what
`finder.sh` counted are all `NUMFILES` files, and as many lines as files got the
text). The script compares numbers, the property speaks of sets: that a part of
`1..NUMFILES` with `NUMFILES` members is all of it is a fact of cardinalities.

Both invariants were checked with TLC on the instances of `system_calls` and
`finder_app` before they were proved.

The assumptions are those the modules declare: `MaxEntries` in `1..255`, sizes
and counts natural numbers, `NULL` and `ZERO_SIZE_PTR` distinct and not
addresses, the newline one of the bytes, payloads and messages sequences of
bytes, `NoEntry` and `Nobody` no client, `BUFSIZE`, `PERIOD`, `Tick` and the
device's capacity at least 1, descriptors up to 2 at least, one file at least,
bounds natural numbers.

Only model-checked are `AnswerKeepsTheOrder`, which is stated with a fold, and
liveness (`EveryMessageServed`, `StopsOnceClientsLeave`,
`SignalEndsTheServer`, `StartedThreadsEnd`, `CallsReturn`, `TimerStops`): that
rests on fairness and `ENABLED`, which are beyond the installed provers.

## Not modelled

- `daemon()`, which forks before anything is shared, name resolution, logging,
  addresses, and a second server process on the same file.
- In `SocketFile`: `localtime` and `strftime` that fail, and a wall clock that is
  set, which is taken to run with the monotonic one; the accept loop and the list,
  which are those of `SocketMain`: the threads of all connections are there when
  the server listens.
- The other outcomes of reading freed memory in `server.c:412-416`, see above.
- `aesd_dev_add_entry` (`main.c:423-440`), which nothing calls, and the failure
  of `alloc_chrdev_region`, which returns before anything changed.
- Arithmetic overflow of `size_t` and of the loop's `int` in the driver: the
  kernel limits a read or write to less than `INT_MAX` bytes.
- The other shell scripts (`writer.sh`, image, QEMU, init and load scripts),
  unit test examples, build files and CI: commands in a row without a state of
  their own, constants, or nothing that runs.

## Plan

Done, in this order: the driver and its library with their abstractions, the
server's threads, its main and signals, its descriptors, its build on a regular
file, the examples and the finder programs. Every program of the repository that
keeps state has its module and its run. Proved is every safety property of the
passing runs but `AnswerKeepsTheOrder`, every action property, and both refinements.

Left: a proof of `AnswerKeepsTheOrder`, for which it would have to be stated with an
increasing function of positions, and a second server process on the same file.
