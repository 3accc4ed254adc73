----------------------------- MODULE SocketFile -----------------------------
(***************************************************************************)
(* server/server.c built without USE_AESD_CHAR_DEVICE: the threads of the  *)
(* connections and a timer thread that adds a timestamp every PERIOD       *)
(* seconds share one FILE, wptr, and its position, under fmutex.  The file *)
(* lives as long as the server does.                                       *)
(*                                                                         *)
(* The accept loop and the list of threads are those of SocketMain; here   *)
(* the threads are there from the start, and main waits for the flag or for *)
(* a call of the accept loop that fails.                                   *)
(***************************************************************************)
EXTENDS Integers, SequencesExt

CONSTANTS
  Conn,            \* connections, each served by a thread of its own
  MaxPieces,       \* bound: what each client sends, in pieces that one recv takes
  BUFSIZE,         \* pieces that one fread returns
  PERIOD,          \* seconds between two timestamps, 10 in the source
  Tick,            \* what one second of the clock is divided into
  MaxTime,         \* bound: when the clock stops, in ticks
  MaxFaults,       \* bound: calls that fail, at the start, in the accept loop or in a thread
  Nobody, Timer,   \* the holder of a free mutex; the timer thread
  Unsent           \* stands for what sendto did not take

ASSUME ThreadAssumption == Nobody # Timer /\ {Nobody, Timer} \cap Conn = {}
ASSUME SizeAssumption == {BUFSIZE, PERIOD, Tick, MaxTime} \subseteq Nat \ {0}
ASSUME BoundAssumption == MaxPieces \in [Conn -> Nat] /\ MaxFaults \in Nat

VARIABLES
  file, exists,    \* what FILENAME holds, and whether there is such a file
  wptr,            \* "NULL", "open" or "closed"
  position,        \* the position of wptr, shared by all threads
  main,
  CLOSE_SERVER,
  fmutex,
  pc,              \* where each thread is, the timer included
  count,           \* pieces received from each client; timestamps of the timer
  got,             \* the answer each client is sent, with Unsent for what is left out
  cut,             \* history: whose answer a failed call left incomplete
  lost,            \* history: the pieces whose fwrite, or the flush after it, failed
  clock,           \* CLOCK_MONOTONIC, in ticks; the wall clock is taken to run with it
  start, target,   \* of the timer, in ticks
  stamps,          \* history: when each timestamp was taken
  faults

vars == <<file, exists, wptr, position, main, CLOSE_SERVER, fmutex, pc, count, got, cut, lost,
          clock, start, target, stamps, faults>>
disk == <<file, exists, wptr, position, lost>>
client == <<count, got, cut>>
timing == <<start, target, stamps>>

Thread == Conn \cup {Timer}

Init ==
  /\ file = <<>> /\ exists = FALSE /\ wptr = "NULL" /\ position = 0
  /\ main = "start" /\ CLOSE_SERVER = FALSE
  /\ fmutex = Nobody
  /\ pc = [t \in Thread |-> "none"]
  /\ count = [t \in Thread |-> 0]
  /\ got = [c \in Conn |-> <<>>] /\ cut = {} /\ lost = {}
  /\ clock \in 0..Tick - 1 /\ start = 0 /\ target = 0 /\ stamps = <<>>
  /\ faults = 0

Goto(t, from, to) == pc[t] = from /\ pc' = [pc EXCEPT ![t] = to]
MainGoto(from, to) == main = from /\ main' = to
Fault == faults < MaxFaults /\ faults' = faults + 1
Running == main \notin {"exited", "failed"}
Second(time) == time \div Tick

\* Time passes.
Advance ==
  /\ Running /\ clock < MaxTime
  /\ clock' = clock + 1
  /\ UNCHANGED <<disk, main, CLOSE_SERVER, fmutex, pc, client, timing, faults>>

-----------------------------------------------------------------------------
(* main and the signal handler *)

\* fopen(FILENAME, "w+") creates the file or empties it.
OpenFile ==
  /\ MainGoto("start", "opened")
  /\ exists' = TRUE /\ file' = <<>> /\ position' = 0 /\ wptr' = "open"
  /\ UNCHANGED <<lost, CLOSE_SERVER, fmutex, pc, client, clock, timing, faults>>

\* fopen, getaddrinfo, setsockopt, bind or listen fails: exit(-1), which closes the
\* file and leaves it there.
StartFails ==
  /\ main \in {"start", "opened"} /\ main' = "failed"
  /\ Fault
  /\ UNCHANGED <<disk, CLOSE_SERVER, fmutex, pc, client, clock, timing>>

\* The server listens, starts the timer, or fails to, and the threads of its clients.
Listen ==
  /\ MainGoto("opened", "serving")
  /\ \/ pc' = [t \in Thread |-> IF t = Timer THEN "begin" ELSE "recv"]
        /\ UNCHANGED <<CLOSE_SERVER, faults>>
     \/ pc' = [t \in Thread |-> "none"] /\ CLOSE_SERVER' = TRUE /\ Fault
  /\ UNCHANGED <<disk, fmutex, client, clock, timing>>

\* SIGINT or SIGTERM: before the server listens the handler itself closes and
\* removes the file and exits; afterwards it sets the flag.
Signal ==
  /\ Running
  /\ IF main \in {"start", "opened"}
     THEN /\ main' = "exited"
          /\ exists' = FALSE
          /\ wptr' = IF wptr = "open" THEN "closed" ELSE wptr
          /\ UNCHANGED CLOSE_SERVER
     ELSE CLOSE_SERVER' = TRUE /\ UNCHANGED <<main, exists, wptr>>
  /\ UNCHANGED <<file, position, lost, fmutex, pc, client, clock, timing, faults>>

\* The loop ends by the flag, which a failing pthread_create sets as well (line 398).
Stop ==
  /\ CLOSE_SERVER
  /\ MainGoto("serving", "join timer")
  /\ UNCHANGED <<disk, CLOSE_SERVER, fmutex, pc, client, clock, timing, faults>>

\* fcntl or malloc fails in the accept loop, which is left with the flag as it is.
\* A server without a timer never enters the loop.
AcceptBreaks ==
  /\ pc[Timer] # "none"
  /\ MainGoto("serving", "join timer")
  /\ Fault
  /\ UNCHANGED <<disk, CLOSE_SERVER, fmutex, pc, client, clock, timing>>

\* Mutant of JoinTimer: the timer is not waited for.
JoinTimerNot ==
  /\ MainGoto("join timer", "join")
  /\ UNCHANGED <<disk, CLOSE_SERVER, fmutex, pc, client, clock, timing, faults>>

\* pthread_join of a timer that was not started is an error, or a crash.
JoinTimer ==
  /\ \/ MainGoto("join timer", "join") /\ pc[Timer] \in {"ended", "none"}
     \/ MainGoto("join timer", "failed") /\ pc[Timer] = "none"
  /\ UNCHANGED <<disk, CLOSE_SERVER, fmutex, pc, client, clock, timing, faults>>

\* The threads of the connections are joined; then the file goes.
CloseFile ==
  /\ \A c \in Conn : pc[c] \in {"none", "ended"}
  /\ MainGoto("join", "exit")
  /\ wptr' = "closed" /\ exists' = FALSE
  /\ UNCHANGED <<file, position, lost, CLOSE_SERVER, fmutex, pc, client, clock, timing, faults>>

Exit ==
  /\ MainGoto("exit", "exited")
  /\ UNCHANGED <<disk, CLOSE_SERVER, fmutex, pc, client, clock, timing, faults>>

-----------------------------------------------------------------------------
(* Both kinds of threads *)

Lock(t, from, to) == Goto(t, from, to) /\ fmutex = Nobody /\ fmutex' = t

\* The n-th piece of thread t, a timestamp when t is the timer.
Piece(t) == <<t, count[t]>>

\* Mutant of AppendPiece: SEEK_SET.
AppendPieceAtStart(t) ==
  /\ file' = <<Piece(t)>> \o SubSeq(file, 2, Len(file))
  /\ position' = 1

\* fseek(wptr, 0, SEEK_END) and fwrite.
AppendPiece(t) ==
  /\ file' = Append(file, Piece(t))
  /\ position' = Len(file) + 1

\* fwrite, or the flush that follows it, fails: a part of the piece is in the file, or
\* nothing, and the position is behind it.
LosePiece(t) ==
  /\ Fault
  /\ lost' = lost \cup {Piece(t)}
  /\ \/ AppendPiece(t)
     \/ file' = file /\ position' = Len(file)

-----------------------------------------------------------------------------
(* handleRequests *)

Recv(c) ==
  /\ Goto(c, "recv", "lock")
  /\ count[c] < MaxPieces[c] /\ count' = [count EXCEPT ![c] = @ + 1]
  /\ UNCHANGED <<disk, main, CLOSE_SERVER, fmutex, got, cut, clock, timing, faults>>

\* The connection is over.
RecvEnd(c) ==
  /\ Goto(c, "recv", "ended")
  /\ UNCHANGED <<disk, main, CLOSE_SERVER, fmutex, client, clock, timing, faults>>

LockFile(c) ==
  /\ Lock(c, "lock", "write")
  /\ UNCHANGED <<disk, main, CLOSE_SERVER, client, clock, timing, faults>>

WritePiece(c) ==
  /\ Goto(c, "write", "rewind")
  /\ AppendPiece(c)
  /\ UNCHANGED <<exists, wptr, lost, main, CLOSE_SERVER, fmutex, client, clock, timing, faults>>

\* The failure is logged and the thread goes on.  When it is the flush in the fseek to
\* the start that fails, the position stays at the end and fread finds nothing to send.
WriteFails(c) ==
  /\ LosePiece(c)
  /\ \/ Goto(c, "write", "rewind") /\ UNCHANGED <<got, cut>>
     \/ /\ Goto(c, "write", "read")
        /\ got' = [got EXCEPT ![c] = [i \in 1..Len(file') |-> Unsent]]
        /\ cut' = cut \cup {c}
  /\ UNCHANGED <<exists, wptr, main, CLOSE_SERVER, fmutex, count, clock, timing>>

Rewind(c) ==
  /\ Goto(c, "rewind", "read")
  /\ position' = 0
  /\ UNCHANGED <<file, exists, wptr, lost, main, CLOSE_SERVER, fmutex, client, clock, timing,
                 faults>>

\* The next fread, of which sendto takes so many pieces; the rest is not sent again.
Buffered == Min({BUFSIZE, Len(file) - position})
Send(c, taken) ==
  /\ got' = [got EXCEPT ![c] = @ \o
                [i \in 1..Buffered |-> IF i <= taken THEN file[position + i] ELSE Unsent]]
  /\ position' = position + Buffered

ReadAndSend(c) ==
  /\ Goto(c, "read", "read")
  /\ position < Len(file)
  /\ Send(c, Buffered)
  /\ UNCHANGED <<file, exists, wptr, lost, main, CLOSE_SERVER, fmutex, count, cut, clock, timing,
                 faults>>

\* The socket does not block: sendto takes a part of the buffer or fails, which is logged.
SendShort(c) ==
  /\ Goto(c, "read", "read")
  /\ position < Len(file)
  /\ Fault
  /\ \E taken \in 0..Buffered - 1 : Send(c, taken)
  /\ cut' = cut \cup {c}
  /\ UNCHANGED <<file, exists, wptr, lost, main, CLOSE_SERVER, fmutex, count, clock, timing>>

\* sendto to a client that is gone raises SIGPIPE, which ends the process.
SendBrokenPipe(c) ==
  /\ pc[c] = "read" /\ position < Len(file)
  /\ main' = "failed"
  /\ UNCHANGED <<disk, CLOSE_SERVER, fmutex, pc, client, clock, timing, faults>>

\* Mutant of Unlock: the mutex is kept.
UnlockNot == fmutex' = fmutex

Unlock == fmutex' = Nobody

\* The answer is over, and so is its history.
EndAnswer(c) ==
  /\ Goto(c, "read", "recv")
  /\ got' = [got EXCEPT ![c] = <<>>] /\ cut' = cut \ {c}
  /\ Unlock
  /\ UNCHANGED <<disk, main, CLOSE_SERVER, count, clock, timing>>

EchoDone(c) == position = Len(file) /\ EndAnswer(c) /\ UNCHANGED faults

\* fread fails, which ends the answer like the end of the file does.
ReadFails(c) == position < Len(file) /\ EndAnswer(c) /\ Fault

-----------------------------------------------------------------------------
(* writeTimeEvery10sec *)

TimerBegin ==
  /\ Goto(Timer, "begin", "test")
  /\ start' = clock /\ target' = clock + PERIOD * Tick
  /\ UNCHANGED <<disk, main, CLOSE_SERVER, fmutex, client, clock, stamps, faults>>

TimerEnds ==
  /\ CLOSE_SERVER
  /\ Goto(Timer, "test", "ended")
  /\ UNCHANGED <<disk, main, CLOSE_SERVER, fmutex, client, clock, timing, faults>>

TimerNotDue ==
  /\ ~CLOSE_SERVER /\ clock <= target
  /\ Goto(Timer, "test", "sleep")
  /\ UNCHANGED <<disk, main, CLOSE_SERVER, fmutex, client, clock, timing, faults>>

\* Mutant of NextTarget: the target stays behind.
TargetKept == target

\* PERIOD after the current second; the part of a second stays that of the start.
NextTarget == (Second(clock) + PERIOD) * Tick + (target % Tick)

TimerDue ==
  /\ ~CLOSE_SERVER /\ clock > target
  /\ Goto(Timer, "test", "stamp")
  /\ target' = NextTarget
  /\ UNCHANGED <<disk, main, CLOSE_SERVER, fmutex, client, clock, start, stamps, faults>>

\* time(), which may be any time after the clock was compared with the target.
TakeTime ==
  /\ Goto(Timer, "stamp", "lock")
  /\ stamps' = Append(stamps, clock)
  /\ count' = [count EXCEPT ![Timer] = @ + 1]
  /\ UNCHANGED <<disk, main, CLOSE_SERVER, fmutex, got, cut, clock, start, target, faults>>

\* Mutant of TimerLocks: the mutex is not waited for.
TimerLocksAnyway ==
  /\ Goto(Timer, "lock", "write") /\ fmutex' = Timer
  /\ UNCHANGED <<disk, main, CLOSE_SERVER, client, clock, timing, faults>>

TimerLocks ==
  /\ Lock(Timer, "lock", "write")
  /\ UNCHANGED <<disk, main, CLOSE_SERVER, client, clock, timing, faults>>

TimerWrites ==
  /\ Goto(Timer, "write", "sleep")
  /\ AppendPiece(Timer)
  /\ Unlock
  /\ UNCHANGED <<exists, wptr, lost, main, CLOSE_SERVER, client, clock, timing, faults>>

\* Also when the flush fails that only the next fseek of some thread does: it writes at
\* the end as well, so that nothing differs but the time of the failure.
TimerWriteFails ==
  /\ Goto(Timer, "write", "sleep")
  /\ LosePiece(Timer)
  /\ Unlock
  /\ UNCHANGED <<exists, wptr, main, CLOSE_SERVER, client, clock, timing>>

\* sleep(1) takes a second, or less when a signal ends it.
TimerWakes ==
  /\ Goto(Timer, "sleep", "test")
  /\ UNCHANGED <<disk, main, CLOSE_SERVER, fmutex, client, clock, timing, faults>>

Serve(c) == LockFile(c) \/ WritePiece(c) \/ Rewind(c) \/ ReadAndSend(c) \/ EchoDone(c)
ServeFails(c) == WriteFails(c) \/ SendShort(c) \/ SendBrokenPipe(c) \/ ReadFails(c)
Timing == TimerBegin \/ TimerEnds \/ TimerNotDue \/ TimerDue \/ TakeTime \/ TimerLocks
            \/ TimerWrites \/ TimerWakes

\* exit() ends the threads with the process.
Next ==
  \/ Advance
  \/ OpenFile \/ StartFails \/ Listen \/ Signal \/ Stop \/ AcceptBreaks
  \/ JoinTimer \/ CloseFile \/ Exit
  \/ Running /\ (Timing \/ TimerWriteFails)
  \/ Running /\ \E c \in Conn : Recv(c) \/ RecvEnd(c) \/ Serve(c) \/ ServeFails(c)

Spec == Init /\ [][Next]_vars

\* Threads are scheduled; nothing is assumed of clients, the clock, signals and calls
\* that fail, nor of the order in which the mutex is granted.
FairSpec == Spec /\ WF_vars(Running /\ Timing) /\ \A c \in Conn : WF_vars(Running /\ Serve(c))

-----------------------------------------------------------------------------
(* Properties *)

\* An answer is the whole file as it is, timestamps included, though it is read
\* and sent a buffer at a time from a position that all threads share.  Where
\* sendto takes less than the buffer, or the rewind fails, parts of the file are
\* missing from it, against the comment "Blocking write" of the socket, which does
\* not block; but what is sent is the file in its order, and nothing is missing
\* from an answer of which no call failed.
AnswerIsTheFile ==
  \A c \in Conn : pc[c] = "read" /\ position = Len(file) =>
    /\ Len(got[c]) = Len(file)
    /\ \A i \in 1..Len(file) : got[c][i] \in {file[i], Unsent}
    /\ c \notin cut => got[c] = file

\* Everything the clients sent and every timestamp is in the file once, each
\* thread's in order, save the pieces whose own write failed: nothing is overwritten
\* or lost while others read, and a failed write takes no other piece with it.
Written(t) == IF pc[t] \in {"lock", "write"} THEN count[t] - 1 ELSE count[t]
FileHoldsEverything ==
  /\ \A t \in Thread : \A n \in 1..Written(t) :
       <<t, n>> \in lost \/ \E i \in 1..Len(file) : file[i] = <<t, n>>
  /\ \A i \in 1..Len(file) : file[i][2] \in 1..Written(file[i][1])
  /\ \A i, j \in 1..Len(file) : i < j /\ file[i][1] = file[j][1] => file[i][2] < file[j][2]

\* No timestamp is early, however late those before it were: the i-th is written
\* more than i periods after the timer began.  (Two of them may be close: what is
\* written is the time after the clock was compared, when the thread may have waited.)
StampsAreNotEarly ==
  \A i \in 1..Len(stamps) : stamps[i] > start + i * (PERIOD * Tick)

\* The file is open under every thread that may use it, and a server that exits
\* in order removes it, at whatever point it was told to.
FileLivesAsLongAsItsUsers ==
  /\ Running /\ (\E t \in Thread : pc[t] \notin {"none", "ended"}) => wptr = "open"
  /\ main = "exited" => ~exists /\ wptr # "open"

\* The flag ends the timer, also when it waits for the mutex.  Only the flag does:
\* when the accept loop ends by AcceptBreaks, main waits for the timer until a signal
\* sets it.
TimerStops == CLOSE_SERVER ~> pc[Timer] \in {"none", "ended"} \/ ~Running
=============================================================================
