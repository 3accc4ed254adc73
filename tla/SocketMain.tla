----------------------------- MODULE SocketMain -----------------------------
(***************************************************************************)
(* The life of the process server/server.c, built with                     *)
(* USE_AESD_CHAR_DEVICE: main accepts connections and gives each a thread  *)
(* and an entry in a list; SIGINT and SIGTERM ask it to stop; then main    *)
(* joins the threads of the list and exits.                                *)
(*                                                                         *)
(* What a thread does with the bytes it receives is in SocketWorker: here  *)
(* it only waits for its connection to end.                                *)
(***************************************************************************)
EXTENDS Integers, SequencesExt

CONSTANTS
  Conn,        \* clients, each connecting at most once
  NoEntry,     \* the null struct entry pointer
  MaxSignals,  \* bound: SIGINT and SIGTERM sent to the process
  MaxFaults    \* bound: system calls that fail

ASSUME ConnAssumption == NoEntry \notin Conn
ASSUME BoundAssumption == MaxSignals \in Nat /\ MaxFaults \in Nat

VARIABLES
  main,                          \* where main is
  np,                            \* the entry main works on
  CLOSE_SERVER, SERVER_LISTENING,
  sockfd, backlog,               \* the listening socket and its queue
  client,                        \* the client's end of each connection
  conn_fd, conn_closed,          \* the server's end, and the entry's flag
  list, allocated,               \* the list of entries, the entries not freed
  thread,                        \* the thread of each entry
  signals, faults

socket == <<sockfd, backlog, client>>
flags == <<CLOSE_SERVER, SERVER_LISTENING>>
entries == <<conn_fd, conn_closed, list, allocated>>
vars == <<main, np, flags, socket, entries, thread, signals, faults>>

Init ==
  /\ main = "syslog" /\ np = NoEntry
  /\ CLOSE_SERVER = FALSE /\ SERVER_LISTENING = FALSE
  /\ sockfd = "none" /\ backlog = <<>>
  /\ client = [c \in Conn |-> "new"]
  /\ conn_fd = [c \in Conn |-> "none"] /\ conn_closed = [c \in Conn |-> FALSE]
  /\ list = <<>> /\ allocated = {}
  /\ thread = [c \in Conn |-> "none"]
  /\ signals = 0 /\ faults = 0

\* exited: by exit(); killed: by SIGPIPE; crashed: by a wild pthread_join.
\* (A process that is "stuck" has not ended.)
Ended == main \in {"exited", "killed", "crashed"}
Goto(from, to) == main = from /\ main' = to
Fault == faults < MaxFaults /\ faults' = faults + 1

-----------------------------------------------------------------------------
(* Clients (external) *)

\* The kernel completes the connection and queues it for accept.
Connect(c) ==
  /\ ~Ended
  /\ sockfd = "listening" /\ client[c] = "new"
  /\ client' = [client EXCEPT ![c] = "connected"]
  /\ backlog' = Append(backlog, c)
  /\ UNCHANGED <<main, np, flags, sockfd, entries, thread, signals, faults>>

Disconnect(c) ==
  /\ client[c] = "connected"
  /\ client' = [client EXCEPT ![c] = "gone"]
  /\ UNCHANGED <<main, np, flags, sockfd, backlog, entries, thread, signals, faults>>

\* close(sockfd) resets the connections that are still queued; closing it
\* again does nothing.
CloseListeningSocket ==
  /\ sockfd' = "closed" /\ backlog' = <<>>
  /\ client' = [c \in Conn |-> IF c \in ToSet(backlog) THEN "gone" ELSE client[c]]

-----------------------------------------------------------------------------
(* signal_handler *)

\* The handler runs in the main thread, between any two of its steps.  Before
\* the server listens it logs and exits; when it came in the middle of a library
\* call of main that takes a lock (syslog, getaddrinfo, malloc, freeaddrinfo), its
\* own syslog or exit may wait for that lock, and never return.  Later it
\* sets the flag, and an accept that is blocked returns EINTR: main logs it,
\* closes sockfd and tests the flag.
Signal ==
  /\ ~Ended /\ main # "stuck" /\ signals < MaxSignals
  /\ signals' = signals + 1
  /\ IF SERVER_LISTENING
     THEN /\ CLOSE_SERVER' = TRUE
          /\ IF main = "blocked" /\ backlog = <<>>
             THEN main' = "test" /\ CloseListeningSocket
             ELSE UNCHANGED <<main, socket>>
     ELSE /\ main' \in IF main \in {"syslog", "start"} THEN {"exited", "stuck"} ELSE {"exited"}
          /\ UNCHANGED <<CLOSE_SERVER, socket>>
  /\ UNCHANGED <<np, SERVER_LISTENING, entries, thread, faults>>

-----------------------------------------------------------------------------
(* main: start and accept loop *)

\* main is in syslog while it says that it starts.
SyslogReturns ==
  /\ Goto("syslog", "start")
  /\ UNCHANGED <<np, flags, socket, entries, thread, signals, faults>>

\* getaddrinfo, setsockopt, bind or listen fails: exit(-1).
StartFails ==
  /\ Goto("start", "exited")
  /\ Fault
  /\ UNCHANGED <<np, flags, socket, entries, thread, signals>>

Listen ==
  /\ Goto("start", "listening")
  /\ sockfd' = "listening"
  /\ UNCHANGED <<np, flags, backlog, client, entries, thread, signals, faults>>

SetListening ==
  /\ Goto("listening", "test")
  /\ SERVER_LISTENING' = TRUE
  /\ UNCHANGED <<np, CLOSE_SERVER, socket, entries, thread, signals, faults>>

\* Mutant of Test: while (1), as the flag were not asked for.
TestIgnoringFlag ==
  /\ Goto("test", "accept")
  /\ UNCHANGED <<np, flags, socket, entries, thread, signals, faults>>

\* while (!CLOSE_SERVER)
Test ==
  /\ Goto("test", IF CLOSE_SERVER THEN "stop" ELSE "accept")
  /\ UNCHANGED <<np, flags, socket, entries, thread, signals, faults>>

\* accept finds no connection queued and sleeps in the kernel.
Block ==
  /\ Goto("accept", "blocked")
  /\ sockfd = "listening" /\ backlog = <<>>
  /\ UNCHANGED <<np, flags, socket, entries, thread, signals, faults>>

Accept ==
  /\ Goto("accept", "accepted") \/ Goto("blocked", "accepted")
  /\ backlog # <<>>
  /\ np' = Head(backlog) /\ backlog' = Tail(backlog)
  /\ conn_fd' = [conn_fd EXCEPT ![Head(backlog)] = "open"]
  /\ UNCHANGED <<flags, sockfd, client, conn_closed, list, allocated, thread,
                 signals, faults>>

\* accept fails, as it always does once sockfd is closed: sockfd is closed and
\* the loop goes on.
AcceptFails ==
  /\ Goto("accept", "test")
  /\ IF sockfd = "closed" THEN UNCHANGED faults ELSE Fault
  /\ CloseListeningSocket
  /\ UNCHANGED <<np, flags, entries, thread, signals>>

\* fcntl or malloc fails: break, with CLOSE_SERVER and conn_fd as they are.
SetupFails ==
  /\ Goto("accepted", "stop")
  /\ Fault
  /\ UNCHANGED <<np, flags, socket, entries, thread, signals>>

\* Mutant of Insert: the entry is not put into the list.
InsertNowhere ==
  /\ Goto("accepted", "create")
  /\ allocated' = allocated \cup {np}
  /\ UNCHANGED <<np, flags, socket, conn_fd, conn_closed, list, thread, signals, faults>>

\* The new entry goes to the head of the list.
Insert ==
  /\ Goto("accepted", "create")
  /\ allocated' = allocated \cup {np}
  /\ conn_closed' = [conn_closed EXCEPT ![np] = FALSE]
  /\ list' = <<np>> \o list
  /\ UNCHANGED <<np, flags, socket, conn_fd, thread, signals, faults>>

Create ==
  /\ Goto("create", "test")
  /\ thread' = [thread EXCEPT ![np] = "running"]
  /\ UNCHANGED <<np, flags, socket, entries, signals, faults>>

\* pthread_create fails: the entry stays in the list with no thread and a tid
\* nobody wrote.
CreateFails ==
  /\ Goto("create", "test")
  /\ Fault
  /\ CLOSE_SERVER' = TRUE
  /\ UNCHANGED <<np, SERVER_LISTENING, socket, entries, thread, signals>>

-----------------------------------------------------------------------------
(* main: joining the threads *)

\* SLIST_FOREACH starts at the head.
Stop ==
  /\ Goto("stop", "join")
  /\ np' = IF list = <<>> THEN NoEntry ELSE Head(list)
  /\ UNCHANGED <<flags, socket, entries, thread, signals, faults>>

\* np is removed from the list and freed.  The loop then reads np's next
\* pointer from the freed entry: free overwrites the first words of a block
\* and the pointer is the last, so it is still the one it was.
RemoveEntry ==
  LET i == CHOOSE i \in DOMAIN list : list[i] = np
  IN  /\ list' = RemoveAt(list, i)
      /\ allocated' = allocated \ {np}
      /\ np' = IF i = Len(list) THEN NoEntry ELSE list[i + 1]

\* Mutant of Join: the thread is not waited for.
JoinWithoutWaiting ==
  /\ main = "join" /\ np # NoEntry
  /\ thread[np] # "none"
  /\ RemoveEntry
  /\ UNCHANGED <<main, flags, socket, conn_fd, conn_closed, thread, signals, faults>>

\* pthread_join waits for the thread of np.
Join ==
  /\ main = "join" /\ np # NoEntry
  /\ thread[np] = "ended"
  /\ RemoveEntry
  /\ UNCHANGED <<main, flags, socket, conn_fd, conn_closed, thread, signals, faults>>

\* pthread_join of a tid nobody wrote: an error that is ignored, or a crash.
JoinGarbage ==
  /\ main = "join" /\ np # NoEntry
  /\ thread[np] = "none"
  /\ \/ RemoveEntry /\ UNCHANGED <<main, conn_fd, conn_closed>>
     \/ main' = "crashed" /\ UNCHANGED <<np, entries>>
  /\ UNCHANGED <<flags, socket, thread, signals, faults>>

Exit ==
  /\ np = NoEntry
  /\ Goto("join", "exited")
  /\ UNCHANGED <<np, flags, socket, entries, thread, signals, faults>>

-----------------------------------------------------------------------------
(* handleRequests *)

\* while (!CLOSE_SERVER || !conn_closed): as conn_closed is only set on the way
\* out of the loop, the test never ends it.
LoopGoesOn(c) == ~CLOSE_SERVER \/ ~conn_closed[c]

\* Mutant of RecvEnd: a result of 0 is taken for "nothing there yet".
RecvEndIgnoringClose(c) ==
  /\ ~Ended
  /\ thread[c] = "running" /\ LoopGoesOn(c)
  /\ client[c] = "gone"
  /\ UNCHANGED vars

LeaveLoop(c) ==
  /\ ~Ended
  /\ thread[c] = "running" /\ LoopGoesOn(c)
  /\ thread' = [thread EXCEPT ![c] = "leaving"]
  /\ conn_closed' = [conn_closed EXCEPT ![c] = TRUE]
  /\ UNCHANGED <<main, np, flags, socket, conn_fd, list, allocated, signals>>

\* recv reports the end of the connection.
RecvEnd(c) == client[c] = "gone" /\ LeaveLoop(c) /\ UNCHANGED faults

\* recv reports an error.
RecvFails(c) == Fault /\ LeaveLoop(c)

\* An answer to a client that is gone raises SIGPIPE.
BrokenPipe(c) ==
  /\ ~Ended
  /\ thread[c] = "running" /\ client[c] = "gone"
  /\ Fault
  /\ main' = "killed"
  /\ UNCHANGED <<np, flags, socket, entries, thread, signals>>

\* Mutant of Return: the socket is left open.
ReturnOpen(c) ==
  /\ ~Ended
  /\ thread[c] = "leaving"
  /\ thread' = [thread EXCEPT ![c] = "ended"]
  /\ UNCHANGED <<main, np, flags, socket, entries, signals, faults>>

\* The thread closes its socket and returns.
Return(c) ==
  /\ ~Ended
  /\ thread[c] = "leaving"
  /\ thread' = [thread EXCEPT ![c] = "ended"]
  /\ conn_fd' = [conn_fd EXCEPT ![c] = "closed"]
  /\ UNCHANGED <<main, np, flags, socket, conn_closed, list, allocated, signals, faults>>

-----------------------------------------------------------------------------
Main ==
  \/ SyslogReturns \/ StartFails \/ Listen \/ SetListening
  \/ Test \/ Block \/ Accept \/ AcceptFails \/ SetupFails
  \/ Insert \/ Create \/ CreateFails
  \/ Stop \/ Join \/ JoinGarbage \/ Exit

Thread(c) == RecvEnd(c) \/ Return(c)

Next ==
  \/ Main \/ Signal
  \/ \E c \in Conn : Thread(c) \/ RecvFails(c) \/ BrokenPipe(c) \/ Connect(c) \/ Disconnect(c)

Spec == Init /\ [][Next]_vars

\* Every thread of the process runs; clients may stay connected for ever, and
\* signals and connections may never come.
FairSpec == Spec /\ WF_vars(Main) /\ \A c \in Conn : WF_vars(Thread(c))

-----------------------------------------------------------------------------
(* Properties *)

\* Types of the process's state, part of the invariant that SocketMainProofs proves.
TypeOK ==
  /\ main \in {"syslog", "stuck", "start", "listening", "test", "accept", "blocked",
               "accepted", "create", "stop", "join", "exited", "killed", "crashed"}
  /\ np \in Conn \cup {NoEntry}
  /\ CLOSE_SERVER \in BOOLEAN /\ SERVER_LISTENING \in BOOLEAN
  /\ sockfd \in {"none", "listening", "closed"}
  /\ backlog \in IF sockfd = "listening" THEN Seq(Conn) ELSE {<<>>}
  /\ client \in [Conn -> {"new", "connected", "gone"}]
  /\ conn_fd \in [Conn -> {"none", "open", "closed"}]
  /\ conn_closed \in [Conn -> BOOLEAN]
  /\ list \in Seq(Conn) /\ allocated \subseteq Conn
  /\ thread \in [Conn -> {"none", "running", "leaving", "ended"}]
  /\ signals \in 0..MaxSignals /\ faults \in 0..MaxFaults

\* The entry a thread was given, which it reads and writes until it returns,
\* is not freed under it: main frees entries while other threads still run.
EntryOutlivesThread ==
  \A c \in Conn : thread[c] \in {"running", "leaving"} => c \in allocated

\* The list holds the entries that are not freed, each once: what main walks
\* when it stops is every thread it ever started and has not joined.
ListIsAllEntries ==
  ~Ended => /\ ToSet(list) = allocated
            /\ IsInjective(list)

\* When the server leaves through the end of main no thread is cut off in the
\* middle of an answer, and each has closed its connection.
NoThreadCutOff ==
  main = "exited" => \A c \in Conn :
     thread[c] # "none" => thread[c] = "ended" /\ conn_fd[c] = "closed"

\* Once main joins and the clients it serves are gone, the process ends: no
\* entry keeps main waiting, whatever failed before.
StopsOnceClientsLeave ==
  (main = "join" /\ \A c \in Conn : thread[c] = "running" => client[c] = "gone") ~> Ended

\* A signal ends the server, but for three cases: it came while main was in a library
\* call of the start (the handler never returns), it came between the test of CLOSE_SERVER and
\* accept (main sleeps with nobody to accept), or a client that main waits for
\* does not leave.
SignalEndsTheServer ==
  signals > 0 ~> \/ Ended
                 \/ main = "stuck"
                 \/ main = "blocked" /\ backlog = <<>>
                 \/ main = "join" /\ np # NoEntry /\ client[np] = "connected"

\* The handler's comment: "handler for SIGINT and SIGTERM, exiting if signal".
\* Once the server listens, the signal ends the accept loop.
SignalEndsAcceptLoop == CLOSE_SERVER ~> main \in {"stop", "join"} \/ Ended
=============================================================================
