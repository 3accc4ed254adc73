-------------------------- MODULE SocketDescriptors --------------------------
(***************************************************************************)
(* The descriptor numbers of server/server.c, built with                   *)
(* USE_AESD_CHAR_DEVICE.  main and the connection threads open and close   *)
(* numbers of one table: a number that is closed is soon another file, and *)
(* main goes on closing sockfd after it closed it once.                    *)
(*                                                                         *)
(* What the threads do with the bytes is in SocketWorker, and what main    *)
(* does with threads and signals in SocketMain.                            *)
(***************************************************************************)
EXTENDS Integers

CONSTANTS
  Conn,          \* connections, each served by a thread of its own
  Fd,            \* the numbers the process may use
  MaxFaults,     \* bound: calls that fail though a number is free
  Nobody         \* the holder of a free mutex

ASSUME ConnAssumption == Nobody \notin Conn
ASSUME SizeAssumption == Fd # {} /\ MaxFaults \in Nat

VARIABLES
  fds,           \* what each number is
  sockfd,        \* main's number of the listening socket
  main,          \* main accepts, or left its loop
  conn_fd, write_fd, local_read_fd,   \* of each connection's thread
  pc,            \* where each thread is
  fmutex,
  leaked,        \* history: numbers of device files no variable names any more
  faults

locals == <<conn_fd, write_fd, local_read_fd>>
vars == <<fds, sockfd, main, locals, pc, fmutex, leaked, faults>>

\* What a number may be: nothing, the listening socket, or what c's thread has.
Listening == <<"listening">>
Unused == <<"unused">>
ConnOf(c) == <<"connection", c>>
WriteOf(c) == <<"device for write", c>>
ReadOf(c) == <<"device for read", c>>

Free == {n \in Fd : fds[n] = Unused}

Init ==
  /\ sockfd \in Fd
  /\ fds = [n \in Fd |-> IF n = sockfd THEN Listening ELSE Unused]
  /\ main = "accepting"
  /\ conn_fd = [c \in Conn |-> sockfd]     \* not read before they are set
  /\ write_fd = conn_fd /\ local_read_fd = conn_fd
  /\ pc = [c \in Conn |-> "none"]
  /\ fmutex = Nobody
  /\ leaked = {}
  /\ faults = 0

Goto(c, from, to) == pc[c] = from /\ pc' = [pc EXCEPT ![c] = to]
Fault == faults < MaxFaults /\ faults' = faults + 1

\* The kernel gives a number that is free.  (The lowest one; but an accept that
\* waits has reserved a number already, so which one is left open here.)
Opens(n, what) == n \in Free /\ fds' = [fds EXCEPT ![n] = what]

\* close of a number that is not open does nothing.
Closes(numbers) ==
  /\ fds' = [n \in Fd |-> IF n \in numbers THEN Unused ELSE fds[n]]
  /\ leaked' = leaked \ numbers

\* No number is left, or the call fails for another reason.
OpenFails ==
  \/ Free = {} /\ UNCHANGED faults
  \/ Fault

-----------------------------------------------------------------------------
(* main *)

Accept(c, n) ==
  /\ main = "accepting" /\ fds[sockfd] = Listening
  /\ Goto(c, "none", "recv")
  /\ Opens(n, ConnOf(c))
  /\ conn_fd' = [conn_fd EXCEPT ![c] = n]
  /\ UNCHANGED <<sockfd, main, write_fd, local_read_fd, fmutex, leaked, faults>>

\* accept fails: no number is free, or sockfd is not a socket any more.  The
\* number sockfd is closed, whatever it is by now, and the loop goes on.
AcceptFails ==
  /\ main = "accepting"
  /\ \/ fds[sockfd] # Listening /\ UNCHANGED faults
     \/ fds[sockfd] = Listening /\ OpenFails
  /\ Closes({sockfd})
  /\ UNCHANGED <<sockfd, main, locals, pc, fmutex>>

\* fcntl, malloc or pthread_create fails: main leaves its loop, and nobody
\* closes the connection.
SetupFails(c, n) ==
  /\ main = "accepting" /\ fds[sockfd] = Listening
  /\ main' = "stopped"
  /\ Goto(c, "none", "unserved")
  /\ Opens(n, ConnOf(c))
  /\ conn_fd' = [conn_fd EXCEPT ![c] = n]
  /\ Fault
  /\ UNCHANGED <<sockfd, write_fd, local_read_fd, fmutex, leaked>>

-----------------------------------------------------------------------------
(* handleRequests *)

\* Mutant of Lock: the mutex is not waited for.
LockAnyway(c) ==
  /\ Goto(c, "recv", "open")
  /\ fmutex' = c
  /\ UNCHANGED <<fds, sockfd, main, locals, leaked, faults>>

Lock(c) ==
  /\ Goto(c, "recv", "open")
  /\ fmutex = Nobody /\ fmutex' = c
  /\ UNCHANGED <<fds, sockfd, main, locals, leaked, faults>>

OpenForWrite(c, n) ==
  /\ Goto(c, "open", "write")
  /\ Opens(n, WriteOf(c))
  /\ write_fd' = [write_fd EXCEPT ![c] = n]
  /\ UNCHANGED <<sockfd, main, conn_fd, local_read_fd, fmutex, leaked, faults>>

OpenForWriteFails(c) ==
  /\ Goto(c, "open", "recv")
  /\ OpenFails
  /\ fmutex' = Nobody
  /\ UNCHANGED <<fds, sockfd, main, locals, leaked>>

\* write(write_fd), then the open for reading.
OpenForRead(c, n) ==
  /\ Goto(c, "write", "read")
  /\ Opens(n, ReadOf(c))
  /\ local_read_fd' = [local_read_fd EXCEPT ![c] = n]
  /\ UNCHANGED <<sockfd, main, conn_fd, write_fd, fmutex, leaked, faults>>

\* write_fd goes out of scope without a close.
OpenForReadFails(c) ==
  /\ Goto(c, "write", "recv")
  /\ OpenFails
  /\ leaked' = leaked \cup {n \in {write_fd[c]} : fds[n] = WriteOf(c)}
  /\ fmutex' = Nobody
  /\ UNCHANGED <<fds, sockfd, main, locals>>

\* Mutant of EchoDone: only the descriptor that was read is closed.
EchoDoneClosingOne(c) ==
  /\ Goto(c, "read", "recv")
  /\ Closes({local_read_fd[c]})
  /\ fmutex' = Nobody
  /\ UNCHANGED <<sockfd, main, locals, faults>>

\* The device was read and sent to conn_fd up to its end, or to an error.
EchoDone(c) ==
  /\ Goto(c, "read", "recv")
  /\ Closes({write_fd[c], local_read_fd[c]})
  /\ fmutex' = Nobody
  /\ UNCHANGED <<sockfd, main, locals, faults>>

\* Mutant of Leave: the device files are closed again, to be sure.
LeaveClosingAll(c) ==
  /\ Goto(c, "recv", "closed")
  /\ Closes({conn_fd[c], write_fd[c], local_read_fd[c]})
  /\ UNCHANGED <<sockfd, main, locals, fmutex, faults>>

\* recv reported the end of the connection, or an error.
Leave(c) ==
  /\ Goto(c, "recv", "closed")
  /\ Closes({conn_fd[c]})
  /\ UNCHANGED <<sockfd, main, locals, fmutex, faults>>

Next ==
  \/ AcceptFails
  \/ \E c \in Conn :
       \/ \E n \in Fd : Accept(c, n) \/ SetupFails(c, n)
                          \/ OpenForWrite(c, n) \/ OpenForRead(c, n)
       \/ Lock(c) \/ OpenForWriteFails(c) \/ OpenForReadFails(c) \/ EchoDone(c) \/ Leave(c)

Spec == Init /\ [][Next]_vars

-----------------------------------------------------------------------------
(* Properties *)

\* A client's connection is closed by its own thread only: main's repeated
\* close(sockfd) and the numbers the threads let go of never hit it.
ConnectionsKeepTheirNumber ==
  \A c \in Conn :
     pc[c] \in {"unserved", "recv", "open", "write", "read"} => fds[conn_fd[c]] = ConnOf(c)

\* The bytes of a client never go to another file.  When main closes sockfd again
\* and the number is now a thread's device file, that file is gone, and the
\* thread's write or read fails; but nothing else can have taken the number.
DeviceNumbersAreNotReused ==
  \A c \in Conn :
     /\ pc[c] = "write" => fds[write_fd[c]] \in {WriteOf(c), Unused}
     /\ pc[c] = "read" => /\ fds[local_read_fd[c]] \in {ReadOf(c), Unused}
                          /\ fds[write_fd[c]] \in {WriteOf(c), ReadOf(c), Unused}

\* As long as main did not see accept fail, nobody closes a device file under a thread.
DeviceFilesStayOpen ==
  fds[sockfd] = Listening => \A c \in Conn :
     /\ pc[c] \in {"write", "read"} => fds[write_fd[c]] = WriteOf(c)
     /\ pc[c] = "read" => fds[local_read_fd[c]] = ReadOf(c)

\* What a thread calls its connection or its device file is that file, or a number
\* main closed under it.
NumbersNameTheirFiles ==
  ConnectionsKeepTheirNumber /\ DeviceNumbersAreNotReused /\ DeviceFilesStayOpen

\* Every number in use is somebody's: the listening socket, a connection that
\* is served (or that main could not serve), a file of the thread that holds the
\* mutex, or one that a failed second open left behind.
NumbersAreAccounted ==
  \A n \in Fd \ (Free \cup leaked) :
     \/ fds[n] = Listening
     \/ \E c \in Conn : \/ pc[c] \notin {"none", "closed"} /\ n = conn_fd[c]
                        \/ fmutex = c /\ pc[c] \in {"write", "read"} /\ n = write_fd[c]
                        \/ fmutex = c /\ pc[c] = "read" /\ n = local_read_fd[c]
=============================================================================
