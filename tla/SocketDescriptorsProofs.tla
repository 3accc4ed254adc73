----------------------- MODULE SocketDescriptorsProofs -----------------------
(***************************************************************************)
(* Proofs about the descriptor numbers of the server, for every number of  *)
(* connections, every table size and any failures.                         *)
(***************************************************************************)
EXTENDS SocketDescriptors, TLAPS

-----------------------------------------------------------------------------
(* What a number may be *)

Kind == {Listening, Unused} \cup UNION {{ConnOf(c), WriteOf(c), ReadOf(c)} : c \in Conn}

\* The things a number may be are told apart, and so are those of two threads.
LEMMA Kinds ==
  /\ Listening \in Kind /\ Unused \in Kind
  /\ \A c \in Conn : ConnOf(c) \in Kind /\ WriteOf(c) \in Kind /\ ReadOf(c) \in Kind
  /\ Listening # Unused
  /\ \A c \in Conn : /\ ConnOf(c) # Unused /\ WriteOf(c) # Unused /\ ReadOf(c) # Unused
                     /\ ConnOf(c) # Listening /\ WriteOf(c) # Listening
                     /\ ReadOf(c) # Listening
  /\ \A c, d \in Conn : /\ ConnOf(c) # WriteOf(d) /\ ConnOf(c) # ReadOf(d)
                        /\ WriteOf(c) # ReadOf(d)
                        /\ c # d => /\ ConnOf(c) # ConnOf(d) /\ WriteOf(c) # WriteOf(d)
                                    /\ ReadOf(c) # ReadOf(d)
BY DEF Kind, Listening, Unused, ConnOf, WriteOf, ReadOf

-----------------------------------------------------------------------------
(* The inductive invariant *)

PC == {"none", "unserved", "recv", "open", "write", "read", "closed"}

\* The tables are tables.
Shape ==
  /\ fds \in [Fd -> Kind]
  /\ sockfd \in Fd
  /\ conn_fd \in [Conn -> Fd] /\ write_fd \in [Conn -> Fd] /\ local_read_fd \in [Conn -> Fd]
  /\ pc \in [Conn -> PC]

\* Device files are opened and closed with the mutex held.
MutexHeld == \A c \in Conn : pc[c] \in {"open", "write", "read"} => fmutex = c

\* Once it is closed, sockfd may become a device file, but no connection: that
\* would take an accept on it.
SockfdIsNoConnection == \A c \in Conn : fds[sockfd] # ConnOf(c)

IInv ==
  /\ Shape /\ MutexHeld /\ SockfdIsNoConnection
  /\ ConnectionsKeepTheirNumber /\ DeviceNumbersAreNotReused /\ DeviceFilesStayOpen
  /\ NumbersAreAccounted

LEMMA InitIInv == Init => IInv
BY Kinds, ConnAssumption
   DEF Init, IInv, Shape, PC, MutexHeld, SockfdIsNoConnection, ConnectionsKeepTheirNumber,
       DeviceNumbersAreNotReused, DeviceFilesStayOpen, NumbersAreAccounted, Free

\* What the helpers the actions share do to the tables.
LEMMA GotoIs ==
  ASSUME Shape, NEW c \in Conn, NEW from, NEW to \in PC, Goto(c, from, to)
  PROVE  /\ pc' \in [Conn -> PC] /\ pc[c] = from /\ pc'[c] = to
         /\ \A d \in Conn \ {c} : pc'[d] = pc[d]
BY DEF Shape, Goto

LEMMA OpensIs ==
  ASSUME Shape, NEW n \in Fd, NEW what \in Kind, Opens(n, what)
  PROVE  /\ fds' \in [Fd -> Kind]
         /\ fds[n] = Unused /\ fds'[n] = what
         /\ \A m \in Fd \ {n} : fds'[m] = fds[m]
BY DEF Shape, Opens, Free

LEMMA ClosesIs ==
  ASSUME Shape, NEW numbers \in SUBSET Fd, Closes(numbers)
  PROVE  /\ fds' \in [Fd -> Kind]
         /\ \A n \in numbers : fds'[n] = Unused
         /\ \A n \in Fd \ numbers : fds'[n] = fds[n]
         /\ leaked' = leaked \ numbers
BY Kinds DEF Shape, Closes

-----------------------------------------------------------------------------
(* main *)

\* A connection gets a number that was free: nobody's, and not sockfd, which
\* listens.
LEMMA ConnectionInv ==
  ASSUME IInv, NEW c \in Conn, NEW n \in Fd, NEW to \in {"recv", "unserved"},
         fds[sockfd] = Listening, Goto(c, "none", to), Opens(n, ConnOf(c)),
         conn_fd' = [conn_fd EXCEPT ![c] = n],
         UNCHANGED <<sockfd, write_fd, local_read_fd, fmutex, leaked>>
  PROVE  IInv'
<1>. USE Kinds
<1>1. /\ pc' \in [Conn -> PC] /\ pc[c] = "none" /\ pc'[c] = to
      /\ \A d \in Conn \ {c} : pc'[d] = pc[d]
  BY GotoIs DEF IInv, PC
<1>2. /\ fds' \in [Fd -> Kind]
      /\ fds[n] = Unused /\ fds'[n] = ConnOf(c)
      /\ \A m \in Fd \ {n} : fds'[m] = fds[m]
  BY OpensIs DEF IInv
<1>3. conn_fd'[c] = n /\ \A d \in Conn \ {c} : conn_fd'[d] = conn_fd[d]
  BY DEF IInv, Shape
<1>4. Shape'
  BY <1>1, <1>2 DEF IInv, Shape
<1>5. MutexHeld' /\ SockfdIsNoConnection'
  BY <1>1, <1>2 DEF IInv, Shape, MutexHeld, SockfdIsNoConnection
<1>6. ConnectionsKeepTheirNumber'
  BY <1>1, <1>2, <1>3 DEF IInv, Shape, ConnectionsKeepTheirNumber
<1>7. DeviceFilesStayOpen'
  BY <1>1, <1>2 DEF IInv, Shape, DeviceFilesStayOpen
<1>8. DeviceNumbersAreNotReused'
  BY <1>1, <1>2, <1>7 DEF IInv, Shape, DeviceNumbersAreNotReused, DeviceFilesStayOpen
<1>9. NumbersAreAccounted'
  BY <1>1, <1>2, <1>3 DEF IInv, Shape, NumbersAreAccounted, Free
<1>. QED BY <1>4, <1>5, <1>6, <1>7, <1>8, <1>9 DEF IInv

LEMMA AcceptInv ==
  ASSUME IInv, NEW c \in Conn, NEW n \in Fd, Accept(c, n) \/ SetupFails(c, n)
  PROVE  IInv'
BY ConnectionInv DEF Accept, SetupFails

\* Closing sockfd takes no connection with it, and once main does so DeviceFilesStayOpen
\* promises nothing.
LEMMA AcceptFailsInv ==
  ASSUME IInv, AcceptFails
  PROVE  IInv'
<1>. USE Kinds
<1>1. /\ fds' \in [Fd -> Kind]
      /\ fds'[sockfd] = Unused /\ \A n \in Fd \ {sockfd} : fds'[n] = fds[n]
      /\ leaked' = leaked \ {sockfd}
  BY ClosesIs DEF IInv, Shape, AcceptFails
<1>. UNCHANGED <<sockfd, conn_fd, write_fd, local_read_fd, pc, fmutex>>
  BY DEF AcceptFails, locals
<1>2. Shape' /\ MutexHeld' /\ SockfdIsNoConnection'
  BY <1>1 DEF IInv, Shape, MutexHeld, SockfdIsNoConnection
<1>3. ConnectionsKeepTheirNumber'
  BY <1>1 DEF IInv, Shape, SockfdIsNoConnection, ConnectionsKeepTheirNumber
<1>4. DeviceNumbersAreNotReused' /\ DeviceFilesStayOpen'
  BY <1>1 DEF IInv, Shape, DeviceNumbersAreNotReused, DeviceFilesStayOpen
<1>5. NumbersAreAccounted'
  BY <1>1 DEF IInv, Shape, NumbersAreAccounted, Free
<1>. QED BY <1>2, <1>3, <1>4, <1>5 DEF IInv

-----------------------------------------------------------------------------
(* handleRequests *)

LEMMA LockInv ==
  ASSUME IInv, NEW c \in Conn, Lock(c)
  PROVE  IInv'
<1>1. /\ pc' \in [Conn -> PC] /\ pc[c] = "recv" /\ pc'[c] = "open"
      /\ \A d \in Conn \ {c} : pc'[d] = pc[d]
  BY GotoIs DEF IInv, PC, Lock
<1>. /\ UNCHANGED <<fds, sockfd, conn_fd, write_fd, local_read_fd, leaked>>
     /\ fmutex = Nobody /\ fmutex' = c
  BY DEF Lock, locals
<1>2. Shape' /\ MutexHeld' /\ SockfdIsNoConnection'
  BY <1>1, ConnAssumption DEF IInv, Shape, MutexHeld, SockfdIsNoConnection
<1>3. ConnectionsKeepTheirNumber' /\ DeviceNumbersAreNotReused' /\ DeviceFilesStayOpen'
  BY <1>1 DEF IInv, ConnectionsKeepTheirNumber, DeviceNumbersAreNotReused, DeviceFilesStayOpen
<1>4. NumbersAreAccounted'
  BY <1>1, ConnAssumption DEF IInv, NumbersAreAccounted, Free
<1>. QED BY <1>2, <1>3, <1>4 DEF IInv

\* The thread that holds the mutex is the only one with device files.
LEMMA HolderAlone ==
  ASSUME MutexHeld, NEW c \in Conn, pc[c] \in {"open", "write", "read"}
  PROVE  fmutex = c /\ \A d \in Conn \ {c} : pc[d] \notin {"open", "write", "read"}
BY DEF MutexHeld

LEMMA OpenForWriteInv ==
  ASSUME IInv, NEW c \in Conn, NEW n \in Fd, OpenForWrite(c, n)
  PROVE  IInv'
<1>. USE Kinds
<1>1. /\ pc' \in [Conn -> PC] /\ pc[c] = "open" /\ pc'[c] = "write"
      /\ \A d \in Conn \ {c} : pc'[d] = pc[d]
  BY GotoIs DEF IInv, PC, OpenForWrite
<1>2. fmutex = c /\ \A d \in Conn \ {c} : pc[d] \notin {"open", "write", "read"}
  BY <1>1, HolderAlone DEF IInv
<1>3. /\ fds' \in [Fd -> Kind]
      /\ fds[n] = Unused /\ fds'[n] = WriteOf(c)
      /\ \A m \in Fd \ {n} : fds'[m] = fds[m]
  BY OpensIs DEF IInv, OpenForWrite
<1>4. /\ write_fd' \in [Conn -> Fd] /\ write_fd'[c] = n
      /\ UNCHANGED <<sockfd, conn_fd, local_read_fd, fmutex, leaked>>
  BY DEF IInv, Shape, OpenForWrite
<1>5. Shape' /\ MutexHeld' /\ SockfdIsNoConnection'
  BY <1>1, <1>2, <1>3, <1>4 DEF IInv, Shape, MutexHeld, SockfdIsNoConnection
<1>6. ConnectionsKeepTheirNumber'
  BY <1>1, <1>3, <1>4 DEF IInv, Shape, ConnectionsKeepTheirNumber
<1>7. DeviceNumbersAreNotReused' /\ DeviceFilesStayOpen'
  BY <1>1, <1>2, <1>3, <1>4 DEF DeviceNumbersAreNotReused, DeviceFilesStayOpen
<1>8. NumbersAreAccounted'
  BY <1>1, <1>2, <1>3, <1>4 DEF IInv, NumbersAreAccounted, Free
<1>. QED BY <1>5, <1>6, <1>7, <1>8 DEF IInv

\* The second open may get the number of the first, if main closed it.
LEMMA OpenForReadInv ==
  ASSUME IInv, NEW c \in Conn, NEW n \in Fd, OpenForRead(c, n)
  PROVE  IInv'
<1>. USE Kinds
<1>1. /\ pc' \in [Conn -> PC] /\ pc[c] = "write" /\ pc'[c] = "read"
      /\ \A d \in Conn \ {c} : pc'[d] = pc[d]
  BY GotoIs DEF IInv, PC, OpenForRead
<1>2. fmutex = c /\ \A d \in Conn \ {c} : pc[d] \notin {"open", "write", "read"}
  BY <1>1, HolderAlone DEF IInv
<1>3. /\ fds' \in [Fd -> Kind]
      /\ fds[n] = Unused /\ fds'[n] = ReadOf(c)
      /\ \A m \in Fd \ {n} : fds'[m] = fds[m]
  BY OpensIs DEF IInv, OpenForRead
<1>4. /\ local_read_fd' \in [Conn -> Fd] /\ local_read_fd'[c] = n
      /\ UNCHANGED <<sockfd, conn_fd, write_fd, fmutex, leaked>>
  BY DEF IInv, Shape, OpenForRead
<1>5. Shape' /\ MutexHeld' /\ SockfdIsNoConnection'
  BY <1>1, <1>2, <1>3, <1>4 DEF IInv, Shape, MutexHeld, SockfdIsNoConnection
<1>6. ConnectionsKeepTheirNumber'
  BY <1>1, <1>3, <1>4 DEF IInv, Shape, ConnectionsKeepTheirNumber
<1>. DEFINE w == write_fd[c]
<1>7. /\ w \in Fd /\ write_fd'[c] = w /\ fds'[local_read_fd'[c]] = ReadOf(c)
      /\ fds'[w] = IF w = n THEN ReadOf(c) ELSE fds[w]
  BY <1>3, <1>4 DEF IInv, Shape
<1>8. DeviceNumbersAreNotReused'
  BY <1>1, <1>2, <1>7 DEF IInv, DeviceNumbersAreNotReused
<1>9. fds'[sockfd'] = Listening => fds[sockfd] = Listening
  BY <1>3, <1>4 DEF IInv, Shape
<1>10. DeviceFilesStayOpen'
  BY <1>1, <1>2, <1>3, <1>7, <1>9 DEF IInv, DeviceFilesStayOpen
<1>11. NumbersAreAccounted'
  BY <1>1, <1>2, <1>3, <1>4 DEF IInv, NumbersAreAccounted, Free
<1>. QED BY <1>5, <1>6, <1>8, <1>10, <1>11 DEF IInv

\* A thread that gives the mutex back after a failed open.
LEMMA OpenFailsInv ==
  ASSUME IInv, NEW c \in Conn, OpenForWriteFails(c) \/ OpenForReadFails(c)
  PROVE  IInv'
<1>1. /\ pc' \in [Conn -> PC] /\ pc[c] \in {"open", "write"} /\ pc'[c] = "recv"
      /\ \A d \in Conn \ {c} : pc'[d] = pc[d]
  BY GotoIs DEF IInv, PC, OpenForWriteFails, OpenForReadFails
<1>2. fmutex = c /\ \A d \in Conn \ {c} : pc[d] \notin {"open", "write", "read"}
  BY <1>1, HolderAlone DEF IInv
<1>3. /\ UNCHANGED <<fds, sockfd, conn_fd, write_fd, local_read_fd>>
      /\ leaked' = leaked \/ leaked' = leaked \cup {m \in {write_fd[c]} : fds[m] = WriteOf(c)}
      /\ pc[c] = "write" => leaked' = leaked \cup {m \in {write_fd[c]} : fds[m] = WriteOf(c)}
  BY DEF OpenForWriteFails, OpenForReadFails, Goto, locals
<1>4. Shape' /\ MutexHeld' /\ SockfdIsNoConnection'
  BY <1>1, <1>2, <1>3 DEF IInv, Shape, MutexHeld, SockfdIsNoConnection
<1>5. ConnectionsKeepTheirNumber' /\ DeviceNumbersAreNotReused' /\ DeviceFilesStayOpen'
  BY <1>1, <1>3
     DEF IInv, ConnectionsKeepTheirNumber, DeviceNumbersAreNotReused, DeviceFilesStayOpen
<1>6. NumbersAreAccounted'
  BY <1>1, <1>2, <1>3
     DEF IInv, Shape, NumbersAreAccounted, DeviceNumbersAreNotReused, Free
<1>. QED BY <1>4, <1>5, <1>6 DEF IInv

\* Its own numbers, or none: what EchoDone closes is no connection.
LEMMA EchoDoneInv ==
  ASSUME IInv, NEW c \in Conn, EchoDone(c)
  PROVE  IInv'
<1>. USE Kinds
<1>1. /\ pc' \in [Conn -> PC] /\ pc[c] = "read" /\ pc'[c] = "recv"
      /\ \A d \in Conn \ {c} : pc'[d] = pc[d]
  BY GotoIs DEF IInv, PC, EchoDone
<1>2. fmutex = c /\ \A d \in Conn \ {c} : pc[d] \notin {"open", "write", "read"}
  BY <1>1, HolderAlone DEF IInv
<1>. DEFINE numbers == {write_fd[c], local_read_fd[c]}
<1>3. /\ fds' \in [Fd -> Kind]
      /\ \A n \in numbers : fds'[n] = Unused
      /\ \A n \in Fd \ numbers : fds'[n] = fds[n]
      /\ leaked' = leaked \ numbers
  <2>1. numbers \in SUBSET Fd /\ Closes(numbers)
    BY DEF IInv, Shape, EchoDone
  <2>. HIDE DEF numbers
  <2>. QED BY <2>1, ClosesIs DEF IInv
<1>4. UNCHANGED <<sockfd, conn_fd, write_fd, local_read_fd>>
  BY DEF EchoDone, locals
<1>5. \A d \in Conn : fds'[sockfd] # ConnOf(d)
  BY <1>3 DEF IInv, Shape, SockfdIsNoConnection
<1>6. Shape' /\ MutexHeld' /\ SockfdIsNoConnection'
  BY <1>1, <1>2, <1>3, <1>4, <1>5 DEF IInv, Shape, MutexHeld, SockfdIsNoConnection
<1>7. ConnectionsKeepTheirNumber'
  BY <1>1, <1>3, <1>4
     DEF IInv, Shape, ConnectionsKeepTheirNumber, DeviceNumbersAreNotReused
<1>8. DeviceNumbersAreNotReused' /\ DeviceFilesStayOpen'
  BY <1>1, <1>2 DEF DeviceNumbersAreNotReused, DeviceFilesStayOpen
<1>9. NumbersAreAccounted'
  BY <1>1, <1>2, <1>3, <1>4 DEF IInv, Shape, NumbersAreAccounted, Free
<1>. QED BY <1>6, <1>7, <1>8, <1>9 DEF IInv

LEMMA LeaveInv ==
  ASSUME IInv, NEW c \in Conn, Leave(c)
  PROVE  IInv'
<1>. USE Kinds
<1>1. /\ pc' \in [Conn -> PC] /\ pc[c] = "recv" /\ pc'[c] = "closed"
      /\ \A d \in Conn \ {c} : pc'[d] = pc[d]
  BY GotoIs DEF IInv, PC, Leave
<1>2. /\ fds' \in [Fd -> Kind]
      /\ fds'[conn_fd[c]] = Unused
      /\ \A n \in Fd \ {conn_fd[c]} : fds'[n] = fds[n]
      /\ leaked' = leaked \ {conn_fd[c]}
  BY ClosesIs DEF IInv, Shape, Leave
<1>3. UNCHANGED <<sockfd, conn_fd, write_fd, local_read_fd, fmutex>>
  BY DEF Leave, locals
<1>4. fds[conn_fd[c]] = ConnOf(c) /\ conn_fd[c] \in Fd
  BY <1>1 DEF IInv, Shape, ConnectionsKeepTheirNumber
<1>5. Shape' /\ MutexHeld' /\ SockfdIsNoConnection'
  BY <1>1, <1>2, <1>3 DEF IInv, Shape, MutexHeld, SockfdIsNoConnection
<1>6. ConnectionsKeepTheirNumber'
  BY <1>1, <1>2, <1>3, <1>4 DEF IInv, Shape, ConnectionsKeepTheirNumber
<1>7. DeviceNumbersAreNotReused' /\ DeviceFilesStayOpen'
  BY <1>1, <1>2, <1>3, <1>4
     DEF IInv, Shape, DeviceNumbersAreNotReused, DeviceFilesStayOpen
<1>8. NumbersAreAccounted'
  BY <1>1, <1>2, <1>3 DEF IInv, Shape, NumbersAreAccounted, Free
<1>. QED BY <1>5, <1>6, <1>7, <1>8 DEF IInv

-----------------------------------------------------------------------------
(* The theorems *)

LEMMA StepIInv == IInv /\ [Next]_vars => IInv'
<1>. SUFFICES ASSUME IInv, [Next]_vars PROVE IInv'
  OBVIOUS
<1>1. CASE AcceptFails
  BY <1>1, AcceptFailsInv
<1>2. ASSUME NEW c \in Conn, NEW n \in Fd, Accept(c, n) \/ SetupFails(c, n)
      PROVE  IInv'
  BY <1>2, AcceptInv
<1>3. ASSUME NEW c \in Conn, Lock(c) PROVE IInv'
  BY <1>3, LockInv
<1>4. ASSUME NEW c \in Conn, NEW n \in Fd, OpenForWrite(c, n) PROVE IInv'
  BY <1>4, OpenForWriteInv
<1>5. ASSUME NEW c \in Conn, NEW n \in Fd, OpenForRead(c, n) PROVE IInv'
  BY <1>5, OpenForReadInv
<1>6. ASSUME NEW c \in Conn, OpenForWriteFails(c) \/ OpenForReadFails(c) PROVE IInv'
  BY <1>6, OpenFailsInv
<1>7. ASSUME NEW c \in Conn, EchoDone(c) PROVE IInv'
  BY <1>7, EchoDoneInv
<1>8. ASSUME NEW c \in Conn, Leave(c) PROVE IInv'
  BY <1>8, LeaveInv
<1>9. CASE UNCHANGED vars
  BY <1>9 DEF vars, locals, IInv, Shape, MutexHeld, SockfdIsNoConnection,
              ConnectionsKeepTheirNumber, DeviceNumbersAreNotReused, DeviceFilesStayOpen,
              NumbersAreAccounted, Free
<1>. QED BY <1>1, <1>2, <1>3, <1>4, <1>5, <1>6, <1>7, <1>8, <1>9 DEF Next

-----------------------------------------------------------------------------
(* The theorems *)

\* What a thread of handleRequests calls its connection is that connection, and what
\* it calls its device file is that file, or a number main closed with close(sockfd).
THEOREM NamesAreKept == Spec => []NumbersNameTheirFiles
<1>1. IInv => NumbersNameTheirFiles
  BY DEF IInv, NumbersNameTheirFiles
<1>. QED BY <1>1, InitIInv, StepIInv, PTL DEF Spec

\* No number is lost: each one in use belongs to main, to a connection, to the thread
\* that holds the mutex, or is one that a failed second open left behind.
THEOREM NumbersAreOwned == Spec => []NumbersAreAccounted
<1>1. IInv => NumbersAreAccounted
  BY DEF IInv
<1>. QED BY <1>1, InitIInv, StepIInv, PTL DEF Spec
=============================================================================
