---------------------------- MODULE SocketWorker ----------------------------
(***************************************************************************)
(* The threads of server/server.c that serve connections, built with       *)
(* USE_AESD_CHAR_DEVICE: handleRequests receives what a client sends,      *)
(* writes it to /dev/aesdchar and sends the whole device back, with fmutex *)
(* held from the write to the last byte of the answer.                     *)
(*                                                                         *)
(* The device is the line log LineLog, which the driver implements; its    *)
(* variables are declared here and only changed by its actions.  What      *)
(* happens after a signal is in SocketMain.                                *)
(***************************************************************************)
EXTENDS Integers, SequencesExt

CONSTANTS
  Conn,          \* connections, each served by a thread of its own
  Byte, Newline, \* what clients send
  Capacity,      \* lines the device keeps
  BUFSIZE,       \* the most a recv or a read returns, 2048 in the source
  Messages,      \* what a client may send over its connection
  MaxFaults,     \* bound: failures of open, write and send
  Nobody         \* the holder of a free mutex

ASSUME ConnAssumption == Nobody \notin Conn
ASSUME ByteAssumption == Newline \in Byte /\ Messages \subseteq Seq(Byte)
ASSUME SizeAssumption == BUFSIZE \in Nat \ {0} /\ Capacity \in Nat \ {0}
ASSUME BoundAssumption == MaxFaults \in Nat

VARIABLES
  lines, partial, dropped, pos, reply,  \* the device
  alive,         \* the process runs
  fmutex,        \* the thread that holds it, or Nobody
  pc,            \* where each thread is
  message,       \* what each client sends
  inbox,         \* the part of it the server has not received yet
  peer,          \* the client's end of each connection
  recv_buf,      \* what the thread received and did not write yet
  got,           \* what each client was sent, one sequence per answer
  taken,         \* history: the bytes of each connection the device took
  faults

device == <<lines, partial, dropped, pos, reply>>
client == <<message, inbox, peer>>
vars == <<device, alive, fmutex, pc, client, recv_buf, got, taken, faults>>

Device == INSTANCE LineLog WITH Reader <- Conn, ReadCounts <- {BUFSIZE}

Init ==
  /\ Device!Init
  /\ alive = TRUE
  /\ fmutex = Nobody
  /\ pc = [c \in Conn |-> "recv"]
  /\ message \in [Conn -> Messages]
  /\ inbox = message
  /\ peer = [c \in Conn |-> "open"]
  /\ recv_buf = [c \in Conn |-> <<>>]
  /\ got = [c \in Conn |-> <<>>]
  /\ taken = [c \in Conn |-> <<>>]
  /\ faults = 0

Goto(c, from, to) == alive /\ pc[c] = from /\ pc' = [pc EXCEPT ![c] = to]
Fault == faults < MaxFaults /\ faults' = faults + 1
Unlock == fmutex' = Nobody

\* The client shuts its connection, after whatever it had to say.
PeerCloses(c) ==
  /\ peer[c] = "open"
  /\ peer' = [peer EXCEPT ![c] = "closed"]
  /\ UNCHANGED <<device, alive, fmutex, pc, message, inbox, recv_buf, got, taken,
                 faults>>

-----------------------------------------------------------------------------
(* recv *)

\* TCP is a stream: recv returns any part of what is there, up to BUFSIZE.
\* When nothing is there it returns EAGAIN and the thread tries again at once.
Recv(c) ==
  /\ Goto(c, "recv", "lock")
  /\ \E n \in 1..BUFSIZE :
        /\ n <= Len(inbox[c])
        /\ recv_buf' = [recv_buf EXCEPT ![c] = SubSeq(inbox[c], 1, n)]
        /\ inbox' = [inbox EXCEPT ![c] = SubSeq(@, n + 1, Len(@))]
  /\ got' = [got EXCEPT ![c] = Append(@, <<>>)]
  /\ UNCHANGED <<device, alive, fmutex, message, peer, taken, faults>>

\* recv returns 0: the connection is over.
RecvEnd(c) ==
  /\ Goto(c, "recv", "closed")
  /\ inbox[c] = <<>> /\ peer[c] = "closed"
  /\ UNCHANGED <<device, alive, fmutex, client, recv_buf, got, taken, faults>>

\* recv returns an error that is not EAGAIN.
RecvFails(c) ==
  /\ Goto(c, "recv", "closed")
  /\ Fault
  /\ UNCHANGED <<device, alive, fmutex, client, recv_buf, got, taken>>

-----------------------------------------------------------------------------
(* With fmutex held: write to the device *)

\* Mutant of Lock: the mutex is not waited for.
LockAnyway(c) ==
  /\ Goto(c, "lock", "open")
  /\ fmutex' = c
  /\ UNCHANGED <<device, alive, client, recv_buf, got, taken, faults>>

Lock(c) ==
  /\ Goto(c, "lock", "open")
  /\ fmutex = Nobody
  /\ fmutex' = c
  /\ UNCHANGED <<device, alive, client, recv_buf, got, taken, faults>>

OpenForWrite(c) ==
  /\ Goto(c, "open", "write")
  /\ UNCHANGED <<device, alive, fmutex, client, recv_buf, got, taken, faults>>

\* Mutant of OpenForWriteFails: the error path keeps the mutex.
OpenForWriteFailsLocked(c) ==
  /\ Goto(c, "open", "recv")
  /\ Fault
  /\ recv_buf' = [recv_buf EXCEPT ![c] = <<>>]
  /\ UNCHANGED <<device, alive, fmutex, client, got, taken>>

\* The device cannot be opened: what was received is forgotten.
OpenForWriteFails(c) ==
  /\ Goto(c, "open", "recv")
  /\ Fault
  /\ Unlock
  /\ recv_buf' = [recv_buf EXCEPT ![c] = <<>>]
  /\ UNCHANGED <<device, alive, client, got, taken>>

\* Mutant of WriteByte: only the first line of what was received is written.
WriteOneLine(c) ==
  /\ alive /\ pc[c] \in {"write", "writing"}
  /\ pc' = [pc EXCEPT ![c] = "writing"]
  /\ recv_buf[c] # <<>>
  /\ Device!Accept(Head(recv_buf[c]))
  /\ recv_buf' = [recv_buf EXCEPT ![c] = IF Head(@) = Newline THEN <<>> ELSE Tail(@)]
  /\ taken' = [taken EXCEPT ![c] = Append(@, Head(recv_buf[c]))]
  /\ UNCHANGED <<alive, fmutex, client, got, faults>>

\* write takes the bytes received, in order.
WriteByte(c) ==
  /\ alive /\ pc[c] \in {"write", "writing"}
  /\ pc' = [pc EXCEPT ![c] = "writing"]
  /\ recv_buf[c] # <<>>
  /\ Device!Accept(Head(recv_buf[c]))
  /\ recv_buf' = [recv_buf EXCEPT ![c] = Tail(@)]
  /\ taken' = [taken EXCEPT ![c] = Append(@, Head(recv_buf[c]))]
  /\ UNCHANGED <<alive, fmutex, client, got, faults>>

\* write fails before the first byte or stops short after a line: the result
\* is logged and what was not written is forgotten.
WriteStops(c) ==
  /\ \/ Goto(c, "write", "writing")
     \/ Goto(c, "writing", "writing") /\ partial = <<>>
  /\ recv_buf[c] # <<>>
  /\ Fault
  /\ recv_buf' = [recv_buf EXCEPT ![c] = <<>>]
  /\ UNCHANGED <<device, alive, fmutex, client, got, taken>>

OpenForRead(c) ==
  /\ Goto(c, "writing", "read")
  /\ recv_buf[c] = <<>>
  /\ UNCHANGED <<device, alive, fmutex, client, recv_buf, got, taken, faults>>

\* The second open fails.  (write_fd is not closed: see SocketDescriptors.)
OpenForReadFails(c) ==
  /\ Goto(c, "writing", "recv")
  /\ recv_buf[c] = <<>>
  /\ Fault
  /\ Unlock
  /\ UNCHANGED <<device, alive, client, recv_buf, got, taken>>

-----------------------------------------------------------------------------
(* With fmutex held: send the device back *)

ReadDevice(c) ==
  /\ Goto(c, "read", "send")
  /\ Device!Read(c, BUFSIZE)
  /\ UNCHANGED <<alive, fmutex, client, recv_buf, got, taken, faults>>

\* read fails: the answer ends where it is, as at an end of file.
ReadDeviceFails(c) ==
  /\ Goto(c, "read", "recv")
  /\ Fault
  /\ Device!Close(c)
  /\ Unlock
  /\ UNCHANGED <<alive, client, recv_buf, got, taken>>

\* The client is sent the bytes of send_buf.
Answer(c, bytes) == got' = [got EXCEPT ![c][Len(got[c])] = @ \o bytes]

Send(c) ==
  /\ Goto(c, "send", "read")
  /\ reply[c] # <<>>
  /\ Answer(c, reply[c])
  /\ Device!Return(c)
  /\ UNCHANGED <<alive, fmutex, client, recv_buf, taken, faults>>

\* Mutant of SendShort: the whole buffer is sent again.
SendShortAgain(c) ==
  /\ Goto(c, "send", "send")
  /\ Fault
  /\ \E n \in 0..Len(reply[c]) - 1 : Answer(c, SubSeq(reply[c], 1, n))
  /\ UNCHANGED <<device, alive, fmutex, client, recv_buf, taken>>

\* The socket is non-blocking: when its buffer is full sendto takes a part or
\* nothing, and the thread goes on with the next part of the device.
SendShort(c) ==
  /\ Goto(c, "send", "read")
  /\ Fault
  /\ \E n \in 0..Len(reply[c]) - 1 : Answer(c, SubSeq(reply[c], 1, n))
  /\ Device!Return(c)
  /\ UNCHANGED <<alive, fmutex, client, recv_buf, taken>>

\* sendto to a connection the client has closed raises SIGPIPE, which is not
\* handled: the process ends, and the kernel closes what it had open.
SendBrokenPipe(c) ==
  /\ Goto(c, "send", "dead")
  /\ reply[c] # <<>> /\ peer[c] = "closed"
  /\ alive' = FALSE
  /\ UNCHANGED <<device, fmutex, client, recv_buf, got, taken, faults>>

\* read returned 0: both descriptors are closed and the mutex given back.
EchoDone(c) ==
  /\ Goto(c, "send", "recv")
  /\ reply[c] = <<>>
  /\ Device!Close(c)
  /\ Unlock
  /\ UNCHANGED <<alive, client, recv_buf, got, taken, faults>>

-----------------------------------------------------------------------------
Serve(c) ==
  \/ Recv(c) \/ RecvEnd(c) \/ Lock(c)
  \/ OpenForWrite(c) \/ OpenForWriteFails(c) \/ WriteByte(c) \/ WriteStops(c)
  \/ OpenForRead(c) \/ OpenForReadFails(c)
  \/ ReadDevice(c) \/ ReadDeviceFails(c)
  \/ Send(c) \/ SendShort(c) \/ SendBrokenPipe(c) \/ EchoDone(c)

Next == \E c \in Conn : Serve(c) \/ RecvFails(c) \/ PeerCloses(c)

Spec == Init /\ [][Next]_vars

\* Every thread keeps running.  Nothing is assumed of the order in which the
\* mutex is granted: clients send a finite message, so the threads that could
\* overtake a waiting one run out of things to write.
FairSpec == Spec /\ \A c \in Conn : WF_vars(Serve(c))

-----------------------------------------------------------------------------
(* Properties *)

\* Types of the threads' state, part of the invariant that SocketWorkerProofs proves;
\* the device has the types of LineLog.
TypeOK ==
  /\ alive \in BOOLEAN
  /\ fmutex \in Conn \cup {Nobody}
  /\ pc \in [Conn -> {"recv", "lock", "open", "write", "writing", "read", "send",
                     "closed", "dead"}]
  /\ message \in [Conn -> Messages]
  /\ inbox \in [Conn -> Seq(Byte)] /\ recv_buf \in [Conn -> Seq(Byte)]
  /\ peer \in [Conn -> {"open", "closed"}]
  /\ got \in [Conn -> Seq(Seq(Byte))]
  /\ taken \in [Conn -> Seq(Byte)]
  /\ faults \in 0..MaxFaults

\* An answer is one consistent picture of the device: all lines it holds when
\* the answer is complete, though it is read and sent one buffer at a time
\* while other clients wait to write and to push lines out.
AnswerIsTheDevice ==
  \A c \in Conn :
     alive /\ pc[c] = "send" /\ reply[c] = <<>> /\ faults = 0 =>
        Last(got[c]) = Device!Text

\* Whether s is t with any elements left out.
IsSubsequence(s, t) ==
  FoldLeft(LAMBDA rest, x : IF rest # <<>> /\ Head(rest) = x THEN Tail(rest) ELSE rest, s, t) = <<>>

\* Whatever fails, what a client is sent in one answer is in the device at that moment,
\* in this order and each byte once: where sendto takes a part of the buffer, or nothing,
\* the answer has a gap, and no client is sent anything twice or out of place.
AnswerKeepsTheOrder ==
  \A c \in Conn :
     alive /\ pc[c] \in {"read", "send"} => IsSubsequence(Last(got[c]), Device!Text)

\* A client's bytes reach the device all and in the order they were sent,
\* however the stream was cut into recvs and whatever other clients write.
ClientBytesInOrder ==
  faults = 0 => \A c \in Conn : taken[c] \o recv_buf[c] \o inbox[c] = message[c]

\* Every byte a client sends is written, or given up, and answered: no path
\* out of the locked section keeps the mutex.
EveryMessageServed ==
  \A c \in Conn : inbox[c] # <<>> ~>
     \/ inbox[c] = <<>> /\ recv_buf[c] = <<>> /\ pc[c] = "recv"
     \/ pc[c] = "closed"
     \/ ~alive

\* What server/test.sh checks of each connection it makes: the client that sends
\* a line gets the contents so far with its line at the end, once.
ClientGetsContentsOnce ==
  \A c \in Conn :
     pc[c] = "recv" /\ inbox[c] = <<>> /\ faults = 0 /\ got[c] # <<>> => FlattenSeq(got[c]) = Last(got[c])
=============================================================================
