-------------------------- MODULE SocketMainProofs --------------------------
(***************************************************************************)
(* Proofs about main of the server, its list of entries and its threads,   *)
(* for every number of clients, signals and failures.                      *)
(***************************************************************************)
EXTENDS SocketMain, TLAPS

-----------------------------------------------------------------------------
(* Sequences without repetitions, as the list and the queue are *)

LEMMA HeadAndTail ==
  ASSUME NEW S, NEW s \in Seq(S), s # <<>>, IsInjective(s)
  PROVE  /\ Head(s) \in ToSet(s) /\ Head(s) \in S /\ Head(s) = s[1]
         /\ Tail(s) \in Seq(S) /\ IsInjective(Tail(s))
         /\ ToSet(Tail(s)) = ToSet(s) \ {Head(s)}
<1>1. /\ Len(s) \in Nat \ {0} /\ Head(s) = s[1] /\ DOMAIN s = 1..Len(s)
      /\ Tail(s) \in Seq(S) /\ DOMAIN Tail(s) = 1..Len(s) - 1
      /\ \A i \in 1..Len(s) - 1 : Tail(s)[i] = s[i + 1]
  OBVIOUS
<1>2. \A i \in 2..Len(s) : i - 1 \in 1..Len(s) - 1 /\ Tail(s)[i - 1] = s[i]
  BY <1>1
<1>3. IsInjective(Tail(s))
  BY <1>1 DEF IsInjective
<1>4. ToSet(Tail(s)) = ToSet(s) \ {s[1]}
  <2>1. ASSUME NEW x \in ToSet(Tail(s)) PROVE x \in ToSet(s) \ {s[1]}
    BY <1>1, <2>1 DEF ToSet, IsInjective
  <2>2. ASSUME NEW x \in ToSet(s) \ {s[1]} PROVE x \in ToSet(Tail(s))
    <3>1. PICK i \in 2..Len(s) : s[i] = x
      BY <1>1 DEF ToSet
    <3>. QED BY <1>1, <1>2, <3>1 DEF ToSet
  <2>. QED BY <2>1, <2>2
<1>. QED BY <1>1, <1>3, <1>4 DEF ToSet

LEMMA AppendIs ==
  ASSUME NEW S, NEW s \in Seq(S), NEW e \in S, e \notin ToSet(s), IsInjective(s)
  PROVE  /\ Append(s, e) \in Seq(S) /\ IsInjective(Append(s, e))
         /\ ToSet(Append(s, e)) = ToSet(s) \cup {e}
<1>1. /\ Len(s) \in Nat /\ DOMAIN s = 1..Len(s) /\ Append(s, e) \in Seq(S)
      /\ DOMAIN Append(s, e) = 1..Len(s) + 1 /\ Append(s, e)[Len(s) + 1] = e
      /\ \A i \in 1..Len(s) : Append(s, e)[i] = s[i]
  OBVIOUS
<1>2. \A i \in 1..Len(s) + 1 : i \in 1..Len(s) \/ i = Len(s) + 1
  BY <1>1
<1>3. \A i \in 1..Len(s) : s[i] # e
  BY <1>1 DEF ToSet
<1>4. IsInjective(Append(s, e))
  BY <1>1, <1>2, <1>3 DEF IsInjective
<1>5. ToSet(Append(s, e)) = ToSet(s) \cup {e}
  BY <1>1, <1>2 DEF ToSet
<1>. QED BY <1>1, <1>4, <1>5

LEMMA PrependIs ==
  ASSUME NEW S, NEW s \in Seq(S), NEW e \in S, e \notin ToSet(s), IsInjective(s)
  PROVE  /\ <<e>> \o s \in Seq(S) /\ IsInjective(<<e>> \o s)
         /\ ToSet(<<e>> \o s) = ToSet(s) \cup {e}
<1>. DEFINE t == <<e>> \o s
<1>1. /\ Len(s) \in Nat /\ DOMAIN s = 1..Len(s) /\ t \in Seq(S)
      /\ DOMAIN t = 1..Len(s) + 1 /\ t[1] = e
      /\ \A i \in 2..Len(s) + 1 : t[i] = s[i - 1]
  OBVIOUS
<1>2. \A i \in 1..Len(s) : i + 1 \in 2..Len(s) + 1 /\ t[i + 1] = s[i]
  BY <1>1
<1>. HIDE DEF t
<1>3. \A i \in 1..Len(s) + 1 : i = 1 \/ (i \in 2..Len(s) + 1 /\ i - 1 \in 1..Len(s))
  BY <1>1
<1>4. \A i \in 1..Len(s) : s[i] # e
  BY <1>1 DEF ToSet
<1>5. IsInjective(t)
  <2>. SUFFICES ASSUME NEW i \in 1..Len(s) + 1, NEW j \in 1..Len(s) + 1, t[i] = t[j]
                PROVE  i = j
    BY <1>1 DEF IsInjective
  <2>1. CASE i = 1
    BY <1>1, <1>3, <1>4, <2>1
  <2>2. CASE j = 1
    BY <1>1, <1>3, <1>4, <2>2
  <2>3. CASE i # 1 /\ j # 1
    <3>1. i - 1 \in 1..Len(s) /\ j - 1 \in 1..Len(s) /\ s[i - 1] = s[j - 1]
      BY <1>1, <1>3, <2>3
    <3>. QED BY <1>1, <3>1 DEF IsInjective
  <2>. QED BY <2>1, <2>2, <2>3
<1>6. ToSet(t) = ToSet(s) \cup {e}
  BY <1>1, <1>2, <1>3 DEF ToSet
<1>. QED BY <1>1, <1>5, <1>6 DEF t

\* The list without its first entry.
LEMMA RemoveFirstIs ==
  ASSUME NEW S, NEW s \in Seq(S), s # <<>>
  PROVE  RemoveAt(s, 1) = Tail(s)
<1>1. RemoveAt(s, 1) = SubSeq(s, 1, 0) \o SubSeq(s, 2, Len(s))
  BY DEF RemoveAt
<1>2. SubSeq(s, 1, 0) = <<>> /\ SubSeq(s, 2, Len(s)) = Tail(s)
  OBVIOUS
<1>3. <<>> \o Tail(s) = Tail(s)
  OBVIOUS
<1>. QED BY <1>1, <1>2, <1>3
-----------------------------------------------------------------------------
(* The inductive invariant *)

\* The queue holds connections that main has not taken, each once.
QueueOK ==
  /\ IsInjective(backlog)
  /\ \A c \in ToSet(backlog) : client[c] # "new" /\ c \notin allocated /\ thread[c] = "none"

ListOK == ToSet(list) = allocated /\ IsInjective(list)

\* The connection main works on: taken from the queue, then in the list without a
\* thread; and when main joins, the first of what is left of the list.
EntryOK ==
  /\ main \in {"accepted", "create"} =>
        /\ np \in Conn /\ np \notin ToSet(backlog)
        /\ client[np] # "new" /\ thread[np] = "none"
  /\ main = "accepted" => np \notin allocated
  /\ main = "create" => np \in allocated
  /\ main = "join" => np = IF list = <<>> THEN NoEntry ELSE Head(list)

\* A client that did not connect yet has left no trace.
NewOK == \A c \in Conn : client[c] = "new" => c \notin allocated /\ thread[c] = "none"

EarlyOK ==
  /\ main \in {"syslog", "stuck", "start", "listening"} => ~SERVER_LISTENING
  /\ ~SERVER_LISTENING =>
        /\ main \in {"syslog", "stuck", "start", "listening", "exited"}
        /\ \A c \in Conn : thread[c] = "none"

\* A thread that ended closed its connection.
EndedOK == \A c \in Conn : thread[c] = "ended" => conn_fd[c] = "closed"

IInv ==
  /\ TypeOK
  /\ QueueOK /\ ListOK /\ EntryOK /\ NewOK /\ EarlyOK /\ EndedOK
  /\ EntryOutlivesThread /\ NoThreadCutOff

LEMMA InitIInv == Init => IInv
<1>. SUFFICES ASSUME Init PROVE IInv
  OBVIOUS
<1>1. TypeOK
  <2>1. signals \in 0..MaxSignals /\ faults \in 0..MaxFaults
    BY BoundAssumption DEF Init
  <2>2. /\ client \in [Conn -> {"new", "connected", "gone"}]
        /\ conn_fd \in [Conn -> {"none", "open", "closed"}]
        /\ conn_closed \in [Conn -> BOOLEAN]
        /\ thread \in [Conn -> {"none", "running", "leaving", "ended"}]
    BY DEF Init
  <2>3. /\ backlog \in IF sockfd = "listening" THEN Seq(Conn) ELSE {<<>>}
        /\ list \in Seq(Conn) /\ allocated \subseteq Conn
    BY DEF Init
  <2>4. /\ main = "syslog" /\ np = NoEntry /\ sockfd = "none"
        /\ CLOSE_SERVER \in BOOLEAN /\ SERVER_LISTENING \in BOOLEAN
    BY DEF Init
  <2>. QED BY <2>1, <2>2, <2>3, <2>4 DEF TypeOK
<1>2. ToSet(<<>>) = {} /\ IsInjective(<<>>)
  BY DEF ToSet, IsInjective
<1>3. QueueOK /\ ListOK
  BY <1>2 DEF Init, QueueOK, ListOK
<1>4. EntryOK /\ NewOK /\ EarlyOK /\ EndedOK /\ EntryOutlivesThread /\ NoThreadCutOff
  BY DEF Init, EntryOK, NewOK, EarlyOK, EndedOK, EntryOutlivesThread, NoThreadCutOff
<1>. QED BY <1>1, <1>3, <1>4 DEF IInv

\* A step of main (or of a signal) that touches no connection, no entry and no thread
\* has only main's own part of the invariant to show.
LEMMA MainStep ==
  ASSUME IInv, TypeOK', EntryOK', EarlyOK', NoThreadCutOff',
         UNCHANGED <<backlog, client, conn_fd, list, allocated, thread>>
  PROVE  IInv'
BY DEF IInv, QueueOK, ListOK, NewOK, EndedOK, EntryOutlivesThread

LEMMA BacklogType ==
  ASSUME TypeOK
  PROVE  backlog \in Seq(Conn) /\ (backlog # <<>> => sockfd = "listening")
<1>1. backlog \in IF sockfd = "listening" THEN Seq(Conn) ELSE {<<>>}
  BY DEF TypeOK
<1>2. CASE sockfd = "listening"
  BY <1>1, <1>2
<1>3. CASE sockfd # "listening"
  <2>1. backlog = <<>>
    BY <1>1, <1>3
  <2>2. <<>> \in Seq(Conn)
    OBVIOUS
  <2>. QED BY <2>1, <2>2
<1>. QED BY <1>2, <1>3

LEMMA FaultType == TypeOK /\ Fault => faults' \in 0..MaxFaults
BY BoundAssumption DEF TypeOK, Fault

\* main's steps from one place to the next.
LEMMA MovesInv ==
  ASSUME IInv,
         SyslogReturns \/ Listen \/ SetListening \/ Test \/ Block \/ SetupFails
  PROVE  IInv'
<1>1. /\ main' \in {"start", "listening", "test", "stop", "accept", "blocked"}
      /\ UNCHANGED <<np, backlog, client, conn_fd, conn_closed, list, allocated, thread>>
      /\ UNCHANGED <<CLOSE_SERVER, signals>>
  BY DEF SyslogReturns, Listen, SetListening, Test, Block, SetupFails, Goto,
         flags, socket, entries
<1>2. faults' \in 0..MaxFaults
  BY FaultType DEF IInv, TypeOK, SyslogReturns, Listen, SetListening, Test, Block, SetupFails
<1>3. SERVER_LISTENING' \in BOOLEAN
  BY DEF IInv, TypeOK, SyslogReturns, Listen, SetListening, Test, Block, SetupFails, flags
<1>4. /\ sockfd' \in {"none", "listening", "closed"}
      /\ backlog' \in IF sockfd' = "listening" THEN Seq(Conn) ELSE {<<>>}
  <2>1. sockfd' = sockfd \/ sockfd' = "listening"
    BY DEF SyslogReturns, Listen, SetListening, Test, Block, SetupFails, socket
  <2>. QED BY <1>1, <2>1, BacklogType DEF IInv, TypeOK
<1>5. /\ np' \in Conn \cup {NoEntry} /\ list' \in Seq(Conn) /\ allocated' \subseteq Conn
      /\ client' \in [Conn -> {"new", "connected", "gone"}]
      /\ conn_fd' \in [Conn -> {"none", "open", "closed"}]
      /\ conn_closed' \in [Conn -> BOOLEAN]
      /\ thread' \in [Conn -> {"none", "running", "leaving", "ended"}]
      /\ CLOSE_SERVER' \in BOOLEAN /\ signals' \in 0..MaxSignals
  BY <1>1 DEF IInv, TypeOK
<1>6. TypeOK'
  BY <1>1, <1>2, <1>3, <1>4, <1>5 DEF TypeOK
<1>7. EntryOK' /\ NoThreadCutOff'
  BY <1>1 DEF EntryOK, NoThreadCutOff
<1>8. EarlyOK'
  BY <1>1 DEF IInv, EarlyOK, SyslogReturns, Listen, SetListening, Test, Block, SetupFails,
              Goto, flags
<1>. QED BY <1>1, <1>6, <1>7, <1>8, MainStep

\* exit(-1) before any thread exists.
LEMMA StartFailsInv ==
  ASSUME IInv, StartFails
  PROVE  IInv'
<1>1. /\ main = "start" /\ main' = "exited"
      /\ UNCHANGED <<np, flags, socket, entries, thread, signals>>
  BY DEF StartFails, Goto
<1>2. TypeOK'
  BY <1>1, FaultType DEF IInv, TypeOK, StartFails, flags, socket, entries
<1>3. EntryOK' /\ EarlyOK' /\ NoThreadCutOff'
  BY <1>1 DEF IInv, EntryOK, EarlyOK, NoThreadCutOff, flags
<1>. QED BY <1>1, <1>2, <1>3, MainStep DEF socket, entries

LEMMA StopInv ==
  ASSUME IInv, Stop
  PROVE  IInv'
<1>1. /\ main' = "join" /\ np' = IF list = <<>> THEN NoEntry ELSE Head(list)
      /\ main = "stop"
      /\ UNCHANGED <<flags, socket, entries, thread, signals, faults>>
  BY DEF Stop, Goto
<1>2. np' \in Conn \cup {NoEntry}
  BY <1>1 DEF IInv, TypeOK
<1>3. TypeOK'
  BY <1>1, <1>2 DEF IInv, TypeOK, flags, socket, entries
<1>4. EntryOK' /\ EarlyOK' /\ NoThreadCutOff'
  BY <1>1 DEF IInv, EntryOK, EarlyOK, NoThreadCutOff, flags, entries
<1>. QED BY <1>1, <1>3, <1>4, MainStep DEF socket, entries

\* main leaves the join loop when the list is empty: then no thread runs.
LEMMA ExitInv ==
  ASSUME IInv, Exit
  PROVE  IInv'
<1>1. /\ main = "join" /\ main' = "exited" /\ np = NoEntry
      /\ UNCHANGED <<np, flags, socket, entries, thread, signals, faults>>
  BY DEF Exit, Goto
<1>2. list \in Seq(Conn) /\ (list # <<>> => np = Head(list))
  BY <1>1 DEF IInv, TypeOK, EntryOK
<1>3. list = <<>>
  BY <1>1, <1>2, ConnAssumption
<1>4. allocated = {}
  BY <1>3 DEF IInv, ListOK, ToSet
<1>5. NoThreadCutOff'
  BY <1>1, <1>4 DEF IInv, TypeOK, EntryOutlivesThread, EndedOK, NoThreadCutOff, entries
<1>6. TypeOK'
  BY <1>1 DEF IInv, TypeOK, flags, socket, entries
<1>7. EntryOK' /\ EarlyOK'
  BY <1>1 DEF IInv, EntryOK, EarlyOK, flags
<1>. QED BY <1>1, <1>5, <1>6, <1>7, MainStep DEF socket, entries

-----------------------------------------------------------------------------
(* Steps that touch the queue of the listening socket *)

\* A closed listening socket has no queue; no client that had connected is as new.
LEMMA CloseListeningSocketIs ==
  ASSUME TypeOK, CloseListeningSocket
  PROVE  /\ sockfd' = "closed" /\ backlog' = <<>>
         /\ client' \in [Conn -> {"new", "connected", "gone"}]
         /\ \A c \in Conn : client'[c] = "new" <=> client[c] = "new" /\ c \notin ToSet(backlog)
BY DEF CloseListeningSocket, TypeOK

LEMMA ClosedInv ==
  ASSUME IInv, CloseListeningSocket,
         SERVER_LISTENING, main' = "test",
         CLOSE_SERVER' \in BOOLEAN, signals' \in 0..MaxSignals, faults' \in 0..MaxFaults,
         UNCHANGED <<np, SERVER_LISTENING, conn_fd, conn_closed, list, allocated, thread>>
  PROVE  IInv'
<1>1. /\ sockfd' = "closed" /\ backlog' = <<>>
      /\ client' \in [Conn -> {"new", "connected", "gone"}]
      /\ \A c \in Conn : client'[c] = "new" => client[c] = "new"
  BY CloseListeningSocketIs DEF IInv
<1>2. TypeOK'
  <2>1. /\ np' \in Conn \cup {NoEntry} /\ list' \in Seq(Conn) /\ allocated' \subseteq Conn
        /\ conn_fd' \in [Conn -> {"none", "open", "closed"}]
        /\ conn_closed' \in [Conn -> BOOLEAN]
        /\ thread' \in [Conn -> {"none", "running", "leaving", "ended"}]
        /\ SERVER_LISTENING' \in BOOLEAN
    BY DEF IInv, TypeOK
  <2>. QED BY <1>1, <2>1 DEF TypeOK
<1>3. QueueOK'
  BY <1>1 DEF QueueOK, ToSet, IsInjective
<1>4. ListOK' /\ EndedOK' /\ EntryOutlivesThread'
  BY DEF IInv, ListOK, EndedOK, EntryOutlivesThread
<1>5. NewOK'
  BY <1>1 DEF IInv, NewOK
<1>6. EntryOK' /\ EarlyOK' /\ NoThreadCutOff'
  BY DEF IInv, EntryOK, EarlyOK, NoThreadCutOff
<1>. QED BY <1>2, <1>3, <1>4, <1>5, <1>6 DEF IInv

LEMMA AcceptFailsInv ==
  ASSUME IInv, AcceptFails
  PROVE  IInv'
<1>1. /\ main = "accept" /\ main' = "test" /\ CloseListeningSocket
      /\ UNCHANGED <<np, flags, entries, thread, signals>>
  BY DEF AcceptFails, Goto
<1>2. faults' \in 0..MaxFaults
  BY FaultType DEF AcceptFails, IInv, TypeOK
<1>3. SERVER_LISTENING /\ CLOSE_SERVER' \in BOOLEAN /\ signals' \in 0..MaxSignals
  BY <1>1 DEF IInv, TypeOK, EarlyOK, flags
<1>. QED BY <1>1, <1>2, <1>3, ClosedInv DEF flags, entries

LEMMA SignalInv ==
  ASSUME IInv, Signal
  PROVE  IInv'
<1>1. signals' \in 0..MaxSignals
  BY BoundAssumption DEF Signal, IInv, TypeOK
<1>2. /\ main \notin {"exited", "killed", "crashed", "stuck"}
      /\ UNCHANGED <<np, SERVER_LISTENING, entries, thread, faults>>
  BY DEF Signal, Ended
<1>3. CASE SERVER_LISTENING /\ main = "blocked" /\ backlog = <<>>
  <2>1. CLOSE_SERVER' = TRUE /\ main' = "test" /\ CloseListeningSocket
    BY <1>3 DEF Signal
  <2>2. faults' \in 0..MaxFaults
    BY <1>2 DEF IInv, TypeOK
  <2>. QED BY <1>1, <1>2, <1>3, <2>1, <2>2, ClosedInv DEF entries
<1>4. CASE SERVER_LISTENING /\ ~(main = "blocked" /\ backlog = <<>>)
  <2>1. CLOSE_SERVER' = TRUE /\ UNCHANGED <<main, socket>>
    BY <1>4 DEF Signal
  <2>2. TypeOK'
    BY <1>1, <1>2, <2>1 DEF IInv, TypeOK, socket, entries
  <2>3. EntryOK' /\ EarlyOK' /\ NoThreadCutOff'
    BY <1>2, <2>1 DEF IInv, EntryOK, EarlyOK, NoThreadCutOff, socket, entries
  <2>. QED BY <1>2, <2>1, <2>2, <2>3, MainStep DEF socket, entries
<1>5. CASE ~SERVER_LISTENING
  <2>1. main' \in {"exited", "stuck"} /\ UNCHANGED <<CLOSE_SERVER, socket>>
    BY <1>5 DEF Signal
  <2>2. TypeOK'
    BY <1>1, <1>2, <2>1 DEF IInv, TypeOK, socket, entries
  <2>3. EntryOK' /\ EarlyOK' /\ NoThreadCutOff'
    BY <1>2, <1>5, <2>1 DEF IInv, EntryOK, EarlyOK, NoThreadCutOff
  <2>. QED BY <1>2, <2>1, <2>2, <2>3, MainStep DEF socket, entries
<1>. QED BY <1>3, <1>4, <1>5

LEMMA ConnectInv ==
  ASSUME IInv, NEW c \in Conn, Connect(c)
  PROVE  IInv'
<1>1. /\ sockfd = "listening" /\ client[c] = "new"
      /\ client' = [client EXCEPT ![c] = "connected"]
      /\ backlog' = Append(backlog, c)
      /\ UNCHANGED <<main, np, flags, sockfd, entries, thread, signals, faults>>
  BY DEF Connect
<1>2. c \notin ToSet(backlog) /\ c \notin allocated /\ thread[c] = "none"
  BY <1>1 DEF IInv, QueueOK, NewOK
<1>3. /\ backlog' \in Seq(Conn) /\ IsInjective(backlog')
      /\ ToSet(backlog') = ToSet(backlog) \cup {c}
  <2>1. backlog \in Seq(Conn) /\ IsInjective(backlog)
    BY BacklogType DEF IInv, QueueOK
  <2>. QED BY <1>1, <1>2, <2>1, AppendIs
<1>4. /\ client' \in [Conn -> {"new", "connected", "gone"}]
      /\ client'[c] = "connected"
      /\ \A d \in Conn \ {c} : client'[d] = client[d]
  BY <1>1 DEF IInv, TypeOK
<1>5. TypeOK'
  BY <1>1, <1>3, <1>4 DEF IInv, TypeOK, flags, entries
<1>6. QueueOK'
  <2>1. ToSet(backlog) \subseteq Conn
    BY BacklogType DEF IInv, ToSet
  <2>. QED BY <1>1, <1>2, <1>3, <1>4, <2>1 DEF IInv, QueueOK, entries
<1>7. ListOK' /\ EndedOK' /\ EntryOutlivesThread' /\ EarlyOK' /\ NoThreadCutOff'
  BY <1>1 DEF IInv, ListOK, EndedOK, EntryOutlivesThread, EarlyOK, NoThreadCutOff,
              flags, entries
<1>8. NewOK'
  BY <1>1, <1>4 DEF IInv, NewOK, entries
<1>9. EntryOK'
  BY <1>1, <1>3, <1>4 DEF IInv, EntryOK, entries
<1>. QED BY <1>5, <1>6, <1>7, <1>8, <1>9 DEF IInv

LEMMA DisconnectInv ==
  ASSUME IInv, NEW c \in Conn, Disconnect(c)
  PROVE  IInv'
<1>1. /\ client[c] = "connected"
      /\ client' = [client EXCEPT ![c] = "gone"]
      /\ UNCHANGED <<main, np, flags, sockfd, backlog, entries, thread, signals, faults>>
  BY DEF Disconnect
<1>2. /\ client' \in [Conn -> {"new", "connected", "gone"}]
      /\ \A d \in Conn : client'[d] = "new" <=> client[d] = "new"
  BY <1>1 DEF IInv, TypeOK
<1>3. TypeOK'
  BY <1>1, <1>2 DEF IInv, TypeOK, flags, entries
<1>4. QueueOK'
  <2>1. ToSet(backlog) \subseteq Conn
    BY BacklogType DEF IInv, ToSet
  <2>. QED BY <1>1, <1>2, <2>1 DEF IInv, QueueOK, entries
<1>5. ListOK' /\ EndedOK' /\ EntryOutlivesThread' /\ EarlyOK' /\ NoThreadCutOff'
  BY <1>1 DEF IInv, ListOK, EndedOK, EntryOutlivesThread, EarlyOK, NoThreadCutOff,
              flags, entries
<1>6. NewOK' /\ EntryOK'
  BY <1>1, <1>2 DEF IInv, NewOK, EntryOK, entries
<1>. QED BY <1>3, <1>4, <1>5, <1>6 DEF IInv

LEMMA AcceptInv ==
  ASSUME IInv, Accept
  PROVE  IInv'
<1>1. /\ main \in {"accept", "blocked"} /\ main' = "accepted" /\ backlog # <<>>
      /\ np' = Head(backlog) /\ backlog' = Tail(backlog)
      /\ conn_fd' = [conn_fd EXCEPT ![Head(backlog)] = "open"]
      /\ UNCHANGED <<flags, sockfd, client, conn_closed, list, allocated, thread,
                     signals, faults>>
  BY DEF Accept, Goto
<1>2. backlog \in Seq(Conn) /\ IsInjective(backlog) /\ sockfd = "listening"
  BY <1>1, BacklogType DEF IInv, QueueOK
<1>3. /\ np' \in Conn /\ np' \in ToSet(backlog) /\ np' \notin ToSet(backlog')
      /\ backlog' \in Seq(Conn) /\ IsInjective(backlog')
      /\ ToSet(backlog') \subseteq ToSet(backlog)
  BY <1>1, <1>2, HeadAndTail
<1>4. /\ conn_fd' \in [Conn -> {"none", "open", "closed"}]
      /\ \A c \in Conn \ {np'} : conn_fd'[c] = conn_fd[c]
  BY <1>1 DEF IInv, TypeOK
<1>5. client[np'] # "new" /\ np' \notin allocated /\ thread[np'] = "none"
  BY <1>3 DEF IInv, QueueOK
<1>6. TypeOK'
  BY <1>1, <1>2, <1>3, <1>4 DEF IInv, TypeOK, flags
<1>7. QueueOK'
  BY <1>1, <1>3 DEF IInv, QueueOK
<1>8. EntryOK' /\ NoThreadCutOff'
  BY <1>1, <1>3, <1>5 DEF EntryOK, NoThreadCutOff
<1>9. ListOK' /\ NewOK' /\ EntryOutlivesThread' /\ EarlyOK'
  BY <1>1 DEF IInv, ListOK, NewOK, EntryOutlivesThread, EarlyOK, flags
<1>10. EndedOK'
  BY <1>1, <1>4, <1>5 DEF IInv, EndedOK
<1>. QED BY <1>6, <1>7, <1>8, <1>9, <1>10 DEF IInv

-----------------------------------------------------------------------------
(* Steps that touch the list of entries *)

LEMMA InsertInv ==
  ASSUME IInv, Insert
  PROVE  IInv'
<1>1. /\ main = "accepted" /\ main' = "create"
      /\ allocated' = allocated \cup {np}
      /\ conn_closed' = [conn_closed EXCEPT ![np] = FALSE]
      /\ list' = <<np>> \o list
      /\ UNCHANGED <<np, flags, socket, conn_fd, thread, signals, faults>>
  BY DEF Insert, Goto
<1>2. /\ np \in Conn /\ np \notin ToSet(backlog) /\ np \notin allocated
      /\ client[np] # "new" /\ thread[np] = "none"
  BY <1>1 DEF IInv, EntryOK
<1>3. /\ list' \in Seq(Conn) /\ IsInjective(list')
      /\ ToSet(list') = ToSet(list) \cup {np}
  <2>1. list \in Seq(Conn) /\ IsInjective(list) /\ np \notin ToSet(list)
    BY <1>2 DEF IInv, TypeOK, ListOK
  <2>. QED BY <1>1, <1>2, <2>1, PrependIs
<1>4. conn_closed' \in [Conn -> BOOLEAN]
  BY <1>1, <1>2 DEF IInv, TypeOK
<1>5. TypeOK'
  BY <1>1, <1>2, <1>3, <1>4 DEF IInv, TypeOK, flags, socket
<1>6. QueueOK'
  BY <1>1, <1>2 DEF IInv, QueueOK, socket
<1>7. ListOK'
  BY <1>1, <1>3 DEF IInv, ListOK
<1>8. EntryOK' /\ NewOK'
  BY <1>1, <1>2 DEF IInv, EntryOK, NewOK, socket
<1>9. EarlyOK' /\ EndedOK' /\ EntryOutlivesThread' /\ NoThreadCutOff'
  BY <1>1 DEF IInv, EarlyOK, EndedOK, EntryOutlivesThread, NoThreadCutOff, flags
<1>. QED BY <1>5, <1>6, <1>7, <1>8, <1>9 DEF IInv

LEMMA CreateInv ==
  ASSUME IInv, Create
  PROVE  IInv'
<1>1. /\ main = "create" /\ main' = "test"
      /\ thread' = [thread EXCEPT ![np] = "running"]
      /\ UNCHANGED <<np, flags, socket, entries, signals, faults>>
  BY DEF Create, Goto
<1>2. np \in Conn /\ np \notin ToSet(backlog) /\ np \in allocated /\ client[np] # "new"
  BY <1>1 DEF IInv, EntryOK
<1>3. /\ thread' \in [Conn -> {"none", "running", "leaving", "ended"}]
      /\ thread'[np] = "running"
      /\ \A c \in Conn \ {np} : thread'[c] = thread[c]
  BY <1>1, <1>2 DEF IInv, TypeOK
<1>4. TypeOK'
  BY <1>1, <1>3 DEF IInv, TypeOK, flags, socket, entries
<1>5. QueueOK'
  <2>1. ToSet(backlog) \subseteq Conn
    BY BacklogType DEF IInv, ToSet
  <2>. QED BY <1>1, <1>2, <1>3, <2>1 DEF IInv, QueueOK, socket, entries
<1>6. EarlyOK'
  BY <1>1 DEF IInv, EarlyOK, flags
<1>7. NewOK' /\ EndedOK' /\ EntryOutlivesThread'
  BY <1>1, <1>2, <1>3 DEF IInv, NewOK, EndedOK, EntryOutlivesThread, socket, entries
<1>8. ListOK' /\ EntryOK' /\ NoThreadCutOff'
  BY <1>1 DEF IInv, ListOK, EntryOK, NoThreadCutOff, entries
<1>. QED BY <1>4, <1>5, <1>6, <1>7, <1>8 DEF IInv

LEMMA CreateFailsInv ==
  ASSUME IInv, CreateFails
  PROVE  IInv'
<1>1. /\ main = "create" /\ main' = "test" /\ CLOSE_SERVER' = TRUE
      /\ UNCHANGED <<np, SERVER_LISTENING, socket, entries, thread, signals>>
  BY DEF CreateFails, Goto
<1>2. faults' \in 0..MaxFaults
  BY FaultType DEF CreateFails, IInv
<1>3. TypeOK'
  BY <1>1, <1>2 DEF IInv, TypeOK, socket, entries
<1>4. EntryOK' /\ EarlyOK' /\ NoThreadCutOff'
  BY <1>1 DEF IInv, EntryOK, EarlyOK, NoThreadCutOff
<1>. QED BY <1>1, <1>3, <1>4, MainStep DEF socket, entries

\* While main joins, np is the first entry of the list; RemoveEntry takes it out
\* and leaves np at the one that follows.
LEMMA RemoveEntryIs ==
  ASSUME IInv, main = "join", np # NoEntry, RemoveEntry
  PROVE  /\ np \in Conn /\ list # <<>>
         /\ list' = Tail(list) /\ list' \in Seq(Conn) /\ IsInjective(list')
         /\ ToSet(list') = allocated \ {np}
         /\ allocated' = allocated \ {np}
         /\ np' = IF list' = <<>> THEN NoEntry ELSE Head(list')
<1>1. /\ list \in Seq(Conn) /\ list # <<>> /\ IsInjective(list) /\ np = Head(list)
      /\ ToSet(list) = allocated
  BY DEF IInv, TypeOK, ListOK, EntryOK
<1>2. /\ np \in Conn /\ np = list[1] /\ Tail(list) \in Seq(Conn) /\ IsInjective(Tail(list))
      /\ ToSet(Tail(list)) = allocated \ {np}
  BY <1>1, HeadAndTail
<1>3. (CHOOSE i \in DOMAIN list : list[i] = np) = 1
  <2>1. 1 \in DOMAIN list
    BY <1>1
  <2>2. \A i \in DOMAIN list : list[i] = np => i = 1
    BY <1>1, <1>2, <2>1 DEF IsInjective
  <2>. QED BY <1>2, <2>1, <2>2
<1>4. /\ list' = RemoveAt(list, 1)
      /\ allocated' = allocated \ {np}
      /\ np' = IF 1 = Len(list) THEN NoEntry ELSE list[2]
  <2>. DEFINE k == CHOOSE i \in DOMAIN list : list[i] = np
  <2>1. /\ list' = RemoveAt(list, k)
        /\ allocated' = allocated \ {np}
        /\ np' = IF k = Len(list) THEN NoEntry ELSE list[k + 1]
    BY DEF RemoveEntry
  <2>2. k = 1
    BY <1>3
  <2>. HIDE DEF k
  <2>3. k + 1 = 2
    BY <2>2
  <2>. QED BY <2>1, <2>2, <2>3
<1>5. list' = Tail(list)
  BY <1>1, <1>4, RemoveFirstIs
<1>6. (Tail(list) = <<>>) <=> (Len(list) = 1)
  <2>1. Len(list) \in Nat \ {0} /\ Len(Tail(list)) = Len(list) - 1
    BY <1>1
  <2>2. \A t \in Seq(Conn) : (t = <<>>) <=> (Len(t) = 0)
    OBVIOUS
  <2>. QED BY <1>2, <2>1, <2>2
<1>7. Len(list) # 1 => Head(Tail(list)) = list[2]
  <2>1. SUFFICES ASSUME Len(list) # 1 PROVE Head(Tail(list)) = list[2]
    OBVIOUS
  <2>2. Len(list) \in Nat \ {0, 1}
    BY <1>1, <2>1
  <2>3. 1 \in 1..Len(list) - 1
    BY <2>2
  <2>4. \A i \in 1..Len(list) - 1 : Tail(list)[i] = list[i + 1]
    BY <1>1
  <2>5. Tail(list)[1] = list[2]
    BY <2>3, <2>4
  <2>6. Tail(list) # <<>> => Head(Tail(list)) = Tail(list)[1]
    BY <1>2
  <2>. QED BY <1>6, <2>1, <2>5, <2>6
<1>. QED BY <1>1, <1>2, <1>4, <1>5, <1>6, <1>7

\* Removing the entry of a thread that does not run.
LEMMA RemovedInv ==
  ASSUME IInv, main = "join", np # NoEntry, thread[np] \in {"none", "ended"}, RemoveEntry,
         UNCHANGED <<main, flags, socket, conn_fd, conn_closed, thread, signals, faults>>
  PROVE  IInv'
<1>1. /\ list' \in Seq(Conn) /\ IsInjective(list')
      /\ ToSet(list') = allocated'
      /\ allocated' = allocated \ {np}
      /\ np' = IF list' = <<>> THEN NoEntry ELSE Head(list')
  BY RemoveEntryIs
<1>2. np' \in Conn \cup {NoEntry}
  BY <1>1
<1>3. TypeOK'
  BY <1>1, <1>2 DEF IInv, TypeOK, flags, socket
<1>4. QueueOK' /\ NewOK'
  BY <1>1 DEF IInv, QueueOK, NewOK, socket
<1>5. ListOK' /\ EntryOK'
  BY <1>1 DEF ListOK, EntryOK
<1>6. EarlyOK' /\ EndedOK' /\ NoThreadCutOff'
  BY DEF IInv, EarlyOK, EndedOK, NoThreadCutOff, flags
<1>7. EntryOutlivesThread'
  BY <1>1 DEF IInv, EntryOutlivesThread
<1>. QED BY <1>3, <1>4, <1>5, <1>6, <1>7 DEF IInv

LEMMA JoinInv ==
  ASSUME IInv, Join
  PROVE  IInv'
BY RemovedInv DEF Join

LEMMA JoinGarbageInv ==
  ASSUME IInv, JoinGarbage
  PROVE  IInv'
<1>1. /\ main = "join" /\ np # NoEntry /\ thread[np] = "none"
      /\ UNCHANGED <<flags, socket, thread, signals, faults>>
  BY DEF JoinGarbage
<1>2. CASE RemoveEntry /\ UNCHANGED <<main, conn_fd, conn_closed>>
  BY <1>1, <1>2, RemovedInv
<1>3. CASE main' = "crashed" /\ UNCHANGED <<np, entries>>
  <2>1. TypeOK'
    BY <1>1, <1>3 DEF IInv, TypeOK, flags, socket, entries
  <2>2. EntryOK' /\ EarlyOK' /\ NoThreadCutOff'
    BY <1>1, <1>3 DEF IInv, EntryOK, EarlyOK, NoThreadCutOff, flags
  <2>. QED BY <1>1, <1>3, <2>1, <2>2, MainStep DEF socket, entries
<1>. QED BY <1>2, <1>3 DEF JoinGarbage

-----------------------------------------------------------------------------
(* Steps of a connection's thread *)

LEMMA LeaveLoopInv ==
  ASSUME IInv, NEW c \in Conn, RecvEnd(c) \/ RecvFails(c)
  PROVE  IInv'
<1>1. /\ main \notin {"exited", "killed", "crashed"} /\ thread[c] = "running"
      /\ thread' = [thread EXCEPT ![c] = "leaving"]
      /\ conn_closed' = [conn_closed EXCEPT ![c] = TRUE]
      /\ UNCHANGED <<main, np, flags, socket, conn_fd, list, allocated, signals>>
  BY DEF RecvEnd, RecvFails, LeaveLoop, Ended
<1>2. faults' \in 0..MaxFaults
  BY FaultType DEF RecvEnd, RecvFails, IInv, TypeOK
<1>3. /\ thread' \in [Conn -> {"none", "running", "leaving", "ended"}]
      /\ thread'[c] = "leaving"
      /\ \A d \in Conn \ {c} : thread'[d] = thread[d]
      /\ conn_closed' \in [Conn -> BOOLEAN]
  BY <1>1 DEF IInv, TypeOK
<1>4. TypeOK'
  BY <1>1, <1>2, <1>3 DEF IInv, TypeOK, flags, socket
<1>5. QueueOK'
  <2>1. ToSet(backlog) \subseteq Conn
    BY BacklogType DEF IInv, ToSet
  <2>. QED BY <1>1, <1>3, <2>1 DEF IInv, QueueOK, socket
<1>6. NewOK' /\ EntryOK' /\ EarlyOK'
  BY <1>1, <1>3 DEF IInv, NewOK, EntryOK, EarlyOK, flags, socket
<1>7. ListOK' /\ EndedOK' /\ EntryOutlivesThread' /\ NoThreadCutOff'
  BY <1>1, <1>3 DEF IInv, ListOK, EndedOK, EntryOutlivesThread, NoThreadCutOff
<1>. QED BY <1>4, <1>5, <1>6, <1>7 DEF IInv

LEMMA ReturnInv ==
  ASSUME IInv, NEW c \in Conn, Return(c)
  PROVE  IInv'
<1>1. /\ main \notin {"exited", "killed", "crashed"} /\ thread[c] = "leaving"
      /\ thread' = [thread EXCEPT ![c] = "ended"]
      /\ conn_fd' = [conn_fd EXCEPT ![c] = "closed"]
      /\ UNCHANGED <<main, np, flags, socket, conn_closed, list, allocated, signals, faults>>
  BY DEF Return, Ended
<1>2. /\ thread' \in [Conn -> {"none", "running", "leaving", "ended"}]
      /\ thread'[c] = "ended"
      /\ \A d \in Conn \ {c} : thread'[d] = thread[d]
      /\ conn_fd' \in [Conn -> {"none", "open", "closed"}]
      /\ conn_fd'[c] = "closed"
      /\ \A d \in Conn \ {c} : conn_fd'[d] = conn_fd[d]
  BY <1>1 DEF IInv, TypeOK
<1>3. TypeOK'
  BY <1>1, <1>2 DEF IInv, TypeOK, flags, socket
<1>4. QueueOK'
  <2>1. ToSet(backlog) \subseteq Conn
    BY BacklogType DEF IInv, ToSet
  <2>. QED BY <1>1, <1>2, <2>1 DEF IInv, QueueOK, socket
<1>5. NewOK' /\ EntryOK' /\ EarlyOK'
  BY <1>1, <1>2 DEF IInv, NewOK, EntryOK, EarlyOK, flags, socket
<1>6. ListOK' /\ EndedOK' /\ EntryOutlivesThread' /\ NoThreadCutOff'
  BY <1>1, <1>2 DEF IInv, ListOK, EndedOK, EntryOutlivesThread, NoThreadCutOff
<1>. QED BY <1>3, <1>4, <1>5, <1>6 DEF IInv

LEMMA BrokenPipeInv ==
  ASSUME IInv, NEW c \in Conn, BrokenPipe(c)
  PROVE  IInv'
<1>1. /\ main' = "killed" /\ thread[c] = "running"
      /\ UNCHANGED <<np, flags, socket, entries, thread, signals>>
  BY DEF BrokenPipe
<1>2. faults' \in 0..MaxFaults
  BY FaultType DEF BrokenPipe, IInv
<1>3. TypeOK'
  BY <1>1, <1>2 DEF IInv, TypeOK, flags, socket, entries
<1>4. EntryOK' /\ EarlyOK' /\ NoThreadCutOff'
  BY <1>1 DEF IInv, EntryOK, EarlyOK, NoThreadCutOff, flags
<1>. QED BY <1>1, <1>3, <1>4, MainStep DEF socket, entries

-----------------------------------------------------------------------------
(* The theorems *)

LEMMA StepIInv == IInv /\ [Next]_vars => IInv'
<1>. SUFFICES ASSUME IInv, [Next]_vars PROVE IInv'
  OBVIOUS
<1>1. CASE UNCHANGED vars
  BY <1>1 DEF vars, flags, socket, entries, IInv, TypeOK, QueueOK, ListOK, EntryOK, NewOK,
              EarlyOK, EndedOK, EntryOutlivesThread, NoThreadCutOff
<1>2. CASE Main
  BY <1>2, MovesInv, StartFailsInv, AcceptInv, AcceptFailsInv, InsertInv, CreateInv,
     CreateFailsInv, StopInv, JoinInv, JoinGarbageInv, ExitInv DEF Main
<1>3. CASE Signal
  BY <1>3, SignalInv
<1>4. ASSUME NEW c \in Conn,
             Thread(c) \/ RecvFails(c) \/ BrokenPipe(c) \/ Connect(c) \/ Disconnect(c)
      PROVE  IInv'
  BY <1>4, LeaveLoopInv, ReturnInv, BrokenPipeInv, ConnectInv, DisconnectInv DEF Thread
<1>. QED BY <1>1, <1>2, <1>3, <1>4 DEF Next

LEMMA SpecIInv == Spec => []IInv
BY InitIInv, StepIInv, PTL DEF Spec

\* main never frees the struct entry of a thread that handleRequests still runs in: it
\* frees an entry only after pthread_join of its thread, or when it has none.
THEOREM EntriesOutliveThreads == Spec => []EntryOutlivesThread
<1>1. IInv => EntryOutlivesThread
  BY DEF IInv
<1>. QED BY <1>1, SpecIInv, PTL

\* The SLIST holds every entry that is allocated, once, while main inserts at its head
\* and while it removes and frees what it walks over.
THEOREM ListIsComplete == Spec => []ListIsAllEntries
<1>1. IInv => ListIsAllEntries
  BY DEF IInv, ListOK, ListIsAllEntries
<1>. QED BY <1>1, SpecIInv, PTL

\* Whether main returns, exits before it listens or is made to by a signal: no thread is
\* left in the middle of an answer, and each has closed its connection.
THEOREM NobodyIsCutOff == Spec => []NoThreadCutOff
<1>1. IInv => NoThreadCutOff
  BY DEF IInv
<1>. QED BY <1>1, SpecIInv, PTL
=============================================================================
