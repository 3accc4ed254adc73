------------------------- MODULE SocketWorkerProofs -------------------------
(***************************************************************************)
(* Proofs about the threads of the server that serve connections: they     *)
(* enter the locked section one at a time, a client's bytes reach the      *)
(* device in the order they were sent, and an answer is one picture of the *)
(* device, for every number of connections, device, buffer size and set of *)
(* messages.                                                               *)
(***************************************************************************)
EXTENDS SocketWorker, SequenceTheorems, WellFoundedInduction, TLAPS

-----------------------------------------------------------------------------
(* The inductive invariant *)

Locked == {"open", "write", "writing", "read", "send"}

\* The device has the types of LineLog.
DeviceOK ==
  /\ lines \in Seq(Seq(Byte)) /\ partial \in Seq(Byte)
  /\ dropped \in Nat
  /\ pos \in [Conn -> Nat]
  /\ reply \in [Conn -> Seq(Byte)]

\* The mutex is held by the thread between lock and unlock, or that a SIGPIPE
\* ended there, and by no other: no two are there, and none leaves with it.
MutexHeld == \A c \in Conn : fmutex = c <=> pc[c] \in Locked \cup {"dead"}

\* What is empty or closed where: nothing received is left behind when the
\* thread waits for more, the descriptor that is read from is at the start
\* until it is read, and every block has an answer of its own.
ThreadAt(c) ==
  /\ pc[c] \in {"recv", "read", "send", "closed"} => recv_buf[c] = <<>>
  /\ pc[c] \notin {"read", "send", "dead"} => pos[c] = 0
  /\ pc[c] \notin {"send", "dead"} => reply[c] = <<>>
  /\ pc[c] \in {"lock"} \cup Locked => got[c] # <<>>

PlacesOK == \A c \in Conn : ThreadAt(c)

\* The bytes of the device up to the reader's position.
UpTo(c) == SubSeq(Device!Text, 1, pos[c] - dropped)
Inside(c) == dropped <= pos[c] /\ pos[c] <= dropped + Len(Device!Text)

\* The answer so far.  The first read starts at position 0, which lines that
\* were pushed out may have left behind.
EchoSoFar(c) ==
  /\ pc[c] \in {"lock", "open", "write", "writing"} => Last(got[c]) = <<>>
  /\ pc[c] = "read" => \/ pos[c] = 0 /\ Last(got[c]) = <<>>
                       \/ Inside(c) /\ Last(got[c]) = UpTo(c)
  /\ pc[c] = "send" => /\ Inside(c) /\ Last(got[c]) \o reply[c] = UpTo(c)
                       /\ reply[c] = <<>> => pos[c] = dropped + Len(Device!Text)

EchoOK == faults = 0 => \A c \in Conn : EchoSoFar(c)

\* Types, the mutex and the places need nothing else to be inductive; the two
\* invariants about bytes rest on them.
Inv == TypeOK /\ DeviceOK /\ MutexHeld /\ PlacesOK
WInv == Inv /\ EchoOK /\ ClientBytesInOrder

-----------------------------------------------------------------------------
(* Sequences *)

\* A nonempty sequence is its first elements and the rest.
LEMMA CutInTwo ==
  ASSUME NEW S, NEW s \in Seq(S), NEW n \in 1..Len(s)
  PROVE  /\ SubSeq(s, 1, n) \in Seq(S) /\ SubSeq(s, n + 1, Len(s)) \in Seq(S)
         /\ SubSeq(s, 1, n) \o SubSeq(s, n + 1, Len(s)) = s
<1>1. Len(s) \in Nat /\ \A i \in 1..Len(s) : s[i] \in S
  OBVIOUS
<1>2. SubSeq(s, 1, n) \in Seq(S)
  <2>1. \A i \in 1..n : s[i] \in S
    BY <1>1
  <2>. QED BY <2>1, SubSeqProperties
<1>3. SubSeq(s, n + 1, Len(s)) \in Seq(S)
  <2>1. \A i \in n + 1..Len(s) : s[i] \in S
    BY <1>1
  <2>2. n + 1 \in Int /\ Len(s) \in Int
    BY <1>1
  <2>. QED BY <2>1, <2>2, SubSeqProperties
<1>4. SubSeq(s, 1, n) \o SubSeq(s, n + 1, Len(s)) = SubSeq(s, 1, Len(s))
  <2>1. 1 \in 1..Len(s) + 1 /\ n \in 1 - 1..Len(s) /\ Len(s) \in n..Len(s)
    BY <1>1
  <2>. QED BY <2>1, ConcatAdjacentSubSeq
<1>. QED BY <1>2, <1>3, <1>4, SubSeqFull

\* An answer that begins.
LEMMA AppendIsNonempty ==
  ASSUME NEW s \in Seq(Seq(Byte))
  PROVE  /\ Append(s, <<>>) \in Seq(Seq(Byte))
         /\ Append(s, <<>>) # <<>> /\ Last(Append(s, <<>>)) = <<>>
<1>1. PICK S : S = Seq(Byte)
  OBVIOUS
<1>2. <<>> \in S
  BY <1>1
<1>. QED BY <1>1, <1>2, AppendProperties DEF Last

\* Moving the first element of the second sequence to the end of the first.
LEMMA HeadMoves ==
  ASSUME NEW S, NEW s \in Seq(S), NEW t \in Seq(S), t # <<>>
  PROVE  /\ Head(t) \in S /\ Tail(t) \in Seq(S) /\ Append(s, Head(t)) \in Seq(S)
         /\ Append(s, Head(t)) \o Tail(t) = s \o t
<1>1. Head(t) \in S /\ Tail(t) \in Seq(S) /\ <<Head(t)>> \in Seq(S)
  BY HeadTailProperties
<1>2. Append(s, Head(t)) = s \o <<Head(t)>> /\ Append(s, Head(t)) \in Seq(S)
  BY <1>1, AppendIsConcat, AppendProperties
<1>3. <<Head(t)>> \o Tail(t) = t
  BY <1>1, SMT
<1>4. (s \o <<Head(t)>>) \o Tail(t) = s \o (<<Head(t)>> \o Tail(t))
  BY <1>1, ConcatAssociative
<1>. QED BY <1>1, <1>2, <1>3, <1>4

\* The same two facts over the bytes, in the form the proofs use them.
LEMMA Regroup ==
  \A t, u, v \in Seq(Byte) : (t \o u) \o v = t \o (u \o v)
BY ConcatAssociative

LEMMA HeadMovesOver ==
  \A s, t \in Seq(Byte) : t # <<>> => Append(s, Head(t)) \o Tail(t) = s \o t
BY HeadMoves

-----------------------------------------------------------------------------
(* The concatenation of the lines *)

\* What is needed of induction: a set of naturals has a least element.
LEMMA LeastNatural ==
  ASSUME NEW S \in SUBSET Nat, S # {}
  PROVE  \E m \in S : \A k \in S : m <= k
<1>. DEFINE R == {ss \in Nat \X Nat : ss[1] < ss[2]}
<1>1. IsWellFoundedOn(R, Nat)
  BY NatLessThanWellFounded, Zenon DEF OpToRel
<1>. HIDE DEF R
<1>2. PICK m \in S : \A k \in S : <<k, m>> \notin R
  BY <1>1, WFMin, Zenon
<1>3. \A k \in S : ~(k < m)
  BY <1>2 DEF R
<1>. QED BY <1>3

\* F is what the recursive function inside FlattenSeq computes on seqs up to n.
Flattens(F, seqs, n) ==
  /\ F \in [1..n -> Seq(Byte)]
  /\ \A i \in 1..n : F[i] = IF i = 1 THEN seqs[i] ELSE F[i - 1] \o seqs[i]

\* There is such a function: one for n - 1 has one more value.
LEMMA FlattenExists ==
  ASSUME NEW seqs \in Seq(Seq(Byte))
  PROVE  \A n \in 1..Len(seqs) : \E F : Flattens(F, seqs, n)
<1>. DEFINE Missing == {n \in 1..Len(seqs) : \A F : ~Flattens(F, seqs, n)}
<1>1. SUFFICES ASSUME Missing # {} PROVE FALSE
  OBVIOUS
<1>2. Missing \in SUBSET Nat
  OBVIOUS
<1>3. PICK m \in Missing : \A k \in Missing : m <= k
  BY <1>1, <1>2, LeastNatural
<1>4. m \in 1..Len(seqs) /\ m \in Nat /\ \A i \in 1..m : seqs[i] \in Seq(Byte)
  <2>1. m \in 1..Len(seqs) /\ Len(seqs) \in Nat
    OBVIOUS
  <2>2. \A i \in 1..Len(seqs) : seqs[i] \in Seq(Byte)
    BY ElementOfSeq
  <2>. QED BY <2>1, <2>2
<1>5. \A F : ~Flattens(F, seqs, m)
  OBVIOUS
<1>6. CASE m = 1
  <2>. DEFINE F == [i \in 1..1 |-> seqs[i]]
  <2>1. Flattens(F, seqs, 1)
    BY <1>4, <1>6 DEF Flattens
  <2>. QED BY <1>5, <1>6, <2>1
<1>7. CASE m # 1
  <2>0. PICK p \in Nat : p + 1 = m /\ p \in 1..Len(seqs) /\ p < m
    <3>1. m - 1 \in Nat /\ (m - 1) + 1 = m /\ m - 1 \in 1..Len(seqs) /\ m - 1 < m
      BY <1>4, <1>7
    <3>. QED BY <3>1
  <2>1. PICK F : Flattens(F, seqs, p)
    BY <1>3, <2>0
  <2>. DEFINE G == [i \in 1..m |-> IF i = m THEN F[p] \o seqs[m] ELSE F[i]]
  <2>2. /\ F \in [1..p -> Seq(Byte)]
        /\ \A i \in 1..p : F[i] = IF i = 1 THEN seqs[i] ELSE F[i - 1] \o seqs[i]
    BY <2>1 DEF Flattens
  <2>3. F[p] \o seqs[m] \in Seq(Byte)
    BY <1>4, <2>0, <2>2, ConcatProperties
  <2>4. \A i \in 1..m : i # m => i \in 1..p /\ F[i] \in Seq(Byte)
    BY <2>0, <2>2
  <2>5. G \in [1..m -> Seq(Byte)]
    BY <2>3, <2>4
  <2>6. ASSUME NEW i \in 1..m
        PROVE  G[i] = IF i = 1 THEN seqs[i] ELSE G[i - 1] \o seqs[i]
    <3>1. CASE i = m
      <4>1. i # 1 /\ i - 1 = p /\ p \in 1..m /\ p # m
        BY <1>7, <2>0, <3>1
      <4>2. G[p] = F[p] /\ G[i] = F[p] \o seqs[m]
        BY <3>1, <4>1
      <4>. QED BY <3>1, <4>1, <4>2
    <3>2. CASE i # m
      <4>1. i \in 1..p /\ (i # 1 => i - 1 \in 1..m /\ i - 1 # m)
        BY <2>0, <3>2
      <4>2. G[i] = F[i] /\ (i # 1 => G[i - 1] = F[i - 1])
        BY <3>2, <4>1
      <4>. QED BY <2>2, <4>1, <4>2
    <3>. QED BY <3>1, <3>2
  <2>. HIDE DEF G
  <2>7. Flattens(G, seqs, m)
    BY <2>5, <2>6 DEF Flattens
  <2>. QED BY <1>5, <2>7
<1>. QED BY <1>6, <1>7

\* The concatenation of lines is a sequence of bytes.
LEMMA FlattenBytes ==
  ASSUME NEW seqs \in Seq(Seq(Byte))
  PROVE  Device!FlattenSeq(seqs) \in Seq(Byte)
<1>. DEFINE n == Len(seqs)
<1>0. n \in Nat
  OBVIOUS
<1>1. CASE n = 0
  <2>1. Device!FlattenSeq(seqs) = seqs
    BY <1>1, Zenon DEF Device!FlattenSeq
  <2>2. seqs = <<>>
    BY <1>1, EmptySeq
  <2>. QED BY <2>1, <2>2, EmptySeq
<1>2. CASE n # 0
  <2>. DEFINE Step(g) == [i \in 1..n |-> IF i = 1 THEN seqs[i] ELSE g[i - 1] \o seqs[i]]
  <2>1. n \in 1..n
    BY <1>0, <1>2
  <2>2. PICK F : Flattens(F, seqs, n)
    BY <2>1, FlattenExists
  <2>3. /\ F \in [1..n -> Seq(Byte)]
        /\ \A i \in 1..n : F[i] = IF i = 1 THEN seqs[i] ELSE F[i - 1] \o seqs[i]
    BY <2>2 DEF Flattens
  <2>4. F = Step(F)
    <3>1. F = [i \in 1..n |-> F[i]]
      BY <2>3
    <3>2. [i \in 1..n |-> F[i]] = Step(F)
      BY <2>3, Zenon
    <3>. QED BY <3>1, <3>2, Zenon
  <2>5. Device!FlattenSeq(seqs) = (CHOOSE g : g = Step(g))[n]
    BY <1>2 DEF Device!FlattenSeq
  <2>6. PICK g : g = Step(g) /\ Device!FlattenSeq(seqs) = g[n]
    <3>1. (CHOOSE g : g = Step(g)) = Step(CHOOSE g : g = Step(g))
      BY <2>4, Zenon
    <3>. QED BY <2>5, <3>1, Zenon
  <2>7. \A i \in 1..n : g[i] = IF i = 1 THEN seqs[i] ELSE g[i - 1] \o seqs[i]
    BY <2>6
  <2>. DEFINE Bad == {i \in 1..n : g[i] \notin Seq(Byte)}
  <2>8. Bad = {}
    <3>1. SUFFICES ASSUME Bad # {} PROVE FALSE
      OBVIOUS
    <3>2. Bad \in SUBSET Nat
      OBVIOUS
    <3>3. PICK m \in Bad : \A k \in Bad : m <= k
      BY <3>1, <3>2, LeastNatural
    <3>4. seqs[m] \in Seq(Byte) /\ m \in 1..n
      BY ElementOfSeq
    <3>5. m # 1 /\ g[m] = g[m - 1] \o seqs[m]
      BY <2>7, <3>4
    <3>6. m - 1 \in 1..n /\ ~(m <= m - 1)
      BY <1>0, <3>4, <3>5
    <3>7. g[m - 1] \in Seq(Byte)
      BY <3>3, <3>6
    <3>. QED BY <3>4, <3>5, <3>7, ConcatProperties
  <2>. QED BY <2>1, <2>6, <2>8
<1>. QED BY <1>1, <1>2

\* What a reader of the device can see.
LEMMA TextBytes == DeviceOK => Device!Text \in Seq(Byte)
<1>1. DeviceOK => lines \in Seq(Seq(Byte))
  BY DEF DeviceOK
<1>. QED BY <1>1, FlattenBytes DEF Device!Text

-----------------------------------------------------------------------------
(* Types, and who holds the mutex *)

LEMMA InitInv == Init => Inv
<1>. SUFFICES ASSUME Init PROVE Inv
  OBVIOUS
<1>. USE DEF Init, Device!Init
<1>1. TypeOK
  BY ByteAssumption, BoundAssumption DEF TypeOK
<1>2. DeviceOK
  BY DEF DeviceOK
<1>3. MutexHeld
  BY ConnAssumption DEF MutexHeld, Locked
<1>4. PlacesOK
  BY DEF PlacesOK, ThreadAt, Locked
<1>. QED BY <1>1, <1>2, <1>3, <1>4 DEF Inv

\* A thread that changes its place outside the locked section or inside it, that
\* takes the free mutex on its way in, or that gives it back on its way out.
LEMMA MutexStep ==
  ASSUME TypeOK, MutexHeld, NEW c \in Conn, NEW q, pc' = [pc EXCEPT ![c] = q],
         \/ (pc[c] \in Locked \cup {"dead"} <=> q \in Locked \cup {"dead"}) /\ fmutex' = fmutex
         \/ q \in Locked /\ fmutex = Nobody /\ fmutex' = c
         \/ pc[c] \in Locked /\ q \notin Locked \cup {"dead"} /\ fmutex' = Nobody
  PROVE  MutexHeld'
<1>. DEFINE There(d) == pc[d] \in Locked \cup {"dead"}
<1>1. ASSUME NEW d \in Conn
      PROVE  fmutex' = d <=> There(d)'
  <2>0. fmutex = d <=> There(d)
    BY DEF MutexHeld
  <2>1. CASE d = c
    <3>1. pc'[d] = q
      BY <2>1 DEF TypeOK
    <3>. QED BY <2>0, <2>1, <3>1, ConnAssumption
  <2>2. CASE d # c
    <3>1. pc'[d] = pc[d]
      BY <2>2 DEF TypeOK
    <3>2. pc[c] \in Locked => fmutex = c
      BY DEF MutexHeld
    <3>. QED BY <2>0, <2>2, <3>1, <3>2, ConnAssumption
  <2>. QED BY <2>1, <2>2
<1>. QED BY <1>1 DEF MutexHeld

\* The types of the threads' state.
LEMMA TypeStep ==
  ASSUME TypeOK, DeviceOK, PlacesOK, NEW c \in Conn,
         Serve(c) \/ RecvFails(c) \/ PeerCloses(c)
  PROVE  TypeOK'
<1>. USE DEF TypeOK, Goto, Fault, Unlock, client
<1>1. CASE Recv(c)
  <2>1. PICK n \in 1..BUFSIZE :
          /\ n <= Len(inbox[c])
          /\ recv_buf' = [recv_buf EXCEPT ![c] = SubSeq(inbox[c], 1, n)]
          /\ inbox' = [inbox EXCEPT ![c] = SubSeq(@, n + 1, Len(@))]
    BY <1>1 DEF Recv
  <2>2. n \in 1..Len(inbox[c]) /\ inbox[c] \in Seq(Byte)
    BY <2>1, SizeAssumption
  <2>3. SubSeq(inbox[c], 1, n) \in Seq(Byte) /\ SubSeq(inbox[c], n + 1, Len(inbox[c])) \in Seq(Byte)
    BY <2>2, CutInTwo
  <2>4. recv_buf' \in [Conn -> Seq(Byte)] /\ inbox' \in [Conn -> Seq(Byte)]
    BY <2>1, <2>3
  <2>5. got' \in [Conn -> Seq(Seq(Byte))]
    BY <1>1 DEF Recv
  <2>. QED BY <1>1, <2>4, <2>5 DEF Recv
<1>2. CASE RecvEnd(c)
  BY <1>2 DEF RecvEnd
<1>3. CASE Lock(c)
  BY <1>3 DEF Lock
<1>4. CASE OpenForWrite(c)
  BY <1>4 DEF OpenForWrite
<1>5. CASE OpenForWriteFails(c)
  BY <1>5, BoundAssumption DEF OpenForWriteFails
<1>6. CASE WriteByte(c)
  <2>1. recv_buf[c] \in Seq(Byte) /\ recv_buf[c] # <<>> /\ taken[c] \in Seq(Byte)
    BY <1>6 DEF WriteByte
  <2>2. Tail(recv_buf[c]) \in Seq(Byte) /\ Append(taken[c], Head(recv_buf[c])) \in Seq(Byte)
    BY <2>1, HeadMoves
  <2>3. recv_buf' \in [Conn -> Seq(Byte)] /\ taken' \in [Conn -> Seq(Byte)]
    BY <1>6, <2>2 DEF WriteByte
  <2>. QED BY <1>6, <2>3 DEF WriteByte
<1>7. CASE WriteStops(c)
  <2>1. pc' = [pc EXCEPT ![c] = "writing"]
    BY <1>7 DEF WriteStops
  <2>2. faults' \in 0..MaxFaults
    BY <1>7, BoundAssumption DEF WriteStops
  <2>. QED BY <1>7, <2>1, <2>2 DEF WriteStops
<1>8. CASE OpenForRead(c)
  BY <1>8 DEF OpenForRead
<1>9. CASE OpenForReadFails(c)
  BY <1>9, BoundAssumption DEF OpenForReadFails
<1>10. CASE ReadDevice(c)
  BY <1>10 DEF ReadDevice
<1>11. CASE ReadDeviceFails(c)
  BY <1>11, BoundAssumption DEF ReadDeviceFails
<1>a. ASSUME NEW bytes \in Seq(Byte), Answer(c, bytes), pc[c] = "send"
      PROVE  got' \in [Conn -> Seq(Seq(Byte))]
  <2>1. got[c] \in Seq(Seq(Byte)) /\ Len(got[c]) \in 1..Len(got[c])
    BY <1>a DEF PlacesOK, ThreadAt, Locked
  <2>2. got[c][Len(got[c])] \o bytes \in Seq(Byte)
    BY <1>a, <2>1, ElementOfSeq, ConcatProperties
  <2>. DEFINE g == [got[c] EXCEPT ![Len(got[c])] = @ \o bytes]
  <2>3. g \in Seq(Seq(Byte))
    BY <2>1, <2>2, ExceptSeq
  <2>4. got' = [got EXCEPT ![c] = g]
    BY <1>a DEF Answer
  <2>. QED BY <2>3, <2>4
<1>12. CASE Send(c)
  <2>1. got' \in [Conn -> Seq(Seq(Byte))]
    BY <1>12, <1>a DEF Send, DeviceOK
  <2>. QED BY <1>12, <2>1 DEF Send
<1>13. CASE SendShort(c)
  <2>1. PICK n \in 0..Len(reply[c]) - 1 : Answer(c, SubSeq(reply[c], 1, n))
    BY <1>13 DEF SendShort
  <2>2. SubSeq(reply[c], 1, n) \in Seq(Byte)
    <3>1. reply[c] \in Seq(Byte) /\ Len(reply[c]) \in Nat
      BY DEF DeviceOK
    <3>2. \A i \in 1..n : reply[c][i] \in Byte
      BY <3>1
    <3>. QED BY <3>2, SubSeqProperties
  <2>3. got' \in [Conn -> Seq(Seq(Byte))]
    BY <1>13, <1>a, <2>1, <2>2 DEF SendShort
  <2>4. faults' \in 0..MaxFaults
    BY <1>13, BoundAssumption DEF SendShort
  <2>. QED BY <1>13, <2>3, <2>4 DEF SendShort
<1>14. CASE SendBrokenPipe(c)
  BY <1>14 DEF SendBrokenPipe
<1>15. CASE EchoDone(c)
  BY <1>15 DEF EchoDone
<1>16. CASE RecvFails(c)
  BY <1>16, BoundAssumption DEF RecvFails
<1>17. CASE PeerCloses(c)
  BY <1>17 DEF PeerCloses
<1>. QED
  BY <1>1, <1>2, <1>3, <1>4, <1>5, <1>6, <1>7, <1>8, <1>9, <1>10, <1>11, <1>12,
     <1>13, <1>14, <1>15, <1>16, <1>17 DEF Serve

-----------------------------------------------------------------------------
(* What the device does *)

LEMMA AcceptTypes ==
  ASSUME DeviceOK, NEW byte \in Byte, Device!Accept(byte)
  PROVE  lines' \in Seq(Seq(Byte)) /\ partial' \in Seq(Byte) /\ dropped' \in Nat
<1>. USE DEF DeviceOK
<1>. DEFINE line == Append(partial, Newline)
            all == Append(lines, line)
<1>1. line \in Seq(Byte) /\ Append(partial, byte) \in Seq(Byte)
  BY ByteAssumption
<1>. HIDE DEF line
<1>2. all \in Seq(Seq(Byte)) /\ Tail(all) \in Seq(Seq(Byte)) /\ Head(all) \in Seq(Byte)
  <2>1. PICK S : S = Seq(Byte)
    OBVIOUS
  <2>2. all \in Seq(S) /\ all # <<>>
    BY <1>1, <2>1, AppendProperties
  <2>3. Tail(all) \in Seq(S) /\ Head(all) \in S
    BY <2>2, HeadTailProperties
  <2>. QED BY <2>1, <2>2, <2>3
<1>3. dropped + Len(Head(all)) \in Nat
  BY <1>2
<1>. HIDE DEF all
<1>4. CASE byte # Newline
  BY <1>1, <1>4 DEF Device!Accept
<1>5. CASE byte = Newline
  <2>1. /\ partial' = <<>>
        /\ IF Len(lines) < Capacity
           THEN lines' = all /\ UNCHANGED dropped
           ELSE lines' = Tail(all) /\ dropped' = dropped + Len(Head(all))
    BY <1>5 DEF Device!Accept, all, line
  <2>2. partial' \in Seq(Byte)
    BY <2>1
  <2>3. CASE Len(lines) < Capacity
    BY <1>2, <2>1, <2>2, <2>3
  <2>4. CASE ~(Len(lines) < Capacity)
    BY <1>2, <1>3, <2>1, <2>2, <2>4
  <2>. QED BY <2>3, <2>4
<1>. QED BY <1>4, <1>5

\* What a read gives: the bytes from skip on, none only when there are none.
Gives(c, text, skip, size) ==
  /\ skip = IF pos[c] < dropped THEN 0 ELSE pos[c] - dropped
  /\ size > 0 => skip + size <= Len(text)
  /\ size = 0 => Len(text) <= skip
  /\ reply[c] = <<>>
  /\ reply' = [reply EXCEPT ![c] = SubSeq(text, skip + 1, skip + size)]
  /\ pos' = [pos EXCEPT ![c] = dropped + skip + size]

LEMMA ReadGives ==
  ASSUME DeviceOK, NEW c \in Conn, Device!Read(c, BUFSIZE)
  PROVE  /\ \E skip, size \in Nat : Gives(c, Device!Text, skip, size)
         /\ UNCHANGED <<lines, partial, dropped>>
<1>0. PICK text \in Seq(Byte) : text = Device!Text
  BY TextBytes
<1>. DEFINE skip == IF pos[c] < dropped THEN 0 ELSE pos[c] - dropped
            rest == Len(text) - skip
            size == IF rest < 0 THEN 0 ELSE IF rest < BUFSIZE THEN rest ELSE BUFSIZE
<1>1. /\ reply[c] = <<>>
      /\ reply' = [reply EXCEPT ![c] = SubSeq(text, skip + 1, skip + size)]
      /\ pos' = [pos EXCEPT ![c] = dropped + skip + size]
      /\ UNCHANGED <<lines, partial, dropped>>
  BY <1>0 DEF Device!Read
<1>2. skip \in Nat /\ size \in Nat
  BY SizeAssumption DEF DeviceOK
<1>3. (size > 0 => skip + size <= Len(text)) /\ (size = 0 => Len(text) <= skip)
  <2>1. Len(text) \in Nat /\ BUFSIZE \in Nat \ {0}
    BY SizeAssumption
  <2>2. PICK k \in Nat : k = skip
    BY <1>2
  <2>. QED BY <2>1, <2>2
<1>4. Gives(c, text, skip, size)
  BY <1>1, <1>3 DEF Gives
<1>. HIDE DEF skip, size
<1>. QED BY <1>0, <1>1, <1>2, <1>4

LEMMA ReadTypes ==
  ASSUME DeviceOK, NEW c \in Conn, Device!Read(c, BUFSIZE)
  PROVE  DeviceOK'
<1>0. PICK text \in Seq(Byte) : text = Device!Text
  BY TextBytes
<1>1. PICK skip \in Nat, size \in Nat : Gives(c, text, skip, size)
  BY <1>0, ReadGives
<1>2. SubSeq(text, skip + 1, skip + size) \in Seq(Byte)
  <2>1. \A i \in skip + 1..skip + size : i \in 1..Len(text)
    BY <1>1 DEF Gives
  <2>2. \A i \in skip + 1..skip + size : text[i] \in Byte
    BY <2>1
  <2>. QED BY <2>2, SubSeqProperties
<1>3. reply' \in [Conn -> Seq(Byte)]
  BY <1>1, <1>2 DEF Gives, DeviceOK
<1>4. pos' \in [Conn -> Nat]
  <2>1. dropped + skip + size \in Nat
    BY DEF DeviceOK
  <2>. QED BY <1>1, <2>1 DEF Gives, DeviceOK
<1>. QED BY <1>3, <1>4, ReadGives DEF DeviceOK

\* The types of the device.
LEMMA DeviceStep ==
  ASSUME TypeOK, DeviceOK, NEW c \in Conn, Serve(c) \/ RecvFails(c) \/ PeerCloses(c)
  PROVE  DeviceOK'
<1>. DEFINE Quiet == UNCHANGED device
<1>1. CASE WriteByte(c)
  <2>1. Head(recv_buf[c]) \in Byte /\ Device!Accept(Head(recv_buf[c]))
    BY <1>1, HeadMoves DEF WriteByte, TypeOK
  <2>2. pos' = pos /\ reply' = reply
    BY <2>1 DEF Device!Accept
  <2>. QED BY <2>1, <2>2, AcceptTypes DEF DeviceOK
<1>2. CASE ReadDevice(c)
  BY <1>2, ReadTypes DEF ReadDevice
<1>3. CASE Send(c) \/ SendShort(c)
  <2>1. Device!Return(c)
    BY <1>3 DEF Send, SendShort
  <2>. QED BY <2>1 DEF Device!Return, DeviceOK
<1>4. CASE ReadDeviceFails(c) \/ EchoDone(c)
  BY <1>4 DEF ReadDeviceFails, EchoDone, Device!Close, DeviceOK
<1>5. CASE Quiet
  BY <1>5 DEF device, DeviceOK
<1>. HIDE DEF Quiet
<1>6. \/ WriteByte(c) \/ ReadDevice(c) \/ Send(c) \/ SendShort(c) \/ ReadDeviceFails(c)
      \/ EchoDone(c) \/ Quiet
  BY DEF Serve, Recv, RecvEnd, RecvFails, Lock, OpenForWrite, OpenForWriteFails,
         WriteStops, OpenForRead, OpenForReadFails, SendBrokenPipe, PeerCloses, Quiet
<1>. QED BY <1>1, <1>2, <1>3, <1>4, <1>5, <1>6

\* Bytes only reach the device from the thread that writes them.
LEMMA OthersWait ==
  ASSUME MutexHeld, NEW c \in Conn, fmutex = c
  PROVE  \A d \in Conn : d # c => pc[d] \notin Locked
BY DEF MutexHeld

-----------------------------------------------------------------------------
(* The mutex, and what is left behind where *)

LEMMA HeldStep ==
  ASSUME TypeOK, MutexHeld, NEW c \in Conn, Serve(c) \/ RecvFails(c) \/ PeerCloses(c)
  PROVE  MutexHeld'
<1>. USE DEF Goto, Unlock, Locked
<1>1. CASE Recv(c)
  BY <1>1, MutexStep DEF Recv
<1>2. CASE RecvEnd(c) \/ RecvFails(c)
  BY <1>2, MutexStep DEF RecvEnd, RecvFails
<1>3. CASE Lock(c)
  BY <1>3, MutexStep DEF Lock
<1>4. CASE OpenForWrite(c) \/ WriteByte(c) \/ WriteStops(c) \/ OpenForRead(c)
  BY <1>4, MutexStep DEF OpenForWrite, WriteByte, WriteStops, OpenForRead
<1>5. CASE OpenForWriteFails(c) \/ OpenForReadFails(c)
  BY <1>5, MutexStep DEF OpenForWriteFails, OpenForReadFails
<1>6. CASE ReadDevice(c) \/ Send(c) \/ SendShort(c) \/ SendBrokenPipe(c)
  BY <1>6, MutexStep DEF ReadDevice, Send, SendShort, SendBrokenPipe
<1>7. CASE ReadDeviceFails(c) \/ EchoDone(c)
  BY <1>7, MutexStep DEF ReadDeviceFails, EchoDone
<1>8. CASE PeerCloses(c)
  BY <1>8 DEF PeerCloses, MutexHeld
<1>. QED BY <1>1, <1>2, <1>3, <1>4, <1>5, <1>6, <1>7, <1>8 DEF Serve

\* A step of thread c leaves the other threads where they are.
Others(c) ==
  \A d \in Conn \ {c} :
     /\ pc'[d] = pc[d] /\ recv_buf'[d] = recv_buf[d] /\ inbox'[d] = inbox[d]
     /\ pos'[d] = pos[d] /\ reply'[d] = reply[d] /\ got'[d] = got[d] /\ taken'[d] = taken[d]

LEMMA OthersStay ==
  ASSUME TypeOK, DeviceOK, NEW c \in Conn, Serve(c) \/ RecvFails(c) \/ PeerCloses(c)
  PROVE  Others(c)
<1>. USE DEF TypeOK, Others, Goto, client, device
<1>1. CASE Recv(c) \/ RecvEnd(c) \/ RecvFails(c) \/ Lock(c) \/ PeerCloses(c)
  BY <1>1 DEF Recv, RecvEnd, RecvFails, Lock, PeerCloses
<1>2. CASE OpenForWrite(c) \/ OpenForWriteFails(c) \/ OpenForRead(c) \/ OpenForReadFails(c)
  BY <1>2 DEF OpenForWrite, OpenForWriteFails, OpenForRead, OpenForReadFails
<1>3. CASE WriteByte(c)
  <2>1. pos' = pos /\ reply' = reply
    BY <1>3 DEF WriteByte, Device!Accept
  <2>. QED BY <1>3, <2>1 DEF WriteByte
<1>4. CASE WriteStops(c)
  BY <1>4 DEF WriteStops
<1>5. CASE ReadDevice(c)
  <2>1. \A d \in Conn \ {c} : pos'[d] = pos[d] /\ reply'[d] = reply[d]
    BY <1>5, ReadGives DEF ReadDevice, Gives, DeviceOK
  <2>. QED BY <1>5, <2>1 DEF ReadDevice
<1>6. CASE Send(c) \/ SendShort(c)
  <2>1. /\ \A d \in Conn \ {c} : pos'[d] = pos[d] /\ reply'[d] = reply[d]
    BY <1>6 DEF Send, SendShort, Device!Return, DeviceOK
  <2>2. \A d \in Conn \ {c} : got'[d] = got[d]
    BY <1>6 DEF Send, SendShort, Answer
  <2>. QED BY <1>6, <2>1, <2>2 DEF Send, SendShort
<1>7. CASE SendBrokenPipe(c)
  BY <1>7 DEF SendBrokenPipe
<1>8. CASE ReadDeviceFails(c) \/ EchoDone(c)
  <2>1. /\ \A d \in Conn \ {c} : pos'[d] = pos[d] /\ reply'[d] = reply[d]
    BY <1>8 DEF ReadDeviceFails, EchoDone, Device!Close, DeviceOK
  <2>. QED BY <1>8, <2>1 DEF ReadDeviceFails, EchoDone
<1>. QED BY <1>1, <1>2, <1>3, <1>4, <1>5, <1>6, <1>7, <1>8 DEF Serve

\* What thread c leaves behind.
LEMMA PlacesStep ==
  ASSUME TypeOK, DeviceOK, PlacesOK, NEW c \in Conn,
         Serve(c) \/ RecvFails(c) \/ PeerCloses(c)
  PROVE  PlacesOK'
<1>1. ThreadAt(c)
  BY DEF PlacesOK
<1>2. ThreadAt(c)'
  <2>. USE <1>1 DEF ThreadAt, TypeOK, Goto, Locked, client, device
  <2>1. CASE Recv(c)
    <3>1. got[c] \in Seq(Seq(Byte)) /\ got'[c] = Append(got[c], <<>>)
      BY <2>1 DEF Recv
    <3>2. got'[c] # <<>>
      BY <3>1, AppendIsNonempty
    <3>. QED BY <2>1, <3>2 DEF Recv
  <2>2. CASE RecvEnd(c) \/ RecvFails(c) \/ Lock(c) \/ PeerCloses(c)
    BY <2>2 DEF RecvEnd, RecvFails, Lock, PeerCloses
  <2>3. CASE OpenForWrite(c) \/ OpenForWriteFails(c) \/ OpenForRead(c) \/ OpenForReadFails(c)
    BY <2>3 DEF OpenForWrite, OpenForWriteFails, OpenForRead, OpenForReadFails
  <2>4. CASE WriteByte(c)
    <3>1. pos' = pos /\ reply' = reply
      BY <2>4 DEF WriteByte, Device!Accept
    <3>. QED BY <2>4, <3>1 DEF WriteByte
  <2>5. CASE WriteStops(c)
    BY <2>5 DEF WriteStops
  <2>6. CASE ReadDevice(c)
    BY <2>6 DEF ReadDevice
  <2>7. CASE Send(c) \/ SendShort(c)
    <3>1. reply'[c] = <<>> /\ pc'[c] = "read" /\ recv_buf'[c] = <<>> /\ got[c] # <<>>
      BY <2>7 DEF Send, SendShort, Device!Return, DeviceOK
    <3>2. DOMAIN got'[c] = DOMAIN got[c]
      <4>1. PICK bytes : Answer(c, bytes)
        BY <2>7 DEF Send, SendShort
      <4>2. got'[c] = [got[c] EXCEPT ![Len(got[c])] = @ \o bytes]
        BY <4>1 DEF Answer
      <4>. QED BY <4>2
    <3>3. got'[c] # <<>>
      <4>1. got[c] \in Seq(Seq(Byte)) /\ DOMAIN got[c] = 1..Len(got[c]) /\ Len(got[c]) > 0
        BY <3>1
      <4>. QED BY <3>2, <4>1
    <3>. QED BY <3>1, <3>3
  <2>8. CASE SendBrokenPipe(c)
    BY <2>8 DEF SendBrokenPipe
  <2>9. CASE ReadDeviceFails(c) \/ EchoDone(c)
    BY <2>9 DEF ReadDeviceFails, EchoDone, Device!Close, DeviceOK
  <2>. QED BY <2>1, <2>2, <2>3, <2>4, <2>5, <2>6, <2>7, <2>8, <2>9 DEF Serve
<1>3. ASSUME NEW d \in Conn \ {c}
      PROVE  ThreadAt(d)'
  BY <1>3, OthersStay DEF PlacesOK, ThreadAt, Others
<1>. QED BY <1>2, <1>3 DEF PlacesOK

LEMMA StepInv == Inv /\ [Next]_vars => Inv'
<1>. SUFFICES ASSUME Inv, [Next]_vars PROVE Inv'
  OBVIOUS
<1>1. CASE Next
  <2>1. PICK c \in Conn : Serve(c) \/ RecvFails(c) \/ PeerCloses(c)
    BY <1>1 DEF Next
  <2>. QED BY <2>1, TypeStep, DeviceStep, HeldStep, PlacesStep DEF Inv
<1>2. CASE UNCHANGED vars
  BY <1>2 DEF vars, device, client, Inv, TypeOK, DeviceOK, MutexHeld, PlacesOK, ThreadAt
<1>. QED BY <1>1, <1>2

-----------------------------------------------------------------------------
(* The answer *)

LEMMA FaultsStay ==
  ASSUME TypeOK, NEW c \in Conn, Serve(c) \/ RecvFails(c) \/ PeerCloses(c), faults' = 0
  PROVE  faults = 0 /\ UNCHANGED faults
<1>1. UNCHANGED faults \/ faults' = faults + 1
  BY DEF Serve, Recv, RecvEnd, RecvFails, Lock, OpenForWrite, OpenForWriteFails,
         WriteByte, WriteStops, OpenForRead, OpenForReadFails, ReadDevice,
         ReadDeviceFails, Send, SendShort, SendBrokenPipe, EchoDone, PeerCloses, Fault
<1>. QED BY <1>1, BoundAssumption DEF TypeOK

\* The bytes a read gives follow those before the position.
LEMMA ReadFollows ==
  ASSUME NEW text \in Seq(Byte), NEW skip \in Nat, NEW size \in Nat, skip <= Len(text),
         size > 0 => skip + size <= Len(text)
  PROVE  /\ skip + size <= Len(text)
         /\ SubSeq(text, 1, skip) \in Seq(Byte)
         /\ SubSeq(text, 1, skip) \o SubSeq(text, skip + 1, skip + size)
              = SubSeq(text, 1, skip + size)
         /\ SubSeq(text, skip + 1, skip + size) = <<>> => size = 0
<1>1. PICK n \in Nat : n = skip + size
  OBVIOUS
<1>2. n <= Len(text) /\ n \in skip..Len(text) /\ Len(text) \in Nat
  BY <1>1
<1>3. SubSeq(text, 1, skip) \o SubSeq(text, skip + 1, n) = SubSeq(text, 1, n)
  <2>1. 1 \in 1..Len(text) + 1 /\ skip \in 1 - 1..Len(text)
    BY <1>2
  <2>. QED BY <1>2, <2>1, ConcatAdjacentSubSeq
<1>4. SubSeq(text, 1, skip) \in Seq(Byte)
  <2>1. \A i \in 1..skip : text[i] \in Byte
    BY <1>2
  <2>. QED BY <2>1, SubSeqProperties
<1>5. ASSUME size # 0
      PROVE  SubSeq(text, skip + 1, n) # <<>>
  <2>1. \A i \in skip + 1..n : text[i] \in Byte
    BY <1>2
  <2>2. skip + 1 \in Int /\ n \in Int /\ skip + 1 <= n /\ n - (skip + 1) + 1 > 0
    BY <1>1, <1>5
  <2>3. Len(SubSeq(text, skip + 1, n)) = n - (skip + 1) + 1
    BY <2>1, <2>2, SubSeqProperties
  <2>4. Len(SubSeq(text, skip + 1, n)) # 0
    BY <2>2, <2>3
  <2>5. Len(<<>>) = 0
    OBVIOUS
  <2>. QED BY <2>4, <2>5, Zenon
<1>. QED BY <1>1, <1>2, <1>3, <1>4, <1>5

\* A read brings the answer further.
LEMMA EchoRead ==
  ASSUME Inv, NEW c \in Conn, EchoSoFar(c), ReadDevice(c)
  PROVE  EchoSoFar(c)'
<1>0. PICK text \in Seq(Byte) : text = Device!Text
  BY TextBytes DEF Inv
<1>1. PICK skip \in Nat, size \in Nat : Gives(c, text, skip, size)
  BY <1>0, ReadGives DEF Inv, ReadDevice
<1>2. UNCHANGED <<lines, dropped, got>> /\ pc[c] = "read" /\ pc'[c] = "send"
  <2>1. UNCHANGED <<lines, dropped>>
    BY ReadGives DEF Inv, ReadDevice
  <2>. QED BY <2>1 DEF ReadDevice, Goto, Inv, TypeOK
<1>3. Device!Text' = text
  BY <1>0, <1>2 DEF Device!Text
<1>4. dropped \in Nat /\ pos[c] \in Nat
  BY DEF Inv, DeviceOK
<1>5. /\ reply'[c] = SubSeq(text, skip + 1, skip + size)
      /\ pos'[c] = dropped + skip + size
  BY <1>1 DEF Gives, Inv, DeviceOK
<1>6. skip <= Len(text) /\ Last(got[c]) = SubSeq(text, 1, skip)
  <2>1. CASE pos[c] = 0 /\ Last(got[c]) = <<>>
    <3>1. skip = 0
      BY <1>1, <1>4, <2>1 DEF Gives
    <3>. QED BY <2>1, <3>1
  <2>2. CASE Inside(c) /\ Last(got[c]) = UpTo(c)
    <3>1. dropped <= pos[c] /\ pos[c] <= dropped + Len(text)
          /\ Last(got[c]) = SubSeq(text, 1, pos[c] - dropped)
      BY <1>0, <2>2 DEF Inside, UpTo
    <3>2. skip = pos[c] - dropped
      BY <1>1, <1>4, <3>1 DEF Gives
    <3>3. Len(text) \in Nat
      OBVIOUS
    <3>. QED BY <1>4, <3>1, <3>2, <3>3
  <2>. QED BY <1>2, <2>1, <2>2 DEF EchoSoFar
<1>7. /\ skip + size <= Len(text)
      /\ Last(got[c]) \o reply'[c] = SubSeq(text, 1, skip + size)
      /\ reply'[c] = <<>> => size = 0
  <2>1. size > 0 => skip + size <= Len(text)
    BY <1>1 DEF Gives
  <2>2. /\ skip + size <= Len(text)
        /\ SubSeq(text, 1, skip) \o SubSeq(text, skip + 1, skip + size)
             = SubSeq(text, 1, skip + size)
        /\ SubSeq(text, skip + 1, skip + size) = <<>> => size = 0
    BY <1>6, <2>1, ReadFollows
  <2>. QED BY <1>5, <1>6, <2>2
<1>8. size = 0 => Len(text) = skip
  <2>1. Len(text) \in Nat
    OBVIOUS
  <2>. QED BY <1>1, <1>6, <2>1 DEF Gives
<1>9. pos'[c] - dropped = skip + size /\ Len(text) \in Nat
  BY <1>4, <1>5
<1>10. PICK d, q, n, z, k \in Nat :
         d = dropped /\ q = pos'[c] /\ n = Len(text) /\ z = size /\ k = skip
  <2>1. pos'[c] \in Nat
    BY <1>4, <1>5
  <2>. QED BY <1>4, <1>9, <2>1
<1>11. q = d + k + z /\ k + z <= n /\ d <= q /\ q <= d + n /\ (z = 0 => q = d + n)
  <2>1. q = d + k + z /\ k + z <= n /\ (z = 0 => n = k)
    BY <1>5, <1>7, <1>8, <1>10
  <2>. QED BY <2>1
<1>12. Inside(c)' /\ (Last(got[c]) \o reply[c])' = UpTo(c)'
  <2>1. UpTo(c)' = SubSeq(text, 1, skip + size)
    BY <1>2, <1>3, <1>9 DEF UpTo
  <2>2. (Last(got[c]) \o reply[c])' = Last(got[c]) \o reply'[c]
    BY <1>2 DEF Last
  <2>3. dropped' = dropped /\ dropped <= pos'[c] /\ pos'[c] <= dropped + Len(text)
    BY <1>2, <1>10, <1>11
  <2>. QED BY <1>3, <1>7, <2>1, <2>2, <2>3 DEF Inside
<1>13. reply'[c] = <<>> => pos'[c] = (dropped + Len(Device!Text))'
  <2>1. reply'[c] = <<>> => pos'[c] = dropped + Len(text)
    BY <1>7, <1>10, <1>11
  <2>. QED BY <1>2, <1>3, <2>1
<1>. QED BY <1>2, <1>12, <1>13 DEF EchoSoFar

\* What is sent is added to the last answer.
LEMMA EchoSend ==
  ASSUME Inv, NEW c \in Conn, EchoSoFar(c), Send(c)
  PROVE  EchoSoFar(c)'
<1>1. UNCHANGED <<lines, dropped, pos>> /\ pc[c] = "send" /\ pc'[c] = "read"
  BY DEF Send, Device!Return, Goto, Inv, TypeOK
<1>2. Inside(c)' /\ UpTo(c)' = UpTo(c)
  BY <1>1 DEF EchoSoFar, Inside, UpTo, Device!Text
<1>3. Last(got'[c]) = Last(got[c]) \o reply[c]
  <2>1. got[c] \in Seq(Seq(Byte)) /\ got[c] # <<>>
    BY <1>1 DEF Inv, TypeOK, PlacesOK, ThreadAt, Locked
  <2>2. PICK n \in Nat : n = Len(got[c]) /\ n \in 1..Len(got[c])
    BY <2>1
  <2>3. got'[c] = [got[c] EXCEPT ![n] = got[c][n] \o reply[c]]
    BY <2>2 DEF Send, Answer, Inv, TypeOK
  <2>4. Len(got'[c]) = n /\ got'[c][n] = got[c][n] \o reply[c]
    <3>1. PICK S : S = Seq(Byte)
      OBVIOUS
    <3>2. got[c][n] \in S /\ reply[c] \in S
      BY <2>1, <2>2, <3>1, ElementOfSeq DEF Inv, DeviceOK
    <3>3. PICK e \in S : e = got[c][n] \o reply[c]
      BY <3>1, <3>2, ConcatProperties
    <3>4. PICK g \in Seq(S) : g = got[c]
      BY <2>1, <3>1
    <3>5. Len([g EXCEPT ![n] = e]) = Len(g) /\ [g EXCEPT ![n] = e][n] = e
      BY <2>2, <3>4, ExceptSeq
    <3>. QED BY <2>2, <2>3, <3>3, <3>4, <3>5
  <2>. QED BY <2>2, <2>4 DEF Last
<1>4. Last(got[c]) \o reply[c] = UpTo(c)
  BY <1>1 DEF EchoSoFar
<1>. QED BY <1>1, <1>2, <1>3, <1>4 DEF EchoSoFar

LEMMA EchoStep ==
  ASSUME Inv, EchoOK, NEW c \in Conn, Serve(c) \/ RecvFails(c) \/ PeerCloses(c)
  PROVE  EchoOK'
<1>. SUFFICES ASSUME faults' = 0 PROVE \A d \in Conn : EchoSoFar(d)'
  BY DEF EchoOK
<1>0. faults = 0 /\ UNCHANGED faults /\ \A d \in Conn : EchoSoFar(d)
  BY FaultsStay DEF EchoOK, Inv
<1>1. EchoSoFar(c)'
  <2>. USE DEF Goto, Inv, TypeOK
  <2>1. CASE Recv(c)
    <3>1. Last(got'[c]) = <<>>
      BY <2>1, AppendIsNonempty DEF Recv
    <3>. QED BY <2>1, <3>1 DEF Recv, EchoSoFar
  <2>2. CASE RecvEnd(c) \/ SendBrokenPipe(c)
    BY <2>2 DEF RecvEnd, SendBrokenPipe, EchoSoFar
  <2>3. CASE Lock(c) \/ OpenForWrite(c)
    BY <1>0, <2>3 DEF Lock, OpenForWrite, EchoSoFar
  <2>4. CASE WriteByte(c)
    BY <1>0, <2>4 DEF WriteByte, EchoSoFar
  <2>5. CASE OpenForRead(c)
    <3>1. pos[c] = 0 /\ Last(got[c]) = <<>> /\ pc'[c] = "read"
      BY <1>0, <2>5 DEF OpenForRead, EchoSoFar, PlacesOK, ThreadAt
    <3>2. UNCHANGED <<pos, got>>
      BY <2>5 DEF OpenForRead, device
    <3>. QED BY <3>1, <3>2 DEF EchoSoFar
  <2>6. CASE ReadDevice(c)
    BY <1>0, <2>6, EchoRead
  <2>7. CASE Send(c)
    BY <1>0, <2>7, EchoSend
  <2>8. CASE EchoDone(c)
    BY <2>8 DEF EchoDone, EchoSoFar
  <2>9. CASE PeerCloses(c)
    BY <1>0, <2>9 DEF PeerCloses, EchoSoFar, Inside, UpTo, Device!Text, device
  <2>10. CASE \/ OpenForWriteFails(c) \/ WriteStops(c) \/ OpenForReadFails(c)
              \/ ReadDeviceFails(c) \/ SendShort(c) \/ RecvFails(c)
    <3>1. faults' = faults + 1
      BY <2>10 DEF OpenForWriteFails, WriteStops, OpenForReadFails, ReadDeviceFails,
                   SendShort, RecvFails, Fault
    <3>. QED BY <1>0, <3>1
  <2>. QED BY <2>1, <2>2, <2>3, <2>4, <2>5, <2>6, <2>7, <2>8, <2>9, <2>10 DEF Serve
<1>2. ASSUME NEW d \in Conn \ {c}
      PROVE  EchoSoFar(d)'
  <2>1. pc'[d] = pc[d] /\ pos'[d] = pos[d] /\ reply'[d] = reply[d] /\ got'[d] = got[d]
    BY OthersStay DEF Others, Inv
  <2>2. EchoSoFar(d)
    BY <1>0
  <2>3. CASE UNCHANGED <<lines, dropped>>
    BY <2>1, <2>2, <2>3 DEF EchoSoFar, Inside, UpTo, Device!Text
  <2>4. CASE WriteByte(c)
    <3>1. pc[c] \in Locked /\ MutexHeld
      BY <2>4 DEF WriteByte, Locked, Inv
    <3>2. fmutex = c
      BY <3>1 DEF MutexHeld
    <3>3. pc[d] \notin Locked
      BY <3>1, <3>2, OthersWait
    <3>. QED BY <2>1, <2>2, <3>3 DEF EchoSoFar, Locked
  <2>5. UNCHANGED <<lines, dropped>> \/ WriteByte(c)
    <3>1. CASE ReadDevice(c)
      BY <3>1, ReadGives DEF ReadDevice, Inv
    <3>2. CASE ~ReadDevice(c)
      BY <3>2 DEF Serve, Recv, RecvEnd, RecvFails, Lock, OpenForWrite, OpenForWriteFails,
         WriteStops, OpenForRead, OpenForReadFails, SendBrokenPipe, PeerCloses, device,
         ReadDeviceFails, EchoDone, Send, SendShort, Device!Close, Device!Return
    <3>. QED BY <3>1, <3>2
  <2>. QED BY <2>3, <2>4, <2>5
<1>. QED BY <1>1, <1>2

-----------------------------------------------------------------------------
(* The clients' bytes *)

LEMMA BytesStep ==
  ASSUME Inv, ClientBytesInOrder, NEW c \in Conn, Serve(c) \/ RecvFails(c) \/ PeerCloses(c)
  PROVE  ClientBytesInOrder'
<1>. DEFINE All(d) == taken[d] \o recv_buf[d] \o inbox[d]
<1>. SUFFICES ASSUME faults' = 0 PROVE \A d \in Conn : All(d)' = message'[d]
  BY DEF ClientBytesInOrder
<1>0. faults = 0 /\ UNCHANGED faults /\ \A d \in Conn : All(d) = message[d]
  BY FaultsStay DEF ClientBytesInOrder, Inv
<1>1. UNCHANGED message
  BY DEF Serve, Recv, RecvEnd, RecvFails, Lock, OpenForWrite, OpenForWriteFails,
         WriteByte, WriteStops, OpenForRead, OpenForReadFails, ReadDevice, client,
         ReadDeviceFails, Send, SendShort, SendBrokenPipe, EchoDone, PeerCloses
<1>2. /\ taken[c] \in Seq(Byte) /\ recv_buf[c] \in Seq(Byte) /\ inbox[c] \in Seq(Byte)
  BY DEF Inv, TypeOK
<1>3. CASE Recv(c)
  <2>1. recv_buf[c] = <<>>
    BY <1>3 DEF Recv, Goto, Inv, PlacesOK, ThreadAt
  <2>2. PICK n \in 1..BUFSIZE :
          /\ n <= Len(inbox[c])
          /\ recv_buf' = [recv_buf EXCEPT ![c] = SubSeq(inbox[c], 1, n)]
          /\ inbox' = [inbox EXCEPT ![c] = SubSeq(@, n + 1, Len(@))]
    BY <1>3 DEF Recv
  <2>3. n \in 1..Len(inbox[c])
    BY <1>2, <2>2, SizeAssumption
  <2>. DEFINE x == SubSeq(inbox[c], 1, n)
              y == SubSeq(inbox[c], n + 1, Len(inbox[c]))
  <2>4. x \in Seq(Byte) /\ y \in Seq(Byte) /\ x \o y = inbox[c]
    BY <1>2, <2>3, CutInTwo
  <2>5. recv_buf'[c] = x /\ inbox'[c] = y /\ taken'[c] = taken[c]
    BY <1>3, <2>2 DEF Recv, Inv, TypeOK
  <2>. HIDE DEF x, y
  <2>6. taken[c] \o x \o y = taken[c] \o (x \o y)
    BY <1>2, <2>4, Regroup
  <2>7. taken[c] \o recv_buf[c] = taken[c]
    BY <1>2, <2>1, ConcatEmptySeq
  <2>8. All(c)' = message'[c]
    BY <1>0, <1>1, <2>4, <2>5, <2>6, <2>7
  <2>. QED BY <1>0, <1>1, <2>8, OthersStay DEF Others, Inv
<1>4. CASE WriteByte(c)
  <2>1. /\ recv_buf[c] # <<>>
        /\ recv_buf'[c] = Tail(recv_buf[c]) /\ inbox'[c] = inbox[c]
        /\ taken'[c] = Append(taken[c], Head(recv_buf[c]))
    BY <1>4 DEF WriteByte, client, Inv, TypeOK
  <2>2. Append(taken[c], Head(recv_buf[c])) \o Tail(recv_buf[c]) = taken[c] \o recv_buf[c]
    BY <1>2, <2>1, HeadMovesOver
  <2>3. All(c)' = message'[c]
    BY <1>0, <1>1, <2>1, <2>2
  <2>. QED BY <1>0, <1>1, <2>3, OthersStay DEF Others, Inv
<1>5. CASE UNCHANGED <<taken, recv_buf, inbox>>
  BY <1>0, <1>1, <1>5
<1>6. \/ Recv(c) \/ WriteByte(c) \/ UNCHANGED <<taken, recv_buf, inbox>>
  <2>1. CASE OpenForWriteFails(c) \/ WriteStops(c)
    <3>1. faults' = faults + 1
      BY <2>1 DEF OpenForWriteFails, WriteStops, Fault
    <3>. QED BY <1>0, <3>1
  <2>2. CASE ~(OpenForWriteFails(c) \/ WriteStops(c))
    BY <2>2 DEF Serve, RecvEnd, RecvFails, Lock, OpenForWrite, OpenForRead,
         OpenForReadFails, ReadDevice, ReadDeviceFails, Send, SendShort, SendBrokenPipe,
         EchoDone, PeerCloses, client
  <2>. QED BY <2>1, <2>2
<1>. QED BY <1>3, <1>4, <1>5, <1>6

-----------------------------------------------------------------------------
(* The theorems *)

LEMMA InitWInv == Init => WInv
<1>. SUFFICES ASSUME Init PROVE WInv
  OBVIOUS
<1>1. EchoOK
  BY DEF Init, Device!Init, EchoOK, EchoSoFar
<1>2. ClientBytesInOrder
  <2>1. ASSUME NEW c \in Conn
        PROVE  taken[c] \o recv_buf[c] \o inbox[c] = message[c]
    <3>1. message[c] \in Seq(Byte)
      BY ByteAssumption DEF Init
    <3>2. taken[c] = <<>> /\ recv_buf[c] = <<>> /\ inbox[c] = message[c]
      BY DEF Init
    <3>3. <<>> \o <<>> = <<>>
      BY ConcatEmptySeq
    <3>. QED BY <3>1, <3>2, <3>3, ConcatEmptySeq
  <2>. QED BY <2>1 DEF ClientBytesInOrder
<1>. QED BY <1>1, <1>2, InitInv DEF WInv

LEMMA StepWInv == WInv /\ [Next]_vars => WInv'
<1>. SUFFICES ASSUME WInv, [Next]_vars PROVE WInv'
  OBVIOUS
<1>1. CASE Next
  <2>1. PICK c \in Conn : Serve(c) \/ RecvFails(c) \/ PeerCloses(c)
    BY <1>1 DEF Next
  <2>. QED BY <2>1, StepInv, EchoStep, BytesStep DEF WInv
<1>2. CASE UNCHANGED vars
  <2>1. EchoOK'
    BY <1>2 DEF vars, device, WInv, EchoOK, EchoSoFar, Inside, UpTo, Device!Text
  <2>2. ClientBytesInOrder'
    BY <1>2 DEF vars, client, WInv, ClientBytesInOrder
  <2>. QED BY <1>2, <2>1, <2>2, StepInv DEF WInv
<1>. QED BY <1>1, <1>2

\* No two threads are between the lock and the unlock.
OneInside == \A c, d \in Conn : pc[c] \in Locked /\ pc[d] \in Locked => c = d

\* handleRequests is between the lock and the unlock of fmutex in one thread at
\* a time, and fmutex is held by that thread or is free: no error path keeps it.
THEOREM OneThreadAtTheDevice == Spec => [](MutexHeld /\ OneInside)
<1>1. Inv => MutexHeld /\ OneInside
  BY DEF Inv, MutexHeld, OneInside
<1>. QED BY <1>1, InitInv, StepInv, PTL DEF Spec

\* A client's bytes reach the device all and in the order they were sent, while
\* no call fails: recv may cut the stream anywhere and write takes what was
\* received, however the threads take turns.
THEOREM BytesArriveInOrder == Spec => []ClientBytesInOrder
<1>1. WInv => ClientBytesInOrder
  BY DEF WInv
<1>. QED BY <1>1, InitWInv, StepWInv, PTL DEF Spec

\* An answer is one picture of the device, though it is read and sent a buffer
\* at a time: the mutex keeps the other threads from writing and pushing lines
\* out until the last byte is sent.
THEOREM AnswersAreWhole == Spec => []AnswerIsTheDevice
<1>1. WInv => AnswerIsTheDevice
  <2>. SUFFICES ASSUME WInv, NEW c \in Conn, pc[c] = "send", reply[c] = <<>>, faults = 0
                PROVE  Last(got[c]) = Device!Text
    BY DEF AnswerIsTheDevice
  <2>0. PICK text \in Seq(Byte) : text = Device!Text
    BY TextBytes DEF WInv, Inv
  <2>1. /\ Last(got[c]) \o reply[c] = SubSeq(text, 1, pos[c] - dropped)
        /\ pos[c] = dropped + Len(text)
    BY <2>0 DEF WInv, EchoOK, EchoSoFar, UpTo
  <2>2. Last(got[c]) \in Seq(Byte)
    <3>1. got[c] \in Seq(Seq(Byte)) /\ got[c] # <<>>
      BY DEF WInv, Inv, TypeOK, PlacesOK, ThreadAt, Locked
    <3>2. Len(got[c]) \in 1..Len(got[c])
      BY <3>1
    <3>. QED BY <3>1, <3>2, ElementOfSeq DEF Last
  <2>3. pos[c] - dropped = Len(text)
    BY <2>0, <2>1 DEF WInv, Inv, DeviceOK
  <2>. QED BY <2>0, <2>1, <2>2, <2>3, ConcatEmptySeq, SubSeqFull
<1>. QED BY <1>1, InitWInv, StepWInv, PTL DEF Spec
=============================================================================
