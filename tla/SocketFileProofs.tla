-------------------------- MODULE SocketFileProofs --------------------------
(***************************************************************************)
(* Proofs about the server built for a regular file: that what it answers  *)
(* is the file, that nothing is lost or overwritten but what its own write *)
(* loses, that no timestamp is early and that the file lives as long as    *)
(* its users, for every number of connections, of failing calls, buffer    *)
(* size, period and clock.                                                 *)
(***************************************************************************)
EXTENDS SocketFile, SequenceTheorems, TLAPS

-----------------------------------------------------------------------------
(* The inductive invariant *)

ConnPC == {"none", "recv", "lock", "write", "rewind", "read", "ended"}
TimerPC == {"none", "begin", "test", "stamp", "sleep", "lock", "write", "ended"}
MainPC == {"start", "opened", "serving", "join timer", "join", "exit", "exited", "failed"}
InFile == {"write", "rewind", "read"}
Pieces == Thread \X Nat

TypesOK ==
  /\ file \in Seq(Pieces) /\ position \in Nat
  /\ main \in MainPC
  /\ fmutex \in Thread \cup {Nobody}
  /\ pc \in [Thread -> ConnPC \cup TimerPC] /\ pc[Timer] \in TimerPC
  /\ count \in [Thread -> Nat]
  /\ got \in [Conn -> Seq(Pieces \cup {Unsent})]
  /\ clock \in Nat /\ start \in Nat /\ target \in Nat /\ stamps \in Seq(Nat)

\* fmutex is held by the thread that works on the file, and by no other.
MutexHeld == \A t \in Thread : fmutex = t <=> pc[t] \in InFile

\* What main did so far, the file, and who may be there to use it.
LifeOK ==
  /\ main = "start" => file = <<>>
  /\ main \in {"start", "opened"} => \A t \in Thread : pc[t] = "none"
  /\ main \in {"opened", "serving", "join timer", "join"} => wptr = "open"
  /\ main \in {"join", "exit"} => pc[Timer] \in {"none", "ended"}
  /\ main = "exit" => \A c \in Conn : pc[c] \in {"none", "ended"}
  /\ main \in {"exit", "exited"} => ~exists /\ wptr # "open"

\* The answer so far is the file up to the position all threads share, but for what
\* a failed call left out.
EchoSoFar(c) ==
  /\ pc[c] # "read" => got[c] = <<>>
  /\ pc[c] = "read" =>
       /\ position <= Len(file) /\ Len(got[c]) = position
       /\ \A i \in 1..position : got[c][i] \in {file[i], Unsent}
       /\ c \notin cut => \A i \in 1..position : got[c][i] = file[i]
EchoOK == \A c \in Conn : EchoSoFar(c)

\* A thread that is about to write has something to write.
CountOK == \A t \in Thread : pc[t] \in {"lock", "write"} => count[t] > 0

\* The n-th timestamp is due after Due(n).  The target is not before the one that is
\* next, and the clock was behind Due when the timer left to take the time.
Due(n) == start + n * (PERIOD * Tick)
StampsOK ==
  /\ pc[Timer] \in {"none", "begin"} => stamps = <<>>
  /\ pc[Timer] \notin {"none", "begin", "stamp"} => target >= Due(Len(stamps) + 1)
  /\ pc[Timer] = "stamp" => target >= Due(Len(stamps) + 2) /\ clock > Due(Len(stamps) + 1)
  /\ StampsAreNotEarly

FInv ==
  /\ TypesOK /\ MutexHeld /\ LifeOK
  /\ EchoOK /\ CountOK /\ FileHoldsEverything /\ StampsOK

-----------------------------------------------------------------------------
(* Initially *)

LEMMA InitFInv == Init => FInv
<1>. SUFFICES ASSUME Init PROVE FInv
  OBVIOUS
<1>. USE DEF Init
<1>1. TypesOK
  <2>1. Timer \in Thread
    BY DEF Thread
  <2>2. \A x \in 0..Tick - 1 : x \in Nat
    BY SizeAssumption
  <2>. QED BY <2>1, <2>2 DEF TypesOK, ConnPC, TimerPC, MainPC
<1>2. MutexHeld
  BY ThreadAssumption DEF MutexHeld, Thread, InFile
<1>3. LifeOK
  BY DEF LifeOK, Thread
<1>4. EchoOK
  BY DEF EchoOK, EchoSoFar, Thread
<1>5. CountOK
  BY DEF CountOK
<1>6. FileHoldsEverything
  BY DEF FileHoldsEverything, Written
<1>7. StampsOK
  BY DEF StampsOK, StampsAreNotEarly, Thread
<1>. QED BY <1>1, <1>2, <1>3, <1>4, <1>5, <1>6, <1>7 DEF FInv

-----------------------------------------------------------------------------
(* Sequences, and the timer's target *)

LEMMA AppendIs ==
  ASSUME NEW S, NEW s \in Seq(S), NEW e \in S
  PROVE  /\ Append(s, e) \in Seq(S) /\ Append(s, e) # <<>>
         /\ Len(Append(s, e)) = Len(s) + 1 /\ Len(s) \in Nat
         /\ \A i \in 1..Len(s) : Append(s, e)[i] = s[i]
         /\ Append(s, e)[Len(s) + 1] = e
BY AppendProperties

\* The division of the clock by the ticks of a second.
LEMMA SecondIs ==
  ASSUME NEW time \in Nat
  PROVE  /\ Second(time) \in Nat /\ time % Tick \in 0..Tick - 1
         /\ time = (Second(time) * Tick) + (time % Tick)
<1>1. Tick \in Nat \ {0}
  BY SizeAssumption
<1>2. ASSUME NEW k \in Nat \ {0}
      PROVE  time \div k \in Nat /\ time % k \in 0..k - 1
  OBVIOUS
<1>3. ASSUME NEW k \in Nat \ {0}
      PROVE  time = ((time \div k) * k) + (time % k)
  OBVIOUS
<1>. QED BY <1>1, <1>2, <1>3 DEF Second

\* Multiples of the period.
LEMMA PeriodIs ==
  /\ PERIOD * Tick \in Nat
  /\ \A n \in Nat : n * (PERIOD * Tick) \in Nat
                    /\ (n + 1) * (PERIOD * Tick) = n * (PERIOD * Tick) + PERIOD * Tick
<1>1. PERIOD \in Nat /\ Tick \in Nat
  BY SizeAssumption
<1>2. PERIOD * Tick \in Nat
  BY <1>1
<1>3. ASSUME NEW p \in Nat, NEW n \in Nat
      PROVE  n * p \in Nat /\ (n + 1) * p = n * p + p
  OBVIOUS
<1>. QED BY <1>2, <1>3

LEMMA DueIs ==
  ASSUME TypesOK, NEW n \in Nat
  PROVE  Due(n) \in Nat /\ Due(n + 1) = Due(n) + PERIOD * Tick
<1>1. n * (PERIOD * Tick) \in Nat /\ PERIOD * Tick \in Nat /\ start \in Nat
  BY PeriodIs DEF TypesOK
<1>2. (n + 1) * (PERIOD * Tick) = n * (PERIOD * Tick) + PERIOD * Tick
  BY PeriodIs
<1>3. ASSUME NEW a \in Nat, NEW b \in Nat, NEW c \in Nat
      PROVE  a + b \in Nat /\ a + (b + c) = (a + b) + c
  OBVIOUS
<1>. QED BY <1>1, <1>2, <1>3 DEF Due

\* The next target is a period or more after the one that the clock has passed.
LEMMA TargetIsFar ==
  ASSUME TypesOK
  PROVE  NextTarget \in Nat /\ (clock > target => NextTarget >= target + PERIOD * Tick)
<1>1. PICK q \in Nat, r \in 0..Tick - 1 : q = Second(clock) /\ clock = q * Tick + r
  BY SecondIs DEF TypesOK
<1>2. PICK p \in Nat, k \in 0..Tick - 1 : k = target % Tick /\ target = p * Tick + k
  BY SecondIs DEF TypesOK
<1>3. NextTarget = (q + PERIOD) * Tick + k
  BY <1>1, <1>2 DEF NextTarget
<1>4. Tick \in Nat \ {0} /\ PERIOD \in Nat \ {0}
  BY SizeAssumption
<1>5. (q + PERIOD) * Tick = q * Tick + PERIOD * Tick
  BY <1>4
<1>6. q * Tick \in Nat /\ p * Tick \in Nat /\ PERIOD * Tick \in Nat
  BY <1>4
<1>7. PICK a \in Nat, b \in Nat, d \in Nat : a = q * Tick /\ b = PERIOD * Tick /\ d = p * Tick
  BY <1>6
<1>8. NextTarget = a + b + k /\ clock = a + r /\ target = d + k
  BY <1>1, <1>2, <1>3, <1>5, <1>7
<1>9. clock > target => a >= d
  <2>1. ASSUME q < p
        PROVE  a + Tick <= d
    <3>1. PICK x \in Nat : p = (q + 1) + x
      <4>1. p - (q + 1) \in Nat /\ p = (q + 1) + (p - (q + 1))
        BY <2>1
      <4>. QED BY <4>1
    <3>2. x * Tick \in Nat /\ p * Tick = q * Tick + Tick + x * Tick
      BY <1>4, <3>1
    <3>3. PICK y \in Nat : y = x * Tick
      BY <3>2
    <3>4. d = a + Tick + y
      BY <1>7, <3>2, <3>3
    <3>. QED BY <1>4, <3>4
  <2>2. ASSUME q >= p
        PROVE  a >= d
    <3>1. PICK x \in Nat : q = p + x
      <4>1. q - p \in Nat /\ q = p + (q - p)
        BY <2>2
      <4>. QED BY <4>1
    <3>2. x * Tick \in Nat /\ q * Tick = p * Tick + x * Tick
      BY <1>4, <3>1
    <3>3. PICK y \in Nat : y = x * Tick
      BY <3>2
    <3>4. a = d + y
      BY <1>7, <3>2, <3>3
    <3>. QED BY <3>4
  <2>3. q < p \/ q >= p
    OBVIOUS
  <2>. QED BY <1>4, <1>8, <2>1, <2>2, <2>3
<1>. QED BY <1>4, <1>7, <1>8, <1>9

-----------------------------------------------------------------------------
(* Types *)

\* The steps of main and of the handler, of the timer, and of the thread of a client.
Mains == OpenFile \/ StartFails \/ Listen \/ Signal \/ Stop \/ AcceptBreaks \/ JoinTimer
           \/ CloseFile \/ Exit
Times == Timing \/ TimerWriteFails
Works(c) == Recv(c) \/ RecvEnd(c) \/ Serve(c) \/ WriteFails(c) \/ SendShort(c) \/ ReadFails(c)

LEMMA NextIs ==
  Next => \/ Advance \/ Mains \/ Times
          \/ \E c \in Conn : Works(c) \/ SendBrokenPipe(c)
BY DEF Next, Mains, Times, Works, ServeFails

LEMMA BufferedIs ==
  ASSUME TypesOK, position < Len(file)
  PROVE  Buffered \in Nat /\ position + Buffered <= Len(file)
<1>. DEFINE S == {BUFSIZE, Len(file) - position}
<1>1. Len(file) \in Nat /\ position \in Nat /\ BUFSIZE \in Nat \ {0}
  BY SizeAssumption DEF TypesOK
<1>2. Buffered \in S /\ \A x \in S : Buffered <= x
  <2>1. \E m \in S : \A x \in S : m <= x
    BY <1>1
  <2>. QED BY <2>1 DEF Buffered, Min
<1>. QED BY <1>1, <1>2

\* What fread returns, and how the answer grows.
LEMMA SendIs ==
  ASSUME TypesOK, NEW c \in Conn, NEW taken, Send(c, taken), position < Len(file)
  PROVE  /\ Buffered \in Nat /\ position' = position + Buffered /\ position' <= Len(file)
         /\ Len(got[c]) \in Nat
         /\ got' = [got EXCEPT ![c] = got'[c]] /\ got'[c] \in Seq(Pieces \cup {Unsent})
         /\ Len(got'[c]) = Len(got[c]) + Buffered
         /\ \A i \in 1..Len(got[c]) : got'[c][i] = got[c][i]
         /\ \A i \in 1..Buffered :
              got'[c][Len(got[c]) + i] = IF i <= taken THEN file[position + i] ELSE Unsent
<1>. DEFINE new == [i \in 1..Buffered |-> IF i <= taken THEN file[position + i] ELSE Unsent]
<1>1. file \in Seq(Pieces) /\ Len(file) \in Nat /\ position \in Nat
  BY DEF TypesOK
<1>3. Buffered \in Nat /\ position + Buffered <= Len(file)
  BY BufferedIs
<1>4. PICK n \in Nat : n = Buffered
  BY <1>3
<1>5. \A i \in 1..n : position + i \in 1..Len(file)
  BY <1>1, <1>3, <1>4
<1>6. new \in Seq(Pieces \cup {Unsent}) /\ Len(new) = n
  <2>1. ASSUME NEW i \in 1..n
        PROVE  (IF i <= taken THEN file[position + i] ELSE Unsent) \in Pieces \cup {Unsent}
    <3>1. position + i \in 1..Len(file)
      BY <1>5
    <3>2. file[position + i] \in Pieces
      BY <1>1, <3>1, ElementOfSeq
    <3>. QED BY <3>2
  <2>2. new = [i \in 1..n |-> IF i <= taken THEN file[position + i] ELSE Unsent]
    BY <1>4
  <2>3. new \in [1..n -> Pieces \cup {Unsent}]
    BY <2>1, <2>2
  <2>4. ASSUME NEW S0, NEW f \in [1..n -> S0]
        PROVE  f \in Seq(S0) /\ Len(f) = n
    OBVIOUS
  <2>. HIDE DEF new
  <2>. QED BY <2>3, <2>4
<1>7. got[c] \in Seq(Pieces \cup {Unsent}) /\ got \in [Conn -> Seq(Pieces \cup {Unsent})]
  BY DEF TypesOK
<1>8. got' = [got EXCEPT ![c] = @ \o new] /\ position' = position + Buffered
  BY DEF Send
<1>9. got'[c] = got[c] \o new
  BY <1>7, <1>8
<1>10. \A i \in 1..n : new[i] = IF i <= taken THEN file[position + i] ELSE Unsent
  BY <1>4
<1>. HIDE DEF new
<1>11. /\ got[c] \o new \in Seq(Pieces \cup {Unsent})
       /\ Len(got[c] \o new) = Len(got[c]) + n
       /\ \A i \in 1..Len(got[c]) : (got[c] \o new)[i] = got[c][i]
       /\ \A i \in 1..n : (got[c] \o new)[Len(got[c]) + i] = new[i]
  <2>1. ASSUME NEW R, NEW a \in Seq(R), NEW b \in Seq(R), Len(b) = n
        PROVE  /\ a \o b \in Seq(R) /\ Len(a \o b) = Len(a) + n
               /\ \A i \in 1..Len(a) : (a \o b)[i] = a[i]
               /\ \A i \in 1..n : (a \o b)[Len(a) + i] = b[i]
    <3>1. /\ a \o b \in Seq(R) /\ Len(a \o b) = Len(a) + n
          /\ \A i \in 1..Len(a) + n : (a \o b)[i] = IF i <= Len(a) THEN a[i] ELSE b[i - Len(a)]
      BY <2>1, ConcatProperties
    <3>2. PICK l \in Nat : l = Len(a)
      OBVIOUS
    <3>3. ASSUME NEW i \in 1..l
          PROVE  (a \o b)[i] = a[i]
      BY <3>1, <3>2
    <3>4. ASSUME NEW i \in 1..n
          PROVE  (a \o b)[l + i] = b[i]
      <4>1. l + i \in 1..l + n /\ ~(l + i <= l) /\ (l + i) - l = i
        OBVIOUS
      <4>. QED BY <3>1, <3>2, <4>1
    <3>. QED BY <3>1, <3>2, <3>3, <3>4
  <2>. QED BY <1>6, <1>7, <2>1
<1>. QED BY <1>3, <1>4, <1>7, <1>8, <1>9, <1>10, <1>11

LEMMA AppendPieceIs ==
  ASSUME TypesOK, NEW t \in Thread, AppendPiece(t)
  PROVE  /\ file' \in Seq(Pieces) /\ position' \in Nat
         /\ Len(file') = Len(file) + 1 /\ Len(file) \in Nat
         /\ \A i \in 1..Len(file) : file'[i] = file[i]
         /\ file'[Len(file) + 1] = <<t, count[t]>>
<1>1. file \in Seq(Pieces) /\ <<t, count[t]>> \in Pieces
  BY DEF TypesOK, Pieces
<1>2. file' = Append(file, <<t, count[t]>>) /\ position' = Len(file) + 1
  BY DEF AppendPiece, Piece
<1>. QED BY <1>1, <1>2, AppendIs

LEMMA LosePieceIs ==
  ASSUME TypesOK, NEW t \in Thread, LosePiece(t)
  PROVE  /\ file' \in Seq(Pieces) /\ position' = Len(file') /\ Len(file') \in Nat
         /\ AppendPiece(t) \/ file' = file
         /\ lost' = lost \cup {<<t, count[t]>>}
<1>1. CASE AppendPiece(t)
  <2>1. position' = Len(file) + 1
    BY <1>1 DEF AppendPiece
  <2>. QED BY <1>1, <2>1, AppendPieceIs DEF LosePiece, Piece
<1>2. CASE file' = file /\ position' = Len(file)
  BY <1>2 DEF TypesOK, LosePiece, Piece
<1>. QED BY <1>1, <1>2 DEF LosePiece

LEMMA TypesStep ==
  ASSUME TypesOK, Next
  PROVE  TypesOK'
<1>. USE DEF TypesOK, disk, client, timing, Goto, MainGoto, Lock
<1>0. Timer \in Thread /\ \A c \in Conn : c \in Thread /\ c # Timer
  BY ThreadAssumption DEF Thread
<1>1. CASE Advance
  BY <1>1 DEF Advance
<1>2. CASE Mains
  <2>1. CASE Listen
    <3>1. pc' \in [Thread -> ConnPC \cup TimerPC] /\ pc'[Timer] \in TimerPC
      BY <1>0, <2>1 DEF Listen, ConnPC, TimerPC
    <3>2. main' \in MainPC
      BY <2>1 DEF Listen, MainPC
    <3>. QED BY <2>1, <3>1, <3>2 DEF Listen
  <2>2. CASE OpenFile
    <3>1. main' \in MainPC /\ file' \in Seq(Pieces) /\ position' \in Nat
      BY <2>2 DEF OpenFile, MainPC
    <3>. QED BY <2>2, <3>1 DEF OpenFile
  <2>3. CASE StartFails \/ Stop \/ AcceptBreaks \/ JoinTimer \/ Exit
    <3>1. main' \in MainPC
      BY <2>3 DEF StartFails, Stop, AcceptBreaks, JoinTimer, Exit, MainPC
    <3>. QED BY <2>3, <3>1 DEF StartFails, Stop, AcceptBreaks, JoinTimer, Exit
  <2>4. CASE Signal \/ CloseFile
    <3>1. main' \in MainPC
      BY <2>4 DEF Signal, CloseFile, MainPC
    <3>. QED BY <2>4, <3>1 DEF Signal, CloseFile
  <2>. QED BY <1>2, <2>1, <2>2, <2>3, <2>4 DEF Mains
<1>3. CASE Times
  <2>. USE <1>0 DEF TimerPC, ConnPC
  <2>1. CASE TimerBegin
    <3>1. target' \in Nat
      BY <2>1, SizeAssumption DEF TimerBegin
    <3>. QED BY <2>1, <3>1 DEF TimerBegin
  <2>2. CASE TimerEnds \/ TimerNotDue \/ TimerWakes
    BY <2>2 DEF TimerEnds, TimerNotDue, TimerWakes
  <2>3. CASE TimerDue
    <3>1. target' \in Nat
      BY <2>3, TargetIsFar DEF TimerDue
    <3>. QED BY <2>3, <3>1 DEF TimerDue
  <2>6. CASE TakeTime
    <3>1. stamps' \in Seq(Nat) /\ count' \in [Thread -> Nat]
      BY <2>6 DEF TakeTime
    <3>. QED BY <2>6, <3>1 DEF TakeTime
  <2>4. CASE TimerLocks
    BY <2>4 DEF TimerLocks
  <2>5. CASE TimerWrites
    <3>1. file' \in Seq(Pieces) /\ position' \in Nat
      BY <2>5, AppendPieceIs DEF TimerWrites
    <3>. QED BY <2>5, <3>1 DEF TimerWrites, Unlock
  <2>7. CASE TimerWriteFails
    <3>1. file' \in Seq(Pieces) /\ position' \in Nat
      BY <2>7, LosePieceIs DEF TimerWriteFails
    <3>. QED BY <2>7, <3>1 DEF TimerWriteFails, Unlock
  <2>. QED BY <1>3, <2>1, <2>2, <2>3, <2>4, <2>5, <2>6, <2>7 DEF Times, Timing
<1>4. ASSUME NEW c \in Conn, Works(c)
      PROVE  TypesOK'
  <2>. USE <1>0 DEF TimerPC, ConnPC
  <2>1. CASE Recv(c)
    <3>1. count' \in [Thread -> Nat]
      BY <2>1 DEF Recv
    <3>. QED BY <2>1, <3>1 DEF Recv
  <2>2. CASE RecvEnd(c) \/ LockFile(c)
    BY <2>2 DEF RecvEnd, LockFile
  <2>3. CASE WritePiece(c)
    <3>1. file' \in Seq(Pieces) /\ position' \in Nat
      BY <2>3, AppendPieceIs DEF WritePiece
    <3>. QED BY <2>3, <3>1 DEF WritePiece
  <2>4. CASE Rewind(c)
    BY <2>4 DEF Rewind
  <2>5. CASE EchoDone(c) \/ ReadFails(c)
    <3>0. <<>> \in Seq(Pieces \cup {Unsent})
      OBVIOUS
    <3>1. got' \in [Conn -> Seq(Pieces \cup {Unsent})]
      BY <2>5, <3>0 DEF EchoDone, ReadFails, EndAnswer
    <3>. QED BY <2>5, <3>1 DEF EchoDone, ReadFails, EndAnswer, Unlock
  <2>6. CASE ReadAndSend(c) \/ SendShort(c)
    <3>1. PICK taken : Send(c, taken) /\ position < Len(file)
      BY <2>6 DEF ReadAndSend, SendShort
    <3>2. /\ got' = [got EXCEPT ![c] = got'[c]] /\ got'[c] \in Seq(Pieces \cup {Unsent})
          /\ Buffered \in Nat /\ position' = position + Buffered
      BY <3>1, SendIs
    <3>4. got \in [Conn -> Seq(Pieces \cup {Unsent})] /\ position \in Nat
      OBVIOUS
    <3>5. position' \in Nat
      BY <3>2, <3>4
    <3>6. got' \in [Conn -> Seq(Pieces \cup {Unsent})]
      BY <3>2, <3>4
    <3>3. got' \in [Conn -> Seq(Pieces \cup {Unsent})] /\ position' \in Nat
      BY <3>5, <3>6
    <3>. QED BY <2>6, <3>3 DEF ReadAndSend, SendShort
  <2>7. CASE WriteFails(c)
    <3>1. file' \in Seq(Pieces) /\ Len(file') \in Nat /\ position' \in Nat
      BY <2>7, LosePieceIs DEF WriteFails
    <3>2. [i \in 1..Len(file') |-> Unsent] \in Seq(Pieces \cup {Unsent})
      BY <3>1
    <3>3. got' \in [Conn -> Seq(Pieces \cup {Unsent})]
      BY <2>7, <3>2 DEF WriteFails
    <3>. QED BY <2>7, <3>1, <3>3 DEF WriteFails
  <2>. QED BY <1>4, <2>1, <2>2, <2>3, <2>4, <2>5, <2>6, <2>7 DEF Works, Serve
<1>5. ASSUME NEW c \in Conn, SendBrokenPipe(c)
      PROVE  TypesOK'
  BY <1>5 DEF SendBrokenPipe, MainPC
<1>. QED BY <1>1, <1>2, <1>3, <1>4, <1>5, NextIs

-----------------------------------------------------------------------------
(* The mutex, and the life of the file *)

\* Where the threads can be before and after a step, and who has the mutex then.
Moves(t) ==
  /\ pc' = [pc EXCEPT ![t] = pc'[t]]
  /\ \/ (pc[t] \in InFile <=> pc'[t] \in InFile) /\ fmutex' = fmutex
     \/ pc'[t] \in InFile /\ fmutex = Nobody /\ fmutex' = t
     \/ pc[t] \in InFile /\ pc'[t] \notin InFile /\ fmutex' = Nobody
  /\ pc[t] \notin {"none", "ended"} /\ pc'[t] # "none"
  /\ UNCHANGED <<main, wptr, exists>>

LEMMA TimerMoves == TypesOK /\ Times => Moves(Timer)
<1>. SUFFICES ASSUME TypesOK, Times PROVE Moves(Timer)
  OBVIOUS
<1>. USE DEF TypesOK, Goto, Lock, disk, Moves, InFile
<1>0. Timer \in Thread
  BY DEF Thread
<1>1. CASE TimerBegin \/ TimerEnds \/ TimerNotDue
  BY <1>0, <1>1 DEF TimerBegin, TimerEnds, TimerNotDue
<1>2. CASE TimerDue \/ TakeTime \/ TimerWakes
  BY <1>0, <1>2 DEF TimerDue, TakeTime, TimerWakes
<1>3. CASE TimerLocks
  BY <1>0, <1>3 DEF TimerLocks
<1>4. CASE TimerWrites
  BY <1>0, <1>4 DEF TimerWrites, Unlock
<1>5. CASE TimerWriteFails
  BY <1>0, <1>5 DEF TimerWriteFails, Unlock
<1>. QED BY <1>1, <1>2, <1>3, <1>4, <1>5 DEF Times, Timing

LEMMA ConnMoves ==
  ASSUME TypesOK, NEW c \in Conn, Works(c)
  PROVE  Moves(c)
<1>. USE DEF TypesOK, Goto, Lock, disk, Moves, InFile
<1>0. c \in Thread
  BY DEF Thread
<1>1. CASE Recv(c) \/ RecvEnd(c)
  BY <1>0, <1>1 DEF Recv, RecvEnd
<1>2. CASE LockFile(c)
  BY <1>0, <1>2 DEF LockFile
<1>3. CASE WritePiece(c) \/ Rewind(c) \/ ReadAndSend(c)
  BY <1>0, <1>3 DEF WritePiece, Rewind, ReadAndSend
<1>4. CASE EchoDone(c) \/ ReadFails(c)
  BY <1>0, <1>4 DEF EchoDone, ReadFails, EndAnswer, Unlock
<1>5. CASE WriteFails(c) \/ SendShort(c)
  BY <1>0, <1>5 DEF WriteFails, SendShort
<1>. QED BY <1>1, <1>2, <1>3, <1>4, <1>5 DEF Works, Serve

LEMMA MovesKeepMutex ==
  ASSUME TypesOK, MutexHeld, NEW t \in Thread, Moves(t)
  PROVE  MutexHeld'
<1>1. ASSUME NEW d \in Thread
      PROVE  fmutex' = d <=> pc'[d] \in InFile
  <2>0. fmutex = d <=> pc[d] \in InFile
    BY DEF MutexHeld
  <2>1. Nobody \notin Thread
    BY ThreadAssumption DEF Thread
  <2>2. CASE d = t
    BY <2>0, <2>1, <2>2 DEF Moves
  <2>3. CASE d # t
    <3>1. pc'[d] = pc[d]
      BY <2>3 DEF TypesOK, Moves
    <3>2. pc[t] \in InFile => fmutex = t
      BY DEF MutexHeld
    <3>. QED BY <2>0, <2>1, <2>3, <3>1, <3>2 DEF Moves
  <2>. QED BY <2>2, <2>3
<1>. QED BY <1>1 DEF MutexHeld

LEMMA MutexStep ==
  ASSUME TypesOK, LifeOK, MutexHeld, Next
  PROVE  MutexHeld'
<1>1. CASE Advance
  BY <1>1 DEF Advance, MutexHeld
<1>2. CASE Listen
  <2>1. \A t \in Thread : fmutex # t
    BY <1>2 DEF Listen, MainGoto, LifeOK, MutexHeld, InFile
  <2>2. fmutex' = fmutex /\ \A t \in Thread : pc'[t] \notin InFile
    BY <1>2 DEF Listen, InFile
  <2>. QED BY <2>1, <2>2 DEF MutexHeld
<1>3. CASE Mains /\ ~Listen
  BY <1>3 DEF Mains, OpenFile, StartFails, Signal, Stop, AcceptBreaks, JoinTimer, CloseFile, Exit,
              MutexHeld
<1>4. CASE Times
  BY <1>4, TimerMoves, MovesKeepMutex DEF Thread
<1>5. ASSUME NEW c \in Conn, Works(c)
      PROVE  MutexHeld'
  BY <1>5, ConnMoves, MovesKeepMutex DEF Thread
<1>6. ASSUME NEW c \in Conn, SendBrokenPipe(c)
      PROVE  MutexHeld'
  BY <1>6 DEF SendBrokenPipe, MutexHeld
<1>. QED BY <1>1, <1>2, <1>3, <1>4, <1>5, <1>6, NextIs DEF Mains

LEMMA LifeStep ==
  ASSUME TypesOK, LifeOK, Next
  PROVE  LifeOK'
<1>0. Timer \in Thread /\ \A c \in Conn : c \in Thread
  BY DEF Thread
<1>1. CASE Advance
  BY <1>1 DEF Advance, LifeOK, disk
<1>2. CASE Mains
  <2>. USE DEF LifeOK, MainGoto, disk
  <2>1. CASE OpenFile \/ StartFails
    BY <2>1 DEF OpenFile, StartFails
  <2>2. CASE Listen
    BY <2>2 DEF Listen
  <2>3. CASE Signal
    <3>1. CASE main \in {"start", "opened"}
      BY <2>3, <3>1 DEF Signal
    <3>2. CASE main \notin {"start", "opened"}
      BY <2>3, <3>2 DEF Signal
    <3>. QED BY <3>1, <3>2
  <2>4. CASE Stop \/ AcceptBreaks \/ JoinTimer
    BY <2>4 DEF Stop, AcceptBreaks, JoinTimer
  <2>5. CASE CloseFile
    BY <2>5 DEF CloseFile
  <2>6. CASE Exit
    BY <2>6 DEF Exit
  <2>. QED BY <1>2, <2>1, <2>2, <2>3, <2>4, <2>5, <2>6 DEF Mains
<1>3. ASSUME NEW t \in Thread, Moves(t), main = "start" => file' = file
      PROVE  LifeOK'
  <2>1. \A d \in Thread : pc[d] \in {"none", "ended"} => pc'[d] = pc[d]
    BY <1>3 DEF Moves, TypesOK
  <2>2. main \notin {"start", "opened"}
    BY <1>3 DEF Moves, LifeOK
  <2>. QED BY <1>0, <1>3, <2>1, <2>2 DEF Moves, LifeOK
<1>4. CASE Times
  <2>1. main # "start"
    BY <1>0, <1>4, TimerMoves DEF Moves, LifeOK
  <2>. QED BY <1>0, <1>3, <1>4, <2>1, TimerMoves
<1>5. ASSUME NEW c \in Conn, Works(c)
      PROVE  LifeOK'
  <2>1. main # "start"
    BY <1>0, <1>5, ConnMoves DEF Moves, LifeOK
  <2>. QED BY <1>0, <1>3, <1>5, <2>1, ConnMoves
<1>6. ASSUME NEW c \in Conn, SendBrokenPipe(c)
      PROVE  LifeOK'
  BY <1>6 DEF SendBrokenPipe, LifeOK
<1>. QED BY <1>1, <1>2, <1>4, <1>5, <1>6, NextIs

-----------------------------------------------------------------------------
(* The answers *)

\* Who is not the holder of the mutex is not at the file.
LEMMA OthersWait ==
  ASSUME MutexHeld, NEW t \in Thread, pc[t] \in InFile
  PROVE  \A d \in Thread : d # t => pc[d] \notin InFile
BY DEF MutexHeld

\* What a step of thread t leaves alone.
Alone(t) ==
  /\ \A d \in Conn \ {t} : pc'[d] = pc[d] /\ got'[d] = got[d] /\ (d \in cut' <=> d \in cut)
  /\ pc[t] \notin InFile => UNCHANGED <<file, position>>

LEMMA OthersKeepEcho ==
  ASSUME MutexHeld, EchoOK, NEW t \in Thread, Alone(t)
  PROVE  \A d \in Conn \ {t} : EchoSoFar(d)'
<1>. SUFFICES ASSUME NEW d \in Conn \ {t} PROVE EchoSoFar(d)'
  OBVIOUS
<1>0. d \in Thread /\ EchoSoFar(d) /\ pc'[d] = pc[d] /\ got'[d] = got[d] /\ (d \in cut' <=> d \in cut)
  BY DEF Thread, EchoOK, Alone
<1>1. CASE pc[t] \in InFile
  <2>1. pc[d] \notin InFile
    BY <1>0, <1>1, OthersWait
  <2>. QED BY <1>0, <2>1 DEF EchoSoFar, InFile
<1>2. CASE pc[t] \notin InFile
  BY <1>0, <1>2 DEF EchoSoFar, Alone
<1>. QED BY <1>1, <1>2

\* A buffer that is sent in full, or of an answer that counts as cut.
LEMMA SendKeepsEcho ==
  ASSUME TypesOK, NEW c \in Conn, EchoSoFar(c), NEW taken \in Int, Send(c, taken),
         position < Len(file), file' = file, pc[c] = "read", pc'[c] = "read",
         c \notin cut' => c \notin cut /\ taken = Buffered
  PROVE  EchoSoFar(c)'
<1>1. /\ Buffered \in Nat /\ position' = position + Buffered /\ position' <= Len(file)
      /\ Len(got'[c]) = Len(got[c]) + Buffered
      /\ \A i \in 1..Len(got[c]) : got'[c][i] = got[c][i]
      /\ \A i \in 1..Buffered : got'[c][Len(got[c]) + i] =
           IF i <= taken THEN file[position + i] ELSE Unsent
  BY SendIs
<1>2. PICK n \in Nat, m \in Nat : n = Buffered /\ m = position
  BY <1>1 DEF TypesOK
<1>3. /\ Len(got[c]) = m
      /\ \A i \in 1..m : got[c][i] \in {file[i], Unsent}
      /\ c \notin cut => \A i \in 1..m : got[c][i] = file[i]
  BY <1>2 DEF EchoSoFar
<1>4. ASSUME NEW i \in 1..m + n
      PROVE  got'[c][i] \in {file[i], Unsent} /\ (c \notin cut' => got'[c][i] = file[i])
  <2>1. CASE i <= m
    <3>1. i \in 1..m
      BY <2>1
    <3>. QED BY <1>1, <1>3, <3>1
  <2>2. CASE i > m
    <3>1. i - m \in 1..n /\ i = m + (i - m)
      BY <2>2
    <3>2. PICK k \in 1..n : i = m + k
      BY <3>1
    <3>3. got'[c][i] = IF k <= taken THEN file[i] ELSE Unsent
      BY <1>1, <1>2, <1>3, <3>2
    <3>4. taken = n => k <= taken
      BY <3>2
    <3>. QED BY <1>2, <3>3, <3>4
  <2>. QED BY <2>1, <2>2
<1>5. position' = m + n /\ position' <= Len(file') /\ Len(got'[c]) = m + n
  BY <1>1, <1>2, <1>3
<1>. QED BY <1>4, <1>5 DEF EchoSoFar

LEMMA EchoStep ==
  ASSUME TypesOK, MutexHeld, LifeOK, EchoOK, Next
  PROVE  EchoOK'
<1>0. Timer \in Thread /\ Timer \notin Conn /\ \A c \in Conn : c \in Thread
  BY ThreadAssumption DEF Thread
<1>1. CASE UNCHANGED <<pc, got, cut, file, position>>
  BY <1>1 DEF EchoOK, EchoSoFar
<1>2. CASE OpenFile
  BY <1>0, <1>2 DEF OpenFile, client, MainGoto, LifeOK, EchoOK, EchoSoFar
<1>3. CASE Listen
  <2>1. \A c \in Conn : pc[c] = "none" /\ pc'[c] # "read" /\ got'[c] = got[c]
    BY <1>0, <1>3 DEF Listen, MainGoto, LifeOK, client
  <2>. QED BY <2>1 DEF EchoOK, EchoSoFar
<1>4. CASE Times
  <2>1. Alone(Timer)
    <3>. USE <1>0 DEF TypesOK, Goto, Lock, Alone, InFile, client, disk
    <3>1. CASE TimerBegin \/ TimerEnds \/ TimerNotDue
      BY <3>1 DEF TimerBegin, TimerEnds, TimerNotDue
    <3>2. CASE TimerDue \/ TimerWakes \/ TimerLocks
      BY <3>2 DEF TimerDue, TimerWakes, TimerLocks
    <3>3. CASE TimerWrites \/ TimerWriteFails
      BY <3>3 DEF TimerWrites, TimerWriteFails
    <3>4. CASE TakeTime
      BY <3>4 DEF TakeTime
    <3>. QED BY <1>4, <3>1, <3>2, <3>3, <3>4 DEF Times, Timing
  <2>. QED BY <1>0, <2>1, OthersKeepEcho DEF EchoOK
<1>5. ASSUME NEW c \in Conn, Works(c)
      PROVE  EchoOK'
  <2>1. Alone(c)
    <3>. USE <1>0 DEF TypesOK, Goto, Lock, Alone, InFile, client, disk
    <3>1. CASE Recv(c) \/ RecvEnd(c) \/ LockFile(c)
      BY <3>1 DEF Recv, RecvEnd, LockFile
    <3>2. CASE WritePiece(c) \/ Rewind(c)
      BY <3>2 DEF WritePiece, Rewind
    <3>3. CASE ReadAndSend(c) \/ SendShort(c)
      BY <3>3 DEF ReadAndSend, SendShort, Send
    <3>4. CASE EchoDone(c) \/ ReadFails(c)
      BY <3>4 DEF EchoDone, ReadFails, EndAnswer
    <3>5. CASE WriteFails(c)
      BY <3>5 DEF WriteFails
    <3>. QED BY <1>5, <3>1, <3>2, <3>3, <3>4, <3>5 DEF Works, Serve
  <2>2. EchoSoFar(c)'
    <3>0. EchoSoFar(c)
      BY DEF EchoOK
    <3>. USE <1>0, <3>0 DEF TypesOK, Goto, Lock, EchoSoFar
    <3>1. CASE Recv(c) \/ RecvEnd(c)
      BY <3>1 DEF Recv, RecvEnd, client
    <3>2. CASE LockFile(c)
      BY <3>2 DEF LockFile, client
    <3>3. CASE WritePiece(c)
      BY <3>3 DEF WritePiece, client
    <3>4. CASE EchoDone(c) \/ ReadFails(c)
      BY <3>4 DEF EchoDone, ReadFails, EndAnswer
    <3>5. CASE Rewind(c)
      <4>1. got'[c] = <<>> /\ position' = 0 /\ pc'[c] = "read" /\ file' = file
        BY <3>5 DEF Rewind, client
      <4>2. Len(<<>>) = 0 /\ 0 <= Len(file)
        OBVIOUS
      <4>. QED BY <4>1, <4>2
    <3>6. CASE WriteFails(c)
      <4>1. CASE pc' = [pc EXCEPT ![c] = "rewind"] /\ got' = got
        BY <3>6, <4>1 DEF WriteFails
      <4>2. CASE /\ pc' = [pc EXCEPT ![c] = "read"]
                 /\ got' = [got EXCEPT ![c] = [i \in 1..Len(file') |-> Unsent]]
                 /\ cut' = cut \cup {c}
        <5>1. position' = Len(file') /\ Len(file') \in Nat
          BY <3>6, LosePieceIs DEF WriteFails
        <5>2. PICK n \in Nat : n = Len(file')
          BY <5>1
        <5>3. got'[c] = [i \in 1..n |-> Unsent]
          BY <4>2, <5>2
        <5>4. Len([i \in 1..n |-> Unsent]) = n
          OBVIOUS
        <5>5. \A i \in 1..n : got'[c][i] = Unsent
          BY <5>3
        <5>6. pc'[c] = "read" /\ c \in cut'
          BY <4>2
        <5>. QED BY <5>1, <5>2, <5>3, <5>4, <5>5, <5>6
      <4>. QED BY <3>6, <4>1, <4>2 DEF WriteFails
    <3>7. CASE ReadAndSend(c)
      <4>1. position < Len(file) /\ file' = file /\ pc[c] = "read" /\ pc'[c] = "read"
        BY <3>7 DEF ReadAndSend
      <4>2. Send(c, Buffered) /\ cut' = cut
        BY <3>7 DEF ReadAndSend
      <4>3. TypesOK
        OBVIOUS
      <4>4. Buffered \in Int
        BY <4>1, <4>2, <4>3, BufferedIs
      <4>. QED BY <4>1, <4>2, <4>3, <4>4, SendKeepsEcho DEF EchoSoFar
    <3>8. CASE SendShort(c)
      <4>1. position < Len(file) /\ file' = file /\ pc[c] = "read" /\ pc'[c] = "read"
        BY <3>8 DEF SendShort
      <4>2. PICK taken \in Int : Send(c, taken)
        BY <3>8 DEF SendShort
      <4>3. TypesOK /\ c \in cut'
        BY <3>8 DEF SendShort
      <4>. QED BY <4>1, <4>2, <4>3, SendKeepsEcho DEF EchoSoFar
    <3>. QED BY <1>5, <3>1, <3>2, <3>3, <3>4, <3>5, <3>6, <3>7, <3>8 DEF Works, Serve
  <2>. QED BY <1>0, <2>1, <2>2, OthersKeepEcho DEF EchoOK
<1>6. CASE (Mains \/ Advance) /\ ~OpenFile /\ ~Listen
  BY <1>1, <1>6 DEF Mains, Advance, StartFails, Signal, Stop, AcceptBreaks, JoinTimer, CloseFile,
                    Exit, client, disk
<1>7. ASSUME NEW c \in Conn, SendBrokenPipe(c)
      PROVE  EchoOK'
  BY <1>1, <1>7 DEF SendBrokenPipe, client, disk
<1>. QED BY <1>2, <1>3, <1>4, <1>5, <1>6, <1>7, NextIs

-----------------------------------------------------------------------------
(* What the file holds *)

\* What each thread has written, as a function, and FileHoldsEverything of it.
Counts == [t \in Thread |-> Written(t)]
HoldsAll(f, counts, gone) ==
  /\ \A t \in Thread : \A n \in 1..counts[t] :
       <<t, n>> \in gone \/ \E i \in 1..Len(f) : f[i] = <<t, n>>
  /\ \A i \in 1..Len(f) : f[i][2] \in 1..counts[f[i][1]]
  /\ \A i, j \in 1..Len(f) : i < j /\ f[i][1] = f[j][1] => f[i][2] < f[j][2]

LEMMA HoldsIs == TypesOK => (FileHoldsEverything <=> HoldsAll(file, Counts, lost))
<1>. SUFFICES ASSUME TypesOK PROVE FileHoldsEverything <=> HoldsAll(file, Counts, lost)
  OBVIOUS
<1>1. \A i \in 1..Len(file) : file[i][1] \in Thread
  BY DEF TypesOK, Pieces
<1>2. \A t \in Thread : Counts[t] = Written(t)
  BY DEF Counts
<1>3. \A i \in 1..Len(file) : Counts[file[i][1]] = Written(file[i][1])
  BY <1>1, <1>2
<1>. QED BY <1>2, <1>3 DEF FileHoldsEverything, HoldsAll

\* The same of the next state.
LEMMA HoldsIsNext == TypesOK' => (FileHoldsEverything <=> HoldsAll(file, Counts, lost))'
BY HoldsIs, PTL

\* One more piece of thread t.
LEMMA AppendHolds ==
  ASSUME NEW f \in Seq(Pieces), NEW g, NEW w \in [Thread -> Int], NEW t \in Thread,
         NEW gone, NEW more, gone \subseteq more,
         w[t] \in Nat, HoldsAll(f, w, gone),
         Len(g) = Len(f) + 1, \A i \in 1..Len(f) : g[i] = f[i],
         g[Len(f) + 1] = <<t, w[t] + 1>>
  PROVE  HoldsAll(g, [w EXCEPT ![t] = @ + 1], more)
<1>. DEFINE v == [w EXCEPT ![t] = @ + 1]
<1>0. PICK n \in Nat, k \in Nat : n = Len(f) /\ k = w[t] + 1 /\ k > 0
  OBVIOUS
<1>1. Len(g) = n + 1 /\ (\A i \in 1..n : g[i] = f[i]) /\ g[n + 1] = <<t, k>>
  BY <1>0
<1>2. \A i \in 1..n : f[i][1] \in Thread /\ f[i][2] \in Nat
  BY <1>0 DEF Pieces
<1>3. v[t] = k /\ \A d \in Thread : w[d] \in Int /\ v[d] \in Int /\ w[d] <= v[d]
                                    /\ (d # t => v[d] = w[d])
  BY <1>0
<1>. HIDE DEF v
<1>4. \A i \in 1..n : f[i][2] \in 1..w[f[i][1]]
  BY <1>0 DEF HoldsAll
<1>5. ASSUME NEW d \in Thread, NEW m \in 1..v[d]
      PROVE  <<d, m>> \in more \/ \E i \in 1..n + 1 : g[i] = <<d, m>>
  <2>1. CASE d = t /\ m = k
    BY <1>1, <2>1
  <2>2. CASE ~(d = t /\ m = k)
    <3>1. m \in 1..w[d]
      BY <1>0, <1>3, <2>2
    <3>2. CASE <<d, m>> \in gone
      BY <3>2
    <3>3. CASE <<d, m>> \notin gone
      <4>1. PICK i \in 1..n : f[i] = <<d, m>>
        BY <1>0, <3>1, <3>3 DEF HoldsAll
      <4>2. i \in 1..n + 1
        OBVIOUS
      <4>. QED BY <1>1, <4>1, <4>2
    <3>. QED BY <3>2, <3>3
  <2>. QED BY <2>1, <2>2
<1>6. ASSUME NEW i \in 1..n + 1
      PROVE  g[i][2] \in 1..v[g[i][1]]
  <2>1. CASE i = n + 1
    <3>1. g[i][1] = t /\ g[i][2] = k
      BY <1>1, <2>1
    <3>. QED BY <1>0, <1>3, <3>1
  <2>2. CASE i # n + 1
    <3>1. i \in 1..n /\ g[i] = f[i]
      BY <1>1, <2>2
    <3>2. f[i][2] \in 1..w[f[i][1]] /\ w[f[i][1]] <= v[f[i][1]]
          /\ w[f[i][1]] \in Int /\ v[f[i][1]] \in Int
      BY <1>2, <1>3, <1>4, <3>1
    <3>. QED BY <3>1, <3>2
  <2>. QED BY <2>1, <2>2
<1>7. ASSUME NEW i \in 1..n + 1, NEW j \in 1..n + 1, i < j, g[i][1] = g[j][1]
      PROVE  g[i][2] < g[j][2]
  <2>0. i \in 1..n /\ g[i] = f[i]
    BY <1>1, <1>7
  <2>1. CASE j = n + 1
    <3>1. f[i][1] = t /\ g[j][2] = k
      BY <1>1, <1>7, <2>0, <2>1
    <3>2. f[i][2] \in 1..k - 1
      BY <1>0, <1>4, <2>0, <3>1
    <3>. QED BY <2>0, <3>1, <3>2
  <2>2. CASE j # n + 1
    <3>1. j \in 1..n /\ g[j] = f[j]
      BY <1>1, <2>2
    <3>. QED BY <1>0, <1>7, <2>0, <3>1 DEF HoldsAll
  <2>. QED BY <2>1, <2>2
<1>. QED BY <1>1, <1>5, <1>6, <1>7 DEF HoldsAll, v

\* One more piece of thread t that is not in the file.
LEMMA LoseHolds ==
  ASSUME NEW f \in Seq(Pieces), NEW w \in [Thread -> Int], NEW t \in Thread, NEW gone,
         w[t] \in Nat, HoldsAll(f, w, gone)
  PROVE  HoldsAll(f, [w EXCEPT ![t] = @ + 1], gone \cup {<<t, w[t] + 1>>})
<1>. DEFINE v == [w EXCEPT ![t] = @ + 1]
<1>1. v[t] = w[t] + 1 /\ \A d \in Thread : w[d] \in Int /\ v[d] \in Int /\ w[d] <= v[d]
                                         /\ (d # t => v[d] = w[d])
  OBVIOUS
<1>. HIDE DEF v
<1>2. ASSUME NEW d \in Thread, NEW m \in 1..v[d]
      PROVE  \/ <<d, m>> \in gone \cup {<<t, w[t] + 1>>}
             \/ \E i \in 1..Len(f) : f[i] = <<d, m>>
  <2>1. CASE d = t /\ m = w[t] + 1
    BY <2>1
  <2>2. CASE ~(d = t /\ m = w[t] + 1)
    <3>1. m \in 1..w[d]
      BY <1>1, <2>2
    <3>. QED BY <3>1 DEF HoldsAll
  <2>. QED BY <2>1, <2>2
<1>3. ASSUME NEW i \in 1..Len(f)
      PROVE  f[i][2] \in 1..v[f[i][1]]
  <2>1. f[i][1] \in Thread /\ f[i][2] \in Nat /\ f[i][2] \in 1..w[f[i][1]]
    BY DEF HoldsAll, Pieces
  <2>2. w[f[i][1]] <= v[f[i][1]] /\ w[f[i][1]] \in Int /\ v[f[i][1]] \in Int
    BY <1>1, <2>1
  <2>. QED BY <2>1, <2>2
<1>4. \A i, j \in 1..Len(f) : i < j /\ f[i][1] = f[j][1] => f[i][2] < f[j][2]
  BY DEF HoldsAll
<1>. QED BY <1>2, <1>3, <1>4 DEF HoldsAll, v

\* What thread t has written counts its piece from the write on, also one that failed.
LEMMA WriteCounts ==
  ASSUME TypesOK, NEW t \in Thread, count[t] > 0, pc[t] = "write",
         count' = count, pc' = [pc EXCEPT ![t] = pc'[t]], pc'[t] \notin {"lock", "write"}
  PROVE  /\ Counts \in [Thread -> Int] /\ Counts[t] + 1 = count[t] /\ Counts[t] \in Nat
         /\ Counts' = [Counts EXCEPT ![t] = @ + 1]
<1>1. Counts \in [Thread -> Int] /\ Counts[t] + 1 = count[t] /\ Counts[t] \in Nat
  BY DEF Counts, Written, TypesOK
<1>2. \A d \in Thread : Counts'[d] = IF d = t THEN Counts[t] + 1 ELSE Counts[d]
  BY <1>1 DEF Counts, Written, TypesOK
<1>3. Counts' = [d \in Thread |-> Counts'[d]]
  BY DEF Counts
<1>. QED BY <1>1, <1>2, <1>3

LEMMA WriteHolds ==
  ASSUME TypesOK, TypesOK', FileHoldsEverything, NEW t \in Thread, count[t] > 0, pc[t] = "write",
         count' = count, pc' = [pc EXCEPT ![t] = pc'[t]], pc'[t] \notin {"lock", "write"},
         (AppendPiece(t) /\ lost' = lost) \/ LosePiece(t)
  PROVE  FileHoldsEverything'
<1>1. /\ Counts \in [Thread -> Int] /\ Counts[t] + 1 = count[t] /\ Counts[t] \in Nat
      /\ Counts' = [Counts EXCEPT ![t] = @ + 1]
  BY WriteCounts
<1>2. HoldsAll(file, Counts, lost) /\ file \in Seq(Pieces)
  BY HoldsIs DEF TypesOK
<1>3. HoldsAll(file', [Counts EXCEPT ![t] = @ + 1], lost')
  <2>1. CASE AppendPiece(t) /\ lost \subseteq lost'
    <3>1. /\ Len(file') = Len(file) + 1
          /\ \A i \in 1..Len(file) : file'[i] = file[i]
          /\ file'[Len(file) + 1] = <<t, Counts[t] + 1>>
      BY <1>1, <2>1, AppendPieceIs
    <3>. QED BY <1>1, <1>2, <2>1, <3>1, AppendHolds
  <2>2. CASE LosePiece(t) /\ file' = file
    <3>1. lost' = lost \cup {<<t, Counts[t] + 1>>}
      BY <1>1, <2>2, LosePieceIs
    <3>. QED BY <1>1, <1>2, <2>2, <3>1, LoseHolds
  <2>3. LosePiece(t) => lost \subseteq lost' /\ (AppendPiece(t) \/ file' = file)
    BY LosePieceIs
  <2>. QED BY <2>1, <2>2, <2>3
<1>. QED BY <1>1, <1>3, HoldsIsNext

\* A step that changes neither the file nor what was written.
LEMMA SameHolds ==
  ASSUME TypesOK, TypesOK', FileHoldsEverything, file' = file, lost' = lost,
         \A d \in Thread : Written(d)' = Written(d)
  PROVE  FileHoldsEverything'
<1>1. Counts' = Counts
  BY DEF Counts
<1>2. HoldsAll(file, Counts, lost)
  BY HoldsIs
<1>. QED BY <1>1, <1>2, HoldsIsNext

LEMMA OneMore == \A n \in Nat : (n + 1) - 1 = n /\ n + 1 > 0
OBVIOUS

LEMMA HoldsStep ==
  ASSUME TypesOK, TypesOK', LifeOK, CountOK, FileHoldsEverything, Next
  PROVE  FileHoldsEverything' /\ CountOK'
<1>0. Timer \in Thread /\ \A c \in Conn : c \in Thread
  BY DEF Thread
<1>1. CASE UNCHANGED <<pc, count, file, lost>>
  BY <1>1, SameHolds DEF CountOK, Written
<1>2. CASE OpenFile
  <2>1. UNCHANGED <<pc, count, file, lost>>
    BY <1>2 DEF OpenFile, MainGoto, LifeOK, client
  <2>. QED BY <1>1, <2>1
<1>3. CASE Listen
  <2>1. \A t \in Thread : pc[t] = "none" /\ pc'[t] \notin {"lock", "write"} /\ count'[t] = count[t]
    BY <1>3 DEF Listen, MainGoto, LifeOK, client
  <2>2. file' = file /\ lost' = lost
    BY <1>3 DEF Listen, disk
  <2>. QED BY <2>1, <2>2, SameHolds DEF CountOK, Written
<1>4. CASE (Mains \/ Advance) /\ ~OpenFile /\ ~Listen
  <2>1. UNCHANGED <<pc, count, file, lost>>
    BY <1>4 DEF Mains, Advance, StartFails, Signal, Stop, AcceptBreaks, JoinTimer, CloseFile,
                Exit, client, disk
  <2>. QED BY <1>1, <2>1
<1>5. CASE Times
  <2>. USE <1>0 DEF TypesOK, Goto, Lock, CountOK, Written, client, disk
  <2>1. CASE TimerBegin \/ TimerEnds \/ TimerNotDue \/ TimerWakes
    BY <2>1, SameHolds DEF TimerBegin, TimerEnds, TimerNotDue, TimerWakes
  <2>2. CASE TimerDue
    BY <2>2, SameHolds DEF TimerDue
  <2>5. CASE TakeTime
    BY <2>5, SameHolds DEF TakeTime
  <2>3. CASE TimerLocks
    BY <2>3, SameHolds DEF TimerLocks
  <2>4. CASE TimerWrites \/ TimerWriteFails
    BY <2>4, WriteHolds DEF TimerWrites, TimerWriteFails
  <2>. QED BY <1>5, <2>1, <2>2, <2>3, <2>4, <2>5 DEF Times, Timing
<1>6. ASSUME NEW c \in Conn, Works(c)
      PROVE  FileHoldsEverything' /\ CountOK'
  <2>. USE <1>0 DEF TypesOK, Goto, Lock, CountOK, Written, client, disk
  <2>1. CASE Recv(c)
    <3>1. /\ pc[c] = "recv" /\ pc' = [pc EXCEPT ![c] = "lock"]
          /\ count' = [count EXCEPT ![c] = @ + 1] /\ UNCHANGED <<file, lost>>
      BY <2>1 DEF Recv
    <3>2. ASSUME NEW d \in Thread
          PROVE  /\ Written(d)' = Written(d)
                 /\ pc'[d] \in {"lock", "write"} => count'[d] > 0
      <4>1. CASE d = c
        <5>1. count'[d] = count[d] + 1 /\ pc'[d] = "lock" /\ pc[d] = "recv" /\ count[d] \in Nat
          BY <3>1, <4>1
        <5>2. Written(d)' = (count[d] + 1) - 1 /\ Written(d) = count[d]
          BY <5>1
        <5>3. (count[d] + 1) - 1 = count[d] /\ count[d] + 1 > 0
          BY <5>1, OneMore
        <5>4. Written(d)' = Written(d)
          BY <5>2, <5>3
        <5>. QED BY <5>1, <5>3, <5>4
      <4>2. CASE d # c
        <5>1. count'[d] = count[d] /\ pc'[d] = pc[d]
          BY <3>1, <4>2
        <5>. QED BY <5>1
      <4>. QED BY <4>1, <4>2
    <3>. QED BY <3>1, <3>2, SameHolds
  <2>2. CASE RecvEnd(c) \/ LockFile(c)
    BY <2>2, SameHolds DEF RecvEnd, LockFile
  <2>3. CASE WritePiece(c)
    BY <2>3, WriteHolds DEF WritePiece
  <2>4. CASE WriteFails(c)
    <3>1. count' = count /\ pc[c] = "write" /\ pc'[c] \notin {"lock", "write"}
          /\ pc' = [pc EXCEPT ![c] = pc'[c]]
      BY <2>4 DEF WriteFails
    <3>. QED BY <2>4, <3>1, WriteHolds DEF WriteFails
  <2>5. CASE Rewind(c) \/ ReadAndSend(c) \/ SendShort(c)
    BY <2>5, SameHolds DEF Rewind, ReadAndSend, SendShort
  <2>6. CASE EchoDone(c) \/ ReadFails(c)
    BY <2>6, SameHolds DEF EchoDone, ReadFails, EndAnswer
  <2>. QED BY <1>6, <2>1, <2>2, <2>3, <2>4, <2>5, <2>6 DEF Works, Serve
<1>7. ASSUME NEW c \in Conn, SendBrokenPipe(c)
      PROVE  FileHoldsEverything' /\ CountOK'
  BY <1>1, <1>7 DEF SendBrokenPipe, client, disk
<1>. QED BY <1>2, <1>3, <1>4, <1>5, <1>6, <1>7, NextIs

-----------------------------------------------------------------------------
(* The timestamps *)

LEMMA StampsStep ==
  ASSUME TypesOK, LifeOK, StampsOK, Next
  PROVE  StampsOK'
<1>0. Timer \in Thread /\ Timer \notin Conn /\ \A c \in Conn : c \in Thread
  BY ThreadAssumption DEF Thread
<1>1. CASE /\ UNCHANGED <<start, target, stamps>> /\ clock' >= clock
           /\ pc'[Timer] \in {"none", "begin"} => pc[Timer] \in {"none", "begin"}
           /\ pc[Timer] \in {"none", "begin"} => pc'[Timer] \in {"none", "begin"}
           /\ pc'[Timer] = "stamp" <=> pc[Timer] = "stamp"
           /\ clock' \in Nat
  <2>1. \A n : Due(n)' = Due(n)
    BY <1>1 DEF Due
  <2>2. Due(Len(stamps) + 1) \in Nat /\ clock \in Nat
    BY DueIs DEF TypesOK
  <2>3. clock > Due(Len(stamps) + 1) => clock' > Due(Len(stamps) + 1)
    BY <1>1, <2>2
  <2>. QED BY <1>1, <2>1, <2>3 DEF StampsOK, StampsAreNotEarly
<1>2. CASE Listen
  <2>1. pc[Timer] = "none" /\ pc'[Timer] \in {"none", "begin"}
    BY <1>0, <1>2 DEF Listen, MainGoto, LifeOK
  <2>. QED BY <1>1, <1>2, <2>1 DEF Listen, timing, TypesOK
<1>3. CASE (Mains \/ Advance) /\ ~Listen
  <2>1. UNCHANGED <<start, target, stamps, pc>> /\ (clock' = clock \/ clock' = clock + 1)
    BY <1>3 DEF Mains, Advance, OpenFile, StartFails, Signal, Stop, AcceptBreaks, JoinTimer,
                CloseFile, Exit, timing
  <2>2. clock' >= clock /\ clock' \in Nat
    BY <2>1 DEF TypesOK
  <2>. QED BY <1>1, <2>1, <2>2
<1>4. CASE TimerBegin
  <2>1. stamps = <<>> /\ stamps' = stamps /\ pc'[Timer] = "test"
    BY <1>0, <1>4 DEF TimerBegin, Goto, StampsOK, TypesOK
  <2>2. start' = clock /\ target' = clock + PERIOD * Tick
    BY <1>4 DEF TimerBegin
  <2>3. 1 * (PERIOD * Tick) = PERIOD * Tick /\ clock + PERIOD * Tick \in Nat
    <3>1. ASSUME NEW x \in Nat
          PROVE  1 * x = x
      OBVIOUS
    <3>2. PERIOD * Tick \in Nat /\ clock \in Nat
      BY PeriodIs DEF TypesOK
    <3>3. \A x \in Nat : clock + x \in Nat
      BY <3>2
    <3>. QED BY <3>1, <3>2, <3>3
  <2>4. target' = Due(Len(stamps) + 1)'
    <3>1. Len(stamps') + 1 = 1
      BY <2>1
    <3>2. Due(1)' = start' + 1 * (PERIOD * Tick)
      BY DEF Due
    <3>3. Due(Len(stamps) + 1)' = Due(1)'
      BY <3>1
    <3>4. Due(1)' = start' + PERIOD * Tick
      BY <2>3, <3>2
    <3>. QED BY <2>2, <3>3, <3>4
  <2>5. target' \in Nat
    BY <2>2, <2>3
  <2>6. target' >= Due(Len(stamps) + 1)'
    BY <2>4, <2>5
  <2>7. StampsAreNotEarly'
    <3>1. \A i \in 1..Len(stamps') : FALSE
      BY <2>1
    <3>. QED BY <3>1 DEF StampsAreNotEarly
  <2>. QED BY <2>1, <2>6, <2>7 DEF StampsOK
<1>5. CASE TimerDue
  <2>1. /\ clock > target /\ target' = NextTarget /\ UNCHANGED <<clock, start, stamps>>
        /\ pc[Timer] = "test" /\ pc'[Timer] = "stamp"
    BY <1>0, <1>5 DEF TimerDue, Goto, TypesOK
  <2>2. PICK n \in Nat : n = Len(stamps) + 1
    BY DEF TypesOK
  <2>3. target >= Due(n) /\ clock \in Nat /\ target \in Nat
    BY <2>1, <2>2 DEF StampsOK, TypesOK
  <2>4. /\ NextTarget \in Nat /\ NextTarget >= target + PERIOD * Tick /\ PERIOD * Tick \in Nat
        /\ Due(n) \in Nat /\ Due(n + 1) = Due(n) + PERIOD * Tick
    BY <2>1, TargetIsFar, DueIs, PeriodIs
  <2>5. target' >= Due(n + 1) /\ clock' > Due(n)
    BY <2>1, <2>3, <2>4
  <2>6. \A m : Due(m)' = Due(m)
    BY <2>1 DEF Due
  <2>7. Len(stamps') + 1 = n /\ Len(stamps') + 2 = n + 1
    BY <2>1, <2>2 DEF TypesOK
  <2>. QED BY <2>1, <2>5, <2>6, <2>7 DEF StampsOK, StampsAreNotEarly
<1>6. CASE TakeTime
  <2>1. /\ stamps' = Append(stamps, clock) /\ UNCHANGED <<clock, start, target>>
        /\ pc[Timer] = "stamp" /\ pc'[Timer] = "lock"
    BY <1>0, <1>6 DEF TakeTime, Goto, TypesOK
  <2>2. PICK n \in Nat : n = Len(stamps)
    BY DEF TypesOK
  <2>3. /\ Len(stamps') = n + 1 /\ stamps'[n + 1] = clock
        /\ \A i \in 1..n : stamps'[i] = stamps[i]
    BY <2>1, <2>2, AppendIs DEF TypesOK
  <2>4. target >= Due(n + 2) /\ clock > Due(n + 1)
    BY <2>1, <2>2 DEF StampsOK
  <2>5. \A i \in 1..n : stamps[i] > Due(i)
    BY <2>2 DEF StampsOK, StampsAreNotEarly, Due
  <2>6. \A m : Due(m)' = Due(m)
    BY <2>1 DEF Due
  <2>7. ASSUME NEW i \in 1..n + 1
        PROVE  stamps'[i] > Due(i)'
    BY <2>3, <2>4, <2>5, <2>6
  <2>8. StampsAreNotEarly'
    BY <2>3, <2>7 DEF StampsAreNotEarly, Due
  <2>9. Len(stamps') + 1 = n + 2
    BY <2>3
  <2>. QED BY <2>1, <2>4, <2>6, <2>8, <2>9 DEF StampsOK
<1>7. CASE Times /\ ~TimerBegin /\ ~TimerDue /\ ~TakeTime
  <2>1. /\ UNCHANGED <<clock, start, target, stamps>>
        /\ pc[Timer] \notin {"none", "begin", "stamp"} /\ pc'[Timer] \notin {"none", "begin", "stamp"}
    BY <1>0, <1>7 DEF Times, Timing, TimerEnds, TimerNotDue, TimerLocks, TimerWrites,
                      TimerWriteFails, TimerWakes, Goto, Lock, timing, TypesOK
  <2>. QED BY <1>1, <2>1 DEF TypesOK
<1>8. ASSUME NEW c \in Conn, Works(c) \/ SendBrokenPipe(c)
      PROVE  StampsOK'
  <2>1. pc'[Timer] = pc[Timer]
    <3>1. CASE Works(c)
      BY <1>0, <3>1, ConnMoves DEF Moves, TypesOK
    <3>2. CASE SendBrokenPipe(c)
      BY <3>2 DEF SendBrokenPipe
    <3>. QED BY <1>8, <3>1, <3>2
  <2>2. UNCHANGED <<clock, start, target, stamps>>
    BY <1>8 DEF Works, Recv, RecvEnd, Serve, LockFile, WritePiece, WriteFails, Rewind, ReadAndSend,
                SendShort, SendBrokenPipe, EchoDone, ReadFails, EndAnswer, timing
  <2>. QED BY <1>1, <2>1, <2>2 DEF TypesOK
<1>. QED BY <1>2, <1>3, <1>4, <1>5, <1>6, <1>7, <1>8, NextIs

-----------------------------------------------------------------------------
(* The theorems *)

LEMMA StepFInv == FInv /\ [Next]_vars => FInv'
<1>. SUFFICES ASSUME FInv, [Next]_vars PROVE FInv'
  OBVIOUS
<1>1. CASE Next
  BY <1>1, TypesStep, MutexStep, LifeStep, EchoStep, HoldsStep, StampsStep DEF FInv
<1>2. CASE UNCHANGED vars
  <2>. USE <1>2 DEF vars, disk, client, timing, FInv
  <2>1. TypesOK' /\ MutexHeld'
    BY DEF TypesOK, MutexHeld
  <2>2. LifeOK'
    BY DEF LifeOK
  <2>3. EchoOK' /\ CountOK'
    BY DEF EchoOK, EchoSoFar, CountOK
  <2>4. FileHoldsEverything'
    BY DEF FileHoldsEverything, Written
  <2>5. StampsOK'
    BY DEF StampsOK, StampsAreNotEarly, Due
  <2>. QED BY <2>1, <2>2, <2>3, <2>4, <2>5
<1>. QED BY <1>1, <1>2

\* What a client is sent for a block is the file, in its order and no other bytes,
\* although every thread moves the one position that it is read from; and it is the
\* whole file unless a sendto of this answer was short or the rewind before it failed.
THEOREM AnswersAreTheFile == Spec => []AnswerIsTheFile
<1>1. FInv => AnswerIsTheFile
  <2>. SUFFICES ASSUME FInv, NEW c \in Conn, pc[c] = "read", position = Len(file)
                PROVE  /\ Len(got[c]) = Len(file)
                       /\ \A i \in 1..Len(file) : got[c][i] \in {file[i], Unsent}
                       /\ c \notin cut => got[c] = file
    BY DEF AnswerIsTheFile
  <2>1. /\ Len(got[c]) = Len(file)
        /\ \A i \in 1..Len(file) : got[c][i] \in {file[i], Unsent}
        /\ c \notin cut => \A i \in 1..Len(file) : got[c][i] = file[i]
    BY DEF FInv, EchoOK, EchoSoFar
  <2>2. got[c] \in Seq(Pieces \cup {Unsent}) /\ file \in Seq(Pieces \cup {Unsent})
    BY DEF FInv, TypesOK
  <2>. QED BY <2>1, <2>2, SeqEqual
<1>. QED BY <1>1, InitFInv, StepFInv, PTL DEF Spec

\* Every piece the clients sent and every timestamp is in the file, once and in
\* the order of its thread, unless the very fwrite or flush that was to store it
\* failed: fseek and fwrite are one step under the mutex.
THEOREM NothingIsLost == Spec => []FileHoldsEverything
<1>1. FInv => FileHoldsEverything
  BY DEF FInv
<1>. QED BY <1>1, InitFInv, StepFInv, PTL DEF Spec

\* The i-th timestamp is more than i periods after the start of the timer, however
\* late the ones before it were: a target is at least a period after the one before.
THEOREM TimestampsAreNotEarly == Spec => []StampsAreNotEarly
<1>1. FInv => StampsAreNotEarly
  BY DEF FInv, StampsOK
<1>. QED BY <1>1, InitFInv, StepFInv, PTL DEF Spec

\* The file is open as long as a thread may use it, and is gone when the server
\* has exited in order, also when the signal came before it listened.
THEOREM FileOutlivesItsUsers == Spec => []FileLivesAsLongAsItsUsers
<1>1. FInv => FileLivesAsLongAsItsUsers
  <2>. SUFFICES ASSUME FInv PROVE FileLivesAsLongAsItsUsers
    OBVIOUS
  <2>1. ASSUME Running, NEW t \in Thread, pc[t] \notin {"none", "ended"}
        PROVE  wptr = "open"
    <3>1. main \notin {"start", "opened", "exit", "exited", "failed"}
      BY <2>1 DEF FInv, LifeOK, Running, Thread
    <3>. QED BY <3>1 DEF FInv, LifeOK, TypesOK, MainPC
  <2>2. main = "exited" => ~exists /\ wptr # "open"
    BY DEF FInv, LifeOK
  <2>. QED BY <2>1, <2>2 DEF FileLivesAsLongAsItsUsers
<1>. QED BY <1>1, InitFInv, StepFInv, PTL DEF Spec
=============================================================================
