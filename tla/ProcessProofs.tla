--------------------------- MODULE ProcessProofs ---------------------------
(***************************************************************************)
(* Proofs about the two programs that run others as processes, for every   *)
(* number of calls, descriptors, files, runs and failures: what the answer *)
(* of do_system, do_exec and do_exec_redirect says of their command and    *)
(* where its output goes, and what success means for finder-test.sh and    *)
(* for the writer it runs.                                                 *)
(*                                                                         *)
(* A call knows its child by the status alone, and a child the program by  *)
(* what it inherited.  What carries the induction is therefore where each  *)
(* child's status and stdout can have come from, also of those that an     *)
(* interrupted call left running: the program's stdout never changes once  *)
(* it is open, because open only takes descriptors that are free.          *)
(***************************************************************************)
EXTENDS SystemCalls, FiniteSetTheorems, WellFoundedInduction, TLAPS

-----------------------------------------------------------------------------
(* The system call example *)

State == {"none", "dup2", "exec", "running", "ended", "reaped"}

ChildRecord ==
  [state : State, stdout : File \cup {Closed}, buffered : BOOLEAN, status : Nat]

CallTypes ==
  /\ pc \in {"idle", "fork", "wait"}
  /\ call \in 1..MaxCalls + 1
  /\ pc # "idle" => call \in Call
  /\ command \in [Call -> Command]
  /\ redirect \in [Call -> BOOLEAN]
  /\ result \in [Call -> {"none", "true", "false"}]
  /\ fds \in [0..MaxFd -> File \cup {Closed}]
  /\ buffered \in BOOLEAN
  /\ child \in [Call -> ChildRecord]
  /\ written \in [File -> SUBSET File]

Begun(k) == k < call \/ (k = call /\ pc # "idle")
Forked(k) == k < call \/ (k = call /\ pc = "wait")

\* Before a call begins nobody has its file, before it forks it has no child, and
\* before it returns it has no answer.
NotYet ==
  \A k \in Call :
     /\ ~Begun(k) => written[k] = {} /\ fds[1] # k
     /\ ~Forked(k) => child[k].state = "none" /\ \A f \in File : k \notin written[f]
     /\ Begun(k) /\ child[k].state # "none" => command[k] # "NULL"
     /\ k = call /\ pc # "idle" => command[k] # "NULL"
     /\ k >= call => result[k] = "none" /\ child[k].state # "reaped"

\* A child ends with the status of its own command, or with that of exit(-1).
Statuses ==
  \A k \in Call :
     child[k].state \in {"ended", "reaped"} =>
        child[k].status \in {StatusOf(command[k]), Exited(-1)}

\* Before dup2 a child has the stdout that the program had at the fork, and after it
\* the one its output belongs to.
Stdouts ==
  \A k \in Call :
     /\ child[k].state = "dup2" => redirect[k] /\ child[k].stdout = Inherited(k)
     /\ child[k].state \in {"exec", "running"} => child[k].stdout = Output(k)

CallInv ==
  /\ CallTypes /\ NotYet /\ Statuses /\ Stdouts
  /\ TrueMeansItsCommandSucceeded
  /\ OutputGoesToItsFile

-----------------------------------------------------------------------------
(* What the operators of the model return *)

\* Reduction modulo n, without %, just below 0.
LEMMA ModNegative ==
  ASSUME NEW n \in Nat \ {0}, NEW a \in Int, a < 0, 0 < a + n
  PROVE  a % n = a + n
OBVIOUS

\* The wait status of each way to end; exit(-1) exits with 255.
LEMMA StatusValues ==
  /\ Exited(0) = 0 /\ Exited(1) = 256 /\ Exited(127) = 32512 /\ Exited(-1) = 65280
  /\ StatusOf("succeeds") = 0 /\ StatusOf("fails") = 256
  /\ StatusOf("killed") = 9 /\ StatusOf("missing") = 32512
<1>1. 0 % 256 = 0 /\ 1 % 256 = 1 /\ 127 % 256 = 127
  OBVIOUS
<1>2. ASSUME NEW m \in Int, m = -1 PROVE Exited(m) = 65280
  <2>1. m < 0 /\ 0 < m + 256 /\ m + 256 = 255
    BY <1>2
  <2>2. m % 256 = 255
    BY <2>1, ModNegative
  <2>. QED BY <2>2 DEF Exited
<1>3. Exited(0) = 0 /\ Exited(1) = 256 /\ Exited(127) = 32512
  BY <1>1 DEF Exited
<1>4. Exited(-1) = 65280
  <2>1. -1 \in Int
    OBVIOUS
  <2>. QED BY <1>2, <2>1
<1>. QED BY <1>3, <1>4 DEF StatusOf, Signaled

LEMMA StatusType ==
  ASSUME NEW c \in Command, c # "NULL"
  PROVE  StatusOf(c) \in Nat /\ Exited(-1) \in Nat
BY StatusValues DEF Command

\* A status passes for success only when it is that of a command that succeeds.
LEMMA SucceededValue ==
  ASSUME NEW c \in Command, c # "NULL", NEW s \in {StatusOf(c), Exited(-1)}
  PROVE  Succeeded(s) <=> (c = "succeeds" /\ s = Exited(0))
<1>1. s \in {0, 256, 9, 32512, 65280} /\ (s = 0 => c = "succeeds")
  BY StatusValues DEF Command
<1>2. CASE s = 0
  BY <1>1, <1>2, StatusValues DEF Succeeded, WIFEXITED, WEXITSTATUS
<1>3. CASE s \in {256, 32512, 65280}
  <2>1. (256 \div 256) % 256 = 1 /\ (32512 \div 256) % 256 = 127 /\ (65280 \div 256) % 256 = 255
    OBVIOUS
  <2>. QED BY <1>3, <2>1, StatusValues DEF Succeeded, WEXITSTATUS
<1>4. CASE s = 9
  <2>1. 9 % 128 = 9
    OBVIOUS
  <2>. QED BY <1>4, <2>1, StatusValues DEF Succeeded, WIFEXITED
<1>. QED BY <1>1, <1>2, <1>3, <1>4

\* What a child reports that did not run its command is no command's status.
LEMMA NotRun == \A c \in Command \ {"NULL"} : StatusOf(c) # Exited(-1)
BY StatusValues DEF Command

LEMMA FileFacts ==
  /\ Closed \notin File /\ Terminal \in File /\ Call \subseteq File /\ Text \notin Call
  /\ 1 \in 0..MaxFd
BY SizeAssumption DEF File, Call, Closed, Terminal, Text

LEMMA WriteToValue ==
  ASSUME CallTypes, NEW file \in File \cup {Closed}, NEW what \in SUBSET File,
         WriteTo(file, what)
  PROVE  /\ written' \in [File -> SUBSET File]
         /\ \A f \in File : written'[f] = IF f = file THEN written[f] \cup what
                                                      ELSE written[f]
<1>1. written \in [File -> SUBSET File] /\ Closed \notin File
  BY FileFacts DEF CallTypes
<1>2. CASE file = Closed
  BY <1>1, <1>2 DEF WriteTo
<1>3. CASE file # Closed
  <2>1. file \in File /\ written' = [written EXCEPT ![file] = @ \cup what]
    BY <1>3 DEF WriteTo
  <2>. QED BY <1>1, <2>1
<1>. QED BY <1>2, <1>3

LEMMA TextOfType == \A b \in BOOLEAN : TextOf(b) \in SUBSET {Text} /\ TextOf(b) \in SUBSET File
BY FileFacts DEF TextOf, Text, Terminal

\* Both are a file or none, and depend on the program's stdout, redirect[k] and k only.
LEMMA OutputIs ==
  ASSUME CallTypes, NEW k \in Call
  PROVE  /\ Inherited(k) \in {Closed, fds[1]} /\ Output(k) \in {Closed, k, fds[1]}
         /\ redirect[k] => Output(k) = IF Inherited(k) = k THEN Closed ELSE k
         /\ ~redirect[k] => Output(k) = Inherited(k)
BY FileFacts DEF Inherited, Output, CallTypes, Closed, Call

\* At its own fork a call has the program's stdout, for later calls have no file yet.
LEMMA InheritedNow ==
  ASSUME CallInv, call \in Call
  PROVE  Inherited(call) = fds[1]
<1>1. CallTypes /\ NotYet /\ fds[1] \in File \cup {Closed}
  BY FileFacts DEF CallInv, CallTypes
<1>2. ASSUME fds[1] > call
      PROVE  FALSE
  <2>1. fds[1] \in Call /\ ~(fds[1] < call) /\ fds[1] # call
    BY <1>1, <1>2 DEF Closed, Terminal, File, Call
  <2>2. ~Begun(fds[1])
    BY <2>1 DEF Begun
  <2>. QED BY <1>1, <2>1, <2>2 DEF NotYet
<1>. QED BY <1>2 DEF Inherited

\* open takes a descriptor that is free.
LEMMA LowestFree ==
  ASSUME Free # {}
  PROVE  Min(Free) \in 0..MaxFd /\ fds[Min(Free)] = Closed
<1>1. Free \subseteq Nat
  BY SizeAssumption DEF Free
<1>. DEFINE R == {ss \in Nat \X Nat : ss[1] < ss[2]}
<1>2. IsWellFoundedOn(R, Nat)
  BY NatLessThanWellFounded, Zenon DEF OpToRel
<1>. HIDE DEF R
<1>3. PICK n \in Free : \A m \in Free : <<m, n>> \notin R
  BY <1>1, <1>2, WFMin, Zenon
<1>4. \A m \in Free : ~(m < n)
  BY <1>1, <1>3 DEF R
<1>5. \A m \in Free : n <= m
  BY <1>1, <1>4
<1>6. Min(Free) \in Free
  BY <1>5 DEF Min
<1>. QED BY <1>6 DEF Free

LEMMA CallInitInv == Init => CallInv
<1>. SUFFICES ASSUME Init PROVE CallInv
  OBVIOUS
<1>1. PICK stdout \in {Terminal, Closed} :
        fds = [n \in 0..MaxFd |-> CASE n = 1 -> stdout
                                    [] n \in {0, 2} -> Terminal
                                    [] OTHER -> Closed]
  BY DEF Init
<1>2. fds \in [0..MaxFd -> File \cup {Closed}] /\ fds[1] \in {Terminal, Closed}
  BY <1>1, FileFacts
<1>3. NoChild \in ChildRecord
  BY DEF NoChild, State, ChildRecord
<1>4. CallTypes
  <2>1. child \in [Call -> ChildRecord]
    BY <1>3, Zenon DEF Init
  <2>2. call \in 1..MaxCalls + 1 /\ pc = "idle"
    BY SizeAssumption DEF Init
  <2>. QED BY <1>2, <2>1, <2>2 DEF Init, CallTypes, Command
<1>5. \A k \in Call : /\ k # 0 /\ child[k].state = "none" /\ result[k] = "none"
                      /\ k >= call /\ ~Forked(k) /\ pc = "idle"
  BY SizeAssumption DEF Init, NoChild, Forked, Call
<1>6. \A f \in File : written[f] = {}
  BY DEF Init
<1>7. \A k \in Call : fds[1] # k
  BY <1>2 DEF Terminal, Closed, Call
<1>8. NotYet
  BY <1>5, <1>6, <1>7, FileFacts DEF NotYet
<1>9. Statuses /\ Stdouts /\ TrueMeansItsCommandSucceeded
  BY <1>5 DEF Statuses, Stdouts, TrueMeansItsCommandSucceeded
<1>10. OutputGoesToItsFile
  BY <1>5, <1>6, FileFacts DEF OutputGoesToItsFile, Ran
<1>. QED BY <1>4, <1>8, <1>9, <1>10 DEF CallInv

\* What a step leaves alone: the properties are about these variables.
LEMMA CallFrame ==
  ASSUME CallInv, UNCHANGED <<command, redirect, fds, child>>
  PROVE  /\ Statuses' /\ Stdouts'
         /\ UNCHANGED result => TrueMeansItsCommandSucceeded'
         /\ UNCHANGED written => OutputGoesToItsFile'
<1>. USE DEF CallInv, Inherited, Output
<1>1. Statuses' /\ Stdouts'
  BY DEF Statuses, Stdouts
<1>2. UNCHANGED result => TrueMeansItsCommandSucceeded'
  BY DEF TrueMeansItsCommandSucceeded
<1>3. UNCHANGED written => OutputGoesToItsFile'
  BY DEF OutputGoesToItsFile, Ran
<1>. QED BY <1>1, <1>2, <1>3

\* The output of the calls whose redirect and the stdout of which stay.
LEMMA SameOutput ==
  ASSUME NEW k \in Call, redirect'[k] = redirect[k], fds'[1] = fds[1]
  PROVE  Inherited(k)' = Inherited(k) /\ Output(k)' = Output(k)
BY DEF Inherited, Output

\* A call that has not forked has no child that ran.
LEMMA OutputStays ==
  ASSUME CallInv, UNCHANGED written,
         \A k \in Call : child'[k] = child[k],
         \A k \in Call : child[k].state # "none" =>
            command'[k] = command[k] /\ Output(k)' = Output(k),
         \A k \in Call : Text \in written[k] =>
            /\ fds[1] = k => fds'[1] = k
            /\ command'[k] = command[k] /\ redirect'[k] = redirect[k]
  PROVE  OutputGoesToItsFile'
<1>1. OutputGoesToItsFile
  BY DEF CallInv
<1>2. \A k \in Call : /\ Ran(k)' <=> Ran(k)
                      /\ Ran(k) => Output(k)' = Output(k)
  BY DEF Ran
<1>. QED BY <1>1, <1>2 DEF OutputGoesToItsFile

LEMMA PrintfStep ==
  ASSUME CallInv, Printf
  PROVE  CallInv'
<1>1. CallTypes'
  BY DEF CallInv, CallTypes, Printf
<1>2. NotYet'
  BY DEF CallInv, NotYet, Begun, Forked, Printf
<1>. QED BY <1>1, <1>2, CallFrame DEF CallInv, Printf

\* The program writes to its own stdout, which no call that has not begun has.
LEMMA FflushStep ==
  ASSUME CallInv, Fflush
  PROVE  CallInv'
<1>1. CallTypes /\ NotYet /\ OutputGoesToItsFile
  BY DEF CallInv
<1>2. /\ fds[1] \in File \cup {Closed} /\ {Text} \in SUBSET File
      /\ WriteTo(fds[1], {Text})
  BY <1>1, FileFacts DEF CallTypes, Fflush, Text, Terminal
<1>3. /\ written' \in [File -> SUBSET File]
      /\ \A f \in File : written'[f] = IF f = fds[1] THEN written[f] \cup {Text}
                                                     ELSE written[f]
  BY <1>1, <1>2, WriteToValue
<1>4. CallTypes'
  BY <1>1, <1>3 DEF CallTypes, Fflush
<1>5. NotYet'
  BY <1>1, <1>3, FileFacts DEF NotYet, Begun, Forked, Fflush
<1>6. OutputGoesToItsFile'
  <2>1. \A k \in Call : (Ran(k)' <=> Ran(k)) /\ Output(k)' = Output(k)
    BY SameOutput DEF Ran, Fflush
  <2>2. \A k \in Call : k # Text
    BY FileFacts
  <2>3. \A k \in Call : k \in File /\ (Text \in written'[k] => Text \in written[k] \/ fds[1] = k)
    BY <1>3, FileFacts
  <2>. QED BY <1>1, <1>3, <2>1, <2>2, <2>3 DEF OutputGoesToItsFile, Fflush
<1>. QED BY <1>4, <1>5, <1>6, CallFrame DEF CallInv, Fflush

\* A call that begins has no child and no answer yet, and nobody wrote to its file.
LEMMA BeginFacts ==
  ASSUME CallInv, NEW c \in Command, NEW redirected \in BOOLEAN, Begin(c, redirected)
  PROVE  /\ call \in Call /\ pc = "idle" /\ call \in 1..MaxCalls /\ call + 1 \in 1..MaxCalls + 1
         /\ command' \in [Call -> Command] /\ redirect' \in [Call -> BOOLEAN]
         /\ command'[call] = c /\ redirect'[call] = redirected
         /\ \A k \in Call : k # call => command'[k] = command[k] /\ redirect'[k] = redirect[k]
         /\ child[call].state = "none" /\ written[call] = {} /\ fds[1] # call
         /\ \A f \in File : call \notin written[f]
         /\ result[call] = "none"
<1>1. call \in Call /\ pc = "idle" /\ call \in 1..MaxCalls /\ call + 1 \in 1..MaxCalls + 1
  BY SizeAssumption DEF Begin, Call
<1>2. /\ command' \in [Call -> Command] /\ redirect' \in [Call -> BOOLEAN]
      /\ command'[call] = c /\ redirect'[call] = redirected
      /\ \A k \in Call : k # call => command'[k] = command[k] /\ redirect'[k] = redirect[k]
  BY <1>1 DEF Begin, CallInv, CallTypes
<1>3. ~Begun(call) /\ ~Forked(call) /\ call >= call
  BY <1>1 DEF Begun, Forked
<1>4. /\ child[call].state = "none" /\ written[call] = {} /\ fds[1] # call
      /\ \A f \in File : call \notin written[f]
      /\ result[call] = "none"
  BY <1>1, <1>3, Zenon DEF CallInv, NotYet
<1>. QED BY <1>1, <1>2, <1>4

\* A call that returns answers for itself, and the next one is up.
LEMMA ReturnFacts ==
  ASSUME CallInv, call \in Call, NEW answer \in BOOLEAN, Return(answer)
  PROVE  /\ pc' = "idle" /\ call' = call + 1 /\ call' \in 1..MaxCalls + 1
         /\ result' \in [Call -> {"none", "true", "false"}]
         /\ result'[call] = IF answer THEN "true" ELSE "false"
         /\ \A k \in Call : k # call => result'[k] = result[k]
         /\ \A k \in Call : Begun(k)' <=> k <= call
         /\ \A k \in Call : Forked(k)' <=> k <= call
<1>1. call \in 1..MaxCalls /\ MaxCalls \in Nat
  BY SizeAssumption DEF Call
<1>2. /\ pc' = "idle" /\ call' = call + 1 /\ call' \in 1..MaxCalls + 1
      /\ result' \in [Call -> {"none", "true", "false"}]
      /\ result'[call] = IF answer THEN "true" ELSE "false"
      /\ \A k \in Call : k # call => result'[k] = result[k]
  BY <1>1 DEF Return, CallInv, CallTypes
<1>3. \A k \in Call : (k < call + 1) <=> (k <= call)
  BY <1>1 DEF Call
<1>. QED BY <1>2, <1>3 DEF Begun, Forked

\* A call that begins and returns without a child: it failed.
LEMMA CallFails ==
  ASSUME CallInv, NEW c \in Command, NEW redirected \in BOOLEAN, Begin(c, redirected),
         Return(FALSE), UNCHANGED <<fds, fd, buffered, child, written>>
  PROVE  CallInv'
<1>1. CallTypes /\ NotYet /\ Statuses /\ Stdouts
      /\ TrueMeansItsCommandSucceeded /\ OutputGoesToItsFile
  BY DEF CallInv
<1>2. /\ call \in Call /\ pc = "idle"
      /\ command' \in [Call -> Command] /\ redirect' \in [Call -> BOOLEAN]
      /\ \A k \in Call : k # call => command'[k] = command[k] /\ redirect'[k] = redirect[k]
      /\ child[call].state = "none" /\ written[call] = {}
      /\ \A f \in File : call \notin written[f]
  BY BeginFacts
<1>3. /\ pc' = "idle" /\ call' = call + 1 /\ call' \in 1..MaxCalls + 1
      /\ result' \in [Call -> {"none", "true", "false"}]
      /\ result'[call] = "false"
      /\ \A k \in Call : k # call => result'[k] = result[k]
      /\ \A k \in Call : Begun(k)' <=> k <= call
      /\ \A k \in Call : Forked(k)' <=> k <= call
  BY <1>2, ReturnFacts
<1>4. CallTypes'
  BY <1>1, <1>2, <1>3 DEF CallTypes
<1>5. \A k \in Call : /\ k # call /\ k <= call => k < call
                      /\ k >= call + 1 => k # call /\ k >= call
                      /\ ~(k <= call) => k # call /\ ~(k < call) /\ k >= call
  BY <1>2 DEF Call
<1>6. NotYet'
  BY <1>1, <1>2, <1>3, <1>5 DEF NotYet, Begun, Forked
<1>7. \A k \in Call : k # call => Inherited(k)' = Inherited(k) /\ Output(k)' = Output(k)
  BY <1>2, SameOutput
<1>8. Statuses' /\ Stdouts' /\ TrueMeansItsCommandSucceeded'
  BY <1>1, <1>2, <1>3, <1>7 DEF Statuses, Stdouts, TrueMeansItsCommandSucceeded
<1>9. \A k \in Call : /\ child[k].state # "none" => k # call
                      /\ Text \in written[k] => k # call
  BY <1>2
<1>10. OutputGoesToItsFile'
  BY <1>2, <1>7, <1>9, OutputStays
<1>. QED BY <1>4, <1>6, <1>8, <1>10 DEF CallInv

LEMMA DoExecStep ==
  ASSUME CallInv, NEW c \in Command, DoExec(c)
  PROVE  CallInv'
<1>1. CallTypes /\ NotYet /\ Statuses /\ Stdouts
      /\ TrueMeansItsCommandSucceeded /\ OutputGoesToItsFile
  BY DEF CallInv
<1>2. /\ call \in Call /\ pc = "idle"
      /\ command' \in [Call -> Command] /\ redirect' \in [Call -> BOOLEAN]
      /\ command'[call] = c
      /\ \A k \in Call : k # call => command'[k] = command[k] /\ redirect'[k] = redirect[k]
      /\ child[call].state = "none" /\ written[call] = {}
      /\ \A f \in File : call \notin written[f]
      /\ result[call] = "none"
  BY BeginFacts DEF DoExec
<1>3. CallTypes'
  BY <1>1, <1>2 DEF CallTypes, DoExec
<1>4. NotYet'
  BY <1>1, <1>2 DEF NotYet, Begun, Forked, DoExec
<1>5. \A k \in Call : k # call => Inherited(k)' = Inherited(k) /\ Output(k)' = Output(k)
  BY <1>2, SameOutput DEF DoExec
<1>6. Statuses' /\ Stdouts' /\ TrueMeansItsCommandSucceeded'
  BY <1>1, <1>2, <1>5 DEF Statuses, Stdouts, TrueMeansItsCommandSucceeded, DoExec
<1>7. \A k \in Call : /\ child[k].state # "none" => k # call
                      /\ Text \in written[k] => k # call
  BY <1>2
<1>8. OutputGoesToItsFile'
  BY <1>2, <1>5, <1>7, OutputStays DEF DoExec
<1>. QED BY <1>3, <1>4, <1>6, <1>8 DEF CallInv

\* open takes a free descriptor: a stdout that is open stays what it is.
LEMMA DoExecRedirectStep ==
  ASSUME CallInv, NEW c \in Command, DoExecRedirect(c)
  PROVE  CallInv'
<1>1. CallTypes /\ NotYet /\ Statuses /\ Stdouts
      /\ TrueMeansItsCommandSucceeded /\ OutputGoesToItsFile
  BY DEF CallInv
<1>2. /\ call \in Call /\ pc = "idle"
      /\ command' \in [Call -> Command] /\ redirect' \in [Call -> BOOLEAN]
      /\ command'[call] = c
      /\ \A k \in Call : k # call => command'[k] = command[k] /\ redirect'[k] = redirect[k]
      /\ child[call].state = "none" /\ written[call] = {}
      /\ \A f \in File : call \notin written[f]
      /\ result[call] = "none"
  BY BeginFacts DEF DoExecRedirect
<1>3. /\ fds' \in [0..MaxFd -> File \cup {Closed}]
      /\ fds[1] \in File \cup {Closed}
      /\ fds[1] # Closed => fds'[1] = fds[1]
      /\ fds'[1] \in {fds[1], call}
  <2>1. Min(Free) \in 0..MaxFd /\ fds[Min(Free)] = Closed
    BY LowestFree DEF DoExecRedirect
  <2>2. fds' = [fds EXCEPT ![Min(Free)] = call]
    BY DEF DoExecRedirect
  <2>. HIDE DEF Free
  <2>. QED BY <1>1, <1>2, <2>1, <2>2, FileFacts DEF CallTypes
<1>4. written' = written
  <2>1. written' = [written EXCEPT ![call] = {}]
    BY DEF DoExecRedirect
  <2>. QED BY <1>1, <1>2, <2>1, FileFacts DEF CallTypes
<1>5. CallTypes'
  BY <1>1, <1>2, <1>3, <1>4 DEF CallTypes, DoExecRedirect
<1>6. NotYet'
  BY <1>1, <1>2, <1>3, <1>4 DEF NotYet, Begun, Forked, DoExecRedirect
<1>7. Statuses' /\ TrueMeansItsCommandSucceeded'
  BY <1>1, <1>2 DEF Statuses, TrueMeansItsCommandSucceeded, DoExecRedirect
<1>8. ASSUME NEW k \in Call, child[k].state # "none"
      PROVE  /\ k # call /\ command'[k] = command[k] /\ redirect'[k] = redirect[k]
             /\ Inherited(k)' = Inherited(k) /\ Output(k)' = Output(k)
  <2>1. k < call /\ k # call
    BY <1>1, <1>2, <1>8 DEF NotYet, Forked, Call
  <2>2. redirect'[k] = redirect[k] /\ command'[k] = command[k]
    BY <1>2, <2>1
  <2>3. CASE fds'[1] = fds[1]
    BY <2>1, <2>2, <2>3, SameOutput
  <2>4. CASE fds[1] = Closed /\ fds'[1] = call
    <3>1. fds[1] # k /\ fds'[1] # k /\ ~(fds[1] > k) /\ fds'[1] > k
      BY <1>2, <2>1, <2>4 DEF Closed, Call
    <3>. QED BY <2>1, <2>2, <2>4, <3>1 DEF Inherited, Output
  <2>. QED BY <1>3, <2>3, <2>4
<1>9. Stdouts'
  BY <1>1, <1>8 DEF Stdouts, DoExecRedirect
<1>10. ASSUME NEW k \in Call, Text \in written[k]
       PROVE  /\ fds[1] = k => fds'[1] = k
              /\ command'[k] = command[k] /\ redirect'[k] = redirect[k]
  BY <1>2, <1>3, <1>10, FileFacts
<1>11. OutputGoesToItsFile'
  BY <1>4, <1>8, <1>10, OutputStays DEF DoExecRedirect
<1>. QED BY <1>5, <1>6, <1>7, <1>9, <1>11 DEF CallInv

LEMMA ForkStep ==
  ASSUME CallInv, Fork
  PROVE  CallInv'
<1>1. CallTypes /\ NotYet /\ Statuses /\ Stdouts
      /\ TrueMeansItsCommandSucceeded /\ OutputGoesToItsFile
  BY DEF CallInv
<1>. DEFINE forked == [state |-> IF redirect[call] THEN "dup2" ELSE "exec",
                       stdout |-> fds[1], buffered |-> buffered, status |-> 0]
<1>2. call \in Call /\ pc = "fork" /\ pc' = "wait"
  BY <1>1 DEF Fork, CallTypes
<1>3. forked \in ChildRecord
  BY <1>1, <1>2, FileFacts DEF CallTypes, State, ChildRecord
<1>4. /\ forked.state = IF redirect[call] THEN "dup2" ELSE "exec"
      /\ forked.stdout = fds[1]
  OBVIOUS
<1>. HIDE DEF forked
<1>5. child' = [child EXCEPT ![call] = forked]
  BY DEF Fork, forked
<1>6. /\ child' \in [Call -> ChildRecord]
      /\ child'[call] = forked
      /\ \A k \in Call : k # call => child'[k] = child[k]
  BY <1>1, <1>2, <1>3, <1>5 DEF CallTypes
<1>7. child[call].state = "none" /\ command[call] # "NULL" /\ result[call] = "none"
      /\ call >= call /\ redirect[call] \in BOOLEAN
  BY <1>1, <1>2 DEF NotYet, Forked, CallTypes
<1>8. CallTypes'
  BY <1>1, <1>2, <1>6 DEF CallTypes, Fork
<1>9. NotYet'
  BY <1>1, <1>2, <1>4, <1>6, <1>7 DEF NotYet, Begun, Forked, Fork
<1>10. Statuses' /\ TrueMeansItsCommandSucceeded'
  BY <1>1, <1>4, <1>6, <1>7 DEF Statuses, TrueMeansItsCommandSucceeded, Fork
<1>11. \A k \in Call : Inherited(k)' = Inherited(k) /\ Output(k)' = Output(k)
  BY SameOutput DEF Fork
<1>12. Stdouts'
  <2>1. Inherited(call) = fds[1] /\ (~redirect[call] => Output(call) = fds[1])
    BY <1>1, <1>2, InheritedNow, OutputIs
  <2>. QED BY <1>1, <1>4, <1>6, <1>7, <1>11, <2>1 DEF Stdouts, Fork
<1>13. OutputGoesToItsFile'
  <2>1. \A k \in Call : Ran(k)' <=> Ran(k)
    BY <1>4, <1>6, <1>7 DEF Ran, Fork
  <2>. QED BY <1>1, <1>11, <2>1 DEF OutputGoesToItsFile, Fork
<1>. QED BY <1>8, <1>9, <1>10, <1>12, <1>13 DEF CallInv

\* system waits for its command itself.
LEMMA SystemRunsStep ==
  ASSUME CallInv, NEW c \in Command, c # "NULL", Begin(c, FALSE),
         child' = [child EXCEPT ![call] = [NoChild EXCEPT !.state = "reaped",
                                                          !.status = StatusOf(c)]],
         Return(Succeeded(StatusOf(c))), WriteTo(fds[1], {call}), UNCHANGED <<fds, buffered>>
  PROVE  CallInv'
<1>1. CallTypes /\ NotYet /\ Statuses /\ Stdouts
      /\ TrueMeansItsCommandSucceeded /\ OutputGoesToItsFile
  BY DEF CallInv
<1>2. /\ call \in Call /\ pc = "idle"
      /\ command' \in [Call -> Command] /\ redirect' \in [Call -> BOOLEAN]
      /\ command'[call] = c /\ redirect'[call] = FALSE
      /\ \A k \in Call : k # call => command'[k] = command[k] /\ redirect'[k] = redirect[k]
      /\ written[call] = {} /\ fds[1] # call
      /\ \A f \in File : call \notin written[f]
  BY BeginFacts
<1>3. Succeeded(StatusOf(c)) \in BOOLEAN /\ (Succeeded(StatusOf(c)) <=> c = "succeeds")
  BY SucceededValue, StatusValues DEF Succeeded, Command
<1>4. /\ pc' = "idle" /\ call' = call + 1 /\ call' \in 1..MaxCalls + 1
      /\ result' \in [Call -> {"none", "true", "false"}]
      /\ result'[call] = IF Succeeded(StatusOf(c)) THEN "true" ELSE "false"
      /\ \A k \in Call : k # call => result'[k] = result[k]
      /\ \A k \in Call : Begun(k)' <=> k <= call
      /\ \A k \in Call : Forked(k)' <=> k <= call
  BY <1>2, <1>3, ReturnFacts
<1>. DEFINE done == [NoChild EXCEPT !.state = "reaped", !.status = StatusOf(c)]
<1>5. /\ done.state = "reaped" /\ done.status = StatusOf(c)
      /\ done \in ChildRecord
  BY StatusType DEF NoChild, State, ChildRecord
<1>6. child' = [child EXCEPT ![call] = done]
  OBVIOUS
<1>. HIDE DEF done
<1>7. /\ child' \in [Call -> ChildRecord]
      /\ child'[call] = done
      /\ \A k \in Call : k # call => child'[k] = child[k]
  <2>1. child \in [Call -> ChildRecord] /\ done \in ChildRecord
    BY <1>1, <1>5, Zenon DEF CallTypes
  <2>2. /\ child' \in [Call -> ChildRecord] /\ child'[call] = done
        /\ \A k \in Call : k # call => child'[k] = child[k]
    BY <1>2, <1>6, <2>1
  <2>. QED BY <2>2, Zenon
<1>8. /\ fds[1] \in File \cup {Closed} /\ {call} \in SUBSET File
  BY <1>1, <1>2, FileFacts DEF CallTypes
<1>9. /\ written' \in [File -> SUBSET File]
      /\ \A f \in File : written'[f] = IF f = fds[1] THEN written[f] \cup {call}
                                                     ELSE written[f]
  BY <1>1, <1>8, WriteToValue
<1>10. CallTypes'
  BY <1>1, <1>2, <1>4, <1>7, <1>9 DEF CallTypes
<1>11. \A k \in Call : /\ k # call /\ k <= call => k < call
                       /\ k >= call + 1 => k # call /\ k >= call
                       /\ ~(k <= call) => k # call /\ ~(k < call) /\ k >= call
  BY <1>2 DEF Call
<1>12. NotYet'
  BY <1>1, <1>2, <1>4, <1>7, <1>9, <1>11, FileFacts DEF NotYet, Begun, Forked
<1>. DEFINE Same(k) == Inherited(k)' = Inherited(k) /\ Output(k)' = Output(k)
<1>13. \A k \in Call : k # call => Same(k)
  BY <1>2, SameOutput
<1>14. Statuses' /\ Stdouts'
  BY <1>1, <1>2, <1>5, <1>7, <1>13 DEF Statuses, Stdouts
<1>15. TrueMeansItsCommandSucceeded'
  BY <1>1, <1>2, <1>3, <1>4, <1>5, <1>7, StatusValues DEF TrueMeansItsCommandSucceeded
<1>16. ASSUME NEW k \in Call, k = call
       PROVE  Ran(k)' /\ Output(k)' = fds[1]
  <2>1. Inherited(k) = fds[1]
    BY <1>2, <1>16, InheritedNow
  <2>2. Inherited(k)' = fds[1] /\ Output(k)' = fds[1]
    BY <1>2, <1>16, <2>1 DEF Inherited, Output
  <2>3. child'[k].state = "reaped" /\ child'[k].status = StatusOf(command'[k])
    BY <1>2, <1>5, <1>7, <1>16
  <2>. QED BY <2>2, <2>3 DEF Ran
<1>17. \A k \in Call : k # call => /\ Ran(k)' <=> Ran(k)
                                   /\ Output(k)' = Output(k)
  BY <1>2, <1>7, <1>13 DEF Ran
<1>18. OutputGoesToItsFile'
  BY <1>1, <1>2, <1>9, <1>16, <1>17, FileFacts DEF OutputGoesToItsFile
<1>. QED BY <1>10, <1>12, <1>14, <1>15, <1>18 DEF CallInv

LEMMA DoSystemStep ==
  ASSUME CallInv, NEW c \in Command, DoSystem(c)
  PROVE  CallInv'
<1>1. Begin(c, FALSE) /\ UNCHANGED <<fds, fd, buffered>>
  BY DEF DoSystem
<1>2. CASE Return(FALSE) /\ UNCHANGED <<child, written>>
  BY <1>1, <1>2, CallFails
<1>3. CASE /\ c # "NULL"
           /\ child' = [child EXCEPT ![call] = [NoChild EXCEPT !.state = "reaped",
                                                               !.status = StatusOf(c)]]
           /\ Return(Succeeded(StatusOf(c)))
           /\ WriteTo(fds[1], {call})
  BY <1>1, <1>3, SystemRunsStep
<1>. QED BY <1>2, <1>3 DEF DoSystem

\* A call that returns without its child, which goes on or never was.
LEMMA GivesUp ==
  ASSUME CallInv, pc # "idle", Return(FALSE),
         UNCHANGED <<command, redirect, fds, fd, buffered, child, written>>
  PROVE  CallInv'
<1>1. CallTypes /\ NotYet /\ TrueMeansItsCommandSucceeded /\ call \in Call
  BY DEF CallInv, CallTypes
<1>2. /\ pc' = "idle" /\ call' = call + 1 /\ call' \in 1..MaxCalls + 1
      /\ result' \in [Call -> {"none", "true", "false"}]
      /\ result'[call] = "false"
      /\ \A k \in Call : k # call => result'[k] = result[k]
      /\ \A k \in Call : Begun(k)' <=> k <= call
      /\ \A k \in Call : Forked(k)' <=> k <= call
  BY <1>1, ReturnFacts
<1>3. \A k \in Call : /\ k # call /\ k <= call => k < call
                      /\ k >= call + 1 => k # call /\ k >= call
                      /\ ~(k <= call) => k # call /\ ~(k < call) /\ k >= call
  BY <1>1 DEF Call
<1>4. CallTypes'
  BY <1>1, <1>2 DEF CallTypes
<1>5. NotYet'
  BY <1>1, <1>2, <1>3 DEF NotYet, Begun, Forked
<1>6. call >= call
  BY <1>1 DEF Call
<1>7. TrueMeansItsCommandSucceeded'
  BY <1>1, <1>2, <1>6 DEF NotYet, TrueMeansItsCommandSucceeded
<1>. QED BY <1>4, <1>5, <1>7, CallFrame DEF CallInv

\* waitpid is asked for the child of this call, and takes the answer from its status.
LEMMA WaitpidStep ==
  ASSUME CallInv, Waitpid
  PROVE  CallInv'
<1>1. CallTypes /\ NotYet /\ Statuses /\ Stdouts
      /\ TrueMeansItsCommandSucceeded /\ OutputGoesToItsFile
  BY DEF CallInv
<1>2. /\ call \in Call /\ pc = "wait" /\ child[call].state = "ended"
      /\ child[call].status \in {StatusOf(command[call]), Exited(-1)}
      /\ command[call] \in Command /\ command[call] # "NULL"
  BY <1>1 DEF Waitpid, Reap, CallTypes, Statuses, NotYet
<1>. DEFINE answer == Succeeded(child[call].status)
<1>3. answer \in BOOLEAN /\ (answer <=> (/\ command[call] = "succeeds"
                                         /\ child[call].status = Exited(0)))
  BY <1>2, SucceededValue DEF Succeeded
<1>4. Return(answer)
  BY DEF Waitpid, Reap
<1>. HIDE DEF answer
<1>5. /\ pc' = "idle" /\ call' = call + 1 /\ call' \in 1..MaxCalls + 1
      /\ result' \in [Call -> {"none", "true", "false"}]
      /\ result'[call] = IF answer THEN "true" ELSE "false"
      /\ \A k \in Call : k # call => result'[k] = result[k]
      /\ \A k \in Call : Begun(k)' <=> k <= call
      /\ \A k \in Call : Forked(k)' <=> k <= call
  BY <1>2, <1>3, <1>4, ReturnFacts
<1>6. child' = [child EXCEPT ![call].state = "reaped"]
  BY DEF Waitpid, Reap
<1>7. /\ child' \in [Call -> ChildRecord]
      /\ child'[call].state = "reaped" /\ child'[call].status = child[call].status
      /\ \A k \in Call : k # call => child'[k] = child[k]
  BY <1>1, <1>2, <1>6 DEF CallTypes, State, ChildRecord
<1>8. \A k \in Call : /\ k # call /\ k <= call => k < call
                      /\ k >= call + 1 => k # call /\ k >= call
                      /\ ~(k <= call) => k # call /\ ~(k < call) /\ k >= call
  BY <1>2 DEF Call
<1>9. UNCHANGED <<command, redirect, fds, fd, buffered, written>>
  BY DEF Waitpid, Reap
<1>10. CallTypes'
  BY <1>1, <1>5, <1>7, <1>9 DEF CallTypes
<1>11. NotYet'
  BY <1>1, <1>2, <1>5, <1>7, <1>8, <1>9 DEF NotYet, Begun, Forked
<1>12. \A k \in Call : Inherited(k)' = Inherited(k) /\ Output(k)' = Output(k)
  BY <1>9, SameOutput
<1>13. Statuses' /\ Stdouts'
  BY <1>1, <1>2, <1>7, <1>9, <1>12 DEF Statuses, Stdouts
<1>14. TrueMeansItsCommandSucceeded'
  BY <1>1, <1>2, <1>3, <1>5, <1>7, <1>9 DEF TrueMeansItsCommandSucceeded
<1>15. OutputGoesToItsFile'
  <2>1. \A k \in Call : Ran(k)' <=> Ran(k)
    BY <1>2, <1>7, <1>9 DEF Ran
  <2>. QED BY <1>1, <1>9, <1>12, <2>1 DEF OutputGoesToItsFile
<1>. QED BY <1>10, <1>11, <1>13, <1>14, <1>15 DEF CallInv

-----------------------------------------------------------------------------
(* The children *)

\* A child is one of a call that forked, with a command.
LEMMA ChildFacts ==
  ASSUME CallInv, NEW k \in Call, child[k].state # "none"
  PROVE  /\ Forked(k) /\ Begun(k)
         /\ command[k] \in Command /\ command[k] # "NULL"
         /\ child \in [Call -> ChildRecord]
<1>1. NotYet /\ command \in [Call -> Command]
  BY DEF CallInv, CallTypes
<1>2. child \in [Call -> ChildRecord]
  BY Zenon DEF CallInv, CallTypes
<1>3. Forked(k) /\ Begun(k)
  BY <1>1 DEF NotYet, Forked, Begun
<1>. QED BY <1>1, <1>2, <1>3 DEF NotYet

\* A step of a child that writes nothing.
LEMMA ChildGoesOn ==
  ASSUME CallInv, NEW k \in Call, child[k].state \in {"dup2", "exec"},
         child' \in [Call -> ChildRecord],
         child'[k].state \in {"exec", "running"},
         child'[k].stdout = Output(k),
         \A j \in Call : j # k => child'[j] = child[j],
         UNCHANGED <<pc, call, command, redirect, result, fds, fd, buffered, written,
                     interrupted>>
  PROVE  CallInv'
<1>1. CallTypes /\ NotYet /\ Statuses /\ Stdouts
      /\ TrueMeansItsCommandSucceeded /\ OutputGoesToItsFile
  BY DEF CallInv
<1>2. Forked(k) /\ command[k] # "NULL"
  BY ChildFacts
<1>3. CallTypes'
  BY <1>1 DEF CallTypes
<1>4. NotYet'
  BY <1>1, <1>2 DEF NotYet, Begun, Forked
<1>5. \A j \in Call : Inherited(j)' = Inherited(j) /\ Output(j)' = Output(j)
  BY SameOutput
<1>6. Statuses' /\ Stdouts' /\ TrueMeansItsCommandSucceeded'
  BY <1>1, <1>5 DEF Statuses, Stdouts, TrueMeansItsCommandSucceeded
<1>7. OutputGoesToItsFile'
  <2>1. \A j \in Call : Ran(j)' <=> Ran(j)
    BY DEF Ran
  <2>. QED BY <1>1, <1>5, <2>1 DEF OutputGoesToItsFile
<1>. QED BY <1>3, <1>4, <1>6, <1>7 DEF CallInv

LEMMA Dup2Step ==
  ASSUME CallInv, NEW k \in Call, Dup2(k)
  PROVE  CallInv'
<1>1. /\ child[k].state = "dup2" /\ redirect[k] /\ child[k].stdout = Inherited(k)
      /\ Output(k) = IF child[k].stdout = k THEN Closed ELSE k
  BY OutputIs DEF CallInv, Stdouts, Dup2
<1>2. child \in [Call -> ChildRecord]
  BY <1>1, ChildFacts
<1>3. child' = [child EXCEPT ![k].state = "exec",
                             ![k].stdout = IF @ = k THEN Closed ELSE k]
  BY DEF Dup2
<1>4. /\ child' \in [Call -> ChildRecord]
      /\ child'[k].state = "exec" /\ child'[k].stdout = Output(k)
      /\ \A j \in Call : j # k => child'[j] = child[j]
  BY <1>1, <1>2, <1>3, FileFacts DEF State, ChildRecord
<1>. QED BY <1>1, <1>4, ChildGoesOn DEF Dup2

LEMMA ExecvStep ==
  ASSUME CallInv, NEW k \in Call, Execv(k)
  PROVE  CallInv'
<1>1. child[k].state = "exec" /\ child[k].stdout = Output(k)
  BY DEF CallInv, Stdouts, Execv
<1>2. child \in [Call -> ChildRecord]
  BY <1>1, ChildFacts
<1>3. child' = [child EXCEPT ![k].state = "running", ![k].buffered = FALSE]
  BY DEF Execv
<1>4. /\ child' \in [Call -> ChildRecord]
      /\ child'[k].state = "running" /\ child'[k].stdout = child[k].stdout
      /\ \A j \in Call : j # k => child'[j] = child[j]
  BY <1>2, <1>3 DEF State, ChildRecord
<1>. QED BY <1>1, <1>4, ChildGoesOn DEF Execv

\* A child ends: with exit(-1) and the text it inherited, or with its command, the
\* command's output and status.
LEMMA ChildEnds ==
  ASSUME CallInv, NEW k \in Call, child[k].state \in {"dup2", "exec", "running"},
         NEW what \in SUBSET File, NEW code \in Nat,
         child' = [child EXCEPT ![k].state = "ended", ![k].status = code],
         WriteTo(child[k].stdout, what),
         \/ /\ code = Exited(-1) /\ what \subseteq {Text}
            /\ \/ child[k].stdout \in {Closed, fds[1]}
               \/ child[k].stdout = k /\ redirect[k] /\ command[k] = "missing"
         \/ /\ code = StatusOf(command[k]) /\ what = {k}
            /\ child[k].stdout = Output(k),
         UNCHANGED <<pc, call, command, redirect, result, fds, fd, buffered, interrupted>>
  PROVE  CallInv'
<1>1. CallTypes /\ NotYet /\ Statuses /\ Stdouts
      /\ TrueMeansItsCommandSucceeded /\ OutputGoesToItsFile
  BY DEF CallInv
<1>2. /\ Forked(k) /\ Begun(k) /\ command[k] \in Command /\ command[k] # "NULL"
      /\ child \in [Call -> ChildRecord]
      /\ child[k].stdout \in {Closed, k, fds[1]}
  BY <1>1, ChildFacts, OutputIs
<1>3. /\ child' \in [Call -> ChildRecord]
      /\ child'[k].state = "ended" /\ child'[k].status = code
      /\ \A j \in Call : j # k => child'[j] = child[j]
  <2>1. child \in [Call -> ChildRecord]
    BY <1>2, Zenon
  <2>. DEFINE ended == [child[k] EXCEPT !.state = "ended", !.status = code]
  <2>2. ended \in ChildRecord /\ ended.state = "ended" /\ ended.status = code
    BY <2>1 DEF State, ChildRecord
  <2>3. child' = [child EXCEPT ![k] = ended]
    BY <2>1
  <2>. HIDE DEF ended
  <2>4. /\ child' \in [Call -> ChildRecord] /\ child'[k] = ended
        /\ \A j \in Call : j # k => child'[j] = child[j]
    BY <2>1, <2>2, <2>3
  <2>. QED BY <2>2, <2>4, Zenon
<1>4. /\ written' \in [File -> SUBSET File]
      /\ \A f \in File : written'[f] = IF f = child[k].stdout THEN written[f] \cup what
                                                              ELSE written[f]
  <2>1. child[k].stdout \in File \cup {Closed}
    BY <1>2 DEF ChildRecord
  <2>. QED BY <1>1, <2>1, WriteToValue
<1>5. CallTypes'
  BY <1>1, <1>3, <1>4 DEF CallTypes
<1>6. NotYet'
  <2>. SUFFICES ASSUME NEW j \in Call
                PROVE  /\ ~Begun(j) => written'[j] = {} /\ fds[1] # j
                       /\ ~Forked(j) => /\ child'[j].state = "none"
                                        /\ \A f \in File : j \notin written'[f]
                       /\ Begun(j) /\ child'[j].state # "none" => command[j] # "NULL"
                       /\ j = call /\ pc # "idle" => command[j] # "NULL"
                       /\ j >= call => result[j] = "none" /\ child'[j].state # "reaped"
    BY DEF NotYet, Begun, Forked
  <2>1. ~Begun(j) => written'[j] = {} /\ fds[1] # j
    BY <1>1, <1>2, <1>4, FileFacts DEF NotYet
  <2>2. ~Forked(j) => child'[j].state = "none" /\ \A f \in File : j \notin written'[f]
    BY <1>1, <1>2, <1>3, <1>4, FileFacts DEF NotYet
  <2>3. /\ Begun(j) /\ child'[j].state # "none" => command[j] # "NULL"
        /\ j = call /\ pc # "idle" => command[j] # "NULL"
        /\ j >= call => result[j] = "none" /\ child'[j].state # "reaped"
    BY <1>1, <1>2, <1>3 DEF NotYet
  <2>. QED BY <2>1, <2>2, <2>3
<1>7. \A j \in Call : Inherited(j)' = Inherited(j) /\ Output(j)' = Output(j)
  BY SameOutput
<1>8. Statuses' /\ Stdouts'
  BY <1>1, <1>3, <1>7 DEF Statuses, Stdouts
<1>9. TrueMeansItsCommandSucceeded'
  BY <1>1, <1>3 DEF TrueMeansItsCommandSucceeded
<1>10. /\ Ran(k)' <=> code # Exited(-1)
       /\ ~Ran(k)
       /\ \A j \in Call : j # k => (Ran(j)' <=> Ran(j))
  <2>1. StatusOf(command[k]) # Exited(-1)
    BY <1>2, NotRun
  <2>. QED BY <1>3, <2>1 DEF Ran
<1>11. ASSUME NEW j \in Call, NEW f \in File
       PROVE  j \in written'[f] <=> Ran(j)' /\ f = Output(j)
  <2>1. j \in written[f] <=> Ran(j) /\ f = Output(j)
    BY <1>1 DEF OutputGoesToItsFile
  <2>2. j # Text
    BY FileFacts
  <2>3. CASE j = k
    <3>1. CASE code = Exited(-1) /\ what \subseteq {Text}
      BY <1>4, <1>10, <2>1, <2>2, <2>3, <3>1
    <3>2. CASE code = StatusOf(command[k]) /\ what = {k} /\ child[k].stdout = Output(k)
      <4>1. Ran(k)'
        BY <1>2, <1>10, <3>2, NotRun
      <4>. QED BY <1>4, <1>10, <2>1, <2>3, <3>2, <4>1
    <3>. QED BY <3>1, <3>2
  <2>4. CASE j # k
    <3>1. j \notin what
      BY <2>2, <2>4
    <3>. QED BY <1>4, <1>10, <2>1, <2>4, <3>1
  <2>. QED BY <2>3, <2>4
<1>12. ASSUME NEW j \in Call, Text \in written'[j]
       PROVE  fds[1] = j \/ (redirect[j] /\ command[j] = "missing")
  <2>1. CASE Text \in written[j]
    BY <1>1, <2>1 DEF OutputGoesToItsFile
  <2>2. CASE j = child[k].stdout /\ Text \in what
    BY <2>2, FileFacts
  <2>. QED BY <1>4, <1>12, <2>1, <2>2, FileFacts
<1>13. OutputGoesToItsFile'
  BY <1>7, <1>11, <1>12 DEF OutputGoesToItsFile
<1>. QED BY <1>5, <1>6, <1>8, <1>9, <1>13 DEF CallInv

LEMMA RunsStep ==
  ASSUME CallInv, NEW k \in Call, Runs(k)
  PROVE  CallInv'
<1>1. child[k].state = "running" /\ child[k].stdout = Output(k)
  BY DEF CallInv, Stdouts, Runs
<1>2. {k} \in SUBSET File /\ StatusOf(command[k]) \in Nat
  BY <1>1, ChildFacts, StatusType, FileFacts
<1>. QED BY <1>1, <1>2, ChildEnds, FileFacts DEF Runs

\* exit writes the text the child inherited to the stdout it had by then.
LEMMA ExitStep ==
  ASSUME CallInv, NEW k \in Call, Exit(k),
         \/ child[k].state = "dup2"
         \/ child[k].state = "exec" /\ command[k] = "missing"
  PROVE  CallInv'
<1>1. \/ child[k].stdout \in {Closed, fds[1]}
      \/ child[k].stdout = k /\ redirect[k] /\ command[k] = "missing"
  <2>1. /\ child[k].state = "dup2" => child[k].stdout = Inherited(k)
        /\ child[k].state = "exec" => child[k].stdout = Output(k)
    BY DEF CallInv, Stdouts
  <2>2. /\ Inherited(k) \in {Closed, fds[1]}
        /\ redirect[k] => Output(k) \in {Closed, k}
        /\ ~redirect[k] => Output(k) \in {Closed, fds[1]}
    BY OutputIs DEF CallInv
  <2>. QED BY <2>1, <2>2
<1>2. Exited(-1) \in Nat /\ child[k].buffered \in BOOLEAN
  BY ChildFacts, StatusValues DEF ChildRecord
<1>. DEFINE what == TextOf(child[k].buffered)
<1>3. what \in SUBSET File /\ what \subseteq {Text}
  BY <1>2, TextOfType
<1>. HIDE DEF what
<1>4. child' = [child EXCEPT ![k].state = "ended", ![k].status = Exited(-1)]
      /\ WriteTo(child[k].stdout, what)
  BY DEF Exit, what
<1>. QED BY <1>1, <1>2, <1>3, <1>4, ChildEnds DEF Exit

-----------------------------------------------------------------------------
(* The theorems *)

LEMMA CallNextInv == CallInv /\ [Next]_vars => CallInv'
<1>. SUFFICES ASSUME CallInv, [Next]_vars PROVE CallInv'
  OBVIOUS
<1>1. CASE Printf \/ Fflush
  BY <1>1, PrintfStep, FflushStep
<1>2. ASSUME NEW c \in Command, DoSystem(c) \/ DoExec(c) \/ DoExecRedirect(c) \/ OpenFails(c)
      PROVE  CallInv'
  <2>1. CASE OpenFails(c)
    <3>1. /\ Begin(c, TRUE) /\ Return(FALSE)
          /\ UNCHANGED <<fds, fd, buffered, child, written>>
      BY <2>1 DEF OpenFails
    <3>. QED BY <3>1, CallFails
  <2>. QED BY <1>2, <2>1, DoSystemStep, DoExecStep, DoExecRedirectStep
<1>3. CASE Fork
  BY <1>3, ForkStep
<1>4. CASE ForkFails \/ WaitpidFails
  <2>1. /\ pc # "idle" /\ Return(FALSE)
        /\ UNCHANGED <<command, redirect, fds, fd, buffered, child, written>>
    BY <1>4 DEF ForkFails, WaitpidFails
  <2>. QED BY <2>1, GivesUp
<1>5. CASE Waitpid
  BY <1>5, WaitpidStep
<1>6. ASSUME NEW k \in Call, Child(k) \/ Dup2Fails(k)
      PROVE  CallInv'
  <2>1. CASE Dup2(k) \/ Execv(k) \/ Runs(k)
    BY <2>1, Dup2Step, ExecvStep, RunsStep
  <2>2. CASE ExecvFails(k) \/ Dup2Fails(k)
    <3>1. /\ Exit(k)
          /\ \/ child[k].state = "dup2"
             \/ child[k].state = "exec" /\ command[k] = "missing"
      BY <2>2 DEF ExecvFails, Dup2Fails
    <3>. QED BY <3>1, ExitStep
  <2>. QED BY <1>6, <2>1, <2>2 DEF Child
<1>7. CASE UNCHANGED vars
  <2>1. CallTypes' /\ NotYet'
    BY <1>7 DEF CallInv, CallTypes, NotYet, Begun, Forked, vars
  <2>. QED BY <1>7, <2>1, CallFrame DEF CallInv, vars
<1>. QED BY <1>1, <1>2, <1>3, <1>4, <1>5, <1>6, <1>7 DEF Next

\* From any stdout, with any failures: each child's status and stdout come from the
\* call that forked it, also when waitpid was interrupted and nobody waits for it.
THEOREM CallSafety == Spec => []CallInv
BY CallInitInv, CallNextInv, PTL DEF Spec

\* do_system, do_exec and do_exec_redirect answer for their own command only.
THEOREM AnswersAreTrue == Spec => []TrueMeansItsCommandSucceeded
<1>1. CallInv => TrueMeansItsCommandSucceeded
  BY DEF CallInv
<1>. QED BY <1>1, CallSafety, PTL

\* What a command prints is in the file that do_exec_redirect gave it, or in the stdout
\* it inherited, and nowhere else; it is lost only where a stdout was missing at the start.
THEOREM OutputIsWhereItBelongs == Spec => []OutputGoesToItsFile
<1>1. CallInv => OutputGoesToItsFile
  BY DEF CallInv
<1>. QED BY <1>1, CallSafety, PTL

-----------------------------------------------------------------------------
(* finder-test.sh and the writer.  FinderApp is an instance, its variables *)
(* declared here: both programs have an Init, a Next and a Spec, and both  *)
(* a variable written (here texts) and one faults (here failures).  That   *)
(* MaxFiles is not 0, which FinderApp assumes, is a hypothesis.            *)

CONSTANTS MaxFiles, MaxRuns
VARIABLES content, writer, argc, writefile, status, caller, script, NUMFILES, i,
          file_count, line_match, verdict, texts, runs, failures
Finder == INSTANCE FinderApp WITH written <- texts, faults <- failures

FinderTypes ==
  /\ content \in [Finder!File -> {"absent", "empty", "part", "text"}]
  /\ writer \in {"none", "main", "write", "close"}
  /\ argc \in 1..3 /\ writefile \in Finder!File
  /\ script \in {"start", "loop", "wait", "compare"}
  /\ texts \subseteq Finder!File
  /\ script # "start" => NUMFILES \in Finder!File /\ i \in 1..NUMFILES + 1

\* The writer at work: nobody touches its file but itself.
AtWork ==
  /\ writer = "write" => content[writefile] = "empty"
  /\ writer = "close" => argc = 3 /\ content[writefile] \in {"part", "text"}
  /\ script \in {"loop", "compare"} => writer = "none"
  /\ script = "wait" => i <= NUMFILES
  /\ script = "wait" /\ writer # "none" => caller = "script" /\ argc = 3 /\ writefile = i

\* A run of the script so far: which files are there, and which got the text.
SoFar ==
  /\ script \in {"loop", "wait"} => texts = {f \in Finder!File : content[f] = "text"}
  /\ script = "loop" => \A f \in Finder!File : content[f] # "absent" <=> f < i
  /\ script = "wait" =>
       /\ \A f \in Finder!File : f # i => (content[f] # "absent" <=> f < i)
       /\ writer = "main" => content[i] = "absent"
       /\ writer = "none" /\ status = 0 => content[i] # "absent"

\* finder.sh found every file there, and as many lines as files got the text.
Counted ==
  script = "compare" =>
    file_count = NUMFILES /\ texts \subseteq 1..NUMFILES /\ line_match = Cardinality(texts)

FinderInv == FinderTypes /\ AtWork /\ SoFar /\ Counted

\* The instance counts as this module does.
LEMMA SameCardinality == \A S : Finder!Cardinality(S) = Cardinality(S)
BY Zenon DEF Finder!Cardinality, Cardinality

LEMMA FinderInitInv ==
  ASSUME MaxFiles \in Nat \ {0}, Finder!Init
  PROVE  FinderInv
<1>1. /\ content \in [Finder!File -> {"absent", "empty", "part", "text"}]
      /\ writer = "none" /\ argc = 3 /\ writefile \in Finder!File
      /\ script = "start" /\ texts = {}
  BY DEF Finder!Init, Finder!File
<1>. QED BY <1>1 DEF FinderInv, FinderTypes, AtWork, SoFar, Counted

\* What a step of the writer may do to the file it was given, and to no other.
LEMMA WriterSteps ==
  ASSUME FinderInv, Finder!Writer
  PROVE  /\ writer # "none" /\ UNCHANGED <<argc, writefile, caller, script, NUMFILES, i,
                                           file_count, line_match, verdict, runs>>
         /\ texts' = texts \cup {f \in {writefile} : content'[f] = "text" /\ caller = "script"}
         /\ \/ /\ writer = "main" /\ writer' = "none" /\ status' = 1 /\ content' = content
            \/ /\ writer = "main" /\ writer' = "write" /\ UNCHANGED status
               /\ content' = [content EXCEPT ![writefile] = "empty"]
            \/ /\ writer = "write" /\ argc = 2 /\ writer' = "none" /\ status' = -1
               /\ content' = content
            \/ /\ writer = "write" /\ argc = 3 /\ writer' = "close" /\ UNCHANGED status
               /\ \E what \in {"part", "text"} :
                     content' = [content EXCEPT ![writefile] = what]
            \/ /\ writer = "write" /\ argc = 3 /\ writer' = "none" /\ status' = 1
               /\ content' = content
            \/ /\ writer = "close" /\ writer' = "none" /\ status' = 0 /\ content' = content
<1>1. argc \in 1..3
  BY DEF FinderInv, FinderTypes
<1>2. CASE Finder!TooFewArguments
  BY <1>2 DEF Finder!TooFewArguments, Finder!Return, Finder!Writer, Finder!counts
<1>3. CASE Finder!Open
  BY <1>3 DEF Finder!Open, Finder!Return, Finder!Continue, Finder!Holds, Finder!Writer,
              Finder!counts
<1>4. CASE Finder!WriteNull
  BY <1>4 DEF Finder!WriteNull, Finder!Return, Finder!Writer, Finder!counts
<1>5. CASE Finder!Write
  <2>1. argc = 3
    BY <1>1, <1>5 DEF Finder!Write
  <2>. QED BY <1>5, <2>1 DEF Finder!Write, Finder!Return, Finder!Continue, Finder!Holds,
                             Finder!Writer, Finder!counts
<1>6. CASE Finder!Close
  BY <1>6 DEF Finder!Close, Finder!Return, Finder!Writer, Finder!counts
<1>. QED BY <1>2, <1>3, <1>4, <1>5, <1>6 DEF Finder!Writer

LEMMA WriterInv ==
  ASSUME MaxFiles \in Nat \ {0}, FinderInv, Finder!Writer
  PROVE  FinderInv'
<1>1. FinderTypes /\ AtWork /\ SoFar /\ Counted
  BY DEF FinderInv
<1>2. /\ writer # "none" /\ UNCHANGED <<argc, writefile, caller, script, NUMFILES, i,
                                        file_count, line_match>>
      /\ texts' = texts \cup {f \in {writefile} : content'[f] = "text" /\ caller = "script"}
  BY WriterSteps
<1>3. /\ script \in {"start", "wait"}
      /\ script = "wait" => writefile = i /\ i \in Finder!File /\ caller = "script"
      /\ content \in [Finder!File -> {"absent", "empty", "part", "text"}]
      /\ writefile \in Finder!File
  BY <1>1, <1>2 DEF FinderTypes, AtWork
<1>4. Counted'
  BY <1>2, <1>3 DEF Counted
<1>5. CASE content' = content /\ writer' = "none"
           /\ (status' = 0 => writer = "close")
  <2>1. FinderTypes' /\ AtWork'
    BY <1>1, <1>2, <1>3, <1>5 DEF FinderTypes, AtWork
  <2>2. SoFar'
    BY <1>1, <1>2, <1>3, <1>5 DEF SoFar, AtWork
  <2>. QED BY <1>4, <2>1, <2>2 DEF FinderInv
<1>6. CASE writer = "main" /\ writer' = "write"
           /\ content' = [content EXCEPT ![writefile] = "empty"]
  <2>1. FinderTypes' /\ AtWork'
    BY <1>1, <1>2, <1>3, <1>6 DEF FinderTypes, AtWork
  <2>2. SoFar'
    BY <1>1, <1>2, <1>3, <1>6 DEF SoFar
  <2>. QED BY <1>4, <2>1, <2>2 DEF FinderInv
<1>7. ASSUME NEW what \in {"part", "text"},
             writer = "write", argc = 3, writer' = "close",
             content' = [content EXCEPT ![writefile] = what]
      PROVE  FinderInv'
  <2>1. FinderTypes' /\ AtWork'
    BY <1>1, <1>2, <1>3, <1>7 DEF FinderTypes, AtWork
  <2>2. content[writefile] = "empty"
    BY <1>1, <1>7 DEF AtWork
  <2>3. SoFar'
    BY <1>1, <1>2, <1>3, <1>7, <2>2 DEF SoFar
  <2>. QED BY <1>4, <2>1, <2>3 DEF FinderInv
<1>. QED BY <1>5, <1>6, <1>7, WriterSteps

\* A run of the script that starts, or fails to, finds no file of an earlier one.
LEMMA StartInv ==
  ASSUME MaxFiles \in Nat \ {0}, FinderInv,
         (\E n \in Finder!File : Finder!Clean(n)) \/ Finder!MkdirFails
  PROVE  FinderInv'
<1>1. FinderTypes
  BY DEF FinderInv
<1>2. /\ writer = "none" /\ UNCHANGED <<writer, argc, writefile, status, caller>>
      /\ content' = [f \in Finder!File |-> "absent"] /\ texts' = {}
      /\ \/ script' = "start"
         \/ script' = "loop" /\ i' = 1 /\ NUMFILES' \in Finder!File
  BY DEF Finder!Clean, Finder!MkdirFails, Finder!Goto, Finder!process
<1>3. FinderTypes'
  BY <1>1, <1>2 DEF FinderTypes, Finder!File
<1>4. AtWork' /\ Counted'
  BY <1>1, <1>2 DEF AtWork, Counted, FinderTypes
<1>5. SoFar'
  BY <1>2 DEF SoFar, Finder!File
<1>. QED BY <1>3, <1>4, <1>5 DEF FinderInv

LEMMA WriteFileInv ==
  ASSUME MaxFiles \in Nat \ {0}, FinderInv, Finder!WriteFile
  PROVE  FinderInv'
<1>1. FinderTypes /\ AtWork /\ SoFar /\ Counted
  BY DEF FinderInv
<1>2. /\ script = "loop" /\ script' = "wait" /\ i <= NUMFILES
      /\ writer = "none" /\ writer' = "main" /\ argc' = 3 /\ writefile' = i
      /\ caller' = "script" /\ UNCHANGED <<status, content, NUMFILES, i, texts>>
  BY DEF Finder!WriteFile, Finder!Goto, Finder!Run
<1>3. i \in Finder!File /\ i \in Nat
  BY <1>1, <1>2 DEF FinderTypes, Finder!File
<1>4. FinderTypes' /\ AtWork' /\ Counted'
  BY <1>1, <1>2, <1>3 DEF FinderTypes, AtWork, Counted
<1>5. SoFar'
  BY <1>1, <1>2, <1>3 DEF SoFar
<1>. QED BY <1>4, <1>5 DEF FinderInv

LEMMA NextFileInv ==
  ASSUME MaxFiles \in Nat \ {0}, FinderInv, Finder!NextFile
  PROVE  FinderInv'
<1>1. FinderTypes /\ AtWork /\ SoFar /\ Counted
  BY DEF FinderInv
<1>2. /\ script = "wait" /\ script' = "loop" /\ writer = "none" /\ status = 0 /\ i' = i + 1
      /\ UNCHANGED <<content, writer, argc, writefile, status, caller, NUMFILES, texts>>
  BY DEF Finder!NextFile, Finder!Goto, Finder!process
<1>3. i \in Nat /\ i <= NUMFILES /\ NUMFILES \in Nat /\ i + 1 \in 1..NUMFILES + 1
  BY <1>1, <1>2 DEF FinderTypes, AtWork, Finder!File
<1>4. FinderTypes' /\ AtWork' /\ Counted'
  BY <1>1, <1>2, <1>3 DEF FinderTypes, AtWork, Counted
<1>5. \A f \in Finder!File : (f < i + 1) <=> (f < i \/ f = i)
  BY <1>3 DEF Finder!File
<1>6. SoFar'
  BY <1>1, <1>2, <1>3, <1>5 DEF SoFar
<1>. QED BY <1>4, <1>6 DEF FinderInv

\* finder.sh counts when every file is there: those that got the text all match.
LEMMA FindInv ==
  ASSUME MaxFiles \in Nat \ {0}, FinderInv, Finder!Find
  PROVE  FinderInv'
<1>1. FinderTypes /\ AtWork /\ SoFar
  BY DEF FinderInv
<1>2. /\ script = "loop" /\ script' = "compare" /\ i > NUMFILES /\ writer = "none"
      /\ file_count' = Cardinality({f \in Finder!File : content[f] # "absent"})
      /\ line_match' = Cardinality({f \in Finder!File : content[f] = "text"})
      /\ content' = [f \in Finder!File |-> "absent"]
      /\ UNCHANGED <<writer, argc, writefile, status, caller, NUMFILES, i, texts>>
  <2>1. script = "loop" /\ script' = "compare" /\ i > NUMFILES /\ writer = "none"
    BY <1>1 DEF Finder!Find, Finder!Goto, AtWork
  <2>2. /\ file_count' = Cardinality({f \in Finder!File : content[f] # "absent"})
        /\ line_match' = Cardinality({f \in Finder!File : content[f] = "text"})
    BY SameCardinality, Zenon DEF Finder!Find, Finder!RegularFiles, Finder!MatchingLines,
                                  Finder!Present
  <2>3. /\ content' = [f \in Finder!File |-> "absent"]
        /\ UNCHANGED <<writer, argc, writefile, status, caller, NUMFILES, i, texts>>
    BY DEF Finder!Find, Finder!process
  <2>. QED BY <2>1, <2>2, <2>3
<1>3. NUMFILES \in Nat /\ NUMFILES <= MaxFiles /\ i = NUMFILES + 1 /\ NUMFILES > 0
  BY <1>1, <1>2 DEF FinderTypes, Finder!File
<1>4. {f \in Finder!File : content[f] # "absent"} = 1..NUMFILES
  BY <1>1, <1>2, <1>3 DEF SoFar, Finder!File
<1>5. texts = {f \in Finder!File : content[f] = "text"} /\ texts \subseteq 1..NUMFILES
  BY <1>1, <1>2, <1>4 DEF SoFar
<1>6. Cardinality(1..NUMFILES) = NUMFILES
  BY <1>3, FS_Interval
<1>7. Counted'
  BY <1>2, <1>4, <1>5, <1>6, Zenon DEF Counted
<1>8. FinderTypes' /\ AtWork' /\ SoFar'
  BY <1>1, <1>2 DEF FinderTypes, AtWork, SoFar
<1>. QED BY <1>7, <1>8 DEF FinderInv

\* The script ends, or a user runs the writer between its runs.
LEMMA BetweenInv ==
  ASSUME MaxFiles \in Nat \ {0}, FinderInv,
         \/ Finder!Abort \/ Finder!Compare
         \/ \E f \in Finder!File : \E n \in 1..3 : Finder!UserRuns(f, n)
  PROVE  FinderInv'
<1>1. FinderTypes /\ AtWork
  BY DEF FinderInv
<1>2. /\ writer = "none" /\ script' = "start" /\ UNCHANGED <<content, texts>>
      /\ \/ UNCHANGED <<writer, argc, writefile>>
         \/ writer' = "main" /\ argc' \in 1..3 /\ writefile' \in Finder!File
  BY <1>1 DEF Finder!Abort, Finder!Compare, Finder!UserRuns, Finder!Run, Finder!Goto,
              Finder!process, AtWork
<1>3. FinderTypes'
  BY <1>1, <1>2 DEF FinderTypes
<1>4. AtWork' /\ SoFar' /\ Counted'
  BY <1>2 DEF AtWork, SoFar, Counted
<1>. QED BY <1>3, <1>4 DEF FinderInv

LEMMA FinderNextInv ==
  ASSUME MaxFiles \in Nat \ {0}
  PROVE  FinderInv /\ [Finder!Next]_(Finder!vars) => FinderInv'
<1>. SUFFICES ASSUME FinderInv, [Finder!Next]_(Finder!vars) PROVE FinderInv'
  OBVIOUS
<1>1. CASE UNCHANGED Finder!vars
  BY <1>1 DEF Finder!vars, Finder!process, Finder!counts, FinderInv, FinderTypes, AtWork, SoFar,
              Counted
<1>2. CASE Finder!Next
  BY <1>2, WriterInv, StartInv, WriteFileInv, NextFileInv, FindInv, BetweenInv DEF Finder!Next
<1>. QED BY <1>1, <1>2

\* In every run of the script, after any that were aborted and any writers of users:
\* what is in the directory is what this run's writers left.
THEOREM FinderSafety ==
  ASSUME MaxFiles \in Nat \ {0}
  PROVE  Finder!Spec => []FinderInv
<1>1. Finder!Init => FinderInv
  BY FinderInitInv
<1>2. FinderInv /\ [Finder!Next]_(Finder!vars) => FinderInv'
  BY FinderNextInv
<1>. QED BY <1>1, <1>2, PTL DEF Finder!Spec

\* finder-test.sh says success exactly when each of its files got the whole text.
THEOREM SuccessIsDeserved ==
  ASSUME MaxFiles \in Nat \ {0}
  PROVE  Finder!Spec => Finder!SuccessMeansAllWritten
<1>1. ASSUME FinderInv, [Finder!Next]_(Finder!vars)
      PROVE  [Finder!Goto("compare", "start") =>
                (verdict' = "success" <=> texts = 1..NUMFILES)]_(Finder!vars)
  <2>. SUFFICES ASSUME Finder!Next, script = "compare", script' = "start"
                PROVE  verdict' = "success" <=> texts = 1..NUMFILES
    BY <1>1 DEF Finder!Goto
  <2>1. FinderTypes /\ AtWork /\ Counted
    BY <1>1 DEF FinderInv
  <2>2. ~Finder!Writer
    BY <1>1, WriterSteps
  <2>3. Finder!Compare
    BY <2>2 DEF Finder!Next, Finder!UserRuns, Finder!Clean, Finder!MkdirFails, Finder!WriteFile,
                Finder!NextFile, Finder!Abort, Finder!Find, Finder!Goto
  <2>4. verdict' = "success" <=> Cardinality(texts) = NUMFILES
    BY <2>1, <2>3 DEF Finder!Compare, Counted
  <2>5. NUMFILES \in Nat /\ texts \in SUBSET (1..NUMFILES)
    BY <2>1 DEF FinderTypes, Counted, Finder!File
  <2>6. IsFiniteSet(1..NUMFILES) /\ Cardinality(1..NUMFILES) = NUMFILES
    BY <2>5, FS_Interval
  <2>7. Cardinality(texts) = NUMFILES => texts = 1..NUMFILES
    BY <2>5, <2>6, FS_Subset
  <2>. QED BY <2>4, <2>6, <2>7
<1>. QED BY <1>1, FinderSafety, PTL DEF Finder!Spec, Finder!SuccessMeansAllWritten

\* Exit status 0 of the writer means the file holds the text, or a part of it.
THEOREM ZeroIsDeserved ==
  ASSUME MaxFiles \in Nat \ {0}
  PROVE  Finder!Spec => Finder!ZeroMeansWritten
<1>1. ASSUME FinderInv, [Finder!Next]_(Finder!vars)
      PROVE  [writer # "none" /\ writer' = "none" /\ status' = 0 =>
                argc = 3 /\ content'[writefile] \in {"part", "text"}]_(Finder!vars)
  <2>. SUFFICES ASSUME Finder!Next, writer # "none", writer' = "none", status' = 0
                PROVE  argc = 3 /\ content'[writefile] \in {"part", "text"}
    BY <1>1
  <2>1. FinderTypes /\ AtWork
    BY <1>1 DEF FinderInv
  <2>2. Finder!Writer
    BY <2>1 DEF Finder!Next, Finder!UserRuns, Finder!Run, Finder!Clean, Finder!MkdirFails,
                Finder!WriteFile, Finder!NextFile, Finder!Abort, Finder!Find, Finder!Compare,
                Finder!Goto, Finder!process, AtWork
  <2>3. writer = "close" /\ content' = content
    BY <1>1, <2>2, WriterSteps
  <2>. QED BY <2>1, <2>3 DEF AtWork
<1>. QED BY <1>1, FinderSafety, PTL DEF Finder!Spec, Finder!ZeroMeansWritten
=============================================================================
