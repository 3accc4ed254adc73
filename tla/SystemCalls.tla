---------------------------- MODULE SystemCalls ----------------------------
(***************************************************************************)
(* examples/systemcalls/systemcalls.c: a program runs commands, one call   *)
(* after the other, with do_system, do_exec and do_exec_redirect.  A call  *)
(* forks a child, the child runs the command, and the call waits for it;   *)
(* a child whose call was interrupted lives on beside the next calls.      *)
(*                                                                         *)
(* The kernel's part (descriptor table, fork, wait status) and stdio's (a  *)
(* buffer that fork copies and exit flushes) are what the code relies on.  *)
(* A file is the set of things written to it: the program's own text, or   *)
(* the output of the command of a call.  Each redirect has a file of its   *)
(* own.                                                                    *)
(***************************************************************************)
EXTENDS Integers, FiniteSetsExt

CONSTANTS
  MaxCalls,        \* bound: calls the program makes
  MaxFd,           \* the largest descriptor a process may have
  ClosedAtStart,   \* whether the program may be started without a stdout
  MaxFaults        \* bound: failures of open, fork, dup2, waitpid and system

ASSUME SizeAssumption == MaxCalls \in Nat /\ MaxFd \in Nat \ {0, 1} /\ MaxFaults \in Nat
ASSUME StdoutAssumption == ClosedAtStart \in BOOLEAN

VARIABLES
  pc,              \* where the program is: "idle" between calls
  call,            \* the number of its call
  command, redirect, result,  \* of each call: the command, whether redirected, the answer
  fds,             \* what each descriptor of the program is
  fd,              \* the local variable of do_exec_redirect
  buffered,        \* the program printed text that stdio did not write yet
  child,           \* the child of each call
  written,         \* what each file holds
  interrupted,     \* calls whose waitpid failed
  faults

vars == <<pc, call, command, redirect, result, fds, fd, buffered, child, written,
          interrupted, faults>>

Call == 1..MaxCalls
Command == {"succeeds", "fails", "killed", "missing", "NULL"}
\* Files are numbered: that of call k is k.
Terminal == 0
File == Call \cup {Terminal}
Closed == -1
Text == 0          \* what the program prints; k is the output of the command of call k

\* The wait status the kernel and the shell report, and its macros.
Exited(code) == (code % 256) * 256
Signaled(signal) == signal
WIFEXITED(status) == status % 128 = 0
WEXITSTATUS(status) == (status \div 256) % 256
StatusOf(c) == CASE c = "succeeds" -> Exited(0)
                 [] c = "fails" -> Exited(1)
                 [] c = "killed" -> Signaled(9)
                 [] c = "missing" -> Exited(127)

NoChild == [state |-> "none", stdout |-> Closed, buffered |-> FALSE, status |-> 0]

Init ==
  /\ pc = "idle" /\ call = 1
  /\ command = [k \in Call |-> "NULL"]
  /\ redirect = [k \in Call |-> FALSE]
  /\ result = [k \in Call |-> "none"]
  /\ \E stdout \in {Terminal} \cup IF ClosedAtStart THEN {Closed} ELSE {} :
        fds = [n \in 0..MaxFd |-> CASE n = 1 -> stdout
                                    [] n \in {0, 2} -> Terminal
                                    [] OTHER -> Closed]
  /\ fd = 0
  /\ buffered = FALSE
  /\ child = [k \in Call |-> NoChild]
  /\ written = [f \in File |-> {}]
  /\ interrupted = {}
  /\ faults = 0

Fault == faults < MaxFaults /\ faults' = faults + 1
WriteTo(file, what) ==
  written' = IF file = Closed THEN written ELSE [written EXCEPT ![file] = @ \cup what]
TextOf(unflushed) == IF unflushed THEN {Text} ELSE {}

\* The call returns.
Return(answer) ==
  /\ pc' = "idle" /\ call' = call + 1
  /\ result' = [result EXCEPT ![call] = IF answer THEN "true" ELSE "false"]

-----------------------------------------------------------------------------
(* The program between calls *)

Printf ==
  /\ pc = "idle" /\ ~buffered /\ buffered' = TRUE
  /\ UNCHANGED <<pc, call, command, redirect, result, fds, fd, child, written, interrupted,
                 faults>>

Fflush ==
  /\ pc = "idle" /\ buffered /\ buffered' = FALSE
  /\ WriteTo(fds[1], {Text})
  /\ UNCHANGED <<pc, call, command, redirect, result, fds, fd, child, interrupted, faults>>

-----------------------------------------------------------------------------
(* The calls, up to the fork *)

Begin(c, redirected) ==
  /\ pc = "idle" /\ call \in Call
  /\ command' = [command EXCEPT ![call] = c]
  /\ redirect' = [redirect EXCEPT ![call] = redirected]

\* Mutant of Succeeded: the status is not asked whether the command exited.
SucceededIfCodeZero(status) == WEXITSTATUS(status) = 0

Succeeded(status) == WIFEXITED(status) /\ WEXITSTATUS(status) = 0

\* system forks, runs the command with a shell and waits for it, or returns -1.
DoSystem(c) ==
  /\ Begin(c, FALSE)
  /\ \/ /\ c # "NULL"
        /\ child' = [child EXCEPT ![call] = [NoChild EXCEPT !.state = "reaped",
                                                            !.status = StatusOf(c)]]
        /\ Return(Succeeded(StatusOf(c)))
        /\ WriteTo(fds[1], {call})
        /\ UNCHANGED faults
     \/ /\ \/ c = "NULL" /\ UNCHANGED faults
           \/ c # "NULL" /\ Fault
        /\ Return(FALSE)
        /\ UNCHANGED <<child, written>>
  /\ UNCHANGED <<fds, fd, buffered, interrupted>>

DoExec(c) ==
  /\ Begin(c, FALSE)
  /\ c # "NULL"
  /\ pc' = "fork"
  /\ UNCHANGED <<call, result, fds, fd, buffered, child, written, interrupted, faults>>

Free == {n \in 0..MaxFd : fds[n] = Closed}

\* do_exec_redirect creates the file first, at the lowest free descriptor.
DoExecRedirect(c) ==
  /\ Begin(c, TRUE)
  /\ c # "NULL"
  /\ Free # {}
  /\ fd' = Min(Free)
  /\ fds' = [fds EXCEPT ![Min(Free)] = call]
  /\ written' = [written EXCEPT ![call] = {}]
  /\ pc' = "fork"
  /\ UNCHANGED <<call, result, buffered, child, interrupted, faults>>

OpenFails(c) ==
  /\ Begin(c, TRUE)
  /\ c # "NULL"
  /\ \/ Free = {} /\ UNCHANGED faults
     \/ Free # {} /\ Fault
  /\ Return(FALSE)
  /\ UNCHANGED <<fds, fd, buffered, child, written, interrupted>>

\* The child has the program's descriptors and a copy of its stdio buffer.
Fork ==
  /\ pc = "fork" /\ pc' = "wait"
  /\ child' = [child EXCEPT ![call] =
        [state |-> IF redirect[call] THEN "dup2" ELSE "exec",
         stdout |-> fds[1], buffered |-> buffered, status |-> 0]]
  /\ UNCHANGED <<call, command, redirect, result, fds, fd, buffered, written, interrupted,
                 faults>>

\* fd stays open.  (No path of the program closes it.)
ForkFails ==
  /\ pc = "fork"
  /\ Fault
  /\ Return(FALSE)
  /\ UNCHANGED <<command, redirect, fds, fd, buffered, child, written, interrupted>>

-----------------------------------------------------------------------------
(* The child of call k *)

\* Mutant of Dup2: the arguments of dup2 are swapped.
Dup2Swapped(k) ==
  /\ child[k].state = "dup2"
  /\ child' = [child EXCEPT ![k].state = "exec"]
  /\ UNCHANGED <<pc, call, command, redirect, result, fds, fd, buffered, written,
                 interrupted, faults>>

\* dup2(fd, 1) and close(fd).  When fd is 1 already, dup2 does nothing, and
\* close leaves the child without a stdout.
Dup2(k) ==
  /\ child[k].state = "dup2"
  /\ child' = [child EXCEPT ![k].state = "exec",
                            ![k].stdout = IF @ = k THEN Closed ELSE k]
  /\ UNCHANGED <<pc, call, command, redirect, result, fds, fd, buffered, written,
                 interrupted, faults>>

\* exit(-1) writes what the child inherited in its stdio buffer.
Exit(k) ==
  /\ child' = [child EXCEPT ![k].state = "ended", ![k].status = Exited(-1)]
  /\ WriteTo(child[k].stdout, TextOf(child[k].buffered))
  /\ UNCHANGED <<pc, call, command, redirect, result, fds, fd, buffered, interrupted>>

Dup2Fails(k) == child[k].state = "dup2" /\ Fault /\ Exit(k)

\* execv succeeds: the stdio buffer is gone with the program's memory.
Execv(k) ==
  /\ child[k].state = "exec" /\ command[k] # "missing"
  /\ child' = [child EXCEPT ![k].state = "running", ![k].buffered = FALSE]
  /\ UNCHANGED <<pc, call, command, redirect, result, fds, fd, buffered, written,
                 interrupted, faults>>

ExecvFails(k) ==
  /\ child[k].state = "exec" /\ command[k] = "missing"
  /\ Exit(k)
  /\ UNCHANGED faults

\* The command writes its output and ends.
Runs(k) ==
  /\ child[k].state = "running"
  /\ child' = [child EXCEPT ![k].state = "ended", ![k].status = StatusOf(command[k])]
  /\ WriteTo(child[k].stdout, {k})
  /\ UNCHANGED <<pc, call, command, redirect, result, fds, fd, buffered, interrupted,
                 faults>>

-----------------------------------------------------------------------------
(* The calls, after the fork *)

Reap(k) ==
  /\ child[k].state = "ended"
  /\ child' = [child EXCEPT ![k].state = "reaped"]
  /\ Return(Succeeded(child[k].status))
  /\ UNCHANGED <<command, redirect, fds, fd, buffered, written, interrupted, faults>>

\* Mutant of Waitpid: any child will do.
WaitForAny == pc = "wait" /\ \E k \in 1..call : Reap(k)

Waitpid == pc = "wait" /\ Reap(call)

\* waitpid is interrupted: the call gives up the child, which nobody reaps.
WaitpidFails ==
  /\ pc = "wait"
  /\ Fault
  /\ interrupted' = interrupted \cup {call}
  /\ Return(FALSE)
  /\ UNCHANGED <<command, redirect, fds, fd, buffered, child, written>>

Child(k) == Dup2(k) \/ Execv(k) \/ ExecvFails(k) \/ Runs(k)

Next ==
  \/ Printf \/ Fflush
  \/ \E c \in Command : DoSystem(c) \/ DoExec(c) \/ DoExecRedirect(c) \/ OpenFails(c)
  \/ Fork \/ ForkFails \/ Waitpid \/ WaitpidFails
  \/ \E k \in Call : Child(k) \/ Dup2Fails(k)

Spec == Init /\ [][Next]_vars

\* The program and its children are scheduled, and commands end.
FairSpec == Spec /\ WF_vars(Fork \/ Waitpid) /\ \A k \in Call : WF_vars(Child(k))

-----------------------------------------------------------------------------
(* Properties *)

\* A call answers true exactly when its own command ran and exited with 0: not
\* for a command that was killed or does not exist, not by the status of the
\* child that an earlier, interrupted call left behind.
TrueMeansItsCommandSucceeded ==
  \A k \in Call :
     result[k] = "true" <=>
        /\ command[k] = "succeeds" /\ child[k].state = "reaped"
        /\ child[k].status = Exited(0)

\* The stdout call k forks its child with (one that a later call opened came too late),
\* where the output of its command goes, and whether the command ran to its end.
Inherited(k) == IF fds[1] > k THEN Closed ELSE fds[1]
Output(k) ==
  IF redirect[k] THEN IF fds[1] = k THEN Closed ELSE k
                 ELSE Inherited(k)
Ran(k) == child[k].state \in {"ended", "reaped"} /\ child[k].status = StatusOf(command[k])

\* The output of every command that ran, and of no other, is in the file of its call
\* when that was redirected, in the program's stdout when it was not, and nowhere else.
\* What the program printed itself is in the file of a redirect only from a child that
\* could not execute its command.  In a program that has a stdout no output is lost.  In
\* one that was started without, the first file that is opened takes its place: it has
\* the output of all later calls that are not redirected, and its own command none, for
\* the child has closed descriptor 1.
OutputGoesToItsFile ==
  /\ \A k \in Call, f \in File : k \in written[f] <=> Ran(k) /\ f = Output(k)
  /\ \A k \in Call : Text \in written[k] => fds[1] = k \/ (redirect[k] /\ command[k] = "missing")

\* Every call returns, if commands end; and leaves no child behind, unless its
\* waitpid failed.
CallsReturn ==
  \A k \in Call : (call = k /\ pc = "wait") ~>
     call > k /\ (child[k].state = "reaped" \/ k \in interrupted)
=============================================================================
