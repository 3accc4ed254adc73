----------------------------- MODULE Threading -----------------------------
(***************************************************************************)
(* examples/threading/threading.c: start_thread_obtaining_mutex allocates  *)
(* a thread_data and starts threadfunc on it, which sleeps, takes the      *)
(* caller's mutex, sleeps again and releases it.  The thread returns its   *)
(* thread_data, which the caller that joins it frees.                      *)
(*                                                                         *)
(* The caller is external: any program that uses threading.h as it says,   *)
(* and may lock the mutex itself.                                          *)
(***************************************************************************)
EXTENDS Integers

CONSTANTS
  Thread,          \* the calls of start_thread_obtaining_mutex, one thread each
  WaitTimes,       \* milliseconds a caller may ask for
  Ticks,           \* milliseconds a sleep may last before a signal ends it
  Caller, Nobody,  \* other holders of the mutex
  MaxInterrupts,   \* bound: signals that interrupt a sleep
  MaxFaults,       \* bound: failures of malloc, pthread_create, lock and unlock
  MaxCallerLocks   \* bound: times the caller locks the mutex

ASSUME HolderAssumption == Caller # Nobody /\ {Caller, Nobody} \cap Thread = {}
ASSUME TimeAssumption == WaitTimes \subseteq Int /\ Ticks \subseteq Nat
ASSUME BoundAssumption == {MaxInterrupts, MaxFaults, MaxCallerLocks} \subseteq Nat

VARIABLES
  pc,              \* where each thread is; "none": not created
  data,            \* its thread_data
  allocated,       \* threads whose thread_data was allocated and not freed
  started,         \* what start_thread_obtaining_mutex returned, by call
  spec,            \* the two struct timespec of a thread, by name
  request,         \* the name of the one that *a is
  mutex,           \* who holds it
  slept,           \* history: milliseconds of the current wait slept so far
  interrupts, faults, callerLocks

vars == <<pc, data, allocated, started, spec, request, mutex, slept, interrupts,
          faults, callerLocks>>

Timespec == [sec : Nat, nsec : Nat]
Other(name) == IF name = "req" THEN "rem" ELSE "req"

ToTimespec(ms) == [sec |-> ms \div 1000, nsec |-> (ms % 1000) * 1000000]
Milliseconds(ts) == ts.sec * 1000 + ts.nsec \div 1000000

\* nanosleep refuses other requests (EINVAL).
Valid(ts) == 0 <= ts.nsec /\ ts.nsec <= 999999999

Init ==
  /\ pc = [t \in Thread |-> "none"]
  /\ data = [t \in Thread |-> [obtain_ms |-> 0, release_ms |-> 0,
                               thread_complete_success |-> FALSE]]
  /\ allocated = {}
  /\ started = [t \in Thread |-> "not called"]
  /\ spec = [t \in Thread |-> [req |-> ToTimespec(0), rem |-> ToTimespec(0)]]
  /\ request = [t \in Thread |-> "req"]
  /\ mutex = Nobody
  /\ slept = [t \in Thread |-> 0]
  /\ interrupts = 0 /\ faults = 0 /\ callerLocks = 0

Goto(t, from, to) == pc[t] = from /\ pc' = [pc EXCEPT ![t] = to]
Fault == faults < MaxFaults /\ faults' = faults + 1

-----------------------------------------------------------------------------
(* The caller *)

Returns(t, result) == started[t] = "not called" /\ started' = [started EXCEPT ![t] = result]

\* A negative wait or a failed malloc: nothing is left behind.
StartRefused(t, obtain, release) ==
  /\ Returns(t, "false")
  /\ \/ (obtain < 0 \/ release < 0) /\ UNCHANGED faults
     \/ obtain >= 0 /\ release >= 0 /\ Fault
  /\ UNCHANGED <<pc, data, allocated, spec, request, mutex, slept, interrupts, callerLocks>>

Allocate(t, obtain, release) ==
  /\ obtain >= 0 /\ release >= 0
  /\ allocated' = allocated \cup {t}
  /\ data' = [data EXCEPT ![t] = [obtain_ms |-> obtain, release_ms |-> release,
                                  thread_complete_success |-> FALSE]]

\* Mutant of CreateFails: the result of pthread_create is not looked at.
CreateUnchecked(t, obtain, release) ==
  /\ Returns(t, "true")
  /\ Allocate(t, obtain, release)
  /\ Fault
  /\ UNCHANGED <<pc, spec, request, mutex, slept, interrupts, callerLocks>>

\* pthread_create fails: the thread_data stays allocated.
CreateFails(t, obtain, release) ==
  /\ Returns(t, "false")
  /\ Allocate(t, obtain, release)
  /\ Fault
  /\ UNCHANGED <<pc, spec, request, mutex, slept, interrupts, callerLocks>>

Start(t, obtain, release) ==
  /\ Returns(t, "true")
  /\ Allocate(t, obtain, release)
  /\ Goto(t, "none", "start")
  /\ UNCHANGED <<spec, request, mutex, slept, interrupts, faults, callerLocks>>

\* The caller joins a thread it was told was started, and frees the thread_data
\* that it returned, as every path out of threadfunc does.
Join(t) ==
  /\ started[t] = "true"
  /\ Goto(t, "ended", "joined")
  /\ allocated' = allocated \ {t}
  /\ UNCHANGED <<data, started, spec, request, mutex, slept, interrupts, faults,
                 callerLocks>>

CallerLocks ==
  /\ callerLocks < MaxCallerLocks /\ callerLocks' = callerLocks + 1
  /\ mutex = Nobody /\ mutex' = Caller
  /\ UNCHANGED <<pc, data, allocated, started, spec, request, slept, interrupts, faults>>

CallerUnlocks ==
  /\ mutex = Caller /\ mutex' = Nobody
  /\ UNCHANGED <<pc, data, allocated, started, spec, request, slept, interrupts, faults,
                 callerLocks>>

-----------------------------------------------------------------------------
(* threadfunc *)

SetRequest(t, ms) ==
  /\ spec' = [spec EXCEPT ![t].req = ToTimespec(ms)]
  /\ request' = [request EXCEPT ![t] = "req"]
  /\ slept' = [slept EXCEPT ![t] = 0]

BeginWait(t) ==
  /\ Goto(t, "start", "obtaining")
  /\ SetRequest(t, data[t].obtain_ms)
  /\ UNCHANGED <<data, allocated, started, mutex, interrupts, faults, callerLocks>>

Sleeping(t) == pc[t] \in {"obtaining", "releasing"}
Request(t) == spec[t][request[t]]
ValidRequest(t) == Valid(Request(t))

\* Mutant of Interrupted: the pointers are not swapped.
InterruptedNotSwapped(t, ms) ==
  /\ Sleeping(t) /\ ValidRequest(t)
  /\ ms < Milliseconds(Request(t))
  /\ interrupts < MaxInterrupts /\ interrupts' = interrupts + 1
  /\ slept' = [slept EXCEPT ![t] = @ + ms]
  /\ spec' = [spec EXCEPT ![t][Other(request[t])] =
                ToTimespec(Milliseconds(Request(t)) - ms)]
  /\ UNCHANGED <<pc, data, allocated, started, request, mutex, faults, callerLocks>>

\* A signal ends nanosleep after ms: what is left is stored in *b, and becomes
\* the next request.
Interrupted(t, ms) ==
  /\ Sleeping(t) /\ ValidRequest(t)
  /\ ms < Milliseconds(Request(t))
  /\ interrupts < MaxInterrupts /\ interrupts' = interrupts + 1
  /\ slept' = [slept EXCEPT ![t] = @ + ms]
  /\ spec' = [spec EXCEPT ![t][Other(request[t])] =
                ToTimespec(Milliseconds(Request(t)) - ms)]
  /\ request' = [request EXCEPT ![t] = Other(@)]
  /\ UNCHANGED <<pc, data, allocated, started, mutex, faults, callerLocks>>

\* nanosleep returns 0, or at once when the request is not a valid timespec.
Woken(t) ==
  slept' = [slept EXCEPT ![t] = @ + (IF ValidRequest(t) THEN Milliseconds(Request(t)) ELSE 0)]

Awake(t) ==
  /\ Goto(t, "obtaining", "lock")
  /\ Woken(t)
  /\ UNCHANGED <<data, allocated, started, spec, request, mutex, interrupts, faults,
                 callerLocks>>

\* Mutant of Lock: the mutex is not waited for.
LockAnyway(t) ==
  /\ Goto(t, "lock", "releasing")
  /\ mutex' = t
  /\ SetRequest(t, data[t].release_ms)
  /\ UNCHANGED <<data, allocated, started, interrupts, faults, callerLocks>>

Lock(t) ==
  /\ Goto(t, "lock", "releasing")
  /\ mutex = Nobody /\ mutex' = t
  /\ SetRequest(t, data[t].release_ms)
  /\ UNCHANGED <<data, allocated, started, interrupts, faults, callerLocks>>

LockFails(t) ==
  /\ Goto(t, "lock", "ended")
  /\ Fault
  /\ UNCHANGED <<data, allocated, started, spec, request, mutex, slept, interrupts,
                 callerLocks>>

\* The second wait is over: success is recorded before the mutex is released.
SetSuccess(t) ==
  /\ Goto(t, "releasing", "unlock")
  /\ Woken(t)
  /\ data' = [data EXCEPT ![t].thread_complete_success = TRUE]
  /\ UNCHANGED <<allocated, started, spec, request, mutex, interrupts, faults, callerLocks>>

\* Mutant of Unlock: the mutex is not released.
UnlockForgotten(t) ==
  /\ Goto(t, "unlock", "ended")
  /\ UNCHANGED <<data, allocated, started, spec, request, mutex, slept, interrupts, faults,
                 callerLocks>>

Unlock(t) ==
  /\ Goto(t, "unlock", "ended")
  /\ mutex' = Nobody
  /\ UNCHANGED <<data, allocated, started, spec, request, slept, interrupts, faults,
                 callerLocks>>

UnlockFails(t) ==
  /\ Goto(t, "unlock", "ended")
  /\ Fault
  /\ UNCHANGED <<data, allocated, started, spec, request, mutex, slept, interrupts,
                 callerLocks>>

Run(t) == BeginWait(t) \/ Awake(t) \/ Lock(t) \/ SetSuccess(t) \/ Unlock(t)

Next ==
  \/ \E t \in Thread :
        \/ Run(t) \/ LockFails(t) \/ UnlockFails(t) \/ Join(t)
        \/ \E ms \in Ticks : Interrupted(t, ms)
        \/ \E obtain, release \in WaitTimes :
              StartRefused(t, obtain, release) \/ CreateFails(t, obtain, release)
                \/ Start(t, obtain, release)
  \/ CallerLocks \/ CallerUnlocks

Spec == Init /\ [][Next]_vars

\* Threads are scheduled and sleeps end; the caller does not keep the mutex.
\* Nothing is assumed of the order in which the mutex is granted: a thread
\* locks it once, and the caller finitely often.
FairSpec == Spec /\ (\A t \in Thread : WF_vars(Run(t))) /\ WF_vars(CallerUnlocks)

-----------------------------------------------------------------------------
(* Properties *)

\* However often and whenever the waits are interrupted, their parts add up: a
\* thread takes the mutex after exactly obtain_ms of sleep, and nobody else gets it
\* before the thread has slept release_ms with it and reported success.
HoldsForTheWholeWait ==
  [][\A t \in Thread :
        /\ mutex # t /\ mutex' = t => slept[t] = data[t].obtain_ms
        /\ mutex = t /\ mutex' # t =>
              slept[t] = data[t].release_ms /\ data[t].thread_complete_success]_vars

\* The caller is told the truth, so nothing is lost but the thread_data of a
\* failed pthread_create: after a true there is a thread to join, whose
\* thread_data lives until then; after a false there is none.
ThreadDataReachesItsJoiner ==
  \A t \in Thread :
     /\ started[t] = "true" => pc[t] # "none" /\ (t \in allocated <=> pc[t] # "joined")
     /\ started[t] # "true" => pc[t] = "none" /\ (t \in allocated => faults > 0)

\* A thread that was started ends, unless the mutex stays with a thread that
\* could not unlock it.
StartedThreadsEnd ==
  \A t \in Thread :
     pc[t] = "start" ~> \/ pc[t] \in {"ended", "joined"}
                        \/ faults > 0 /\ mutex \in Thread /\ pc[mutex] \in {"ended", "joined"}
=============================================================================
