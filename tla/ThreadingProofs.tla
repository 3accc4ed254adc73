--------------------------- MODULE ThreadingProofs ---------------------------
(***************************************************************************)
(* Proofs about the threading example, for every number of threads, every  *)
(* wait and any interruptions.                                             *)
(***************************************************************************)
EXTENDS Threading, TLAPS

-----------------------------------------------------------------------------
(* Timespecs *)

\* Taking milliseconds apart and putting them together again loses nothing, and
\* gives nanosleep a request it accepts.
LEMMA MillionTimes ==
  ASSUME NEW n \in 0..999
  PROVE  n * 1000000 \in Nat /\ n * 1000000 <= 999999999 /\ (n * 1000000) \div 1000000 = n
BY SMT

LEMMA TimespecIsExact ==
  ASSUME NEW ms \in Nat
  PROVE  /\ ToTimespec(ms) \in Timespec
         /\ Milliseconds(ToTimespec(ms)) = ms
         /\ Valid(ToTimespec(ms))
<1>1. ms \div 1000 \in Nat /\ ms % 1000 \in 0..999 /\ ms = (ms \div 1000) * 1000 + (ms % 1000)
  BY SMT
<1>2. /\ (ms % 1000) * 1000000 \in Nat /\ (ms % 1000) * 1000000 <= 999999999
      /\ ((ms % 1000) * 1000000) \div 1000000 = ms % 1000
  BY <1>1, MillionTimes, SMT
<1>3. ToTimespec(ms).sec = ms \div 1000 /\ ToTimespec(ms).nsec = (ms % 1000) * 1000000
  BY SMT DEF ToTimespec
<1>4. ToTimespec(ms) \in Timespec
  BY <1>1, <1>2, SMT DEF ToTimespec, Timespec
<1>5. Valid(ToTimespec(ms))
  BY <1>2, <1>3, SMT DEF Valid
<1>6. Milliseconds(ToTimespec(ms)) = ms
  BY <1>1, <1>2, <1>3, SMT DEF Milliseconds
<1>. QED BY <1>4, <1>5, <1>6

LEMMA MillisecondsType ==
  ASSUME NEW ts \in Timespec
  PROVE  Milliseconds(ts) \in Nat
BY SMT DEF Timespec, Milliseconds

-----------------------------------------------------------------------------
(* The inductive invariant *)

PC == {"none", "start", "obtaining", "lock", "releasing", "unlock", "ended", "joined"}

ThreadData == [obtain_ms : Int, release_ms : Int, thread_complete_success : BOOLEAN]

Shape ==
  /\ pc \in [Thread -> PC]
  /\ data \in [Thread -> ThreadData]
  /\ started \in [Thread -> {"not called", "false", "true"}]
  /\ spec \in [Thread -> [req : Timespec, rem : Timespec]]
  /\ request \in [Thread -> {"req", "rem"}]
  /\ slept \in [Thread -> Nat]
  /\ faults \in Nat

\* The wait a thread is in, or was in last.
Wanted(t) == IF pc[t] \in {"releasing", "unlock"} THEN data[t].release_ms ELSE data[t].obtain_ms

\* What was slept and what is still requested are the whole wait, at every moment
\* of it; after it, what was slept is.
WaitsAddUp ==
  \A t \in Thread :
     /\ pc[t] \notin {"none", "ended", "joined"} =>
           data[t].obtain_ms \in Nat /\ data[t].release_ms \in Nat
     /\ Sleeping(t) => ValidRequest(t) /\ slept[t] + Milliseconds(Request(t)) = Wanted(t)
     /\ pc[t] \in {"lock", "unlock"} => slept[t] = Wanted(t)

\* Success is on record by the time the mutex is given back, which only a thread
\* that holds it does.
HolderReports ==
  \A t \in Thread :
     /\ pc[t] \in {"releasing", "unlock"} => mutex = t
     /\ pc[t] = "unlock" => data[t].thread_complete_success

IInv == Shape /\ WaitsAddUp /\ HolderReports /\ ThreadDataReachesItsJoiner

LEMMA InitIInv == Init => IInv
<1>. SUFFICES ASSUME Init PROVE IInv
  OBVIOUS
<1>1. ToTimespec(0) \in Timespec
  BY TimespecIsExact
<1>2. Shape
  <2>1. data \in [Thread -> ThreadData]
    <3>1. [obtain_ms |-> 0, release_ms |-> 0, thread_complete_success |-> FALSE] \in ThreadData
      BY SMT DEF ThreadData
    <3>. QED BY <3>1 DEF Init
  <2>2. spec \in [Thread -> [req : Timespec, rem : Timespec]]
    BY <1>1 DEF Init
  <2>. QED BY <2>1, <2>2 DEF Init, Shape, PC
<1>3. WaitsAddUp /\ HolderReports /\ ThreadDataReachesItsJoiner
  BY DEF Init, WaitsAddUp, Sleeping, HolderReports, ThreadDataReachesItsJoiner
<1>. QED BY <1>2, <1>3 DEF IInv

\* Shape after a step that moves t and writes into its thread_data, its timespecs
\* and its history no more than their types allow.
LEMMA GotoIs ==
  ASSUME Shape, NEW t \in Thread, NEW from, NEW to \in PC, Goto(t, from, to)
  PROVE  /\ pc' \in [Thread -> PC] /\ pc[t] = from /\ pc'[t] = to
         /\ \A u \in Thread \ {t} : pc'[u] = pc[u]
BY DEF Shape, Goto

\* A step of t: the other threads' waits and reports are what they were.
Others(t) ==
  /\ allocated' \ {t} = allocated \ {t}
  /\ \A u \in Thread \ {t} :
        /\ pc'[u] = pc[u] /\ started'[u] = started[u]
        /\ data'[u] = data[u] /\ spec'[u] = spec[u]
        /\ request'[u] = request[u] /\ slept'[u] = slept[u]

\* What is left to show of a step of t: the invariant of t itself, and that a mutex
\* that somebody else holds is left to them.
LEMMA OneThread ==
  ASSUME IInv, Shape', NEW t \in Thread, Others(t), faults' >= faults,
         pc'[t] \notin {"none", "ended", "joined"} =>
           data'[t].obtain_ms \in Nat /\ data'[t].release_ms \in Nat,
         Sleeping(t)' => ValidRequest(t)' /\ (slept[t] + Milliseconds(Request(t)) = Wanted(t))',
         pc'[t] \in {"lock", "unlock"} => slept'[t] = Wanted(t)',
         pc'[t] \in {"releasing", "unlock"} => mutex' = t,
         pc'[t] = "unlock" => data'[t].thread_complete_success,
         mutex' = mutex \/ mutex = Nobody \/ mutex = t,
         started'[t] = "true" => pc'[t] # "none" /\ (t \in allocated' <=> pc'[t] # "joined"),
         started'[t] # "true" => pc'[t] = "none" /\ (t \in allocated' => faults' > 0)
  PROVE  IInv'
<1>1. WaitsAddUp'
  BY DEF IInv, WaitsAddUp, Others, Sleeping, ValidRequest, Request, Wanted
<1>2. HolderReports'
  BY HolderAssumption DEF IInv, HolderReports, Others
<1>3. ThreadDataReachesItsJoiner'
  <2>1. faults \in Nat /\ faults' \in Nat
    BY DEF IInv, Shape
  <2>2. ASSUME NEW u \in Thread \ {t}
        PROVE  /\ started'[u] = "true" => pc'[u] # "none" /\ (u \in allocated' <=> pc'[u] # "joined")
               /\ started'[u] # "true" => pc'[u] = "none" /\ (u \in allocated' => faults' > 0)
    BY <2>1 DEF IInv, ThreadDataReachesItsJoiner, Others
  <2>. QED BY <2>2 DEF ThreadDataReachesItsJoiner
<1>. QED BY <1>1, <1>2, <1>3 DEF IInv
-----------------------------------------------------------------------------
(* The caller *)

\* A call that starts no thread.
LEMMA NotStartedInv ==
  ASSUME IInv, NEW t \in Thread, NEW obtain \in WaitTimes, NEW release \in WaitTimes,
         StartRefused(t, obtain, release) \/ CreateFails(t, obtain, release)
  PROVE  IInv'
<1>1. /\ UNCHANGED <<pc, spec, request, mutex, slept>>
      /\ started[t] = "not called" /\ started' = [started EXCEPT ![t] = "false"]
  BY DEF StartRefused, CreateFails, Returns
<1>2. pc[t] = "none" /\ (t \in allocated => faults > 0)
  BY <1>1 DEF IInv, ThreadDataReachesItsJoiner
<1>3. faults' = faults \/ faults' = faults + 1
  BY DEF StartRefused, CreateFails, Fault
<1>0. faults \in Nat
  BY DEF IInv, Shape
<1>4. faults \in Nat /\ faults' \in Nat /\ faults' >= faults
  BY <1>3, <1>0
<1>5. /\ data' \in [Thread -> ThreadData] /\ allocated' \ {t} = allocated \ {t}
      /\ \A u \in Thread \ {t} : data'[u] = data[u]
      /\ t \in allocated' => faults' > 0
  <2>1. CASE StartRefused(t, obtain, release)
    <3>1. data \in [Thread -> ThreadData]
      BY DEF IInv, Shape
    <3>. QED BY <2>1, <3>1, <1>2, <1>3, <1>4 DEF StartRefused
  <2>2. CASE CreateFails(t, obtain, release)
    <3>1. [obtain_ms |-> obtain, release_ms |-> release,
           thread_complete_success |-> FALSE] \in ThreadData
      BY TimeAssumption, SMT DEF ThreadData
    <3>2. /\ data' \in [Thread -> ThreadData]
          /\ \A u \in Thread \ {t} : data'[u] = data[u]
      BY <2>2, <3>1 DEF IInv, Shape, CreateFails, Allocate
    <3>3. allocated' \ {t} = allocated \ {t} /\ faults' > 0
      BY <2>2, <1>4 DEF CreateFails, Allocate, Fault
    <3>. QED BY <3>2, <3>3
  <2>. QED BY <2>1, <2>2
<1>6. Shape'
  BY <1>1, <1>4, <1>5 DEF IInv, Shape
<1>7. Others(t)
  BY <1>1, <1>5 DEF IInv, Shape, Others
<1>8. pc'[t] = "none" /\ started'[t] = "false" /\ ~Sleeping(t)'
  BY <1>1, <1>2 DEF IInv, Shape, Sleeping
<1>. QED BY <1>1, <1>4, <1>5, <1>6, <1>7, <1>8, OneThread

LEMMA StartInv ==
  ASSUME IInv, NEW t \in Thread, NEW obtain \in WaitTimes, NEW release \in WaitTimes,
         Start(t, obtain, release)
  PROVE  IInv'
<1>. DEFINE d == [obtain_ms |-> obtain, release_ms |-> release, thread_complete_success |-> FALSE]
<1>1. /\ pc' \in [Thread -> PC] /\ pc'[t] = "start" /\ \A u \in Thread \ {t} : pc'[u] = pc[u]
  BY GotoIs DEF IInv, Start, PC
<1>2. obtain \in Nat /\ release \in Nat /\ d \in ThreadData
  BY TimeAssumption, SMT DEF Start, Allocate, ThreadData
<1>3. /\ data' \in [Thread -> ThreadData] /\ data'[t] = d
      /\ \A u \in Thread \ {t} : data'[u] = data[u]
  BY <1>2 DEF IInv, Shape, Start, Allocate
<1>4. /\ UNCHANGED <<spec, request, mutex, slept, faults>>
      /\ allocated' = allocated \cup {t}
      /\ started' = [started EXCEPT ![t] = "true"]
  BY DEF Start, Allocate, Returns
<1>5. Shape'
  BY <1>1, <1>3, <1>4 DEF IInv, Shape
<1>8. started'[t] = "true" /\ faults \in Nat
  BY <1>4 DEF IInv, Shape
<1>9. faults' >= faults
  BY <1>4, <1>8
<1>6. Others(t)
  BY <1>1, <1>3, <1>4 DEF IInv, Shape, Others
<1>7. ~Sleeping(t)'
  BY <1>1 DEF Sleeping
<1>. QED BY <1>1, <1>2, <1>3, <1>4, <1>5, <1>6, <1>7, <1>8, <1>9, OneThread

LEMMA JoinInv ==
  ASSUME IInv, NEW t \in Thread, Join(t)
  PROVE  IInv'
<1>1. /\ pc' \in [Thread -> PC] /\ pc'[t] = "joined" /\ \A u \in Thread \ {t} : pc'[u] = pc[u]
  BY GotoIs DEF IInv, Join, PC
<1>2. /\ UNCHANGED <<data, started, spec, request, mutex, slept, faults>>
      /\ allocated' = allocated \ {t} /\ started[t] = "true"
  BY DEF Join
<1>3. Shape' /\ faults \in Nat
  BY <1>1, <1>2 DEF IInv, Shape
<1>6. faults' >= faults
  BY <1>2, <1>3
<1>4. Others(t)
  BY <1>1, <1>2 DEF Others
<1>5. ~Sleeping(t)'
  BY <1>1 DEF Sleeping
<1>. QED BY <1>1, <1>2, <1>3, <1>4, <1>5, <1>6, OneThread

\* The caller takes a mutex that nobody has, and gives back its own.
LEMMA CallerInv ==
  ASSUME IInv, CallerLocks \/ CallerUnlocks
  PROVE  IInv'
<1>1. /\ UNCHANGED <<pc, data, allocated, started, spec, request, slept, faults>>
      /\ mutex \in {Nobody, Caller}
  BY DEF CallerLocks, CallerUnlocks
<1>2. HolderReports'
  BY <1>1, HolderAssumption DEF IInv, HolderReports
<1>3. Shape' /\ WaitsAddUp' /\ ThreadDataReachesItsJoiner'
  BY <1>1 DEF IInv, Shape, WaitsAddUp, ThreadDataReachesItsJoiner, Sleeping, ValidRequest,
              Request, Wanted
<1>. QED BY <1>2, <1>3 DEF IInv
-----------------------------------------------------------------------------
(* threadfunc *)

\* The state of t's sleep after it was given ms to sleep, of which it slept none yet.
LEMMA RequestIs ==
  ASSUME Shape, NEW t \in Thread, NEW ms \in Nat, SetRequest(t, ms)
  PROVE  /\ spec' \in [Thread -> [req : Timespec, rem : Timespec]]
         /\ request' \in [Thread -> {"req", "rem"}] /\ slept' \in [Thread -> Nat]
         /\ Request(t)' = ToTimespec(ms) /\ slept'[t] = 0
         /\ \A u \in Thread \ {t} : /\ spec'[u] = spec[u] /\ request'[u] = request[u]
                                    /\ slept'[u] = slept[u]
<1>1. ToTimespec(ms) \in Timespec
  BY TimespecIsExact
<1>2. /\ request' \in [Thread -> {"req", "rem"}] /\ slept' \in [Thread -> Nat]
      /\ request'[t] = "req" /\ slept'[t] = 0
      /\ \A u \in Thread \ {t} : request'[u] = request[u] /\ slept'[u] = slept[u]
  BY DEF Shape, SetRequest
<1>3. [spec[t] EXCEPT !.req = ToTimespec(ms)] \in [req : Timespec, rem : Timespec]
  BY <1>1 DEF Shape
<1>4. /\ spec' \in [Thread -> [req : Timespec, rem : Timespec]]
      /\ spec'[t].req = ToTimespec(ms)
      /\ \A u \in Thread \ {t} : spec'[u] = spec[u]
  BY <1>3 DEF Shape, SetRequest
<1>. QED BY <1>2, <1>4 DEF Request

\* The same for a sleep that was cut short: the rest is requested.
LEMMA RestIs ==
  ASSUME Shape, NEW t \in Thread, NEW rest \in Nat,
         spec' = [spec EXCEPT ![t][Other(request[t])] = ToTimespec(rest)],
         request' = [request EXCEPT ![t] = Other(@)]
  PROVE  /\ spec' \in [Thread -> [req : Timespec, rem : Timespec]]
         /\ request' \in [Thread -> {"req", "rem"}]
         /\ Request(t)' = ToTimespec(rest)
         /\ \A u \in Thread \ {t} : spec'[u] = spec[u] /\ request'[u] = request[u]
<1>. DEFINE other == Other(request[t])
<1>1. ToTimespec(rest) \in Timespec
  BY TimespecIsExact
<1>2. other \in {"req", "rem"}
  BY DEF Shape, Other
<1>3. /\ request' \in [Thread -> {"req", "rem"}] /\ request'[t] = other
      /\ \A u \in Thread \ {t} : request'[u] = request[u]
  BY <1>2 DEF Shape
<1>. HIDE DEF other
<1>4. /\ [spec[t] EXCEPT ![other] = ToTimespec(rest)] \in [req : Timespec, rem : Timespec]
      /\ [spec[t] EXCEPT ![other] = ToTimespec(rest)][other] = ToTimespec(rest)
  <2>1. CASE other = "req"
    BY <1>1, <2>1 DEF Shape
  <2>2. CASE other = "rem"
    BY <1>1, <2>2 DEF Shape
  <2>. QED BY <1>2, <2>1, <2>2
<1>5. spec' = [spec EXCEPT ![t] = [spec[t] EXCEPT ![other] = ToTimespec(rest)]]
  BY DEF other
<1>6. /\ spec' \in [Thread -> [req : Timespec, rem : Timespec]]
      /\ spec'[t][other] = ToTimespec(rest)
      /\ \A u \in Thread \ {t} : spec'[u] = spec[u]
  BY <1>4, <1>5 DEF Shape
<1>. QED BY <1>3, <1>6 DEF Request

\* A thread that runs was started, and has its thread_data.
LEMMA Running ==
  ASSUME IInv, NEW t \in Thread, pc[t] \notin {"none", "joined"}
  PROVE  started[t] = "true" /\ t \in allocated
BY DEF IInv, Shape, ThreadDataReachesItsJoiner

\* The invariant of a step of threadfunc: it is t's own state that has to be looked at.
LEMMA OwnStep ==
  ASSUME IInv, Shape', NEW t \in Thread, UNCHANGED <<started, allocated>>, faults' >= faults,
         pc[t] \notin {"none", "joined"}, pc'[t] \notin {"none", "joined"},
         \A u \in Thread \ {t} : /\ pc'[u] = pc[u] /\ data'[u] = data[u] /\ spec'[u] = spec[u]
                                 /\ request'[u] = request[u] /\ slept'[u] = slept[u],
         pc'[t] # "ended" => data'[t].obtain_ms \in Nat /\ data'[t].release_ms \in Nat,
         Sleeping(t)' => ValidRequest(t)' /\ (slept[t] + Milliseconds(Request(t)) = Wanted(t))',
         pc'[t] \in {"lock", "unlock"} => slept'[t] = Wanted(t)',
         pc'[t] \in {"releasing", "unlock"} => mutex' = t,
         pc'[t] = "unlock" => data'[t].thread_complete_success,
         mutex' = mutex \/ mutex = Nobody \/ mutex = t
  PROVE  IInv'
<1>1. started'[t] = "true" /\ t \in allocated'
  BY Running
<1>2. Others(t)
  BY DEF Others
<1>. QED BY <1>1, <1>2, OneThread

\* What a running thread was asked to sleep is not negative.
LEMMA WaitsAreNat ==
  ASSUME IInv, NEW t \in Thread, pc[t] \notin {"none", "ended", "joined"}
  PROVE  data[t].obtain_ms \in Nat /\ data[t].release_ms \in Nat /\ faults \in Nat
BY DEF IInv, Shape, WaitsAddUp

\* A step into one of the waits.
LEMMA WaitInv ==
  ASSUME IInv, NEW t \in Thread, BeginWait(t) \/ Lock(t)
  PROVE  IInv'
<1>1. /\ pc' \in [Thread -> PC] /\ \A u \in Thread \ {t} : pc'[u] = pc[u]
      /\ \/ pc[t] = "start" /\ pc'[t] = "obtaining" /\ mutex' = mutex
         \/ pc[t] = "lock" /\ pc'[t] = "releasing" /\ mutex = Nobody /\ mutex' = t
  BY GotoIs DEF IInv, PC, BeginWait, Lock
<1>2. UNCHANGED <<data, allocated, started, faults>>
  BY DEF BeginWait, Lock
<1>3. Wanted(t)' \in Nat /\ SetRequest(t, Wanted(t)')
  <2>1. CASE BeginWait(t)
    <3>1. pc'[t] = "obtaining"
      BY <2>1, GotoIs DEF IInv, PC, BeginWait
    <3>. QED BY <1>1, <1>2, <2>1, <3>1, WaitsAreNat DEF BeginWait, Wanted
  <2>2. CASE Lock(t)
    <3>1. pc'[t] = "releasing"
      BY <2>2, GotoIs DEF IInv, PC, Lock
    <3>. QED BY <1>1, <1>2, <2>2, <3>1, WaitsAreNat DEF Lock, Wanted
  <2>. QED BY <2>1, <2>2
<1>. DEFINE ms == Wanted(t)'
<1>. HIDE DEF ms
<1>4. /\ spec' \in [Thread -> [req : Timespec, rem : Timespec]]
      /\ request' \in [Thread -> {"req", "rem"}] /\ slept' \in [Thread -> Nat]
      /\ Request(t)' = ToTimespec(ms) /\ slept'[t] = 0
      /\ \A u \in Thread \ {t} : /\ spec'[u] = spec[u] /\ request'[u] = request[u]
                                 /\ slept'[u] = slept[u]
  BY <1>3, RequestIs DEF IInv, ms
<1>5. ValidRequest(t)' /\ Milliseconds(Request(t))' = ms /\ ms \in Nat
  BY <1>3, <1>4, TimespecIsExact DEF ValidRequest, ms
<1>6. (slept[t] + Milliseconds(Request(t)) = Wanted(t))'
  BY <1>4, <1>5 DEF ms
<1>7. Shape'
  BY <1>1, <1>2, <1>4 DEF IInv, Shape
<1>8. faults' >= faults /\ data'[t].obtain_ms \in Nat /\ data'[t].release_ms \in Nat
  BY <1>1, <1>2, WaitsAreNat
<1>. QED BY <1>1, <1>2, <1>4, <1>5, <1>6, <1>7, <1>8, OwnStep

LEMMA InterruptedInv ==
  ASSUME IInv, NEW t \in Thread, NEW ms \in Ticks, Interrupted(t, ms)
  PROVE  IInv'
<1>. DEFINE left == Milliseconds(Request(t))
            rest == left - ms
<1>1. UNCHANGED <<pc, data, allocated, started, mutex, faults>>
  BY DEF Interrupted
<1>2. /\ ms \in Nat /\ left \in Nat /\ slept[t] \in Nat
      /\ slept[t] + left = Wanted(t) /\ ms < left
  <2>1. Request(t) \in Timespec
    BY DEF IInv, Shape, Request
  <2>2. slept[t] \in Nat /\ ms \in Nat
    BY TimeAssumption DEF IInv, Shape
  <2>. QED BY <2>1, <2>2, MillisecondsType DEF IInv, WaitsAddUp, Interrupted
<1>. HIDE DEF left
<1>3. rest \in Nat /\ (slept[t] + ms) + rest = Wanted(t) /\ slept[t] + ms \in Nat
  BY <1>2
<1>. HIDE DEF rest
<1>4. /\ spec' = [spec EXCEPT ![t][Other(request[t])] = ToTimespec(rest)]
      /\ request' = [request EXCEPT ![t] = Other(@)]
      /\ slept' = [slept EXCEPT ![t] = slept[t] + ms]
  BY DEF Interrupted, rest, left
<1>5. /\ spec' \in [Thread -> [req : Timespec, rem : Timespec]]
      /\ request' \in [Thread -> {"req", "rem"}]
      /\ Request(t)' = ToTimespec(rest)
      /\ \A u \in Thread \ {t} : spec'[u] = spec[u] /\ request'[u] = request[u]
  BY <1>3, <1>4, RestIs DEF IInv
<1>6. /\ slept' \in [Thread -> Nat] /\ slept'[t] = slept[t] + ms
      /\ \A u \in Thread \ {t} : slept'[u] = slept[u]
  <2>1. slept \in [Thread -> Nat]
    BY DEF IInv, Shape
  <2>. QED BY <1>3, <1>4, <2>1
<1>7. ValidRequest(t)' /\ Milliseconds(Request(t))' = rest
  BY <1>3, <1>5, TimespecIsExact DEF ValidRequest
<1>8. Shape'
  BY <1>1, <1>5, <1>6 DEF IInv, Shape
<1>9. pc[t] \in {"obtaining", "releasing"} /\ Wanted(t)' = Wanted(t)
  BY <1>1 DEF Interrupted, Sleeping, Wanted
<1>10. (slept[t] + Milliseconds(Request(t)) = Wanted(t))'
  BY <1>3, <1>6, <1>7, <1>9
<1>11. /\ pc'[t] \in {"releasing", "unlock"} => mutex' = t
       /\ data'[t].obtain_ms \in Nat /\ data'[t].release_ms \in Nat
  BY <1>1, <1>9, WaitsAreNat DEF IInv, HolderReports
<1>12. faults \in Nat /\ faults' >= faults
  BY <1>1, <1>9, WaitsAreNat
<1>. QED BY <1>1, <1>5, <1>6, <1>7, <1>8, <1>9, <1>10, <1>11, <1>12, OwnStep

\* What a sleep that was not interrupted adds is what was still requested.
LEMMA WokenIs ==
  ASSUME IInv, NEW t \in Thread, Sleeping(t), Woken(t)
  PROVE  /\ slept' \in [Thread -> Nat] /\ slept'[t] = Wanted(t)
         /\ \A u \in Thread \ {t} : slept'[u] = slept[u]
<1>1. Milliseconds(Request(t)) \in Nat
  BY MillisecondsType DEF IInv, Shape, Request
<1>2. slept \in [Thread -> Nat]
  BY DEF IInv, Shape
<1>3. ValidRequest(t) /\ slept[t] + Milliseconds(Request(t)) = Wanted(t)
  BY DEF IInv, WaitsAddUp
<1>4. slept[t] + Milliseconds(Request(t)) \in Nat
  BY <1>1, <1>2
<1>5. slept' = [slept EXCEPT ![t] = slept[t] + Milliseconds(Request(t))]
  BY <1>3 DEF Woken
<1>. QED BY <1>2, <1>3, <1>4, <1>5

\* The end of the first wait.
LEMMA AwakeInv ==
  ASSUME IInv, NEW t \in Thread, Awake(t)
  PROVE  IInv'
<1>1. /\ pc' \in [Thread -> PC] /\ pc[t] = "obtaining" /\ pc'[t] = "lock"
      /\ \A u \in Thread \ {t} : pc'[u] = pc[u]
  BY GotoIs DEF IInv, PC, Awake
<1>2. UNCHANGED <<data, allocated, started, spec, request, mutex, faults>>
  BY DEF Awake
<1>3. /\ slept' \in [Thread -> Nat] /\ slept'[t] = Wanted(t)
      /\ \A u \in Thread \ {t} : slept'[u] = slept[u]
  BY <1>1, WokenIs DEF Awake, Sleeping
<1>4. Shape'
  BY <1>1, <1>2, <1>3 DEF IInv, Shape
<1>5. ~Sleeping(t)' /\ Wanted(t)' = Wanted(t)
  BY <1>1, <1>2 DEF Sleeping, Wanted
<1>6. faults \in Nat /\ data'[t].obtain_ms \in Nat /\ data'[t].release_ms \in Nat
  BY <1>1, <1>2, WaitsAreNat
<1>7. faults' >= faults
  BY <1>2, <1>6
<1>. QED BY <1>1, <1>2, <1>3, <1>4, <1>5, <1>6, <1>7, OwnStep

\* The end of the second.
LEMMA SetSuccessInv ==
  ASSUME IInv, NEW t \in Thread, SetSuccess(t)
  PROVE  IInv'
<1>. DEFINE d == [data[t] EXCEPT !.thread_complete_success = TRUE]
<1>1. /\ pc' \in [Thread -> PC] /\ pc[t] = "releasing" /\ pc'[t] = "unlock"
      /\ \A u \in Thread \ {t} : pc'[u] = pc[u]
  BY GotoIs DEF IInv, PC, SetSuccess
<1>2. UNCHANGED <<allocated, started, spec, request, mutex, faults>>
  BY DEF SetSuccess
<1>3. /\ slept' \in [Thread -> Nat] /\ slept'[t] = Wanted(t)
      /\ \A u \in Thread \ {t} : slept'[u] = slept[u]
  BY <1>1, WokenIs DEF SetSuccess, Sleeping
<1>4. data \in [Thread -> ThreadData] /\ data[t] \in ThreadData
  BY DEF IInv, Shape
<1>5. d \in ThreadData
  BY <1>4, Zenon DEF ThreadData
<1>6. /\ d.thread_complete_success
      /\ d.obtain_ms = data[t].obtain_ms /\ d.release_ms = data[t].release_ms
  BY <1>4, SMT DEF ThreadData
<1>7. data' = [data EXCEPT ![t] = d]
  BY DEF SetSuccess
<1>. HIDE DEF d
<1>8. /\ data' \in [Thread -> ThreadData] /\ data'[t] = d
      /\ \A u \in Thread \ {t} : data'[u] = data[u]
  BY <1>4, <1>5, <1>7
<1>9. Shape'
  BY <1>1, <1>2, <1>3, <1>8 DEF IInv, Shape
<1>10. ~Sleeping(t)' /\ Wanted(t)' = Wanted(t)
  BY <1>1, <1>6, <1>8 DEF Sleeping, Wanted
<1>11. faults \in Nat /\ data'[t].obtain_ms \in Nat /\ data'[t].release_ms \in Nat
  BY <1>1, <1>2, <1>6, <1>8, WaitsAreNat
<1>12. faults' >= faults
  BY <1>2, <1>11
<1>13. data'[t].thread_complete_success /\ mutex' = t
  BY <1>1, <1>2, <1>6, <1>8 DEF IInv, HolderReports
<1>. QED BY <1>1, <1>2, <1>3, <1>8, <1>9, <1>10, <1>11, <1>12, <1>13, OwnStep

\* The ends of threadfunc.
LEMMA EndInv ==
  ASSUME IInv, NEW t \in Thread, LockFails(t) \/ Unlock(t) \/ UnlockFails(t)
  PROVE  IInv'
<1>1. /\ pc' \in [Thread -> PC] /\ pc[t] \in {"lock", "unlock"} /\ pc'[t] = "ended"
      /\ \A u \in Thread \ {t} : pc'[u] = pc[u]
  BY GotoIs DEF IInv, PC, LockFails, Unlock, UnlockFails
<1>2. /\ UNCHANGED <<data, allocated, started, spec, request, slept>>
      /\ faults' = faults \/ faults' = faults + 1
      /\ mutex' = mutex \/ mutex = t
  BY DEF LockFails, Unlock, UnlockFails, Goto, Fault, IInv, HolderReports
<1>3. faults \in Nat
  BY DEF IInv, Shape
<1>4. faults' \in Nat /\ faults' >= faults
  BY <1>2, <1>3
<1>5. Shape'
  BY <1>1, <1>2, <1>4 DEF IInv, Shape
<1>6. ~Sleeping(t)'
  BY <1>1 DEF Sleeping
<1>. QED BY <1>1, <1>2, <1>4, <1>5, <1>6, OwnStep

-----------------------------------------------------------------------------
(* The theorems *)

LEMMA StepIInv == IInv /\ [Next]_vars => IInv'
<1>. SUFFICES ASSUME IInv, [Next]_vars PROVE IInv'
  OBVIOUS
<1>1. ASSUME NEW t \in Thread, Run(t) PROVE IInv'
  BY <1>1, WaitInv, AwakeInv, SetSuccessInv, EndInv DEF Run
<1>2. ASSUME NEW t \in Thread, LockFails(t) \/ UnlockFails(t) PROVE IInv'
  BY <1>2, EndInv
<1>3. ASSUME NEW t \in Thread, Join(t) PROVE IInv'
  BY <1>3, JoinInv
<1>4. ASSUME NEW t \in Thread, NEW ms \in Ticks, Interrupted(t, ms) PROVE IInv'
  BY <1>4, InterruptedInv
<1>5. ASSUME NEW t \in Thread, NEW obtain \in WaitTimes, NEW release \in WaitTimes,
             StartRefused(t, obtain, release) \/ CreateFails(t, obtain, release)
      PROVE  IInv'
  BY <1>5, NotStartedInv
<1>6. ASSUME NEW t \in Thread, NEW obtain \in WaitTimes, NEW release \in WaitTimes,
             Start(t, obtain, release)
      PROVE  IInv'
  BY <1>6, StartInv
<1>7. CASE CallerLocks \/ CallerUnlocks
  BY <1>7, CallerInv
<1>8. CASE UNCHANGED vars
  BY <1>8 DEF vars, IInv, Shape, WaitsAddUp, HolderReports, ThreadDataReachesItsJoiner,
              Sleeping, ValidRequest, Request, Wanted
<1>. QED BY <1>1, <1>2, <1>3, <1>4, <1>5, <1>6, <1>7, <1>8 DEF Next

\* Every thread_data has one owner: what start_thread_obtaining_mutex returns tells
\* the caller whether there is one to free.
THEOREM ThreadDataIsOwned == Spec => []ThreadDataReachesItsJoiner
<1>1. IInv => ThreadDataReachesItsJoiner
  BY DEF IInv
<1>. QED BY <1>1, InitIInv, StepIInv, PTL DEF Spec

\* The waits of threadfunc are slept in full, and the second with the mutex.
THEOREM WaitsAreWhole == Spec => HoldsForTheWholeWait
<1>. DEFINE Whole ==
       \A t \in Thread :
          /\ mutex # t /\ mutex' = t => slept[t] = data[t].obtain_ms
          /\ mutex = t /\ mutex' # t =>
                slept[t] = data[t].release_ms /\ data[t].thread_complete_success
<1>1. ASSUME IInv, [Next]_vars, NEW t \in Thread, mutex # t, mutex' = t
      PROVE  slept[t] = data[t].obtain_ms
  <2>1. Lock(t)
    BY <1>1, HolderAssumption
       DEF Next, Run, BeginWait, Awake, Lock, SetSuccess, Unlock, LockFails, UnlockFails, Join,
           Interrupted, StartRefused, CreateFails, Start, CallerLocks, CallerUnlocks, vars
  <2>. QED BY <1>1, <2>1 DEF IInv, WaitsAddUp, Wanted, Lock, Goto
<1>2. ASSUME IInv, [Next]_vars, NEW t \in Thread, mutex = t, mutex' # t
      PROVE  slept[t] = data[t].release_ms /\ data[t].thread_complete_success
  <2>1. \E u \in Thread : Unlock(u)
    BY <1>2, HolderAssumption
       DEF Next, Run, BeginWait, Awake, Lock, SetSuccess, Unlock, LockFails, UnlockFails, Join,
           Interrupted, StartRefused, CreateFails, Start, CallerLocks, CallerUnlocks, vars
  <2>2. pc[t] = "unlock"
    BY <1>2, <2>1 DEF IInv, HolderReports, Unlock, Goto
  <2>. QED BY <1>2, <2>2 DEF IInv, WaitsAddUp, HolderReports, Wanted
<1>3. IInv /\ [Next]_vars => [Whole]_vars
  BY <1>1, <1>2
<1>. HIDE DEF Whole
<1>4. [][Whole]_vars => HoldsForTheWholeWait
  BY DEF Whole, HoldsForTheWholeWait
<1>. QED BY <1>3, <1>4, InitIInv, StepIInv, PTL DEF Spec
=============================================================================
