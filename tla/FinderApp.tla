----------------------------- MODULE FinderApp -----------------------------
(***************************************************************************)
(* finder-app: writer (writer.c) writes a string to a file, finder.sh      *)
(* counts the files of a directory and the lines that match a string, and  *)
(* finder-test.sh has the one write N files and checks what the other says *)
(* of them.  The script stops at the first writer that fails, and the next *)
(* run of it meets what is left in the directory.                          *)
(***************************************************************************)
EXTENDS Integers, FiniteSets

CONSTANTS
  MaxFiles,        \* bound: files a run of the script writes
  MaxRuns,         \* bound: runs of the script
  MaxFaults        \* bound: failures of open, write, close and mkdir

ASSUME BoundAssumption == MaxFiles \in Nat \ {0} /\ {MaxRuns, MaxFaults} \subseteq Nat

VARIABLES
  content,         \* what each file holds: "absent", "empty", "part" or the "text"
  writer,          \* where the writer is; "none": not running
  argc, writefile, \* its arguments
  status,          \* how it ended: 0, 1, or -1 when a signal killed it
  caller,          \* who runs it: a user or the script
  script,          \* where finder-test.sh is
  NUMFILES, i,     \* its argument and its loop variable
  file_count, line_match,  \* what finder.sh found
  verdict,         \* "success", "failed", or "aborted"
  written,         \* history: the files that got the text in this run
  runs, faults

process == <<writer, argc, writefile, status, caller>>
counts == <<file_count, line_match>>
vars == <<content, process, script, NUMFILES, i, counts, verdict, written, runs, faults>>

File == 1..MaxFiles

Init ==
  /\ content = [f \in File |-> "absent"]
  /\ writer = "none" /\ argc = 3 /\ writefile = 1 /\ status = 0 /\ caller = "user"
  /\ script = "start" /\ NUMFILES = 0 /\ i = 0
  /\ file_count = 0 /\ line_match = 0 /\ verdict = "aborted"
  /\ written = {}
  /\ runs = 0 /\ faults = 0

Fault == faults < MaxFaults /\ faults' = faults + 1
Present == {f \in File : content[f] # "absent"}
Holds(f, what) == content' = [content EXCEPT ![f] = what]

-----------------------------------------------------------------------------
(* writer.c *)

Run(who, f, n) ==
  /\ writer = "none" /\ writer' = "main"
  /\ argc' = n /\ writefile' = f /\ caller' = who
  /\ UNCHANGED status

Return(code) ==
  /\ writer' = "none" /\ status' = code
  /\ UNCHANGED <<argc, writefile, caller>>

Continue(from, to) ==
  /\ writer = from /\ writer' = to
  /\ UNCHANGED <<argc, writefile, status, caller>>

\* argc counts the program's name: one argument gets through.
TooFewArguments ==
  /\ writer = "main" /\ argc < 2
  /\ Return(1)
  /\ UNCHANGED <<content, faults>>

Open ==
  /\ argc >= 2
  /\ \/ Continue("main", "write") /\ Holds(writefile, "empty") /\ UNCHANGED faults
     \/ writer = "main" /\ Return(1) /\ Fault /\ UNCHANGED content

\* writestr is NULL, and strlen reads it.
WriteNull ==
  /\ writer = "write" /\ argc = 2
  /\ Return(-1)
  /\ UNCHANGED <<content, faults>>

\* Mutant of Write: an error of write is not looked at.
WriteUnchecked ==
  /\ argc >= 3
  /\ \/ Continue("write", "close") /\ Holds(writefile, "text") /\ UNCHANGED faults
     \/ Continue("write", "close") /\ Holds(writefile, "part") /\ Fault
     \/ Continue("write", "close") /\ UNCHANGED content /\ Fault

\* All of the string is written, or a part, which passes for success; on an error
\* the file is left open and empty.
Write ==
  /\ argc >= 3
  /\ \/ Continue("write", "close") /\ Holds(writefile, "text") /\ UNCHANGED faults
     \/ Continue("write", "close") /\ Holds(writefile, "part") /\ Fault
     \/ writer = "write" /\ Return(1) /\ UNCHANGED content /\ Fault

\* An error of close is not fatal.
Close ==
  /\ writer = "close"
  /\ Return(0)
  /\ UNCHANGED <<content, faults>>

Writer ==
  /\ TooFewArguments \/ Open \/ WriteNull \/ Write \/ Close
  /\ written' = written \cup {f \in {writefile} : content'[f] = "text" /\ caller = "script"}
  /\ UNCHANGED <<script, NUMFILES, i, counts, verdict, runs>>

\* A user runs the writer between the runs of the script.
UserRuns(f, n) ==
  /\ script = "start"
  /\ Run("user", f, n)
  /\ UNCHANGED <<content, script, NUMFILES, i, counts, verdict, written, runs, faults>>

-----------------------------------------------------------------------------
(* finder-test.sh and finder.sh *)

Goto(from, to) == script = from /\ script' = to

\* Mutant of Clean: the directory is not removed first.
CleanNot(n) ==
  /\ Goto("start", "loop") /\ writer = "none"
  /\ runs < MaxRuns /\ runs' = runs + 1
  /\ NUMFILES' = n /\ i' = 1
  /\ written' = {}
  /\ UNCHANGED <<content, process, counts, verdict, faults>>

\* The directory is removed and made again.
Clean(n) ==
  /\ Goto("start", "loop") /\ writer = "none"
  /\ runs < MaxRuns /\ runs' = runs + 1
  /\ NUMFILES' = n /\ i' = 1
  /\ content' = [f \in File |-> "absent"] /\ written' = {}
  /\ UNCHANGED <<process, counts, verdict, faults>>

\* mkdir fails: exit 1.
MkdirFails ==
  /\ Goto("start", "start") /\ writer = "none"
  /\ runs < MaxRuns /\ runs' = runs + 1
  /\ content' = [f \in File |-> "absent"] /\ written' = {}
  /\ verdict' = "aborted"
  /\ Fault
  /\ UNCHANGED <<process, NUMFILES, i, counts>>

WriteFile ==
  /\ Goto("loop", "wait") /\ i <= NUMFILES
  /\ Run("script", i, 3)
  /\ UNCHANGED <<content, NUMFILES, i, counts, verdict, written, runs, faults>>

NextFile ==
  /\ Goto("wait", "loop") /\ writer = "none" /\ status = 0
  /\ i' = i + 1
  /\ UNCHANGED <<content, process, NUMFILES, counts, verdict, written, runs, faults>>

\* set -e: the script ends with the writer, and the directory stays.
Abort ==
  /\ Goto("wait", "start") /\ writer = "none" /\ status # 0
  /\ verdict' = "aborted"
  /\ UNCHANGED <<content, process, NUMFILES, i, counts, written, runs, faults>>

\* Mutant of MatchingLines: each file is taken to match.
AllLines == Cardinality(Present)

MatchingLines == Cardinality({f \in File : content[f] = "text"})

RegularFiles == Cardinality(Present)

\* finder.sh counts; then the directory is removed.
Find ==
  /\ Goto("loop", "compare") /\ i > NUMFILES
  /\ file_count' = RegularFiles
  /\ line_match' = MatchingLines
  /\ content' = [f \in File |-> "absent"]
  /\ UNCHANGED <<process, NUMFILES, i, verdict, written, runs, faults>>

Compare ==
  /\ Goto("compare", "start")
  /\ verdict' = IF file_count = NUMFILES /\ line_match = NUMFILES THEN "success" ELSE "failed"
  /\ UNCHANGED <<content, process, NUMFILES, i, counts, written, runs, faults>>

Next ==
  \/ Writer
  \/ \E f \in File : \E n \in 1..3 : UserRuns(f, n)
  \/ \E n \in File : Clean(n)
  \/ MkdirFails \/ WriteFile \/ NextFile \/ Abort \/ Find \/ Compare

Spec == Init /\ [][Next]_vars

-----------------------------------------------------------------------------
(* Properties *)

\* The script says success exactly when every file got the whole text, whatever
\* an earlier run or a user left behind, and though a short write passes
\* for success with the writer.
SuccessMeansAllWritten ==
  [][Goto("compare", "start") => (verdict' = "success" <=> written = 1..NUMFILES)]_vars

\* Exit status 0 is an answer: the file then holds the text, or the part of it a
\* short write left.  The check of argc lets a writer without writestr through to
\* empty the file, but a signal ends that one.
ZeroMeansWritten ==
  [][writer # "none" /\ writer' = "none" /\ status' = 0 =>
        argc = 3 /\ content'[writefile] \in {"part", "text"}]_vars
=============================================================================
