------------------------------ MODULE LineLog ------------------------------
(***************************************************************************)
(* What /dev/aesdchar promises to its users, without a ring, buffers or a  *)
(* semaphore: a log that takes bytes one at a time, keeps the last         *)
(* Capacity lines, and answers each read at once from the lines it keeps.  *)
(***************************************************************************)
EXTENDS Integers, SequencesExt

CONSTANTS
  Reader,         \* the open files
  Byte, Newline,  \* what is logged; Newline ends a line
  Capacity,       \* how many lines are kept
  ReadCounts      \* how many bytes a read may ask for

VARIABLES
  lines,    \* the lines kept, oldest first, each with its Newline
  partial,  \* the bytes since the last Newline
  dropped,  \* how many bytes have been dropped from the front
  pos,      \* the position of each reader in the stream of all bytes
  reply     \* the bytes a reader is being given

vars == <<lines, partial, dropped, pos, reply>>

\* The bytes a reader can see.
Text == FlattenSeq(lines)

Init ==
  /\ lines = <<>> /\ partial = <<>> /\ dropped = 0
  /\ pos = [r \in Reader |-> 0] /\ reply = [r \in Reader |-> <<>>]

\* A byte is taken.  A Newline completes a line, which may push one out.
Accept(byte) ==
  /\ IF byte # Newline
     THEN /\ partial' = Append(partial, byte)
          /\ UNCHANGED <<lines, dropped>>
     ELSE LET all == Append(lines, Append(partial, Newline))
          IN  /\ partial' = <<>>
              /\ IF Len(lines) < Capacity
                 THEN lines' = all /\ UNCHANGED dropped
                 ELSE lines' = Tail(all) /\ dropped' = dropped + Len(Head(all))
  /\ UNCHANGED <<pos, reply>>

\* A read is answered: from the reader's position, or from the oldest byte
\* kept when that one has been dropped, up to n bytes.
Read(r, n) ==
  LET skip == IF pos[r] < dropped THEN 0 ELSE pos[r] - dropped
      rest == Len(Text) - skip
      size == IF rest < 0 THEN 0 ELSE IF rest < n THEN rest ELSE n
  IN  /\ reply[r] = <<>>
      /\ reply' = [reply EXCEPT ![r] = SubSeq(Text, skip + 1, skip + size)]
      /\ pos' = [pos EXCEPT ![r] = dropped + skip + size]
      /\ UNCHANGED <<lines, partial, dropped>>

\* The reader has its answer.
Return(r) ==
  /\ reply' = [reply EXCEPT ![r] = <<>>]
  /\ UNCHANGED <<lines, partial, dropped, pos>>

\* The file is closed; another one starts at the front.
Close(r) ==
  /\ pos' = [pos EXCEPT ![r] = 0]
  /\ UNCHANGED <<lines, partial, dropped, reply>>

\* The log is emptied when no file is in use.
Reset ==
  /\ \A r \in Reader : pos[r] = 0 /\ reply[r] = <<>>
  /\ lines' = <<>> /\ partial' = <<>> /\ dropped' = 0
  /\ UNCHANGED <<pos, reply>>

Next ==
  \/ Reset
  \/ \E byte \in Byte : Accept(byte)
  \/ \E r \in Reader : Return(r) \/ Close(r) \/ \E n \in ReadCounts : Read(r, n)

Spec == Init /\ [][Next]_vars
=============================================================================
