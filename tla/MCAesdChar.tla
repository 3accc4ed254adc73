----------------------------- MODULE MCAesdChar -----------------------------
(***************************************************************************)
(* TLC instances of AesdChar: a ring of two lines, so that a stream of     *)
(* four or five bytes fills it, wraps it around and evicts.                *)
(***************************************************************************)
EXTENDS AesdCharLog, TLC

CONSTANTS a, b, nl   \* the bytes: two letters and the newline

MCByte == {a, b, nl}
Threads == Permutations(Thread)

\* Two lines, a buffer that grows, the buffer it replaces, and a reader's.
MCPtr == 1..6

\* A write of no bytes, part of a line, an empty line with the start of the line
\* after, and two whole lines.  (With <<>> a write that MaxStream leaves no room
\* for is still a call.)
MCPayloads == {<<>>, <<a>>, <<nl, b>>, <<a, nl, nl>>}
=============================================================================
