--------------------------- MODULE MCSocketWorker ---------------------------
(***************************************************************************)
(* TLC instances of SocketWorker: two clients on a device of two lines.    *)
(***************************************************************************)
EXTENDS SocketWorker

CONSTANTS a, b, nl   \* the bytes: two letters and the newline

MCByte == {a, b, nl}

\* Part of a line, a line, two lines, a line and part of the next.
MCMessages == {<<a>>, <<b, nl>>, <<nl, nl>>, <<a, nl, b>>}

\* A line longer than BUFSIZE, as the long string of server/test.sh.
LongLine == {<<a, b, nl>>}
=============================================================================
