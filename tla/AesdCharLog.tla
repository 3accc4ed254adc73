---------------------------- MODULE AesdCharLog ----------------------------
(***************************************************************************)
(* The driver implements the line log: the refinement mapping from the     *)
(* state of AesdChar to that of LineLog.                                   *)
(***************************************************************************)
EXTENDS AesdChar

\* The lines in the ring; none while the module is not loaded.
Lines == IF loaded THEN [k \in 1..NumEntries |-> LineAt(k - 1)] ELSE <<>>

\* The unfinished line: the part of new_buf a running write has gone through,
\* curr_input when no write is running.
Writers == {t \in Thread : pc[t] = "w_loop"}
Partial ==
  IF ~loaded THEN <<>>
  ELSE IF Writers = {} THEN Pending
  ELSE LET w == wr[CHOOSE t \in Writers : TRUE]
       IN  SubSeq(mem[w.new_buf], 1, w.curr_size)

\* A read takes effect when it leaves with its bytes in kernel_buf.
Position(t) == IF pc[t] = "r_out" THEN StoredPos(t) ELSE fpos[t]
Reply(t) == IF pc[t] = "r_out" /\ rd[t].retval >= 0
            THEN mem[rd[t].kernel_buf] ELSE <<>>

Log == INSTANCE LineLog WITH
  Reader <- Thread,
  Capacity <- MaxEntries,
  lines <- Lines,
  partial <- Partial,
  dropped <- IF loaded THEN total_bytes_evicted ELSE 0,
  pos <- [t \in Thread |-> Position(t)],
  reply <- [t \in Thread |-> Reply(t)]

\* Every behaviour of the driver is one of the line log: a write adds its
\* bytes one at a time and in order, a read is answered in one step from the
\* lines held at that step, though both handlers run for many steps and can
\* fail half way (aesd_read, aesd_write, the semaphore of struct aesd_dev).
RefinesLineLog == Log!Spec
=============================================================================
