------------------------------ MODULE AesdChar ------------------------------
(***************************************************************************)
(* The character device driver aesd-char-driver/main.c: the device         *)
(* structure aesd_dev (a ring of lines, the unfinished line curr_input and *)
(* the count of bytes dropped), the kernel heap it allocates from, and     *)
(* threads that open, read, write and release /dev/aesdchar while the      *)
(* module is loaded and unloaded.                                          *)
(*                                                                         *)
(* aesd_read and aesd_write run between down(&dev->sem) and up(&dev->sem). *)
(* Each is cut at its loops: one action per iteration, so that what the    *)
(* device looks like in the middle of a call is part of the model.         *)
(*                                                                         *)
(* stream and marks are history variables: every byte the driver took, and *)
(* the length of stream at the end of each line committed to the ring.     *)
(***************************************************************************)
EXTENDS RingIndex, Sequences

CONSTANTS
  Thread,         \* user threads, each with a file of its own on the device
  Byte, Newline,  \* what is written; Newline is '\n'
  Ptr,            \* heap addresses kmalloc can hand out
  NULL, ZERO_SIZE_PTR, \* the two results of kmalloc that own no memory
  Payloads,       \* the buffers write(2) is called with
  ReadCounts,     \* the counts read(2) is called with
  MaxStream,      \* bound: bytes taken since the module was loaded
  MaxFaults       \* bound: injected failures of kmalloc and of user copies

ASSUME ByteAssumption == Newline \in Byte
ASSUME PtrAssumption == /\ NULL \notin Ptr
                        /\ ZERO_SIZE_PTR \notin Ptr
                        /\ NULL # ZERO_SIZE_PTR
ASSUME CallAssumption == Payloads \subseteq Seq(Byte) /\ ReadCounts \subseteq Nat
ASSUME BoundAssumption == MaxStream \in Nat /\ MaxFaults \in Nat

VARIABLES
  loaded,                                     \* the module is loaded
  entry, curr_input, in_offs, out_offs, full, \* struct aesd_dev
  total_bytes_evicted, sem,
  mem, allocated,           \* heap: contents of each buffer, buffers in use
  pc, wr, rd,               \* where each thread is, locals of write and read
  fpos,                     \* filp->f_pos of each thread's file
  faults,                   \* failures injected so far
  stream, marks             \* history

dev == <<entry, curr_input, in_offs, out_offs, full, total_bytes_evicted>>
heap == <<mem, allocated>>
history == <<stream, marks>>
vars == <<loaded, dev, sem, heap, pc, wr, rd, fpos, faults, history>>

Address == Ptr \cup {NULL, ZERO_SIZE_PTR}
NoEntry == [buffptr |-> NULL, size |-> 0]

ENOMEM == 12
EFAULT == 14

IdleWrite == [buf |-> <<>>, count |-> 0, i |-> 0, curr_size |-> 0, new_buf |-> NULL,
              retval |-> 0, start |-> 0]
IdleRead == [count |-> 0, pos |-> 0, i |-> 0, sum |-> 0, buf_index |-> 0,
             start_char_index |-> 0, entries_read |-> 0, total_entries |-> 0,
             bytes_read |-> 0, kernel_buf |-> NULL, retval |-> 0]

-----------------------------------------------------------------------------
(* The ring of lines *)

NumEntries == EntriesBetween(in_offs, out_offs, full)
SlotOf(k) == SlotAfter(out_offs, k)

\* Mutant of EntriesFrom: a full ring read from its oldest entry looks empty.
EntriesFromNotFull(i) == Uint8(CMod(in_offs - i + MaxEntries, MaxEntries))

\* total_entries of aesd_read: the entries from slot i up to in_offs.
EntriesFrom(i) ==
  IF full /\ i = in_offs
  THEN MaxEntries
  ELSE Uint8(CMod(in_offs - i + MaxEntries, MaxEntries))

-----------------------------------------------------------------------------
(* Kernel memory (external: slab allocator and user copies) *)

\* What kmalloc(n) may return when the buffers in used are taken: the next
\* free buffer, or NULL when none is left or a failure is injected.
Kmalloc(n, used) ==
  LET free == Ptr \ used
  IN  IF n = 0 THEN {ZERO_SIZE_PTR}
      ELSE IF free = {} THEN {NULL}
      ELSE {CHOOSE p \in free : TRUE}
           \cup (IF faults < MaxFaults THEN {NULL} ELSE {})

\* Count the failure of an allocation that could have succeeded.
CountFailure(p, used) ==
  faults' = IF p = NULL /\ Ptr \ used # {} THEN faults + 1 ELSE faults

\* A copy to or from user space may fault.
InjectFault == faults < MaxFaults /\ faults' = faults + 1

\* The bytes of the unfinished line kept between two writes.
Pending == SubSeq(mem[curr_input.buffptr], 1, curr_input.size)

-----------------------------------------------------------------------------
(* Loading and unloading the module *)

\* Before the module is loaded: the zeroed global aesd_device, no file open.
Init ==
  /\ loaded = FALSE
  /\ entry = [i \in Slot |-> NoEntry] /\ curr_input = NoEntry
  /\ in_offs = 0 /\ out_offs = 0 /\ full = FALSE
  /\ total_bytes_evicted = 0 /\ sem = 0
  /\ mem = [a \in Address |-> <<>>] /\ allocated = {}
  /\ pc = [t \in Thread |-> "closed"]
  /\ wr = [t \in Thread |-> IdleWrite] /\ rd = [t \in Thread |-> IdleRead]
  /\ fpos = [t \in Thread |-> 0]
  /\ faults = 0
  /\ stream = <<>> /\ marks = <<>>

\* The memset and the explicit resets of aesd_init_module, and sema_init.
ResetDevice ==
  /\ entry' = [i \in Slot |-> NoEntry] /\ curr_input' = NoEntry
  /\ in_offs' = 0 /\ out_offs' = 0 /\ full' = FALSE
  /\ total_bytes_evicted' = 0 /\ sem' = 1
  /\ stream' = <<>> /\ marks' = <<>>

\* aesd_init_module.
InitModule ==
  /\ ~loaded
  /\ loaded' = TRUE
  /\ ResetDevice
  /\ UNCHANGED <<heap, pc, wr, rd, fpos, faults>>

\* The same when cdev_add fails: the device is reset and stays unreachable.
InitModuleFails ==
  /\ ~loaded
  /\ InjectFault
  /\ ResetDevice
  /\ UNCHANGED <<loaded, heap, pc, wr, rd, fpos>>

\* The buffers free_all_aesd_dev_buffer frees: those of all slots when full,
\* of the slots from out_offs up to in_offs otherwise, and curr_input's.
FreedAtExit ==
  {entry[SlotOf(k)].buffptr : k \in 0..NumEntries - 1} \cup {curr_input.buffptr}

\* aesd_cleanup_module; an open file pins the module (.owner = THIS_MODULE).
CleanupModule ==
  /\ loaded
  /\ \A t \in Thread : pc[t] = "closed"
  /\ loaded' = FALSE
  /\ allocated' = allocated \ FreedAtExit
  /\ mem' = [a \in Address |-> IF a \in FreedAtExit THEN <<>> ELSE mem[a]]
  /\ UNCHANGED <<dev, sem, pc, wr, rd, fpos, faults, history>>

-----------------------------------------------------------------------------
(* Files and the entry of each call *)

Goto(t, from, to) == pc[t] = from /\ pc' = [pc EXCEPT ![t] = to]

\* aesd_open on a new file, whose f_pos is 0; aesd_release.
Open(t) ==
  /\ loaded
  /\ Goto(t, "closed", "open")
  /\ UNCHANGED <<loaded, dev, sem, heap, wr, rd, fpos, faults, history>>

Release(t) ==
  /\ Goto(t, "open", "closed")
  /\ fpos' = [fpos EXCEPT ![t] = 0]
  /\ UNCHANGED <<loaded, dev, sem, heap, wr, rd, faults, history>>

\* A thread enters aesd_write or aesd_read and waits in down(&dev->sem).
Call(t) ==
  /\ Goto(t, "open", "write") \/ Goto(t, "open", "read")
  /\ UNCHANGED <<loaded, dev, sem, heap, wr, rd, fpos, faults, history>>

Down == sem = 1 /\ sem' = 0
Up == sem' = sem + 1

-----------------------------------------------------------------------------
(* aesd_write *)

\* The state of a write of payload by t once it holds the semaphore: buf and
\* count are its arguments, start is where stream was.
WriteStart(t, payload) ==
  [IdleWrite EXCEPT !.buf = payload, !.count = Len(payload),
                    !.curr_size = curr_input.size, !.start = Len(stream)]

\* Mutant of WriteNoMemory: the early return does not go through out.
WriteNoMemoryKeepingSem(t, payload) ==
  /\ Goto(t, "write", "open")
  /\ Down
  /\ NULL \in Kmalloc(curr_input.size + Len(payload), allocated)
  /\ CountFailure(NULL, allocated)
  /\ UNCHANGED <<loaded, dev, heap, wr, rd, fpos, history>>

\* new_buf = kmalloc(curr_size + count) fails: -ENOMEM.
WriteNoMemory(t, payload) ==
  /\ Goto(t, "write", "w_out")
  /\ Down
  /\ NULL \in Kmalloc(curr_input.size + Len(payload), allocated)
  /\ CountFailure(NULL, allocated)
  /\ wr' = [wr EXCEPT ![t] = [WriteStart(t, payload) EXCEPT !.retval = -ENOMEM]]
  /\ UNCHANGED <<loaded, dev, heap, rd, fpos, history>>

\* Mutant of GrowInput: the new bytes are put before the unfinished line.
GrowInputInFront(new_buf, bytes) ==
  LET old == IF curr_input.size > 0 THEN {curr_input.buffptr} ELSE {}
  IN  /\ allocated' = (allocated \cup ({new_buf} \cap Ptr)) \ old
      /\ mem' = [a \in Address |-> IF a = new_buf THEN bytes \o Pending
                                   ELSE IF a \in old THEN <<>> ELSE mem[a]]
      /\ curr_input' = [curr_input EXCEPT !.buffptr = new_buf]
      /\ UNCHANGED <<entry, in_offs, out_offs, full, total_bytes_evicted>>

\* curr_input moves to new_buf: its bytes are copied, bytes follow them, and
\* its old buffer is freed, but only when it held some bytes.
GrowInput(new_buf, bytes) ==
  LET old == IF curr_input.size > 0 THEN {curr_input.buffptr} ELSE {}
  IN  /\ allocated' = (allocated \cup ({new_buf} \cap Ptr)) \ old
      /\ mem' = [a \in Address |-> IF a = new_buf THEN Pending \o bytes
                                   ELSE IF a \in old THEN <<>> ELSE mem[a]]
      /\ curr_input' = [curr_input EXCEPT !.buffptr = new_buf]
      /\ UNCHANGED <<entry, in_offs, out_offs, full, total_bytes_evicted>>

\* copy_from_user fails: -EFAULT, curr_input keeps its old bytes in new_buf.
WriteFault(t, payload) ==
  /\ Goto(t, "write", "w_out")
  /\ Down
  /\ InjectFault
  /\ payload # <<>>
  /\ \E p \in Kmalloc(curr_input.size + Len(payload), allocated) \ {NULL} :
        GrowInput(p, <<>>)
  /\ wr' = [wr EXCEPT ![t] = [WriteStart(t, payload) EXCEPT !.retval = -EFAULT]]
  /\ UNCHANGED <<loaded, rd, fpos, history>>

WriteBegin(t, payload) ==
  /\ Goto(t, "write", "w_loop")
  /\ Down
  /\ Len(stream) + Len(payload) <= MaxStream
  /\ \E p \in Kmalloc(curr_input.size + Len(payload), allocated) \ {NULL} :
        /\ GrowInput(p, payload)
        /\ wr' = [wr EXCEPT ![t] = [WriteStart(t, payload) EXCEPT !.new_buf = p]]
  /\ UNCHANGED <<loaded, rd, fpos, faults, history>>

\* The byte the loop looks at, and the test of the for statement.
ByteAt(t) == mem[wr[t].new_buf][wr[t].curr_size + 1]
MoreToWrite(t) == pc[t] = "w_loop" /\ wr[t].i < wr[t].count

\* Any other byte than '\n' only lengthens the unfinished line.
WriteByte(t) ==
  /\ MoreToWrite(t)
  /\ ByteAt(t) # Newline
  /\ wr' = [wr EXCEPT ![t].curr_size = @ + 1, ![t].i = @ + 1]
  /\ stream' = Append(stream, ByteAt(t))
  /\ UNCHANGED <<loaded, dev, sem, heap, pc, rd, fpos, faults, marks>>

\* The buffer of the oldest line, freed by a commit to a full ring.
Evicted == IF full THEN {entry[out_offs].buffptr} ELSE {}

\* Mutant of CommitEntry: the newline of an evicted line is not counted.
CommitEntryUncounted(p, size) ==
  /\ IF full
     THEN /\ total_bytes_evicted' = total_bytes_evicted + entry[out_offs].size - 1
          /\ out_offs' = NextSlot(out_offs)
          /\ UNCHANGED full
     ELSE /\ full' = (NextSlot(in_offs) = out_offs)
          /\ UNCHANGED <<out_offs, total_bytes_evicted>>
  /\ entry' = [entry EXCEPT ![in_offs] = [buffptr |-> p, size |-> size]]
  /\ in_offs' = NextSlot(in_offs)

\* Mutant of CommitEntry: out_offs stays on the line that was evicted.
CommitEntryKeepingOutOffs(p, size) ==
  /\ total_bytes_evicted' = total_bytes_evicted + (IF full THEN entry[out_offs].size ELSE 0)
  /\ full' = (full \/ NextSlot(in_offs) = out_offs)
  /\ entry' = [entry EXCEPT ![in_offs] = [buffptr |-> p, size |-> size]]
  /\ in_offs' = NextSlot(in_offs)
  /\ UNCHANGED out_offs

\* A line of size bytes in buffer p takes slot in_offs.
CommitEntry(p, size) ==
  /\ IF full
     THEN /\ total_bytes_evicted' = total_bytes_evicted + entry[out_offs].size
          /\ out_offs' = NextSlot(out_offs)
          /\ UNCHANGED full
     ELSE /\ full' = (NextSlot(in_offs) = out_offs)
          /\ UNCHANGED <<out_offs, total_bytes_evicted>>
  /\ entry' = [entry EXCEPT ![in_offs] = [buffptr |-> p, size |-> size]]
  /\ in_offs' = NextSlot(in_offs)

\* Mutant of InputAfterLine: a failed allocation leaves curr_input alone.
InputAfterLineKept(p, remaining) ==
  IF p = NULL THEN curr_input ELSE [buffptr |-> p, size |-> remaining]

\* curr_input after a commit, p being what kmalloc(remaining + 1) returned.
InputAfterLine(p, remaining) ==
  [buffptr |-> p, size |-> IF p = NULL THEN 0 ELSE remaining]

\* Mutant of ShortWrite: the newline just committed is not counted.
ShortWriteOffByOne(t) == wr[t].i

\* What a write reports when it has to stop after the line it committed.
ShortWrite(t) == wr[t].i + 1

\* '\n' commits the line; the bytes after it move to a buffer of their own.
\* When that allocation fails they are dropped: a short write.
WriteNewline(t) ==
  /\ MoreToWrite(t)
  /\ ByteAt(t) = Newline
  /\ CommitEntry(wr[t].new_buf, wr[t].curr_size + 1)
  /\ stream' = Append(stream, Newline)
  /\ marks' = Append(marks, Len(stream) + 1)
  /\ LET remaining == wr[t].count - wr[t].i - 1
         rest == SubSeq(mem[wr[t].new_buf], wr[t].curr_size + 2,
                        wr[t].curr_size + 1 + remaining)
         kept == allocated \ Evicted
     IN  \E p \in Kmalloc(remaining + 1, kept) :
           /\ CountFailure(p, kept)
           /\ allocated' = kept \cup ({p} \cap Ptr)
           /\ mem' = [a \in Address |-> IF a = p /\ p # NULL THEN rest
                                        ELSE IF a \in Evicted THEN <<>> ELSE mem[a]]
           /\ curr_input' = InputAfterLine(p, remaining)
           /\ wr' = [wr EXCEPT ![t].new_buf = p, ![t].curr_size = 0, ![t].i = @ + 1,
                               ![t].retval = IF p = NULL THEN ShortWrite(t) ELSE @]
           /\ pc' = [pc EXCEPT ![t] = IF p = NULL THEN "w_out" ELSE @]
  /\ UNCHANGED <<loaded, sem, rd, fpos>>

\* After the loop: what is left is the unfinished line.
WriteEnd(t) ==
  /\ ~MoreToWrite(t)
  /\ Goto(t, "w_loop", "w_out")
  /\ curr_input' = [buffptr |-> wr[t].new_buf, size |-> wr[t].curr_size]
  /\ wr' = [wr EXCEPT ![t].retval = wr[t].count]
  /\ UNCHANGED <<loaded, entry, in_offs, out_offs, full, total_bytes_evicted, sem,
                 heap, rd, fpos, faults, history>>

\* out: up(&dev->sem) and return.
WriteOut(t) ==
  /\ Goto(t, "w_out", "open")
  /\ Up
  /\ wr' = [wr EXCEPT ![t] = IdleWrite]
  /\ UNCHANGED <<loaded, dev, heap, rd, fpos, faults, history>>

-----------------------------------------------------------------------------
(* aesd_read *)

\* The position a read starts at: f_pos, moved forward when the bytes there
\* were evicted.
SnappedPos(t) ==
  IF fpos[t] < total_bytes_evicted THEN total_bytes_evicted ELSE fpos[t]

\* kernel_buf = kmalloc(count) fails: -ENOMEM.
ReadNoMemory(t, count) ==
  /\ Goto(t, "read", "r_out")
  /\ Down
  /\ NULL \in Kmalloc(count, allocated)
  /\ CountFailure(NULL, allocated)
  /\ rd' = [rd EXCEPT ![t] = [IdleRead EXCEPT !.count = count, !.pos = SnappedPos(t),
                                              !.retval = -ENOMEM]]
  /\ UNCHANGED <<loaded, dev, heap, wr, fpos, history>>

ReadBegin(t, count) ==
  /\ Goto(t, "read", "r_find")
  /\ Down
  /\ \E p \in Kmalloc(count, allocated) \ {NULL} :
        /\ allocated' = allocated \cup ({p} \cap Ptr)
        /\ rd' = [rd EXCEPT ![t] = [IdleRead EXCEPT !.count = count, !.pos = SnappedPos(t),
                                                    !.kernel_buf = p]]
  /\ UNCHANGED <<loaded, dev, mem, wr, fpos, faults, history>>

\* aesd_dev_find_entry_offset_for_fpos: iteration i looks at the i-th oldest
\* entry, sum is the bytes of those before it.
CharOffset(t) == rd[t].pos - total_bytes_evicted
MoreToScan(t) ==
  /\ pc[t] = "r_find"
  /\ rd[t].i < (IF rd[t].pos < total_bytes_evicted THEN 0 ELSE NumEntries)
EntryHit(t) == rd[t].sum + entry[SlotOf(rd[t].i)].size > CharOffset(t)

FindNext(t) ==
  /\ MoreToScan(t)
  /\ ~EntryHit(t)
  /\ rd' = [rd EXCEPT ![t].sum = @ + entry[SlotOf(rd[t].i)].size, ![t].i = @ + 1]
  /\ UNCHANGED <<loaded, dev, sem, heap, pc, wr, fpos, faults, history>>

FindHit(t) ==
  /\ MoreToScan(t)
  /\ EntryHit(t)
  /\ Goto(t, "r_find", "r_copy")
  /\ LET i == SlotOf(rd[t].i)
     IN  rd' = [rd EXCEPT ![t].buf_index = i, ![t].total_entries = EntriesFrom(i),
                          ![t].start_char_index = CharOffset(t) - rd[t].sum]
  /\ UNCHANGED <<loaded, dev, sem, heap, wr, fpos, faults, history>>

\* No entry holds the position: end of file, 0 bytes.
FindEof(t) ==
  /\ ~MoreToScan(t)
  /\ Goto(t, "r_find", "r_out")
  /\ UNCHANGED <<loaded, dev, sem, heap, wr, rd, fpos, faults, history>>

\* The tests that let another entry be copied.
MoreToCopy(t) ==
  /\ pc[t] = "r_copy"
  /\ rd[t].bytes_read < rd[t].count
  /\ ~(rd[t].buf_index = in_offs /\ ~full)
  /\ rd[t].entries_read < rd[t].total_entries

\* Mutant of CopyEntry: the entry is not counted.
CopyEntryNotCounted(t) ==
  LET r == rd[t]
      e == entry[r.buf_index]
      left == e.size - r.start_char_index
      room == r.count - r.bytes_read
      n == IF left <= room THEN left ELSE room
      bytes == SubSeq(mem[e.buffptr], r.start_char_index + 1, r.start_char_index + n)
  IN  /\ MoreToCopy(t)
      /\ mem' = [mem EXCEPT ![r.kernel_buf] = @ \o bytes]
      /\ rd' = [rd EXCEPT ![t].bytes_read = @ + n,
                          ![t].start_char_index = 0, ![t].buf_index = NextSlot(@)]
      /\ pc' = [pc EXCEPT ![t] = IF left >= room THEN "r_user" ELSE @]
      /\ UNCHANGED <<loaded, dev, sem, allocated, wr, fpos, faults, history>>

\* One iteration: the rest of the entry, or as much of it as count allows.  (The
\* iteration that fills count need not move buf_index and start_char_index: no
\* code looks at them after it.)
CopyEntry(t) ==
  LET r == rd[t]
      e == entry[r.buf_index]
      left == e.size - r.start_char_index
      room == r.count - r.bytes_read
      n == IF left <= room THEN left ELSE room
      bytes == SubSeq(mem[e.buffptr], r.start_char_index + 1, r.start_char_index + n)
  IN  /\ MoreToCopy(t)
      /\ mem' = [mem EXCEPT ![r.kernel_buf] = @ \o bytes]
      /\ rd' = [rd EXCEPT ![t].bytes_read = @ + n, ![t].entries_read = @ + 1,
                          ![t].start_char_index = 0, ![t].buf_index = NextSlot(@)]
      /\ pc' = [pc EXCEPT ![t] = IF left >= room THEN "r_user" ELSE @]
      /\ UNCHANGED <<loaded, dev, sem, allocated, wr, fpos, faults, history>>

CopyDone(t) ==
  /\ ~MoreToCopy(t)
  /\ Goto(t, "r_copy", "r_user")
  /\ UNCHANGED <<loaded, dev, sem, heap, wr, rd, fpos, faults, history>>

\* Mutant of CopyToUser: the position moves by the count that was asked for.
CopyToUserByCount(t) ==
  /\ Goto(t, "r_user", "r_out")
  /\ rd' = [rd EXCEPT ![t].pos = @ + rd[t].count, ![t].retval = rd[t].bytes_read]
  /\ UNCHANGED <<loaded, dev, sem, heap, wr, fpos, faults, history>>

\* copy_to_userspace: *f_pos moves by bytes_read whether the copy worked or not.
CopyToUser(t) ==
  /\ Goto(t, "r_user", "r_out")
  /\ rd' = [rd EXCEPT ![t].pos = @ + rd[t].bytes_read, ![t].retval = rd[t].bytes_read]
  /\ UNCHANGED <<loaded, dev, sem, heap, wr, fpos, faults, history>>

CopyToUserFault(t) ==
  /\ Goto(t, "r_user", "r_out")
  /\ InjectFault
  /\ rd[t].bytes_read > 0
  /\ rd' = [rd EXCEPT ![t].pos = @ + rd[t].bytes_read, ![t].retval = -EFAULT]
  /\ UNCHANGED <<loaded, dev, sem, heap, wr, fpos, history>>

\* read(2) hands aesd_read a copy of filp->f_pos and stores it back only when
\* the call did not fail (external: the VFS).
StoredPos(t) == IF rd[t].retval >= 0 THEN rd[t].pos ELSE fpos[t]

\* out: kfree(kernel_buf), up(&dev->sem) and return.
ReadOut(t) ==
  /\ Goto(t, "r_out", "open")
  /\ Up
  /\ allocated' = allocated \ {rd[t].kernel_buf}
  /\ mem' = [mem EXCEPT ![rd[t].kernel_buf] = <<>>]
  /\ fpos' = [fpos EXCEPT ![t] = StoredPos(t)]
  /\ rd' = [rd EXCEPT ![t] = IdleRead]
  /\ UNCHANGED <<loaded, dev, wr, faults, history>>

-----------------------------------------------------------------------------
Write(t) ==
  \/ \E payload \in Payloads :
        WriteNoMemory(t, payload) \/ WriteFault(t, payload) \/ WriteBegin(t, payload)
  \/ WriteByte(t) \/ WriteNewline(t) \/ WriteEnd(t) \/ WriteOut(t)

Read(t) ==
  \/ \E count \in ReadCounts : ReadNoMemory(t, count) \/ ReadBegin(t, count)
  \/ FindNext(t) \/ FindHit(t) \/ FindEof(t)
  \/ CopyEntry(t) \/ CopyDone(t) \/ CopyToUser(t) \/ CopyToUserFault(t) \/ ReadOut(t)

Next ==
  \/ InitModule \/ InitModuleFails \/ CleanupModule
  \/ \E t \in Thread : Open(t) \/ Release(t) \/ Call(t) \/ Write(t) \/ Read(t)

Spec == Init /\ [][Next]_vars

-----------------------------------------------------------------------------
(* Properties *)

WriteLocals == [buf : Seq(Byte), count : Nat, i : Nat, curr_size : Nat, new_buf : Address,
                retval : Int, start : Nat]
ReadLocals == [count : Nat, pos : Nat, i : Nat, sum : Nat, buf_index : Slot,
               start_char_index : Nat, entries_read : Nat, total_entries : Nat,
               bytes_read : Nat, kernel_buf : Address, retval : Int]
InWrite == {"w_loop", "w_out"}
InRead == {"r_find", "r_copy", "r_user", "r_out"}

\* Types of the device, of the heap and of the locals of both handlers.
TypeOK ==
  /\ loaded \in BOOLEAN
  /\ entry \in [Slot -> [buffptr : Address, size : Nat]]
  /\ curr_input \in [buffptr : Address, size : Nat]
  /\ in_offs \in Slot /\ out_offs \in Slot /\ full \in BOOLEAN
  /\ total_bytes_evicted \in Nat
  /\ sem \in 0..1
  /\ mem \in [Address -> Seq(Byte)] /\ allocated \subseteq Ptr
  /\ pc \in [Thread -> {"closed", "open", "write", "read"} \cup InWrite \cup InRead]
  /\ wr \in [Thread -> WriteLocals] /\ rd \in [Thread -> ReadLocals]
  /\ fpos \in [Thread -> Nat]
  /\ faults \in 0..MaxFaults
  /\ stream \in Seq(Byte) /\ marks \in Seq(Nat)

\* The threads between down and up.
Holders == {t \in Thread : pc[t] \in InWrite \cup InRead}

\* The semaphore is taken by one thread at a time and given back on every path
\* out of both handlers, the failing ones included: once, and not twice.
SemaphoreHeldByOne ==
  /\ \A t, u \in Holders : t = u
  /\ loaded => sem = IF Holders = {} THEN 1 ELSE 0

\* Where line j of stream ends; line 0 ends before the first byte.
Mark(j) == IF j = 0 THEN 0 ELSE marks[j]

\* The number of the oldest line in the ring is FirstLine + 1.
FirstLine == Len(marks) - NumEntries

\* The bytes of entry k, oldest first.
LineAt(k) == SubSeq(mem[entry[SlotOf(k)].buffptr], 1, entry[SlotOf(k)].size)

\* The ring holds the newest MaxEntries lines ever completed, each with the
\* very bytes that were written, whatever the chunks the writers used; no
\* interleaving of calls, failed allocation or faulting copy spoils a line.
HoldsTheNewestLines ==
  /\ NumEntries = IF Len(marks) < MaxEntries THEN Len(marks) ELSE MaxEntries
  /\ loaded => \A k \in 0..NumEntries - 1 :
        LineAt(k) = SubSeq(stream, Mark(FirstLine + k) + 1, Mark(FirstLine + k + 1))

\* total_bytes_evicted is the position of the oldest byte in the ring: what
\* read snaps a stale f_pos to and subtracts from every other one.
EvictedBytesExact == total_bytes_evicted = Mark(FirstLine)

\* The buffers the device structure owns, as <<where, buffer>>.
Owned ==
  {<<k, entry[SlotOf(k)].buffptr>> : k \in 0..NumEntries - 1}
  \cup (IF curr_input.buffptr \in Ptr THEN {<<-1, curr_input.buffptr>>} ELSE {})

\* No two owners share a buffer and no owner's buffer has been freed, so that
\* the kfree of an eviction, of a growing line or of module exit can neither
\* free twice nor free a buffer a reader still copies from.
BuffersOwnedOnce ==
  loaded => /\ \A o \in Owned : o[2] \in allocated
            /\ \A o, q \in Owned : o[2] = q[2] => o = q

\* What a read hands to the user is the bytes at its position in the stream of
\* all lines, as many as count and the completed lines allow: no byte is
\* skipped, repeated or taken from an overwritten slot, at any wrap-around.
ReadReturnsTheStream ==
  \A t \in Thread : pc[t] = "r_user" =>
     LET r == rd[t]
         available == Mark(Len(marks)) - r.pos
     IN  /\ r.bytes_read = IF r.count < available THEN r.count ELSE available
         /\ r.bytes_read > 0 =>
              mem[r.kernel_buf] = SubSeq(stream, r.pos + 1, r.pos + r.bytes_read)

\* A write returns the number of bytes the driver took, and an error only when
\* it took none, and what it took is the front of the caller's buffer: a caller
\* that retries the rest neither loses nor repeats any byte, though the bytes
\* moved to another buffer at every newline and the ring may have wrapped.
WriteReportsWhatItTook ==
  \A t \in Thread : pc[t] = "w_out" =>
     LET taken == IF wr[t].retval < 0 THEN 0 ELSE wr[t].retval
     IN  /\ Len(stream) = wr[t].start + taken
         /\ SubSeq(stream, wr[t].start + 1, Len(stream)) = SubSeq(wr[t].buf, 1, taken)

\* A reader's position changes by what it was given and nothing else: it moves
\* over bytes it never received only when they were evicted.
ReaderSkipsOnlyEvicted ==
  [][\A t \in Thread : pc'[t] = "open" /\ fpos'[t] # fpos[t] =>
        LET from == fpos'[t] - rd[t].retval
        IN  /\ rd[t].retval >= 0
            /\ from >= fpos[t]
            /\ from > fpos[t] => from = Mark(FirstLine)]_vars

\* A bound on the steps t has still to make before it gives the semaphore back.
StepsLeft(t) ==
  CASE pc[t] = "w_loop" -> wr[t].count - wr[t].i + 1
    [] pc[t] = "r_find" -> MaxEntries - rd[t].i + MaxEntries + 3
    [] pc[t] = "r_copy" -> MaxEntries - rd[t].entries_read + 2
    [] pc[t] = "r_user" -> 1
    [] OTHER -> 0

\* Every call comes to an end: each step a thread makes with the semaphore takes
\* it nearer to up(&dev->sem), so that none of the loops of read and write runs
\* for ever, whatever is in the ring and whichever step fails.
CallsComeToAnEnd ==
  [][\A t \in Holders :
        <<pc[t], wr[t], rd[t], dev, heap, stream>>'
           # <<pc[t], wr[t], rd[t], dev, heap, stream>> =>
        StepsLeft(t)' \in 0..StepsLeft(t) - 1 \/ pc'[t] = "open"]_vars

\* The comment in aesd_cleanup_module: it cleans up what the driver allocated.
CleanupFreesEverything == ~loaded => allocated = {}
=============================================================================
