---------------------------- MODULE AesdCharProofs ----------------------------
(***************************************************************************)
(* Proofs about the character driver, for every ring size, number of       *)
(* threads, heap, set of payloads and of counts: that one thread at a time *)
(* is in a handler; that no buffer of the device is shared or used after   *)
(* it was freed; which lines the ring holds and which bytes are in them,   *)
(* and what a read and a write report of them; and that all of this        *)
(* implements the line log.                                                *)
(*                                                                         *)
(* Types and the heap go together.  That a buffer holds at least the bytes *)
(* the device believes it holds needs that nobody else writes to it or     *)
(* frees it, and that the loops stay inside their buffers needs its        *)
(* length.                                                                 *)
(*                                                                         *)
(* Lines are numbered from the first one ever completed, and line l stays  *)
(* in its slot until it is evicted: numbering them by their place in the   *)
(* ring would make every commit to a full ring move all of them.           *)
(***************************************************************************)
EXTENDS AesdCharLog, SequenceTheorems, WellFoundedInduction, TLAPS

-----------------------------------------------------------------------------
(* What the index arithmetic of the ring computes, for every MaxEntries a  *)
(* uint8_t can count: the driver writes it again, and so do these proofs   *)

\* Reduction modulo n, without %, on the two intervals the offsets reach.
LEMMA ModSmall ==
  ASSUME NEW n \in Nat \ {0}, NEW a \in 0..n - 1
  PROVE  a % n = a
OBVIOUS

LEMMA ModWrap ==
  ASSUME NEW n \in Nat \ {0}, NEW a \in Nat, n <= a, a < 2 * n
  PROVE  a % n = a - n
OBVIOUS

\* The slot after i is the next one, and slot 0 after the last (the uint8_t
\* that holds it never wraps): new_write_index and new_dev_in_offs.
LEMMA NextSlotValue ==
  ASSUME NEW i \in Slot
  PROVE  /\ NextSlot(i) = IF i = MaxEntries - 1 THEN 0 ELSE i + 1
         /\ NextSlot(i) \in Slot
<1>1. MaxEntries \in 1..255
  BY MaxEntriesAssumption
<1>2. CMod(i + 1, MaxEntries) = IF i = MaxEntries - 1 THEN 0 ELSE i + 1
  <2>1. CASE i = MaxEntries - 1
    BY <1>1, <2>1, ModWrap DEF Slot, CMod
  <2>2. CASE i # MaxEntries - 1
    BY <1>1, <2>2, ModSmall DEF Slot, CMod
  <2>. QED BY <2>1, <2>2
<1>3. CMod(i + 1, MaxEntries) \in 0..254
  BY <1>1, <1>2 DEF Slot
<1>4. NextSlot(i) = CMod(i + 1, MaxEntries)
  BY <1>3, ModSmall DEF NextSlot, Uint8
<1>. QED BY <1>1, <1>2, <1>4 DEF Slot

\* The k-th slot after i, which is at most one turn around the ring.
LEMMA SlotAfterValue ==
  ASSUME NEW i \in Slot, NEW k \in 0..MaxEntries - 1
  PROVE  /\ SlotAfter(i, k) = IF i + k < MaxEntries THEN i + k
                                               ELSE i + k - MaxEntries
         /\ SlotAfter(i, k) \in Slot
<1>1. MaxEntries \in 1..255
  BY MaxEntriesAssumption
<1>2. CMod(i + k, MaxEntries) = IF i + k < MaxEntries THEN i + k
                                                   ELSE i + k - MaxEntries
  <2>1. CASE i + k < MaxEntries
    <3>1. i + k \in 0..MaxEntries - 1
      BY <1>1, <2>1 DEF Slot
    <3>2. (i + k) % MaxEntries = i + k
      BY <1>1, <3>1, ModSmall
    <3>. QED BY <2>1, <3>1, <3>2 DEF CMod
  <2>2. CASE i + k >= MaxEntries
    <3>1. /\ i + k \in Nat /\ MaxEntries \in Nat \ {0}
          /\ MaxEntries <= i + k /\ i + k < 2 * MaxEntries
      BY <1>1, <2>2 DEF Slot
    <3>2. PICK a \in Nat : a = i + k
      BY <3>1
    <3>3. a % MaxEntries = a - MaxEntries
      BY <3>1, <3>2, ModWrap
    <3>. QED BY <1>1, <2>2, <3>1, <3>2, <3>3 DEF CMod, Slot
  <2>. QED BY <1>1, <2>1, <2>2 DEF Slot
<1>3. CMod(i + k, MaxEntries) \in 0..254
  BY <1>1, <1>2 DEF Slot
<1>4. SlotAfter(i, k) = CMod(i + k, MaxEntries)
  BY <1>3, ModSmall DEF SlotAfter, Uint8
<1>. QED BY <1>1, <1>2, <1>4 DEF Slot

\* A scan from slot 0 looks at slot k in iteration k.
LEMMA SlotAfterZero ==
  ASSUME NEW k \in Slot
  PROVE  SlotAfter(0, k) = k
<1>1. MaxEntries \in 1..255 /\ 0 \in Slot /\ k \in 0..MaxEntries - 1
  BY MaxEntriesAssumption DEF Slot
<1>2. SlotAfter(0, k) = IF 0 + k < MaxEntries THEN 0 + k ELSE 0 + k - MaxEntries
  BY <1>1, SlotAfterValue
<1>. QED BY <1>1, <1>2

\* When out_offs moves to the next slot every later entry moves up one place,
\* and the last place is the slot out_offs was on.
LEMMA SlotAfterNext ==
  ASSUME NEW i \in Slot, NEW k \in 0..MaxEntries - 1, k # MaxEntries - 1
  PROVE  /\ SlotAfter(NextSlot(i), k) = SlotAfter(i, k + 1)
         /\ SlotAfter(i, k + 1) \in Slot
         /\ SlotAfter(i, k + 1) # i
<1>1. MaxEntries \in 1..255 /\ i \in 0..MaxEntries - 1
  BY MaxEntriesAssumption DEF Slot
<1>2. k + 1 \in 0..MaxEntries - 1
  BY <1>1
<1>3. /\ NextSlot(i) = IF i = MaxEntries - 1 THEN 0 ELSE i + 1
      /\ NextSlot(i) \in Slot
  BY NextSlotValue
<1>4. SlotAfter(NextSlot(i), k) = IF NextSlot(i) + k < MaxEntries
                                  THEN NextSlot(i) + k
                                  ELSE NextSlot(i) + k - MaxEntries
  BY <1>3, SlotAfterValue
<1>5. /\ SlotAfter(i, k + 1) = IF i + (k + 1) < MaxEntries
                                THEN i + (k + 1)
                                ELSE i + (k + 1) - MaxEntries
      /\ SlotAfter(i, k + 1) \in Slot
  BY <1>2, SlotAfterValue
<1>6. CASE i = MaxEntries - 1
  BY <1>1, <1>2, <1>3, <1>4, <1>5, <1>6
<1>7. CASE i # MaxEntries - 1
  BY <1>1, <1>2, <1>3, <1>4, <1>5, <1>7
<1>. QED BY <1>6, <1>7

LEMMA SlotAfterLast ==
  ASSUME NEW i \in Slot
  PROVE  SlotAfter(NextSlot(i), MaxEntries - 1) = i
<1>1. MaxEntries \in 1..255 /\ i \in 0..MaxEntries - 1
  BY MaxEntriesAssumption DEF Slot
<1>2. /\ NextSlot(i) = IF i = MaxEntries - 1 THEN 0 ELSE i + 1
      /\ NextSlot(i) \in Slot
  BY NextSlotValue
<1>3. MaxEntries - 1 \in 0..MaxEntries - 1
  BY <1>1
<1>4. SlotAfter(NextSlot(i), MaxEntries - 1) =
        IF NextSlot(i) + (MaxEntries - 1) < MaxEntries
        THEN NextSlot(i) + (MaxEntries - 1)
        ELSE NextSlot(i) + (MaxEntries - 1) - MaxEntries
  BY <1>2, <1>3, SlotAfterValue
<1>. QED BY <1>1, <1>2, <1>4

\* num_entries of a ring that is full, or whose oldest entry is in slot 0: the
\* whole ring or in_offs, never the % of a negative number.
LEMMA EntriesBetweenValue ==
  ASSUME NEW i \in Slot, NEW j \in Slot, NEW ring_full \in BOOLEAN,
         ~ring_full => j = 0
  PROVE  EntriesBetween(i, j, ring_full) = IF ring_full THEN MaxEntries ELSE i
<1>1. CASE ring_full
  BY <1>1 DEF EntriesBetween
<1>2. CASE ~ring_full
  <2>1. MaxEntries \in 1..255 /\ j = 0 /\ i \in 0..MaxEntries - 1
    BY <1>2, MaxEntriesAssumption DEF Slot
  <2>2. i - j = i
    BY <2>1
  <2>3. CMod(i, MaxEntries) = i
    BY <2>1, ModSmall DEF CMod
  <2>4. Uint8(i) = i
    BY <2>1, ModSmall DEF Uint8
  <2>. QED BY <1>2, <2>2, <2>3, <2>4 DEF EntriesBetween
<1>. QED BY <1>1, <1>2

-----------------------------------------------------------------------------
(* The semaphore *)

PC == {"closed", "open", "write", "read"} \cup InWrite \cup InRead

\* SemaphoreHeldByOne does not survive a load of the module while a thread is
\* inside a handler: what rules that out is that an open file pins the module.
SemInv ==
  /\ pc \in [Thread -> PC]
  /\ SemaphoreHeldByOne
  /\ ~loaded => \A t \in Thread : pc[t] = "closed"

\* A thread that takes the semaphore was outside, becomes the only holder.
LEMMA Enter ==
  ASSUME SemInv, NEW t \in Thread, NEW from \in {"write", "read"},
         NEW to \in InWrite \cup InRead,
         Goto(t, from, to), Down, loaded' = loaded
  PROVE  SemInv'
<1>1. loaded /\ Holders = {} /\ pc' \in [Thread -> PC]
  BY DEF SemInv, SemaphoreHeldByOne, Goto, Down, PC, InWrite, InRead
<1>2. Holders' = {t}
  BY <1>1 DEF SemInv, Holders, Goto, PC, InWrite, InRead
<1>. QED BY <1>1, <1>2 DEF SemInv, SemaphoreHeldByOne, Down

\* A thread that gives it back was the only holder.
LEMMA Leave ==
  ASSUME SemInv, NEW t \in Thread, NEW from \in InWrite \cup InRead,
         Goto(t, from, "open"), Up, loaded' = loaded
  PROVE  SemInv'
<1>1. loaded /\ t \in Holders /\ pc' \in [Thread -> PC]
  BY DEF SemInv, Goto, Holders, PC, InWrite, InRead
<1>2. Holders = {t} /\ sem = 0
  BY <1>1 DEF SemInv, SemaphoreHeldByOne
<1>3. Holders' = {}
  BY <1>1, <1>2 DEF SemInv, Holders, Goto, PC, InWrite, InRead
<1>. QED BY <1>1, <1>2, <1>3 DEF SemInv, SemaphoreHeldByOne, Up

\* A step inside a handler, or outside both, leaves the holders as they are.
LEMMA Stay ==
  ASSUME SemInv, NEW t \in Thread, NEW from \in PC, NEW to \in PC,
         Goto(t, from, to), sem' = sem, loaded' = loaded, loaded,
         from \in InWrite \cup InRead <=> to \in InWrite \cup InRead
  PROVE  SemInv'
<1>1. pc' \in [Thread -> PC]
  BY DEF SemInv, Goto
<1>2. Holders' = Holders
  BY DEF SemInv, Holders, Goto
<1>. QED BY <1>1, <1>2 DEF SemInv, SemaphoreHeldByOne

LEMMA Unchanged ==
  ASSUME SemInv, pc' = pc, sem' = sem, loaded' = loaded
  PROVE  SemInv'
BY DEF SemInv, SemaphoreHeldByOne, Holders

LEMMA WriteSemInv ==
  ASSUME SemInv, NEW t \in Thread, Write(t)
  PROVE  SemInv'
<1>1. ASSUME NEW payload \in Payloads, WriteNoMemory(t, payload)
      PROVE  SemInv'
  BY <1>1, Enter DEF WriteNoMemory, InWrite
<1>2. ASSUME NEW payload \in Payloads, WriteFault(t, payload)
      PROVE  SemInv'
  BY <1>2, Enter DEF WriteFault, InWrite
<1>3. ASSUME NEW payload \in Payloads, WriteBegin(t, payload)
      PROVE  SemInv'
  BY <1>3, Enter DEF WriteBegin, InWrite
<1>4. CASE WriteByte(t)
  BY <1>4, Unchanged DEF WriteByte
<1>5. CASE WriteNewline(t)
  <2>1. /\ loaded /\ sem' = sem /\ loaded' = loaded
        /\ pc[t] = "w_loop"
        /\ pc' = [pc EXCEPT ![t] = "w_out"] \/ pc' = pc
    BY <1>5, Zenon DEF WriteNewline, MoreToWrite, SemInv
  <2>. QED BY <2>1, Stay, Unchanged DEF Goto, PC, InWrite
<1>6. CASE WriteEnd(t)
  BY <1>6, Stay DEF WriteEnd, Goto, PC, InWrite, SemInv
<1>7. CASE WriteOut(t)
  BY <1>7, Leave DEF WriteOut, InWrite
<1>. QED BY <1>1, <1>2, <1>3, <1>4, <1>5, <1>6, <1>7 DEF Write

LEMMA ReadSemInv ==
  ASSUME SemInv, NEW t \in Thread, Read(t)
  PROVE  SemInv'
<1>1. ASSUME NEW count \in ReadCounts, ReadNoMemory(t, count)
      PROVE  SemInv'
  BY <1>1, Enter DEF ReadNoMemory, InRead
<1>2. ASSUME NEW count \in ReadCounts, ReadBegin(t, count)
      PROVE  SemInv'
  BY <1>2, Enter DEF ReadBegin, InRead
<1>3. CASE FindNext(t)
  BY <1>3, Unchanged DEF FindNext
<1>4. CASE FindHit(t)
  BY <1>4, Stay DEF FindHit, Goto, PC, InRead, SemInv
<1>5. CASE FindEof(t)
  BY <1>5, Stay DEF FindEof, Goto, PC, InRead, SemInv
<1>6. CASE CopyEntry(t)
  <2>1. /\ loaded /\ sem' = sem /\ loaded' = loaded
        /\ pc[t] = "r_copy"
        /\ pc' = [pc EXCEPT ![t] = "r_user"] \/ pc' = pc
    BY <1>6 DEF CopyEntry, MoreToCopy, SemInv
  <2>. QED BY <2>1, Stay, Unchanged DEF Goto, PC, InRead
<1>7. CASE CopyDone(t)
  BY <1>7, Stay DEF CopyDone, Goto, PC, InRead, SemInv
<1>8. CASE CopyToUser(t)
  BY <1>8, Stay DEF CopyToUser, Goto, PC, InRead, SemInv
<1>9. CASE CopyToUserFault(t)
  BY <1>9, Stay DEF CopyToUserFault, Goto, PC, InRead, SemInv
<1>10. CASE ReadOut(t)
  BY <1>10, Leave DEF ReadOut, InRead
<1>. QED BY <1>1, <1>2, <1>3, <1>4, <1>5, <1>6, <1>7, <1>8, <1>9, <1>10 DEF Read

LEMMA OthersSemInv ==
  ASSUME SemInv,
         \/ InitModule \/ InitModuleFails \/ CleanupModule
         \/ \E t \in Thread : Open(t) \/ Release(t) \/ Call(t)
  PROVE  SemInv'
<1>1. CASE InitModule \/ InitModuleFails \/ CleanupModule
  <2>1. Holders = {} /\ pc' = pc
    BY <1>1 DEF InitModule, InitModuleFails, CleanupModule, SemInv, Holders,
                InWrite, InRead
  <2>2. Holders' = {}
    BY <2>1 DEF Holders
  <2>. QED BY <1>1, <2>1, <2>2 DEF InitModule, InitModuleFails, CleanupModule, ResetDevice,
                                   SemInv, SemaphoreHeldByOne
<1>2. ASSUME NEW t \in Thread, Open(t) \/ Release(t) \/ Call(t)
      PROVE  SemInv'
  BY <1>2, Stay DEF Open, Release, Call, Goto, PC, InWrite, InRead, SemInv
<1>. QED BY <1>1, <1>2

LEMMA InitSemInv == Init => SemInv
BY DEF Init, SemInv, SemaphoreHeldByOne, Holders, PC, InWrite, InRead

\* Mutual exclusion: for any number of threads and any failure of kmalloc or of
\* a user copy, aesd_read and aesd_write run one at a time, and every path out
\* of them gives dev->sem back exactly once.
THEOREM MutualExclusion == Spec => []SemaphoreHeldByOne
<1>1. SemInv /\ [Next]_vars => SemInv'
  <2>. SUFFICES ASSUME SemInv, [Next]_vars PROVE SemInv'
    OBVIOUS
  <2>1. CASE Next
    BY <2>1, WriteSemInv, ReadSemInv, OthersSemInv DEF Next
  <2>2. CASE UNCHANGED vars
    BY <2>2, Unchanged DEF vars
  <2>. QED BY <2>1, <2>2
<1>2. SemInv => SemaphoreHeldByOne
  BY DEF SemInv
<1>. QED BY <1>1, <1>2, InitSemInv, PTL DEF Spec

-----------------------------------------------------------------------------
(* Types and the heap: the inductive invariant *)

\* A ring that is not full starts at slot 0 and holds the slots before in_offs.
RingOK ==
  /\ full => in_offs = out_offs
  /\ ~full => out_offs = 0
  /\ \A i \in Slot : full \/ i < in_offs => entry[i].buffptr \in Ptr

\* While the module is loaded, a buffer is at least as long as its owner says,
\* is in use, and is owned by one slot or by curr_input.
HeapOK ==
  /\ mem[NULL] = <<>> /\ mem[ZERO_SIZE_PTR] = <<>>
  /\ loaded =>
       /\ \A i \in Slot : entry[i].size <= Len(mem[entry[i].buffptr])
       /\ curr_input.size <= Len(mem[curr_input.buffptr])
       /\ \A i \in Slot : entry[i].buffptr \in Ptr =>
             /\ entry[i].buffptr \in allocated
             /\ entry[i].buffptr # curr_input.buffptr
             /\ \A j \in Slot : entry[i].buffptr = entry[j].buffptr => i = j
       /\ curr_input.buffptr \in Ptr => curr_input.buffptr \in allocated

\* The loop of a write works on curr_input's buffer, which holds the bytes it
\* has gone through and those it has not.
WriterOK(t) ==
  pc[t] = "w_loop" =>
    /\ wr[t].new_buf = curr_input.buffptr
    /\ wr[t].i <= wr[t].count
    /\ Len(mem[wr[t].new_buf]) = wr[t].curr_size + (wr[t].count - wr[t].i)

\* A buffer of a thread's own: in use, and not one of the device's.
Private(p) ==
  p \in Ptr => /\ p \in allocated
               /\ p # curr_input.buffptr
               /\ \A i \in Slot : entry[i].buffptr # p

\* A read copies into a buffer of its own, from inside an entry.
ReaderOK(t) ==
  LET r == rd[t]
  IN  /\ pc[t] \in InRead => Private(r.kernel_buf)
      /\ pc[t] \in {"r_find", "r_copy"} => r.kernel_buf \in Ptr \/ r.count = 0
      /\ pc[t] = "r_find" => /\ total_bytes_evicted + r.sum <= r.pos
                             /\ r.bytes_read = 0
      /\ pc[t] = "r_copy" => /\ r.start_char_index <= entry[r.buf_index].size
                             /\ r.bytes_read <= r.count

ThreadsOK == \A t \in Thread : WriterOK(t) /\ ReaderOK(t)

IInv == SemInv /\ TypeOK /\ RingOK /\ HeapOK /\ ThreadsOK

-----------------------------------------------------------------------------
(* kmalloc, and who else is running *)

\* kmalloc returns a buffer that is not in use, no memory at all for 0 bytes,
\* or NULL, which is counted when it need not have been.
LEMMA KmallocResult ==
  ASSUME NEW n \in Nat, NEW used, NEW p \in Kmalloc(n, used)
  PROVE  /\ \/ p = NULL /\ n # 0
            \/ p = ZERO_SIZE_PTR /\ n = 0
            \/ p \in Ptr \ used /\ n # 0
         /\ p \in Address
         /\ p = NULL /\ Ptr \ used # {} => faults < MaxFaults
<1>1. CASE n = 0
  BY <1>1, PtrAssumption DEF Kmalloc, Address
<1>2. CASE n # 0 /\ Ptr \ used = {}
  BY <1>2, PtrAssumption DEF Kmalloc, Address
<1>3. CASE n # 0 /\ Ptr \ used # {}
  <2>1. PICK q \in Ptr \ used :
           Kmalloc(n, used) = {q} \cup (IF faults < MaxFaults THEN {NULL} ELSE {})
    BY <1>3 DEF Kmalloc
  <2>. QED BY <1>3, <2>1, PtrAssumption DEF Address
<1>. QED BY <1>1, <1>2, <1>3

LEMMA FailureCounted ==
  ASSUME NEW n \in Nat, NEW used, NEW p \in Kmalloc(n, used),
         faults \in 0..MaxFaults, CountFailure(p, used)
  PROVE  faults' \in 0..MaxFaults
<1>1. p = NULL /\ Ptr \ used # {} => faults < MaxFaults
  BY KmallocResult
<1>. QED BY <1>1, BoundAssumption DEF CountFailure

\* A thread that is outside both handlers has nothing to keep.
LEMMA OutsideOK ==
  ASSUME NEW t \in Thread, pc[t] \notin InWrite \cup InRead
  PROVE  WriterOK(t) /\ ReaderOK(t)
BY DEF WriterOK, ReaderOK, InWrite, InRead

\* When the thread that takes a step holds the semaphore before or after it, no
\* other thread is inside: only its own part of ThreadsOK has to be shown.
LEMMA HolderAlone ==
  ASSUME SemInv, SemInv', NEW t \in Thread,
         t \in Holders \/ t \in Holders',
         \A u \in Thread \ {t} : pc'[u] = pc[u],
         (WriterOK(t) /\ ReaderOK(t))'
  PROVE  ThreadsOK'
<1>1. ASSUME NEW u \in Thread \ {t}
      PROVE  pc'[u] \notin InWrite \cup InRead
  BY <1>1 DEF SemInv, SemaphoreHeldByOne, Holders
<1>2. ASSUME NEW u \in Thread \ {t}
      PROVE  (WriterOK(u) /\ ReaderOK(u))'
  BY <1>1 DEF WriterOK, ReaderOK, InWrite, InRead
<1>. QED BY <1>2 DEF ThreadsOK

-----------------------------------------------------------------------------
(* Steps outside the handlers *)

LEMMA FileInv ==
  ASSUME IInv, SemInv', NEW t \in Thread, Open(t) \/ Release(t) \/ Call(t)
  PROVE  IInv'
<1>1. /\ UNCHANGED <<loaded, dev, sem, heap, wr, rd, faults, history>>
      /\ pc[t] \notin InWrite \cup InRead /\ pc'[t] \notin InWrite \cup InRead
      /\ \A u \in Thread \ {t} : pc'[u] = pc[u]
      /\ fpos' \in [Thread -> Nat]
  BY DEF IInv, TypeOK, SemInv, Open, Release, Call, Goto, InWrite, InRead
<1>2. TypeOK'
  <2>1. pc' \in [Thread -> {"closed", "open", "write", "read"} \cup InWrite \cup InRead]
    BY DEF SemInv, PC
  <2>. QED BY <1>1, <2>1 DEF IInv, TypeOK, dev, heap, history
<1>3. RingOK' /\ HeapOK'
  BY <1>1 DEF IInv, RingOK, HeapOK, dev, heap
<1>4. ThreadsOK'
  <2>1. ASSUME NEW u \in Thread \ {t}
        PROVE  (WriterOK(u) /\ ReaderOK(u))'
    BY <1>1, <2>1 DEF IInv, ThreadsOK, WriterOK, ReaderOK, Private, dev, heap
  <2>2. (WriterOK(t) /\ ReaderOK(t))'
    BY <1>1 DEF WriterOK, ReaderOK, InWrite, InRead
  <2>. QED BY <2>1, <2>2 DEF ThreadsOK
<1>. QED BY <1>2, <1>3, <1>4 DEF IInv

-----------------------------------------------------------------------------
(* Steps of a read that leave the device and the heap alone *)

\* The invariant after such a step of t is what it says of t itself.
LEMMA ReaderStep ==
  ASSUME IInv, SemInv', NEW t \in Thread, t \in Holders,
         UNCHANGED <<loaded, dev, heap, wr, fpos, history>>,
         NEW to \in InRead, pc' = [pc EXCEPT ![t] = to],
         rd' \in [Thread -> ReadLocals],
         faults' \in 0..MaxFaults, sem' = sem,
         ReaderOK(t)'
  PROVE  IInv'
<1>1. /\ pc'[t] = to
      /\ \A u \in Thread \ {t} : pc'[u] = pc[u]
  BY DEF IInv, TypeOK
<1>2. TypeOK'
  <2>1. pc' \in [Thread -> {"closed", "open", "write", "read"} \cup InWrite \cup InRead]
    BY DEF SemInv, PC
  <2>. QED BY <2>1 DEF IInv, TypeOK, dev, heap, history
<1>3. RingOK' /\ HeapOK'
  BY DEF IInv, RingOK, HeapOK, dev, heap
<1>4. WriterOK(t)'
  BY <1>1 DEF WriterOK, InRead
<1>5. ThreadsOK'
  BY <1>1, <1>4, HolderAlone DEF IInv
<1>. QED BY <1>2, <1>3, <1>5 DEF IInv

\* What a reader between down and up can use.
LEMMA ReaderFacts ==
  ASSUME IInv, NEW t \in Thread, pc[t] \in InRead
  PROVE  /\ t \in Holders /\ loaded
         /\ rd[t] \in ReadLocals
         /\ rd \in [Thread -> ReadLocals] /\ pc \in [Thread -> PC]
         /\ ReaderOK(t) /\ WriterOK(t)
         /\ total_bytes_evicted \in Nat /\ entry \in [Slot -> [buffptr : Address, size : Nat]]
         /\ in_offs \in Slot /\ out_offs \in Slot /\ full \in BOOLEAN
         /\ faults \in 0..MaxFaults /\ MaxEntries \in 1..255
BY MaxEntriesAssumption DEF IInv, SemInv, TypeOK, ThreadsOK, Holders, InRead, InWrite

\* The slots the scan looks at.
LEMMA ScanSlot ==
  ASSUME IInv, NEW i \in Nat, i < NumEntries
  PROVE  SlotOf(i) \in Slot
<1>1. NumEntries = IF full THEN MaxEntries ELSE in_offs
  BY EntriesBetweenValue DEF IInv, TypeOK, RingOK, NumEntries
<1>2. i \in 0..MaxEntries - 1
  BY <1>1, MaxEntriesAssumption DEF IInv, TypeOK, Slot
<1>. QED BY <1>2, SlotAfterValue DEF IInv, TypeOK, SlotOf

LEMMA NumEntriesNat ==
  ASSUME IInv
  PROVE  NumEntries \in 0..MaxEntries
<1>1. NumEntries = IF full THEN MaxEntries ELSE in_offs
  BY EntriesBetweenValue DEF IInv, TypeOK, RingOK, NumEntries
<1>. QED BY <1>1, MaxEntriesAssumption DEF IInv, TypeOK, Slot

\* total_entries of a read fits its type.
LEMMA EntriesFromNat ==
  ASSUME IInv, NEW i \in Slot
  PROVE  EntriesFrom(i) \in Nat
<1>1. MaxEntries \in 1..255 /\ in_offs \in 0..MaxEntries - 1 /\ i \in 0..MaxEntries - 1
  BY MaxEntriesAssumption DEF IInv, TypeOK, Slot
<1>2. CMod(in_offs - i + MaxEntries, MaxEntries) \in Nat
  BY <1>1 DEF CMod
<1>. QED BY <1>1, <1>2 DEF EntriesFrom, Uint8

LEMMA FindNextInv ==
  ASSUME IInv, SemInv', NEW t \in Thread, FindNext(t)
  PROVE  IInv'
<1>1. pc[t] = "r_find" /\ pc[t] \in InRead /\ rd[t].i < NumEntries
  <2>1. pc[t] = "r_find" /\ NumEntries \in Nat
    BY NumEntriesNat, MaxEntriesAssumption DEF FindNext, MoreToScan
  <2>2. pc[t] \in InRead
    BY <2>1 DEF InRead
  <2>. QED BY <2>1, <2>2, ReaderFacts DEF FindNext, MoreToScan, ReadLocals
<1>2. rd[t] \in ReadLocals /\ ReaderOK(t)
  BY <1>1, ReaderFacts
<1>3. SlotOf(rd[t].i) \in Slot /\ entry[SlotOf(rd[t].i)].size \in Nat
  BY <1>1, <1>2, ScanSlot, ReaderFacts DEF ReadLocals
<1>. DEFINE size == entry[SlotOf(rd[t].i)].size
<1>4. rd' = [rd EXCEPT ![t].sum = @ + size, ![t].i = @ + 1]
  BY DEF FindNext
<1>5. rd' \in [Thread -> ReadLocals]
  BY <1>1, <1>2, <1>3, <1>4, ReaderFacts DEF ReadLocals
<1>6. pc' = [pc EXCEPT ![t] = "r_find"]
  BY <1>1, ReaderFacts DEF FindNext
<1>7. ReaderOK(t)'
  <2>1. /\ rd'[t].sum = rd[t].sum + size /\ rd'[t].pos = rd[t].pos
        /\ rd'[t].kernel_buf = rd[t].kernel_buf /\ rd'[t].count = rd[t].count
        /\ rd'[t].bytes_read = rd[t].bytes_read /\ pc'[t] = "r_find"
    BY <1>1, <1>2, <1>4, <1>6, ReaderFacts DEF ReadLocals
  <2>2. total_bytes_evicted + (rd[t].sum + size) <= rd[t].pos
    BY <1>1, <1>2, <1>3, ReaderFacts DEF FindNext, EntryHit, CharOffset, ReadLocals
  <2>3. Private(rd[t].kernel_buf) /\ UNCHANGED <<allocated, curr_input, entry>>
    BY <1>1, <1>2 DEF ReaderOK, FindNext, dev, heap
  <2>4. total_bytes_evicted' = total_bytes_evicted
    BY DEF FindNext, dev
  <2>. QED BY <1>1, <1>2, <2>1, <2>2, <2>3, <2>4 DEF ReaderOK, Private, InRead
<1>8. /\ UNCHANGED <<loaded, dev, heap, wr, fpos, history>>
      /\ sem' = sem /\ faults' \in 0..MaxFaults
  BY <1>1, ReaderFacts DEF FindNext
<1>. QED BY <1>1, <1>5, <1>6, <1>7, <1>8, ReaderFacts, ReaderStep

LEMMA FindHitInv ==
  ASSUME IInv, SemInv', NEW t \in Thread, FindHit(t)
  PROVE  IInv'
<1>1. pc[t] = "r_find" /\ pc[t] \in InRead /\ rd[t].i < NumEntries
  <2>1. pc[t] = "r_find" /\ NumEntries \in Nat
    BY NumEntriesNat, MaxEntriesAssumption DEF FindHit, MoreToScan
  <2>2. pc[t] \in InRead
    BY <2>1 DEF InRead
  <2>. QED BY <2>1, <2>2, ReaderFacts DEF FindHit, MoreToScan, ReadLocals
<1>2. rd[t] \in ReadLocals /\ ReaderOK(t)
  BY <1>1, ReaderFacts
<1>. DEFINE i == SlotOf(rd[t].i)
<1>3. i \in Slot /\ entry[i].size \in Nat /\ EntriesFrom(i) \in Nat
  BY <1>1, <1>2, ScanSlot, ReaderFacts, EntriesFromNat DEF ReadLocals
<1>4. /\ CharOffset(t) - rd[t].sum \in Nat
      /\ CharOffset(t) - rd[t].sum <= entry[i].size
  BY <1>1, <1>2, <1>3, ReaderFacts DEF FindHit, EntryHit, CharOffset, ReaderOK, ReadLocals
<1>5. rd' = [rd EXCEPT ![t].buf_index = i, ![t].total_entries = EntriesFrom(i),
                       ![t].start_char_index = CharOffset(t) - rd[t].sum]
  BY DEF FindHit
<1>6. rd' \in [Thread -> ReadLocals]
  BY <1>1, <1>2, <1>3, <1>4, <1>5, ReaderFacts DEF ReadLocals
<1>7. pc' = [pc EXCEPT ![t] = "r_copy"] /\ "r_copy" \in InRead
  BY DEF FindHit, Goto, InRead
<1>8. ReaderOK(t)'
  <2>1. /\ rd'[t].kernel_buf = rd[t].kernel_buf /\ rd'[t].count = rd[t].count
        /\ rd'[t].bytes_read = rd[t].bytes_read /\ pc'[t] = "r_copy"
        /\ rd'[t].buf_index = i
        /\ rd'[t].start_char_index = CharOffset(t) - rd[t].sum
    BY <1>1, <1>2, <1>5, <1>7, ReaderFacts DEF ReadLocals
  <2>2. Private(rd[t].kernel_buf) /\ UNCHANGED <<allocated, curr_input, entry>>
    BY <1>1, <1>2 DEF ReaderOK, FindHit, dev, heap
  <2>3. rd[t].bytes_read <= rd[t].count
    BY <1>1, <1>2 DEF ReaderOK, ReadLocals
  <2>. QED BY <1>1, <1>2, <1>4, <2>1, <2>2, <2>3 DEF ReaderOK, Private
<1>9. /\ UNCHANGED <<loaded, dev, heap, wr, fpos, history>>
      /\ sem' = sem /\ faults' \in 0..MaxFaults
  BY <1>1, ReaderFacts DEF FindHit
<1>. QED BY <1>1, <1>6, <1>7, <1>8, <1>9, ReaderFacts, ReaderStep

\* The end of the scan without a hit, and of the loop that copies.
LEMMA FindEofCopyDoneInv ==
  ASSUME IInv, SemInv', NEW t \in Thread, FindEof(t) \/ CopyDone(t)
  PROVE  IInv'
<1>1. /\ pc[t] \in InRead
      /\ rd' = rd /\ UNCHANGED <<allocated, curr_input, entry>>
      /\ UNCHANGED <<loaded, dev, heap, wr, fpos, history>> /\ sem' = sem /\ faults' = faults
  BY DEF FindEof, CopyDone, Goto, InRead, dev, heap
<1>2. PICK to \in {"r_out", "r_user"} : pc' = [pc EXCEPT ![t] = to]
  BY DEF FindEof, CopyDone, Goto
<1>3. to \in InRead /\ rd' \in [Thread -> ReadLocals] /\ faults' \in 0..MaxFaults
  BY <1>1, <1>2, ReaderFacts DEF InRead
<1>4. ReaderOK(t)'
  <2>1. Private(rd[t].kernel_buf) /\ pc'[t] = to
    BY <1>1, <1>2, ReaderFacts DEF ReaderOK
  <2>. QED BY <1>1, <1>2, <2>1 DEF ReaderOK, Private
<1>. QED BY <1>1, <1>2, <1>3, <1>4, ReaderFacts, ReaderStep

LEMMA CopyToUserInv ==
  ASSUME IInv, SemInv', NEW t \in Thread, CopyToUser(t) \/ CopyToUserFault(t)
  PROVE  IInv'
<1>1. /\ pc[t] \in InRead
      /\ UNCHANGED <<allocated, curr_input, entry>>
      /\ UNCHANGED <<loaded, dev, heap, wr, fpos, history>> /\ sem' = sem
  BY DEF CopyToUser, CopyToUserFault, Goto, InRead, dev, heap
<1>2. pc' = [pc EXCEPT ![t] = "r_out"] /\ "r_out" \in InRead
  BY DEF CopyToUser, CopyToUserFault, Goto, InRead
<1>3. faults' \in 0..MaxFaults
  BY <1>1, ReaderFacts, BoundAssumption DEF CopyToUser, CopyToUserFault, InjectFault
<1>4. PICK n \in Int : rd' = [rd EXCEPT ![t].pos = @ + rd[t].bytes_read, ![t].retval = n]
  <2>1. rd[t].bytes_read \in Int /\ -EFAULT \in Int
    BY <1>1, ReaderFacts DEF ReadLocals, EFAULT
  <2>. QED BY <2>1 DEF CopyToUser, CopyToUserFault
<1>5. rd' \in [Thread -> ReadLocals] /\ rd'[t].kernel_buf = rd[t].kernel_buf
  <2>1. rd \in [Thread -> ReadLocals] /\ rd[t] \in ReadLocals
    BY <1>1, ReaderFacts
  <2>2. rd[t].pos + rd[t].bytes_read \in Nat
    BY <2>1 DEF ReadLocals
  <2>3. rd' \in [Thread -> ReadLocals]
    BY <1>4, <2>1, <2>2 DEF ReadLocals
  <2>. QED BY <1>4, <2>1, <2>3 DEF ReadLocals
<1>6. ReaderOK(t)'
  <2>1. Private(rd[t].kernel_buf) /\ pc'[t] = "r_out"
    BY <1>1, <1>2, ReaderFacts DEF ReaderOK
  <2>. QED BY <1>1, <1>5, <2>1 DEF ReaderOK, Private
<1>. QED BY <1>1, <1>2, <1>3, <1>5, <1>6, ReaderFacts, ReaderStep

-----------------------------------------------------------------------------
(* Steps of a read that touch the heap *)

\* The device is as it was: what remains to show is about the heap and t.
LEMMA ReaderHeapStep ==
  ASSUME IInv, SemInv', NEW t \in Thread, t \in Holders \/ t \in Holders',
         UNCHANGED <<loaded, dev, wr, history>>, loaded,
         NEW to \in PC \ {"w_loop"}, pc' = [pc EXCEPT ![t] = to],
         rd' \in [Thread -> ReadLocals], fpos' \in [Thread -> Nat],
         faults' \in 0..MaxFaults,
         mem' \in [Address -> Seq(Byte)], allocated' \subseteq Ptr,
         HeapOK', ReaderOK(t)'
  PROVE  IInv'
<1>1. /\ pc'[t] = to
      /\ \A u \in Thread \ {t} : pc'[u] = pc[u]
  BY DEF IInv, TypeOK
<1>2. TypeOK'
  <2>1. pc' \in [Thread -> {"closed", "open", "write", "read"} \cup InWrite \cup InRead]
    BY DEF SemInv, PC
  <2>2. sem' \in 0..1
    BY DEF SemInv, SemaphoreHeldByOne
  <2>. QED BY <2>1, <2>2 DEF IInv, TypeOK, dev, history
<1>3. RingOK'
  BY DEF IInv, RingOK, dev
<1>4. WriterOK(t)'
  BY <1>1 DEF WriterOK
<1>5. ThreadsOK'
  BY <1>1, <1>4, HolderAlone DEF IInv
<1>. QED BY <1>2, <1>3, <1>5 DEF IInv

\* What a thread that gets through down can use.
LEMMA EnterFacts ==
  ASSUME IInv, SemInv', NEW t \in Thread, NEW from \in {"write", "read"},
         NEW to \in InWrite \cup InRead, Goto(t, from, to), loaded' = loaded
  PROVE  /\ t \in Holders' /\ loaded /\ pc'[t] = to
         /\ pc' = [pc EXCEPT ![t] = to]
         /\ \A u \in Thread \ {t} : pc'[u] = pc[u]
         /\ rd \in [Thread -> ReadLocals] /\ wr \in [Thread -> WriteLocals]
         /\ fpos \in [Thread -> Nat] /\ fpos[t] \in Nat
         /\ total_bytes_evicted \in Nat
         /\ faults \in 0..MaxFaults /\ allocated \subseteq Ptr
         /\ mem \in [Address -> Seq(Byte)]
         /\ curr_input.buffptr \in Address /\ curr_input.size \in Nat
BY DEF IInv, SemInv, TypeOK, Goto, Holders, PC, InRead, InWrite

LEMMA IdleReadType == IdleRead \in ReadLocals /\ IdleRead.sum = 0 /\ IdleRead.bytes_read = 0
<1>1. 0 \in Slot
  BY MaxEntriesAssumption DEF Slot
<1>. QED BY <1>1 DEF IdleRead, ReadLocals, Address

LEMMA ReadNoMemoryInv ==
  ASSUME IInv, SemInv', NEW t \in Thread, NEW count \in ReadCounts, ReadNoMemory(t, count)
  PROVE  IInv'
<1>1. Goto(t, "read", "r_out") /\ UNCHANGED <<loaded, dev, heap, wr, fpos, history>>
  BY DEF ReadNoMemory
<1>2. /\ t \in Holders' /\ loaded /\ pc'[t] = "r_out" /\ pc' = [pc EXCEPT ![t] = "r_out"]
      /\ rd \in [Thread -> ReadLocals] /\ fpos[t] \in Nat /\ fpos \in [Thread -> Nat]
      /\ total_bytes_evicted \in Nat /\ faults \in 0..MaxFaults
  BY <1>1, EnterFacts DEF InRead
<1>3. count \in Nat
  BY CallAssumption
<1>4. faults' \in 0..MaxFaults
  BY <1>2, <1>3, FailureCounted DEF ReadNoMemory
<1>5. rd' \in [Thread -> ReadLocals] /\ rd'[t].kernel_buf = NULL
  <2>1. SnappedPos(t) \in Nat /\ -ENOMEM \in Int /\ 0 \in Slot
    BY <1>2, MaxEntriesAssumption DEF SnappedPos, ENOMEM, Slot
  <2>. DEFINE r == [IdleRead EXCEPT !.count = count, !.pos = SnappedPos(t), !.retval = -ENOMEM]
  <2>2. r \in ReadLocals /\ r.kernel_buf = NULL
    BY <1>3, <2>1 DEF ReadLocals, IdleRead, Address
  <2>3. rd' = [rd EXCEPT ![t] = r]
    BY DEF ReadNoMemory
  <2>. HIDE DEF r
  <2>. QED BY <1>2, <2>2, <2>3
<1>6. HeapOK'
  BY <1>1 DEF IInv, HeapOK, dev, heap
<1>7. ReaderOK(t)'
  BY <1>2, <1>5, PtrAssumption DEF ReaderOK, Private
<1>8. /\ "r_out" \in PC \ {"w_loop"}
      /\ mem' \in [Address -> Seq(Byte)] /\ allocated' \subseteq Ptr
      /\ fpos' = fpos /\ UNCHANGED <<loaded, dev, wr, history>>
  BY <1>1 DEF IInv, TypeOK, PC, InRead, heap
<1>. QED BY <1>2, <1>4, <1>5, <1>6, <1>7, <1>8, ReaderHeapStep

LEMMA ReadBeginInv ==
  ASSUME IInv, SemInv', NEW t \in Thread, NEW count \in ReadCounts, ReadBegin(t, count)
  PROVE  IInv'
<1>1. Goto(t, "read", "r_find") /\ UNCHANGED <<loaded, dev, mem, wr, fpos, faults, history>>
  BY DEF ReadBegin
<1>2. /\ t \in Holders' /\ loaded /\ pc'[t] = "r_find" /\ pc' = [pc EXCEPT ![t] = "r_find"]
      /\ rd \in [Thread -> ReadLocals] /\ fpos[t] \in Nat /\ fpos \in [Thread -> Nat]
      /\ total_bytes_evicted \in Nat /\ faults \in 0..MaxFaults
  BY <1>1, EnterFacts DEF InRead
<1>3. count \in Nat
  BY CallAssumption
<1>4. PICK p \in Kmalloc(count, allocated) \ {NULL} :
        /\ allocated' = allocated \cup ({p} \cap Ptr)
        /\ rd' = [rd EXCEPT ![t] = [IdleRead EXCEPT !.count = count, !.pos = SnappedPos(t),
                                                    !.kernel_buf = p]]
  BY DEF ReadBegin
<1>5. p \in Address /\ (p \in Ptr => p \notin allocated) /\ (p \in Ptr \/ count = 0)
  BY <1>3, <1>4, KmallocResult, PtrAssumption
<1>6. /\ rd' \in [Thread -> ReadLocals]
      /\ rd'[t].kernel_buf = p /\ rd'[t].count = count /\ rd'[t].pos = SnappedPos(t)
      /\ rd'[t].sum = 0 /\ rd'[t].bytes_read = 0
  <2>1. SnappedPos(t) \in Nat /\ 0 \in Slot
    BY <1>2, MaxEntriesAssumption DEF SnappedPos, Slot
  <2>. DEFINE r == [IdleRead EXCEPT !.count = count, !.pos = SnappedPos(t), !.kernel_buf = p]
  <2>2. /\ r \in ReadLocals /\ r.kernel_buf = p /\ r.count = count
        /\ r.pos = SnappedPos(t) /\ r.sum = 0 /\ r.bytes_read = 0
    <3>1. p \in Address
      BY <1>5
    <3>. HIDE DEF r
    <3>2. r = [IdleRead EXCEPT !.count = count, !.pos = SnappedPos(t), !.kernel_buf = p]
      BY DEF r
    <3>. QED BY <1>3, <2>1, <3>1, <3>2, IdleReadType DEF ReadLocals
  <2>3. rd' = [rd EXCEPT ![t] = r]
    BY <1>4
  <2>. HIDE DEF r
  <2>. QED BY <1>2, <2>2, <2>3
<1>7. HeapOK'
  BY <1>1, <1>4 DEF IInv, HeapOK, dev
<1>8. Private(p)'
  <2>1. p \in Ptr => p # curr_input.buffptr /\ \A i \in Slot : entry[i].buffptr # p
    BY <1>2, <1>5 DEF IInv, HeapOK
  <2>. QED BY <1>1, <1>4, <2>1 DEF Private, dev
<1>9. ReaderOK(t)'
  <2>1. total_bytes_evicted' + 0 <= SnappedPos(t) /\ total_bytes_evicted' = total_bytes_evicted
    BY <1>1, <1>2 DEF SnappedPos, dev
  <2>. QED BY <1>2, <1>5, <1>6, <1>8, <2>1 DEF ReaderOK
<1>10. /\ "r_find" \in PC \ {"w_loop"}
       /\ mem' \in [Address -> Seq(Byte)] /\ allocated' \subseteq Ptr
       /\ fpos' = fpos /\ faults' = faults /\ UNCHANGED <<loaded, dev, wr, history>>
  BY <1>1, <1>4 DEF IInv, TypeOK, PC, InRead
<1>. QED BY <1>2, <1>6, <1>7, <1>9, <1>10, ReaderHeapStep

\* A change to a buffer of a thread's own is not seen by the device.
LEMMA PrivateWrite ==
  ASSUME IInv, NEW p \in Address, Private(p), NEW bytes \in Seq(Byte),
         p \notin Ptr => bytes = <<>>,
         mem' = [mem EXCEPT ![p] = bytes],
         allocated \ {p} \subseteq allocated',
         UNCHANGED <<loaded, dev>>
  PROVE  HeapOK'
<1>1. /\ mem \in [Address -> Seq(Byte)] /\ NULL \in Address /\ ZERO_SIZE_PTR \in Address
      /\ \A i \in Slot : entry[i].buffptr \in Address
      /\ curr_input.buffptr \in Address
  BY DEF IInv, TypeOK, Address
<1>2. mem'[NULL] = <<>> /\ mem'[ZERO_SIZE_PTR] = <<>>
  BY <1>1, PtrAssumption DEF IInv, HeapOK
<1>3. \A q \in Address : q \notin Ptr \/ q # p => mem'[q] = mem[q]
  BY <1>1, PtrAssumption DEF IInv, HeapOK, Address
<1>4. /\ \A i \in Slot : mem'[entry[i].buffptr] = mem[entry[i].buffptr]
      /\ mem'[curr_input.buffptr] = mem[curr_input.buffptr]
  BY <1>1, <1>3 DEF Private
<1>5. /\ \A i \in Slot : entry[i].buffptr \in Ptr => entry[i].buffptr # p
      /\ curr_input.buffptr \in Ptr => curr_input.buffptr # p
  BY DEF Private
<1>6. UNCHANGED <<loaded, entry, curr_input>>
  BY DEF dev
<1>. QED BY <1>2, <1>4, <1>5, <1>6 DEF IInv, HeapOK

LEMMA CopyEntryInv ==
  ASSUME IInv, SemInv', NEW t \in Thread, CopyEntry(t)
  PROVE  IInv'
<1>1. /\ pc[t] = "r_copy" /\ pc[t] \in InRead /\ rd[t].bytes_read < rd[t].count
      /\ UNCHANGED <<loaded, dev, sem, allocated, wr, fpos, faults, history>>
  BY DEF CopyEntry, MoreToCopy, InRead
<1>2. /\ rd[t] \in ReadLocals /\ rd \in [Thread -> ReadLocals] /\ loaded /\ t \in Holders
      /\ ReaderOK(t) /\ entry \in [Slot -> [buffptr : Address, size : Nat]]
      /\ faults \in 0..MaxFaults /\ pc \in [Thread -> PC]
  BY <1>1, ReaderFacts
<1>. DEFINE r == rd[t]
            e == entry[r.buf_index]
            left == e.size - r.start_char_index
            room == r.count - r.bytes_read
            n == IF left <= room THEN left ELSE room
            bytes == SubSeq(mem[e.buffptr], r.start_char_index + 1, r.start_char_index + n)
            to == IF left >= room THEN "r_user" ELSE "r_copy"
<1>3. /\ r.buf_index \in Slot /\ r.start_char_index \in Nat /\ r.count \in Nat
      /\ r.bytes_read \in Nat /\ r.entries_read \in Nat /\ r.kernel_buf \in Address
  BY <1>2 DEF ReadLocals
<1>4. /\ e.size \in Nat /\ e.buffptr \in Address /\ r.start_char_index <= e.size
      /\ e.size <= Len(mem[e.buffptr])
  BY <1>1, <1>2, <1>3 DEF ReaderOK, IInv, HeapOK
<1>5. left \in Nat /\ room \in Nat /\ n \in Nat /\ n <= left /\ n <= room
  BY <1>1, <1>3, <1>4
<1>6. /\ r.kernel_buf \in Ptr /\ Private(r.kernel_buf)
      /\ mem \in [Address -> Seq(Byte)]
  BY <1>1, <1>2, <1>3 DEF ReaderOK, IInv, TypeOK
<1>7. mem[r.kernel_buf] \o bytes \in Seq(Byte)
  <2>. DEFINE src == mem[e.buffptr]
              m == r.start_char_index + 1
              l == r.start_char_index + n
  <2>1. src \in Seq(Byte) /\ Len(src) \in Nat /\ m \in Nat \ {0} /\ l \in Nat /\ l <= Len(src)
    <3>1. src \in Seq(Byte) /\ Len(src) \in Nat
      BY <1>4, <1>6
    <3>2. l <= e.size
      BY <1>3, <1>4, <1>5
    <3>3. m \in Nat \ {0} /\ l \in Nat
      BY <1>3, <1>5
    <3>. HIDE DEF n, e, l
    <3>4. PICK a, b, c \in Nat : a = l /\ b = e.size /\ c = Len(src)
      BY <1>4, <3>1, <3>3
    <3>5. a <= b /\ b <= c
      BY <1>4, <3>2, <3>4
    <3>6. l <= Len(src)
      BY <3>4, <3>5
    <3>. QED BY <3>1, <3>3, <3>6
  <2>2. \A j \in m..l : src[j] \in Byte
    BY <2>1
  <2>3. bytes \in Seq(Byte)
    BY <2>1, <2>2, SubSeqProperties
  <2>. QED BY <1>3, <1>6, <2>3, ConcatProperties
<1>8. mem' = [mem EXCEPT ![r.kernel_buf] = @ \o bytes]
  BY DEF CopyEntry
<1>9. HeapOK' /\ mem' \in [Address -> Seq(Byte)]
  <2>. HIDE DEF bytes
  <2>1. mem' = [mem EXCEPT ![r.kernel_buf] = mem[r.kernel_buf] \o bytes]
    BY <1>8
  <2>2. mem' \in [Address -> Seq(Byte)]
    BY <1>3, <1>6, <1>7, <2>1
  <2>. QED BY <1>1, <1>3, <1>6, <1>7, <2>1, <2>2, PrivateWrite
<1>10. /\ rd' = [rd EXCEPT ![t].bytes_read = @ + n, ![t].entries_read = @ + 1,
                           ![t].start_char_index = 0, ![t].buf_index = NextSlot(@)]
       /\ pc' = [pc EXCEPT ![t] = to]
  BY <1>1, <1>2 DEF CopyEntry
<1>11. /\ rd' \in [Thread -> ReadLocals]
       /\ rd'[t].bytes_read = r.bytes_read + n /\ rd'[t].start_char_index = 0
       /\ rd'[t].buf_index \in Slot /\ rd'[t].kernel_buf = r.kernel_buf
       /\ rd'[t].count = r.count
  <2>1. NextSlot(r.buf_index) \in Slot
    BY <1>3, NextSlotValue
  <2>. HIDE DEF n
  <2>. QED BY <1>2, <1>3, <1>5, <1>10, <2>1 DEF ReadLocals
<1>12. ReaderOK(t)'
  <2>1. r.bytes_read + n <= r.count
    BY <1>3, <1>5
  <2>2. UNCHANGED <<allocated, entry, curr_input>> /\ entry[rd'[t].buf_index].size \in Nat
    BY <1>1, <1>2, <1>11 DEF dev
  <2>3. pc'[t] = to /\ to \in {"r_user", "r_copy"}
    BY <1>2, <1>10
  <2>. QED BY <1>6, <1>11, <2>1, <2>2, <2>3 DEF ReaderOK, Private
<1>13. /\ to \in PC \ {"w_loop"} /\ allocated' \subseteq Ptr /\ fpos' \in [Thread -> Nat]
       /\ faults' \in 0..MaxFaults /\ UNCHANGED <<loaded, dev, wr, history>>
  BY <1>1, <1>2 DEF IInv, TypeOK, PC, InRead
<1>. QED BY <1>2, <1>9, <1>10, <1>11, <1>12, <1>13, ReaderHeapStep

LEMMA ReadOutInv ==
  ASSUME IInv, SemInv', NEW t \in Thread, ReadOut(t)
  PROVE  IInv'
<1>1. /\ pc[t] \in InRead /\ pc' = [pc EXCEPT ![t] = "open"]
      /\ UNCHANGED <<loaded, dev, wr, faults, history>>
  BY DEF ReadOut, Goto, InRead
<1>2. /\ rd[t] \in ReadLocals /\ rd \in [Thread -> ReadLocals] /\ loaded /\ t \in Holders
      /\ ReaderOK(t) /\ faults \in 0..MaxFaults /\ pc \in [Thread -> PC]
  BY <1>1, ReaderFacts
<1>3. Private(rd[t].kernel_buf) /\ rd[t].kernel_buf \in Address
  BY <1>1, <1>2 DEF ReaderOK, ReadLocals
<1>4. /\ mem' = [mem EXCEPT ![rd[t].kernel_buf] = <<>>]
      /\ allocated' = allocated \ {rd[t].kernel_buf}
  BY DEF ReadOut
<1>5. <<>> \in Seq(Byte)
  OBVIOUS
<1>6. HeapOK'
  BY <1>1, <1>3, <1>4, <1>5, PrivateWrite
<1>7. rd' \in [Thread -> ReadLocals] /\ fpos' \in [Thread -> Nat]
  <2>1. rd' = [rd EXCEPT ![t] = IdleRead] /\ fpos' = [fpos EXCEPT ![t] = StoredPos(t)]
    BY DEF ReadOut
  <2>2. StoredPos(t) \in Nat /\ fpos \in [Thread -> Nat]
    BY <1>2 DEF StoredPos, ReadLocals, IInv, TypeOK
  <2>. QED BY <1>2, <2>1, <2>2, IdleReadType
<1>8. ReaderOK(t)'
  <2>1. pc'[t] = "open"
    BY <1>1, <1>2
  <2>. QED BY <2>1 DEF ReaderOK, InRead
<1>9. /\ "open" \in PC \ {"w_loop"} /\ allocated' \subseteq Ptr
      /\ mem' \in [Address -> Seq(Byte)] /\ faults' \in 0..MaxFaults
  BY <1>1, <1>2, <1>3, <1>4, <1>5 DEF IInv, TypeOK, PC
<1>. QED BY <1>1, <1>2, <1>6, <1>7, <1>8, <1>9, ReaderHeapStep

-----------------------------------------------------------------------------
(* Steps of a write *)

DeviceType ==
  /\ entry \in [Slot -> [buffptr : Address, size : Nat]]
  /\ curr_input \in [buffptr : Address, size : Nat]
  /\ in_offs \in Slot /\ out_offs \in Slot /\ full \in BOOLEAN
  /\ total_bytes_evicted \in Nat
HeapType == mem \in [Address -> Seq(Byte)] /\ allocated \subseteq Ptr
HistoryType == stream \in Seq(Byte) /\ marks \in Seq(Nat)

\* The invariant after a step of a write is what it says of the device, of the
\* heap and of t itself.
LEMMA WriterStep ==
  ASSUME IInv, SemInv', NEW t \in Thread, t \in Holders \/ t \in Holders',
         UNCHANGED <<loaded, rd, fpos>>,
         NEW to \in PC \ InRead, pc' = [pc EXCEPT ![t] = to],
         wr' \in [Thread -> WriteLocals], faults' \in 0..MaxFaults,
         DeviceType', HeapType', HistoryType',
         RingOK', HeapOK', WriterOK(t)'
  PROVE  IInv'
<1>1. /\ pc'[t] = to
      /\ \A u \in Thread \ {t} : pc'[u] = pc[u]
  BY DEF IInv, TypeOK
<1>2. TypeOK'
  <2>1. pc' \in [Thread -> {"closed", "open", "write", "read"} \cup InWrite \cup InRead]
    BY DEF SemInv, PC
  <2>2. sem' \in 0..1
    <3>1. loaded'
      BY <1>1 DEF IInv, SemInv, Holders, InWrite, InRead
    <3>. QED BY <3>1 DEF SemInv, SemaphoreHeldByOne
  <2>. QED BY <2>1, <2>2 DEF IInv, TypeOK, DeviceType, HeapType, HistoryType
<1>3. ReaderOK(t)'
  BY <1>1 DEF ReaderOK, InRead
<1>4. ThreadsOK'
  BY <1>1, <1>3, HolderAlone DEF IInv
<1>. QED BY <1>2, <1>4 DEF IInv

\* What a writer between down and up can use.
LEMMA WriterFacts ==
  ASSUME IInv, NEW t \in Thread, pc[t] \in InWrite
  PROVE  /\ t \in Holders /\ loaded
         /\ wr[t] \in WriteLocals /\ wr \in [Thread -> WriteLocals]
         /\ pc \in [Thread -> PC] /\ WriterOK(t)
         /\ DeviceType /\ HeapType /\ HistoryType /\ RingOK /\ HeapOK
         /\ faults \in 0..MaxFaults /\ MaxEntries \in 1..255
BY MaxEntriesAssumption DEF IInv, SemInv, TypeOK, ThreadsOK, Holders, InWrite,
   DeviceType, HeapType, HistoryType

LEMMA IdleWriteType == IdleWrite \in WriteLocals /\ IdleWrite.i = 0
BY DEF IdleWrite, WriteLocals, Address

LEMMA WriteStartType ==
  ASSUME IInv, NEW t \in Thread, NEW payload \in Payloads
  PROVE  /\ WriteStart(t, payload) \in WriteLocals
         /\ WriteStart(t, payload).buf = payload
         /\ WriteStart(t, payload).count = Len(payload)
         /\ WriteStart(t, payload).i = 0
         /\ WriteStart(t, payload).curr_size = curr_input.size
         /\ WriteStart(t, payload).start = Len(stream)
<1>1. curr_input.size \in Nat /\ Len(stream) \in Nat
  BY DEF IInv, TypeOK
<1>2. payload \in Seq(Byte) /\ Len(payload) \in Nat
  BY CallAssumption
<1>. QED BY <1>1, <1>2, IdleWriteType DEF WriteStart, WriteLocals

\* The locals of a write after an iteration of the loop, and at its end.
LEMMA WriteLocalsStep ==
  ASSUME NEW w \in WriteLocals
  PROVE  /\ [w EXCEPT !.curr_size = @ + 1, !.i = @ + 1] \in WriteLocals
         /\ [w EXCEPT !.retval = w.count] \in WriteLocals
<1>1. w.curr_size + 1 \in Nat /\ w.i + 1 \in Nat /\ w.count \in Int
  BY DEF WriteLocals
<1>2. \A m, n \in Nat : [w EXCEPT !.curr_size = m, !.i = n] \in WriteLocals
  BY DEF WriteLocals
<1>3. \A n \in Int : [w EXCEPT !.retval = n] \in WriteLocals
  BY DEF WriteLocals
<1>. QED BY <1>1, <1>2, <1>3

LEMMA WriteByteInv ==
  ASSUME IInv, SemInv', NEW t \in Thread, WriteByte(t)
  PROVE  IInv'
<1>1. /\ pc[t] = "w_loop" /\ pc[t] \in InWrite /\ wr[t].i < wr[t].count
      /\ UNCHANGED <<loaded, dev, sem, heap, pc, rd, fpos, faults, marks>>
  BY DEF WriteByte, MoreToWrite, InWrite
<1>2. /\ t \in Holders /\ wr[t] \in WriteLocals /\ wr \in [Thread -> WriteLocals]
      /\ pc \in [Thread -> PC] /\ WriterOK(t) /\ DeviceType /\ HeapType /\ HistoryType
      /\ RingOK /\ HeapOK /\ faults \in 0..MaxFaults
  BY <1>1, WriterFacts
<1>3. wr' = [wr EXCEPT ![t].curr_size = @ + 1, ![t].i = @ + 1]
  BY DEF WriteByte
<1>4. /\ wr' \in [Thread -> WriteLocals]
      /\ wr'[t].new_buf = wr[t].new_buf /\ wr'[t].count = wr[t].count
      /\ wr'[t].i = wr[t].i + 1 /\ wr'[t].curr_size = wr[t].curr_size + 1
  <2>. DEFINE w == [wr[t] EXCEPT !.curr_size = @ + 1, !.i = @ + 1]
  <2>1. w \in WriteLocals
    BY <1>2, WriteLocalsStep
  <2>2. /\ w.new_buf = wr[t].new_buf /\ w.count = wr[t].count
        /\ w.i = wr[t].i + 1 /\ w.curr_size = wr[t].curr_size + 1
    BY <1>2 DEF WriteLocals
  <2>3. wr' = [wr EXCEPT ![t] = w]
    BY <1>2, <1>3
  <2>. HIDE DEF w
  <2>. QED BY <1>2, <2>1, <2>2, <2>3
<1>5. stream' \in Seq(Byte)
  <2>. DEFINE buf == mem[wr[t].new_buf]
  <2>1. buf \in Seq(Byte) /\ wr[t].curr_size + 1 \in 1..Len(buf)
    BY <1>1, <1>2 DEF WriterOK, WriteLocals, HeapType
  <2>2. ByteAt(t) \in Byte
    BY <2>1 DEF ByteAt
  <2>. QED BY <1>2, <2>2 DEF WriteByte, HistoryType
<1>6. WriterOK(t)'
  <2>1. mem' = mem /\ curr_input' = curr_input
    BY <1>1 DEF dev, heap
  <2>2. /\ wr[t].i \in Nat /\ wr[t].count \in Nat /\ wr[t].curr_size \in Nat
        /\ wr[t].i + 1 <= wr[t].count
    BY <1>1, <1>2 DEF WriteLocals
  <2>3. /\ wr[t].new_buf = curr_input.buffptr
        /\ Len(mem[wr[t].new_buf]) = wr[t].curr_size + (wr[t].count - wr[t].i)
    BY <1>1, <1>2 DEF WriterOK
  <2>4. Len(mem[wr[t].new_buf]) = (wr[t].curr_size + 1) + (wr[t].count - (wr[t].i + 1))
    <3>1. PICK s, c, i \in Nat : s = wr[t].curr_size /\ c = wr[t].count /\ i = wr[t].i
      BY <2>2
    <3>2. s + (c - i) = (s + 1) + (c - (i + 1))
      OBVIOUS
    <3>. QED BY <2>3, <3>1, <3>2
  <2>. QED BY <1>4, <2>1, <2>2, <2>3, <2>4 DEF WriterOK
<1>7. DeviceType' /\ HeapType' /\ HistoryType' /\ RingOK' /\ HeapOK'
  BY <1>1, <1>2, <1>5 DEF DeviceType, HeapType, HistoryType, RingOK, HeapOK, dev, heap
<1>8. pc' = [pc EXCEPT ![t] = "w_loop"] /\ "w_loop" \in PC \ InRead
  BY <1>1, <1>2 DEF PC, InWrite, InRead
<1>. QED BY <1>1, <1>2, <1>4, <1>6, <1>7, <1>8, WriterStep

LEMMA WriteEndInv ==
  ASSUME IInv, SemInv', NEW t \in Thread, WriteEnd(t)
  PROVE  IInv'
<1>1. /\ pc[t] = "w_loop" /\ pc[t] \in InWrite /\ ~(wr[t].i < wr[t].count)
      /\ pc' = [pc EXCEPT ![t] = "w_out"]
      /\ curr_input' = [buffptr |-> wr[t].new_buf, size |-> wr[t].curr_size]
      /\ wr' = [wr EXCEPT ![t].retval = wr[t].count]
      /\ UNCHANGED <<loaded, entry, in_offs, out_offs, full, total_bytes_evicted,
                     heap, rd, fpos, faults, history>>
  BY DEF WriteEnd, MoreToWrite, Goto, InWrite
<1>2. /\ t \in Holders /\ wr[t] \in WriteLocals /\ wr \in [Thread -> WriteLocals]
      /\ pc \in [Thread -> PC] /\ WriterOK(t) /\ DeviceType /\ HeapType /\ HistoryType
      /\ RingOK /\ HeapOK /\ faults \in 0..MaxFaults
  BY <1>1, WriterFacts
<1>3. /\ wr[t].new_buf = curr_input.buffptr
      /\ wr[t].curr_size <= Len(mem[wr[t].new_buf])
      /\ wr[t].new_buf \in Address /\ wr[t].curr_size \in Nat
  <2>1. mem[wr[t].new_buf] \in Seq(Byte)
    BY <1>2 DEF WriteLocals, HeapType
  <2>. QED BY <1>1, <1>2, <2>1 DEF WriterOK, WriteLocals
<1>4. wr' \in [Thread -> WriteLocals]
  <2>. DEFINE w == [wr[t] EXCEPT !.retval = wr[t].count]
  <2>1. w \in WriteLocals
    BY <1>2, WriteLocalsStep
  <2>2. wr' = [wr EXCEPT ![t] = w]
    BY <1>1, <1>2
  <2>. HIDE DEF w
  <2>. QED BY <1>2, <2>1, <2>2
<1>5. DeviceType' /\ HeapType' /\ HistoryType' /\ RingOK'
  BY <1>1, <1>2, <1>3 DEF DeviceType, HeapType, HistoryType, RingOK, heap, history
<1>6. HeapOK'
  BY <1>1, <1>2, <1>3 DEF HeapOK, heap
<1>7. WriterOK(t)' /\ "w_out" \in PC \ InRead
  BY <1>1, <1>2 DEF WriterOK, PC, InWrite, InRead
<1>. QED BY <1>1, <1>2, <1>4, <1>5, <1>6, <1>7, WriterStep

LEMMA WriteOutInv ==
  ASSUME IInv, SemInv', NEW t \in Thread, WriteOut(t)
  PROVE  IInv'
<1>1. /\ pc[t] \in InWrite /\ pc' = [pc EXCEPT ![t] = "open"]
      /\ wr' = [wr EXCEPT ![t] = IdleWrite]
      /\ UNCHANGED <<loaded, dev, heap, rd, fpos, faults, history>>
  BY DEF WriteOut, Goto, InWrite
<1>2. /\ t \in Holders /\ wr \in [Thread -> WriteLocals]
      /\ pc \in [Thread -> PC] /\ DeviceType /\ HeapType /\ HistoryType
      /\ RingOK /\ HeapOK /\ faults \in 0..MaxFaults
  BY <1>1, WriterFacts
<1>3. wr' \in [Thread -> WriteLocals]
  BY <1>1, <1>2, IdleWriteType
<1>4. DeviceType' /\ HeapType' /\ HistoryType' /\ RingOK' /\ HeapOK'
  BY <1>1, <1>2 DEF DeviceType, HeapType, HistoryType, RingOK, HeapOK, dev, heap, history
<1>5. WriterOK(t)' /\ "open" \in PC \ InRead
  BY <1>1, <1>2 DEF WriterOK, PC, InWrite, InRead
<1>. QED BY <1>1, <1>2, <1>3, <1>4, <1>5, WriterStep

LEMMA WriteNoMemoryInv ==
  ASSUME IInv, SemInv', NEW t \in Thread, NEW payload \in Payloads, WriteNoMemory(t, payload)
  PROVE  IInv'
<1>1. Goto(t, "write", "w_out") /\ UNCHANGED <<loaded, dev, heap, rd, fpos, history>>
  BY DEF WriteNoMemory
<1>2. /\ t \in Holders' /\ pc'[t] = "w_out" /\ pc' = [pc EXCEPT ![t] = "w_out"]
      /\ wr \in [Thread -> WriteLocals] /\ faults \in 0..MaxFaults
      /\ curr_input.size \in Nat
  BY <1>1, EnterFacts DEF InWrite
<1>3. Len(payload) \in Nat
  <2>1. payload \in Seq(Byte)
    BY CallAssumption
  <2>. QED BY <2>1
<1>4. faults' \in 0..MaxFaults
  <2>1. curr_input.size + Len(payload) \in Nat
    BY <1>2, <1>3
  <2>. QED BY <1>2, <2>1, FailureCounted DEF WriteNoMemory
<1>5. wr' \in [Thread -> WriteLocals]
  <2>. DEFINE w == [WriteStart(t, payload) EXCEPT !.retval = -ENOMEM]
  <2>1. w \in WriteLocals
    BY <1>3, WriteStartType DEF WriteLocals, ENOMEM
  <2>2. wr' = [wr EXCEPT ![t] = w]
    BY DEF WriteNoMemory
  <2>. HIDE DEF w
  <2>. QED BY <1>2, <2>1, <2>2
<1>6. DeviceType' /\ HeapType' /\ HistoryType' /\ RingOK' /\ HeapOK'
  BY <1>1 DEF IInv, TypeOK, DeviceType, HeapType, HistoryType, RingOK, HeapOK,
              dev, heap, history
<1>7. WriterOK(t)' /\ "w_out" \in PC \ InRead
  BY <1>2 DEF WriterOK, PC, InWrite, InRead
<1>. QED BY <1>1, <1>2, <1>4, <1>5, <1>6, <1>7, WriterStep

\* The bytes of the unfinished line are all in its buffer.
LEMMA PendingBytes ==
  ASSUME IInv, loaded
  PROVE  Pending \in Seq(Byte) /\ Len(Pending) = curr_input.size
<1>. DEFINE buf == mem[curr_input.buffptr]
            n == curr_input.size
<1>1. buf \in Seq(Byte) /\ n \in Nat /\ n <= Len(buf)
  BY DEF IInv, TypeOK, HeapOK
<1>2. \A j \in 1..n : buf[j] \in Byte
  BY <1>1
<1>. HIDE DEF buf, n
<1>3. SubSeq(buf, 1, n) \in Seq(Byte) /\ Len(SubSeq(buf, 1, n)) = n
  <2>1. SubSeq(buf, 1, n) \in Seq(Byte)
    BY <1>1, <1>2, SubSeqProperties
  <2>2. Len(SubSeq(buf, 1, n)) = n
    BY <1>1, SubSeqProperties
  <2>. QED BY <2>1, <2>2
<1>. QED BY <1>3 DEF Pending, buf, n

\* The unfinished line moves to a buffer nobody owns, and its old one is freed:
\* no slot of the ring is affected.
LEMMA GrowInputInv ==
  ASSUME IInv, loaded, loaded', NEW count \in Nat, NEW bytes \in Seq(Byte),
         Len(bytes) <= count,
         NEW p \in Kmalloc(curr_input.size + count, allocated) \ {NULL},
         GrowInput(p, bytes)
  PROVE  /\ DeviceType' /\ HeapType' /\ RingOK' /\ HeapOK'
         /\ curr_input'.buffptr = p
         /\ Len(mem'[p]) = curr_input.size + Len(bytes)
<1>. DEFINE old == IF curr_input.size > 0 THEN {curr_input.buffptr} ELSE {}
<1>1. /\ allocated' = (allocated \cup ({p} \cap Ptr)) \ old
      /\ mem' = [a \in Address |-> IF a = p THEN Pending \o bytes
                                   ELSE IF a \in old THEN <<>> ELSE mem[a]]
      /\ curr_input' = [curr_input EXCEPT !.buffptr = p]
      /\ UNCHANGED <<entry, in_offs, out_offs, full, total_bytes_evicted>>
  BY DEF GrowInput
<1>2. /\ DeviceType /\ HeapType /\ RingOK /\ HeapOK
      /\ curr_input.size \in Nat /\ curr_input.buffptr \in Address
      /\ NULL \in Address /\ ZERO_SIZE_PTR \in Address
      /\ \A i \in Slot : entry[i].buffptr \in Address /\ entry[i].size \in Nat
  BY DEF IInv, TypeOK, DeviceType, HeapType, Address
<1>3. Pending \in Seq(Byte) /\ Len(Pending) = curr_input.size
  BY PendingBytes
<1>4. /\ Pending \o bytes \in Seq(Byte)
      /\ Len(Pending \o bytes) = curr_input.size + Len(bytes)
  BY <1>3, ConcatProperties
<1>5. /\ p \in Address
      /\ \/ p = ZERO_SIZE_PTR /\ curr_input.size = 0 /\ count = 0
         \/ p \in Ptr \ allocated
  BY <1>2, KmallocResult
<1>6. p \notin Ptr => Pending \o bytes = <<>>
  <2>. SUFFICES ASSUME p \notin Ptr PROVE Pending \o bytes = <<>>
    OBVIOUS
  <2>1. curr_input.size = 0 /\ Len(bytes) = 0
    BY <1>5
  <2>2. Len(Pending \o bytes) = 0
    BY <1>4, <2>1
  <2>. QED BY <1>4, <2>2, EmptySeq
<1>. HIDE DEF old
<1>7. /\ curr_input'.buffptr = p /\ curr_input'.size = curr_input.size
      /\ curr_input' \in [buffptr : Address, size : Nat]
  BY <1>1, <1>2, <1>5 DEF DeviceType
<1>8. mem'[p] = Pending \o bytes /\ Len(mem'[p]) = curr_input.size + Len(bytes)
  BY <1>1, <1>4, <1>5
<1>9. DeviceType' /\ HeapType' /\ RingOK'
  <2>1. mem' \in [Address -> Seq(Byte)]
    <3>1. <<>> \in Seq(Byte)
      OBVIOUS
    <3>. QED BY <1>1, <1>2, <1>4, <3>1 DEF HeapType
  <2>. QED BY <1>1, <1>2, <1>7, <2>1 DEF DeviceType, HeapType, RingOK
<1>10. HeapOK'
  <2>1. mem'[NULL] = <<>> /\ mem'[ZERO_SIZE_PTR] = <<>>
    <3>1. mem[NULL] = <<>> /\ mem[ZERO_SIZE_PTR] = <<>>
      BY <1>2 DEF HeapOK
    <3>2. p # NULL /\ (p = ZERO_SIZE_PTR => Pending \o bytes = <<>>)
      BY <1>6, PtrAssumption
    <3>. QED BY <1>1, <1>2, <3>1, <3>2
  <2>2. old = {} \/ old = {curr_input.buffptr}
    BY DEF old
  <2>3. ASSUME NEW i \in Slot, entry[i].buffptr \in Ptr
        PROVE  /\ entry[i].buffptr # p /\ entry[i].buffptr \notin old
               /\ entry[i].buffptr \in allocated
    BY <1>2, <1>5, <2>2, <2>3, PtrAssumption DEF HeapOK
  <2>4. ASSUME NEW i \in Slot
        PROVE  entry[i].size <= Len(mem'[entry[i].buffptr])
    <3>1. entry[i].size <= Len(mem[entry[i].buffptr])
      BY <1>2 DEF HeapOK
    <3>2. CASE entry[i].buffptr \in Ptr
      BY <1>1, <1>2, <2>3, <3>1, <3>2
    <3>3. CASE entry[i].buffptr \notin Ptr
      <4>1. mem[entry[i].buffptr] = <<>> /\ mem'[entry[i].buffptr] = <<>>
        BY <1>2, <2>1, <3>3 DEF HeapOK, Address
      <4>. QED BY <3>1, <4>1
    <3>. QED BY <3>2, <3>3
  <2>5. curr_input'.size <= Len(mem'[curr_input'.buffptr])
    BY <1>2, <1>7, <1>8
  <2>6. p \in Ptr => p \in allocated'
    BY <1>1, <1>2, <1>5, <2>2, PtrAssumption DEF HeapOK
  <2>. QED BY <1>1, <1>2, <1>7, <2>1, <2>3, <2>4, <2>5, <2>6 DEF HeapOK
<1>. QED BY <1>7, <1>8, <1>9, <1>10

LEMMA WriteFaultInv ==
  ASSUME IInv, SemInv', NEW t \in Thread, NEW payload \in Payloads, WriteFault(t, payload)
  PROVE  IInv'
<1>1. Goto(t, "write", "w_out") /\ UNCHANGED <<loaded, rd, fpos, history>> /\ InjectFault
  BY DEF WriteFault
<1>2. /\ t \in Holders' /\ loaded /\ pc'[t] = "w_out" /\ pc' = [pc EXCEPT ![t] = "w_out"]
      /\ wr \in [Thread -> WriteLocals] /\ faults \in 0..MaxFaults
  BY <1>1, EnterFacts DEF InWrite
<1>3. Len(payload) \in Nat
  <2>1. payload \in Seq(Byte)
    BY CallAssumption
  <2>. QED BY <2>1
<1>4. faults' \in 0..MaxFaults
  BY <1>1, <1>2, BoundAssumption DEF InjectFault
<1>5. wr' \in [Thread -> WriteLocals]
  <2>. DEFINE w == [WriteStart(t, payload) EXCEPT !.retval = -EFAULT]
  <2>1. w \in WriteLocals
    BY <1>3, WriteStartType DEF WriteLocals, EFAULT
  <2>2. wr' = [wr EXCEPT ![t] = w]
    BY DEF WriteFault
  <2>. HIDE DEF w
  <2>. QED BY <1>2, <2>1, <2>2
<1>6. DeviceType' /\ HeapType' /\ RingOK' /\ HeapOK'
  <2>1. PICK p \in Kmalloc(curr_input.size + Len(payload), allocated) \ {NULL} :
          GrowInput(p, <<>>)
    BY DEF WriteFault
  <2>2. <<>> \in Seq(Byte) /\ Len(<<>>) <= Len(payload)
    BY <1>3
  <2>. QED BY <1>1, <1>2, <1>3, <2>1, <2>2, GrowInputInv
<1>7. HistoryType'
  BY <1>1 DEF IInv, TypeOK, HistoryType, history
<1>8. WriterOK(t)' /\ "w_out" \in PC \ InRead
  BY <1>2 DEF WriterOK, PC, InWrite, InRead
<1>. QED BY <1>1, <1>2, <1>4, <1>5, <1>6, <1>7, <1>8, WriterStep

LEMMA WriteBeginInv ==
  ASSUME IInv, SemInv', NEW t \in Thread, NEW payload \in Payloads, WriteBegin(t, payload)
  PROVE  IInv'
<1>1. Goto(t, "write", "w_loop") /\ UNCHANGED <<loaded, rd, fpos, faults, history>>
  BY DEF WriteBegin
<1>2. /\ t \in Holders' /\ loaded /\ pc'[t] = "w_loop" /\ pc' = [pc EXCEPT ![t] = "w_loop"]
      /\ wr \in [Thread -> WriteLocals] /\ faults \in 0..MaxFaults
      /\ curr_input.size \in Nat
  BY <1>1, EnterFacts DEF InWrite
<1>3. payload \in Seq(Byte) /\ Len(payload) \in Nat
  <2>1. payload \in Seq(Byte)
    BY CallAssumption
  <2>. QED BY <2>1
<1>4. PICK p \in Kmalloc(curr_input.size + Len(payload), allocated) \ {NULL} :
        /\ GrowInput(p, payload)
        /\ wr' = [wr EXCEPT ![t] = [WriteStart(t, payload) EXCEPT !.new_buf = p]]
  BY DEF WriteBegin
<1>5. /\ DeviceType' /\ HeapType' /\ RingOK' /\ HeapOK'
      /\ curr_input'.buffptr = p /\ Len(mem'[p]) = curr_input.size + Len(payload)
  <2>1. Len(payload) <= Len(payload) /\ loaded'
    BY <1>1, <1>2, <1>3
  <2>2. GrowInput(p, payload)
    BY <1>4
  <2>. QED BY <1>2, <1>3, <2>1, <2>2, GrowInputInv
<1>6. /\ wr' \in [Thread -> WriteLocals]
      /\ wr'[t].new_buf = p /\ wr'[t].i = 0 /\ wr'[t].count = Len(payload)
      /\ wr'[t].curr_size = curr_input.size
  <2>. DEFINE start == WriteStart(t, payload)
              w == [start EXCEPT !.new_buf = p]
  <2>1. /\ start \in WriteLocals /\ start.count = Len(payload) /\ start.i = 0
        /\ start.curr_size = curr_input.size
    BY <1>3, WriteStartType
  <2>2. wr' = [wr EXCEPT ![t] = w]
    BY <1>4
  <2>3. p \in Address
    BY <1>5 DEF DeviceType
  <2>. HIDE DEF start
  <2>4. /\ w \in WriteLocals /\ w.new_buf = p /\ w.i = 0 /\ w.count = Len(payload)
        /\ w.curr_size = curr_input.size
    BY <2>1, <2>3 DEF WriteLocals
  <2>. HIDE DEF w
  <2>. QED BY <1>2, <2>2, <2>4
<1>7. WriterOK(t)'
  <2>1. Len(mem'[p]) = curr_input.size + (Len(payload) - 0) /\ 0 <= Len(payload)
    BY <1>2, <1>3, <1>5
  <2>. QED BY <1>2, <1>5, <1>6, <2>1 DEF WriterOK
<1>8. HistoryType' /\ faults' = faults
  BY <1>1 DEF IInv, TypeOK, HistoryType, history
<1>9. "w_loop" \in PC \ InRead
  BY DEF PC, InWrite, InRead
<1>. QED BY <1>1, <1>2, <1>5, <1>6, <1>7, <1>8, <1>9, WriterStep

\* A commit to a full ring moves out_offs on, one to a ring that is not full
\* leaves it on slot 0 and fills the ring when the last slot is taken.
LEMMA CommitRing ==
  ASSUME DeviceType, RingOK, NEW p \in Ptr, NEW size \in Nat, CommitEntry(p, size)
  PROVE  /\ entry' = [entry EXCEPT ![in_offs] = [buffptr |-> p, size |-> size]]
         /\ entry' \in [Slot -> [buffptr : Address, size : Nat]]
         /\ in_offs' \in Slot /\ out_offs' \in Slot /\ full' \in BOOLEAN
         /\ total_bytes_evicted' \in Nat
         /\ RingOK'
<1>1. /\ MaxEntries \in 1..255 /\ in_offs \in Slot /\ out_offs \in Slot /\ full \in BOOLEAN
      /\ entry \in [Slot -> [buffptr : Address, size : Nat]] /\ total_bytes_evicted \in Nat
      /\ in_offs' = NextSlot(in_offs)
      /\ entry' = [entry EXCEPT ![in_offs] = [buffptr |-> p, size |-> size]]
  BY MaxEntriesAssumption DEF DeviceType, CommitEntry
<1>2. /\ in_offs' = IF in_offs = MaxEntries - 1 THEN 0 ELSE in_offs + 1
      /\ in_offs' \in Slot
  BY <1>1, NextSlotValue
<1>3. /\ entry' \in [Slot -> [buffptr : Address, size : Nat]]
      /\ entry'[in_offs].buffptr = p
      /\ \A i \in Slot \ {in_offs} : entry'[i] = entry[i]
  BY <1>1 DEF Address
<1>4. CASE full
  <2>1. /\ full' <=> full
        /\ out_offs' = NextSlot(out_offs) /\ in_offs = out_offs
        /\ total_bytes_evicted' = total_bytes_evicted + entry[out_offs].size
    BY <1>4 DEF CommitEntry, RingOK
  <2>2. \A i \in Slot : entry'[i].buffptr \in Ptr
    BY <1>3, <1>4 DEF RingOK
  <2>3. out_offs' = in_offs' /\ total_bytes_evicted' \in Nat
    BY <1>1, <2>1
  <2>4. RingOK'
    BY <1>4, <2>1, <2>2, <2>3 DEF RingOK
  <2>. QED BY <1>1, <1>2, <1>3, <1>4, <2>1, <2>3, <2>4
<1>5. CASE ~full
  <2>1. /\ full' <=> NextSlot(in_offs) = out_offs
        /\ out_offs' = out_offs /\ out_offs = 0
        /\ total_bytes_evicted' = total_bytes_evicted
    BY <1>5 DEF CommitEntry, RingOK
  <2>2. full' => in_offs' = out_offs'
    BY <1>1, <2>1
  <2>3. full' => in_offs = MaxEntries - 1
    BY <1>1, <1>2, <2>1 DEF Slot
  <2>4. ~full' => in_offs' = in_offs + 1
    BY <1>1, <1>2, <2>1 DEF Slot
  <2>5. ASSUME NEW i \in Slot, full' \/ i < in_offs'
        PROVE  entry'[i].buffptr \in Ptr
    <3>1. i = in_offs \/ i < in_offs
      BY <1>1, <2>3, <2>4, <2>5 DEF Slot
    <3>. QED BY <1>3, <1>5, <3>1 DEF RingOK
  <2>6. RingOK'
    BY <2>1, <2>2, <2>5 DEF RingOK
  <2>. QED BY <1>1, <1>2, <1>3, <2>1, <2>6
<1>. QED BY <1>1, <1>4, <1>5

\* The heap after a commit: the line's buffer passes from curr_input to slot
\* in_offs, the buffer that slot loses is freed, and the rest of the payload is
\* in a buffer p nobody owns, or nowhere.
LEMMA CommitHeap ==
  ASSUME IInv, loaded, loaded', curr_input.buffptr \in Ptr,
         NEW size \in Nat, size <= Len(mem[curr_input.buffptr]),
         NEW p \in {NULL} \cup (Ptr \ (allocated \ Evicted)),
         NEW rest \in Seq(Byte), NEW n \in Nat,
         IF p = NULL THEN n = 0 ELSE n = Len(rest),
         entry' = [entry EXCEPT ![in_offs] = [buffptr |-> curr_input.buffptr, size |-> size]],
         allocated' = (allocated \ Evicted) \cup ({p} \cap Ptr),
         mem' = [a \in Address |-> IF a = p /\ p # NULL THEN rest
                                   ELSE IF a \in Evicted THEN <<>> ELSE mem[a]],
         curr_input' = [buffptr |-> p, size |-> n]
  PROVE  /\ curr_input' \in [buffptr : Address, size : Nat]
         /\ HeapType' /\ HeapOK'
<1>. DEFINE buf == curr_input.buffptr
<1>1. /\ DeviceType /\ HeapType /\ RingOK /\ HeapOK /\ in_offs \in Slot
      /\ NULL \in Address /\ ZERO_SIZE_PTR \in Address
      /\ \A i \in Slot : entry[i].buffptr \in Address /\ entry[i].size \in Nat
      /\ p \in Address /\ buf \in Ptr /\ buf \in Address
  BY DEF IInv, TypeOK, DeviceType, HeapType, Address
<1>2. Evicted = IF full THEN {entry[in_offs].buffptr} ELSE {}
  BY <1>1 DEF RingOK, Evicted
<1>3. HeapType'
  <2>1. <<>> \in Seq(Byte)
    OBVIOUS
  <2>. QED BY <1>1, <2>1 DEF HeapType
<1>4. mem'[NULL] = <<>> /\ mem'[ZERO_SIZE_PTR] = <<>>
  BY <1>1, PtrAssumption DEF HeapOK
<1>5. ASSUME NEW q \in Ptr, q \in allocated, q \notin Evicted
      PROVE  q \in allocated' /\ q # p /\ mem'[q] = mem[q]
  <2>1. q # p
    BY <1>5, PtrAssumption
  <2>. QED BY <1>5, <2>1 DEF Address
<1>6. /\ buf \in allocated' /\ buf # p /\ mem'[buf] = mem[buf]
      /\ \A i \in Slot : entry[i].buffptr # buf
  <2>1. buf \in allocated /\ \A i \in Slot : entry[i].buffptr # buf
    BY <1>1 DEF HeapOK
  <2>2. buf \notin Evicted
    BY <1>1, <1>2, <2>1
  <2>. QED BY <1>1, <1>5, <2>1, <2>2
<1>7. /\ entry'[in_offs].buffptr = buf /\ entry'[in_offs].size = size
      /\ \A i \in Slot \ {in_offs} : entry'[i] = entry[i]
  BY <1>1 DEF DeviceType
<1>8. ASSUME NEW i \in Slot \ {in_offs}, entry[i].buffptr \in Ptr
      PROVE  /\ entry[i].buffptr \in allocated' /\ entry[i].buffptr # p
             /\ mem'[entry[i].buffptr] = mem[entry[i].buffptr]
  <2>1. entry[i].buffptr \in allocated /\ entry[i].buffptr # entry[in_offs].buffptr
    BY <1>1, <1>8 DEF HeapOK
  <2>2. entry[i].buffptr \notin Evicted
    BY <1>2, <2>1
  <2>. QED BY <1>5, <1>8, <2>1, <2>2
<1>9. ASSUME NEW i \in Slot
      PROVE  entry'[i].size <= Len(mem'[entry'[i].buffptr])
  <2>1. CASE i = in_offs
    BY <1>6, <1>7, <2>1
  <2>2. CASE i # in_offs /\ entry[i].buffptr \in Ptr
    BY <1>1, <1>7, <1>8, <2>2 DEF HeapOK
  <2>3. CASE i # in_offs /\ entry[i].buffptr \notin Ptr
    <3>1. entry[i].buffptr = NULL \/ entry[i].buffptr = ZERO_SIZE_PTR
      BY <1>1, <2>3 DEF Address
    <3>2. mem'[entry[i].buffptr] = mem[entry[i].buffptr]
      BY <1>1, <1>4, <3>1 DEF HeapOK
    <3>3. entry'[i] = entry[i] /\ entry[i].size <= Len(mem[entry[i].buffptr])
      BY <1>1, <1>7, <2>3 DEF HeapOK
    <3>. QED BY <3>2, <3>3
  <2>. QED BY <2>1, <2>2, <2>3
<1>10. curr_input'.buffptr = p /\ curr_input'.size = n /\ n <= Len(mem'[p])
  <2>1. CASE p = NULL
    BY <1>4, <2>1
  <2>2. CASE p # NULL
    BY <1>1, <2>2
  <2>. QED BY <2>1, <2>2
<1>11. ASSUME NEW i \in Slot, entry'[i].buffptr \in Ptr
       PROVE  entry'[i].buffptr \in allocated' /\ entry'[i].buffptr # p
  BY <1>6, <1>7, <1>8, <1>11
<1>12. ASSUME NEW i \in Slot, NEW j \in Slot, entry'[i].buffptr \in Ptr,
              entry'[i].buffptr = entry'[j].buffptr
       PROVE  i = j
  BY <1>1, <1>6, <1>7, <1>12 DEF HeapOK
<1>13. p \in Ptr => p \in allocated'
  OBVIOUS
<1>. QED BY <1>1, <1>3, <1>4, <1>9, <1>10, <1>11, <1>12, <1>13 DEF HeapOK

LEMMA WriteNewlineInv ==
  ASSUME IInv, SemInv', NEW t \in Thread, WriteNewline(t)
  PROVE  IInv'
<1>1. /\ pc[t] = "w_loop" /\ pc[t] \in InWrite /\ wr[t].i < wr[t].count
      /\ UNCHANGED <<loaded, rd, fpos>>
  BY DEF WriteNewline, MoreToWrite, InWrite
<1>2. /\ t \in Holders /\ loaded /\ wr[t] \in WriteLocals /\ wr \in [Thread -> WriteLocals]
      /\ pc \in [Thread -> PC] /\ WriterOK(t) /\ DeviceType /\ HeapType /\ HistoryType
      /\ RingOK /\ HeapOK /\ faults \in 0..MaxFaults
  BY <1>1, WriterFacts
<1>. DEFINE w == wr[t]
            buf == mem[w.new_buf]
            remaining == w.count - w.i - 1
            rest == SubSeq(buf, w.curr_size + 2, w.curr_size + 1 + remaining)
            kept == allocated \ Evicted
<1>3. /\ w.new_buf = curr_input.buffptr /\ w.new_buf \in Address
      /\ w.curr_size \in Nat /\ w.count \in Nat /\ w.i \in Nat /\ remaining \in Nat
      /\ buf \in Seq(Byte) /\ Len(buf) = w.curr_size + 1 + remaining
  <2>1. w.curr_size \in Nat /\ w.count \in Nat /\ w.i \in Nat /\ w.new_buf \in Address
    BY <1>2 DEF WriteLocals
  <2>2. Len(buf) = w.curr_size + (w.count - w.i) /\ w.new_buf = curr_input.buffptr
    BY <1>1, <1>2 DEF WriterOK
  <2>3. remaining \in Nat /\ w.curr_size + (w.count - w.i) = w.curr_size + 1 + remaining
    BY <1>1, <2>1
  <2>4. buf \in Seq(Byte)
    BY <1>2, <2>1 DEF HeapType
  <2>. QED BY <2>1, <2>2, <2>3, <2>4
<1>4. PICK p \in Kmalloc(remaining + 1, kept) :
        /\ CountFailure(p, kept)
        /\ allocated' = kept \cup ({p} \cap Ptr)
        /\ mem' = [a \in Address |-> IF a = p /\ p # NULL THEN rest
                                     ELSE IF a \in Evicted THEN <<>> ELSE mem[a]]
        /\ curr_input' = InputAfterLine(p, remaining)
        /\ wr' = [wr EXCEPT ![t].new_buf = p, ![t].curr_size = 0, ![t].i = @ + 1,
                            ![t].retval = IF p = NULL THEN ShortWrite(t) ELSE @]
        /\ pc' = [pc EXCEPT ![t] = IF p = NULL THEN "w_out" ELSE @]
  BY DEF WriteNewline
<1>. HIDE DEF remaining, rest, kept, buf
<1>5. /\ p = NULL \/ p \in Ptr \ kept
      /\ p \in Address /\ faults' \in 0..MaxFaults
  <2>1. remaining + 1 \in Nat /\ remaining + 1 # 0
    BY <1>3
  <2>. QED BY <1>2, <1>4, <2>1, KmallocResult, FailureCounted
<1>6. rest \in Seq(Byte) /\ Len(rest) = remaining
  <2>. DEFINE m == w.curr_size + 2
              l == w.curr_size + 1 + remaining
  <2>1. m \in Int /\ l \in Int /\ (IF m <= l THEN l - m + 1 ELSE 0) = remaining
        /\ m \in Nat \ {0} /\ l <= Len(buf)
    <3>1. PICK c, q \in Nat : c = w.curr_size /\ q = remaining
      BY <1>3
    <3>2. m = c + 2 /\ l = c + 1 + q /\ Len(buf) = c + 1 + q
      BY <1>3, <3>1
    <3>. HIDE DEF m, l
    <3>3. m \in Nat \ {0} /\ l \in Nat /\ l <= Len(buf)
      BY <3>2
    <3>4. (IF m <= l THEN l - m + 1 ELSE 0) = q
      BY <3>2
    <3>. QED BY <3>1, <3>3, <3>4
  <2>2. rest = SubSeq(buf, m, l)
    BY DEF rest
  <2>. HIDE DEF m, l
  <2>3. \A j \in m..l : buf[j] \in Byte
    BY <1>3, <2>1
  <2>4. SubSeq(buf, m, l) \in Seq(Byte)
    BY <2>1, <2>3, SubSeqProperties
  <2>5. Len(SubSeq(buf, m, l)) = IF m <= l THEN l - m + 1 ELSE 0
    BY <2>1, <2>3, SubSeqProperties
  <2>. QED BY <2>1, <2>2, <2>4, <2>5
<1>7. w.new_buf \in Ptr
  <2>1. buf # <<>>
    BY <1>3
  <2>. QED BY <1>2, <1>3, <2>1 DEF HeapOK, Address, buf
<1>8. /\ entry' = [entry EXCEPT ![in_offs] = [buffptr |-> curr_input.buffptr,
                                              size |-> w.curr_size + 1]]
      /\ entry' \in [Slot -> [buffptr : Address, size : Nat]]
      /\ in_offs' \in Slot /\ out_offs' \in Slot /\ full' \in BOOLEAN
      /\ total_bytes_evicted' \in Nat /\ RingOK'
  <2>1. CommitEntry(w.new_buf, w.curr_size + 1) /\ w.curr_size + 1 \in Nat
    BY <1>3 DEF WriteNewline
  <2>. QED BY <1>2, <1>3, <1>7, <2>1, CommitRing
<1>9. curr_input' = [buffptr |-> p, size |-> IF p = NULL THEN 0 ELSE remaining]
  BY <1>4 DEF InputAfterLine
<1>10. HeapType' /\ HeapOK' /\ curr_input' \in [buffptr : Address, size : Nat]
  <2>. DEFINE n == IF p = NULL THEN 0 ELSE remaining
              size == w.curr_size + 1
  <2>1. /\ n \in Nat /\ size \in Nat /\ size <= Len(mem[curr_input.buffptr])
        /\ IF p = NULL THEN n = 0 ELSE n = Len(rest)
    <3>1. mem[curr_input.buffptr] = buf
      BY <1>3 DEF buf
    <3>2. size \in Nat /\ size <= Len(buf)
      <4>1. w.curr_size \in Nat /\ remaining \in Nat /\ Len(buf) = w.curr_size + 1 + remaining
        BY <1>3
      <4>. HIDE DEF w
      <4>. QED BY <4>1
    <3>3. n \in Nat /\ IF p = NULL THEN n = 0 ELSE n = Len(rest)
      BY <1>3, <1>6
    <3>. HIDE DEF n, size
    <3>. QED BY <3>1, <3>2, <3>3
  <2>2. /\ p \in {NULL} \cup (Ptr \ (allocated \ Evicted)) /\ loaded'
        /\ allocated' = (allocated \ Evicted) \cup ({p} \cap Ptr)
        /\ curr_input.buffptr \in Ptr
    <3>1. p \in {NULL} \cup (Ptr \ (allocated \ Evicted))
      BY <1>5 DEF kept
    <3>2. allocated' = (allocated \ Evicted) \cup ({p} \cap Ptr)
      BY <1>4 DEF kept
    <3>3. loaded' = loaded
      BY <1>1
    <3>. QED BY <1>2, <1>3, <1>7, <3>1, <3>2, <3>3
  <2>3. curr_input' = [buffptr |-> p, size |-> n]
    BY <1>9
  <2>4. entry' = [entry EXCEPT ![in_offs] = [buffptr |-> curr_input.buffptr, size |-> size]]
    BY <1>8
  <2>. HIDE DEF n, size
  <2>. QED BY <1>2, <1>4, <1>6, <2>1, <2>2, <2>3, <2>4, CommitHeap
<1>11. DeviceType'
  BY <1>8, <1>10 DEF DeviceType
<1>12. HistoryType'
  <2>1. stream' = Append(stream, Newline) /\ marks' = Append(marks, Len(stream) + 1)
    BY DEF WriteNewline
  <2>2. Len(stream) + 1 \in Nat
    BY <1>2 DEF HistoryType
  <2>. QED BY <1>2, <2>1, <2>2, ByteAssumption DEF HistoryType
<1>13. /\ wr' \in [Thread -> WriteLocals]
       /\ wr'[t].new_buf = p /\ wr'[t].curr_size = 0
       /\ wr'[t].i = w.i + 1 /\ wr'[t].count = w.count
  <2>. DEFINE rv == IF p = NULL THEN ShortWrite(t) ELSE w.retval
  <2>1. rv \in Int
    BY <1>2, <1>3 DEF ShortWrite, WriteLocals
  <2>2. wr' = [wr EXCEPT ![t].new_buf = p, ![t].curr_size = 0, ![t].i = @ + 1,
                         ![t].retval = rv]
    BY <1>2, <1>4
  <2>3. wr \in [Thread -> WriteLocals] /\ w \in WriteLocals /\ p \in Address
    BY <1>2, <1>5
  <2>. HIDE DEF rv
  <2>4. w.i + 1 \in Nat
    BY <1>3
  <2>5. wr' = [wr EXCEPT ![t] = [w EXCEPT !.new_buf = p, !.curr_size = 0, !.i = w.i + 1,
                                          !.retval = rv]]
    BY <2>2, <2>3
  <2>. QED BY <2>1, <2>3, <2>4, <2>5 DEF WriteLocals
<1>14. WriterOK(t)'
  <2>1. CASE p = NULL
    BY <1>2, <1>4, <2>1 DEF WriterOK
  <2>2. CASE p # NULL
    <3>1. mem'[p] = rest
      BY <1>4, <1>5, <2>2
    <3>2. remaining = 0 + (w.count - (w.i + 1)) /\ w.i + 1 <= w.count
      BY <1>1, <1>3 DEF remaining
    <3>3. curr_input'.buffptr = p
      BY <1>9
    <3>. QED BY <1>6, <1>13, <3>1, <3>2, <3>3 DEF WriterOK
  <2>. QED BY <2>1, <2>2
<1>15. \E to \in {"w_out", "w_loop"} : pc' = [pc EXCEPT ![t] = to]
  BY <1>1, <1>2, <1>4
<1>16. "w_out" \in PC \ InRead /\ "w_loop" \in PC \ InRead
  BY DEF PC, InWrite, InRead
<1>17. UNCHANGED <<loaded, rd, fpos>>
  BY <1>1
<1>. QED
  <2>1. PICK to \in PC \ InRead : pc' = [pc EXCEPT ![t] = to]
    BY <1>15, <1>16
  <2>2. wr' \in [Thread -> WriteLocals] /\ faults' \in 0..MaxFaults
    BY <1>5, <1>13
  <2>. QED BY <1>2, <1>8, <1>10, <1>11, <1>12, <1>14, <1>17, <2>1, <2>2, WriterStep

-----------------------------------------------------------------------------
(* Loading and unloading *)

LEMMA InitIInv == Init => IInv
<1>. SUFFICES ASSUME Init PROVE IInv
  OBVIOUS
<1>1. SemInv
  BY InitSemInv
<1>2. MaxEntries \in 1..255 /\ 0 \in Slot /\ NULL \in Address /\ ZERO_SIZE_PTR \in Address
  BY MaxEntriesAssumption DEF Slot, Address
<1>3. TypeOK
  <2>1. /\ entry \in [Slot -> [buffptr : Address, size : Nat]]
        /\ curr_input \in [buffptr : Address, size : Nat]
        /\ in_offs \in Slot /\ out_offs \in Slot /\ full \in BOOLEAN
        /\ total_bytes_evicted \in Nat /\ sem \in 0..1 /\ loaded \in BOOLEAN
    <3>1. full \in BOOLEAN /\ loaded \in BOOLEAN
      BY Zenon DEF Init
    <3>2. curr_input = NoEntry /\ NoEntry \in [buffptr : Address, size : Nat]
      BY <1>2 DEF Init, NoEntry
    <3>3. entry \in [Slot -> [buffptr : Address, size : Nat]]
      BY <3>2 DEF Init
    <3>4. in_offs = 0 /\ out_offs = 0 /\ total_bytes_evicted = 0 /\ sem = 0
      BY DEF Init
    <3>. QED BY <1>2, <3>1, <3>2, <3>3, <3>4
  <2>2. mem \in [Address -> Seq(Byte)] /\ allocated \subseteq Ptr
    <3>1. <<>> \in Seq(Byte)
      OBVIOUS
    <3>. QED BY <3>1 DEF Init
  <2>3. pc \in [Thread -> {"closed", "open", "write", "read"} \cup InWrite \cup InRead]
    BY DEF Init
  <2>4. wr \in [Thread -> WriteLocals] /\ rd \in [Thread -> ReadLocals]
    BY IdleWriteType, IdleReadType DEF Init
  <2>5. /\ fpos \in [Thread -> Nat] /\ faults \in 0..MaxFaults
        /\ stream \in Seq(Byte) /\ marks \in Seq(Nat)
    BY BoundAssumption DEF Init
  <2>. QED BY <2>1, <2>2, <2>3, <2>4, <2>5 DEF TypeOK
<1>4. RingOK /\ HeapOK
  BY <1>2 DEF Init, RingOK, HeapOK, Slot
<1>5. ThreadsOK
  BY OutsideOK DEF Init, ThreadsOK, InWrite, InRead
<1>. QED BY <1>1, <1>3, <1>4, <1>5 DEF IInv

\* The reset device owns nothing, whatever the heap still holds.
LEMMA LoadInv ==
  ASSUME IInv, SemInv', InitModule \/ InitModuleFails
  PROVE  IInv'
<1>1. /\ ~loaded /\ ResetDevice /\ UNCHANGED <<heap, pc, wr, rd, fpos>>
      /\ loaded' \in BOOLEAN /\ faults' \in 0..MaxFaults
  <2>1. ~loaded /\ ResetDevice /\ UNCHANGED <<heap, pc, wr, rd, fpos>>
    BY DEF InitModule, InitModuleFails
  <2>2. loaded \in BOOLEAN /\ faults \in 0..MaxFaults
    BY DEF IInv, TypeOK
  <2>3. loaded' \in BOOLEAN
    <3>1. loaded' = TRUE \/ loaded' = loaded
      BY DEF InitModule, InitModuleFails
    <3>. QED BY <2>2, <3>1, Zenon
  <2>4. faults' \in 0..MaxFaults
    <3>1. faults' = faults \/ InjectFault
      BY DEF InitModule, InitModuleFails
    <3>. QED BY <2>2, <3>1, BoundAssumption DEF InjectFault
  <2>. QED BY <2>1, <2>3, <2>4
<1>2. /\ MaxEntries \in 1..255 /\ 0 \in Slot /\ NULL \in Address
      /\ mem[NULL] = <<>> /\ mem[ZERO_SIZE_PTR] = <<>>
  BY MaxEntriesAssumption DEF Slot, Address, IInv, HeapOK
<1>3. /\ \A i \in Slot : entry'[i] = NoEntry
      /\ curr_input' = NoEntry /\ in_offs' = 0 /\ out_offs' = 0 /\ ~full'
      /\ mem' = mem /\ allocated' = allocated
  BY <1>1 DEF ResetDevice, heap
<1>4. TypeOK'
  <2>1. /\ entry' \in [Slot -> [buffptr : Address, size : Nat]]
        /\ curr_input' \in [buffptr : Address, size : Nat]
        /\ in_offs' \in Slot /\ out_offs' \in Slot /\ full' \in BOOLEAN
        /\ total_bytes_evicted' \in Nat /\ sem' \in 0..1
        /\ stream' \in Seq(Byte) /\ marks' \in Seq(Nat)
    BY <1>1, <1>2 DEF ResetDevice, NoEntry
  <2>. QED BY <1>1, <2>1 DEF IInv, TypeOK, heap
<1>5. RingOK'
  BY <1>3 DEF RingOK, Slot
<1>6. HeapOK'
  <2>1. /\ NoEntry.buffptr = NULL /\ NoEntry.size = 0 /\ NULL \notin Ptr
        /\ Len(mem[NULL]) = 0
    BY <1>2, PtrAssumption DEF NoEntry
  <2>. QED BY <1>2, <1>3, <2>1 DEF HeapOK
<1>7. ThreadsOK'
  <2>1. \A t \in Thread : pc'[t] \notin InWrite \cup InRead
    BY <1>1 DEF IInv, SemInv, InWrite, InRead
  <2>. QED BY <2>1 DEF ThreadsOK, WriterOK, ReaderOK, InWrite, InRead
<1>. QED BY <1>4, <1>5, <1>6, <1>7 DEF IInv

LEMMA CleanupInv ==
  ASSUME IInv, SemInv', CleanupModule
  PROVE  IInv'
<1>1. /\ ~loaded' /\ loaded' \in BOOLEAN
      /\ \A t \in Thread : pc[t] = "closed"
      /\ allocated' = allocated \ FreedAtExit
      /\ mem' = [a \in Address |-> IF a \in FreedAtExit THEN <<>> ELSE mem[a]]
      /\ UNCHANGED <<dev, sem, pc, wr, rd, fpos, faults, history>>
  BY DEF CleanupModule
<1>2. mem' \in [Address -> Seq(Byte)] /\ mem'[NULL] = <<>> /\ mem'[ZERO_SIZE_PTR] = <<>>
  <2>1. <<>> \in Seq(Byte) /\ NULL \in Address /\ ZERO_SIZE_PTR \in Address
    BY DEF Address
  <2>. QED BY <1>1, <2>1 DEF IInv, TypeOK, HeapOK
<1>3. TypeOK' /\ RingOK' /\ HeapOK'
  BY <1>1, <1>2 DEF IInv, TypeOK, RingOK, HeapOK, dev, history
<1>4. ThreadsOK'
  BY <1>1 DEF ThreadsOK, WriterOK, ReaderOK, InWrite, InRead
<1>. QED BY <1>3, <1>4 DEF IInv

-----------------------------------------------------------------------------
(* The theorems *)

LEMMA StepIInv == IInv /\ [Next]_vars => IInv'
<1>. SUFFICES ASSUME IInv, [Next]_vars PROVE IInv'
  OBVIOUS
<1>1. CASE InitModule \/ InitModuleFails \/ CleanupModule
  <2>1. SemInv'
    BY <1>1, OthersSemInv DEF IInv
  <2>. QED BY <1>1, <2>1, LoadInv, CleanupInv
<1>2. ASSUME NEW t \in Thread, Open(t) \/ Release(t) \/ Call(t)
      PROVE  IInv'
  <2>1. SemInv'
    BY <1>2, OthersSemInv DEF IInv
  <2>. QED BY <1>2, <2>1, FileInv
<1>3. ASSUME NEW t \in Thread, Write(t)
      PROVE  IInv'
  <2>1. SemInv'
    BY <1>3, WriteSemInv DEF IInv
  <2>. QED BY <1>3, <2>1, WriteNoMemoryInv, WriteFaultInv, WriteBeginInv, WriteByteInv,
              WriteNewlineInv, WriteEndInv, WriteOutInv DEF Write
<1>4. ASSUME NEW t \in Thread, Read(t)
      PROVE  IInv'
  <2>1. SemInv'
    BY <1>4, ReadSemInv DEF IInv
  <2>. QED BY <1>4, <2>1, ReadNoMemoryInv, ReadBeginInv, FindNextInv, FindHitInv,
              FindEofCopyDoneInv, CopyEntryInv, CopyToUserInv, ReadOutInv DEF Read
<1>5. CASE UNCHANGED vars
  <2>1. SemInv'
    BY <1>5, Unchanged DEF vars, IInv
  <2>2. TypeOK' /\ RingOK' /\ HeapOK'
    BY <1>5 DEF IInv, TypeOK, RingOK, HeapOK, vars, dev, heap, history
  <2>3. ThreadsOK'
    BY <1>5 DEF IInv, ThreadsOK, WriterOK, ReaderOK, Private, vars, dev, heap
  <2>. QED BY <2>1, <2>2, <2>3 DEF IInv
<1>. QED BY <1>1, <1>2, <1>3, <1>4, <1>5 DEF Next

\* Two offsets of less than a turn from the same slot reach different slots.
LEMMA TurnInjective ==
  ASSUME NEW n \in Nat, NEW o \in 0..n - 1, NEW k \in 0..n - 1, NEW l \in 0..n - 1,
         (IF o + k < n THEN o + k ELSE o + k - n) = (IF o + l < n THEN o + l ELSE o + l - n)
  PROVE  k = l
OBVIOUS

\* The slots a full turn of the scan looks at are all different.
LEMMA SlotOfInjective ==
  ASSUME IInv, NEW k \in 0..NumEntries - 1, NEW l \in 0..NumEntries - 1,
         SlotOf(k) = SlotOf(l)
  PROVE  k = l
<1>1. MaxEntries \in 1..255 /\ out_offs \in Slot /\ NumEntries \in 0..MaxEntries
  BY NumEntriesNat, MaxEntriesAssumption DEF IInv, TypeOK
<1>2. k \in 0..MaxEntries - 1 /\ l \in 0..MaxEntries - 1
  BY <1>1
<1>3. /\ SlotOf(k) = IF out_offs + k < MaxEntries THEN out_offs + k ELSE out_offs + k - MaxEntries
      /\ SlotOf(l) = IF out_offs + l < MaxEntries THEN out_offs + l ELSE out_offs + l - MaxEntries
  BY <1>1, <1>2, SlotAfterValue DEF SlotOf
<1>4. (IF out_offs + k < MaxEntries THEN out_offs + k ELSE out_offs + k - MaxEntries)
        = (IF out_offs + l < MaxEntries THEN out_offs + l ELSE out_offs + l - MaxEntries)
  BY <1>3
<1>5. MaxEntries \in Nat /\ out_offs \in 0..MaxEntries - 1
  BY <1>1 DEF Slot
<1>. QED BY <1>2, <1>4, <1>5, TurnInjective

\* The slots the scan looks at hold lines, in buffers of the heap.
LEMMA HeldSlot ==
  ASSUME IInv, NEW k \in 0..NumEntries - 1
  PROVE  SlotOf(k) \in Slot /\ entry[SlotOf(k)].buffptr \in Ptr
<1>1. NumEntries = IF full THEN MaxEntries ELSE in_offs
  BY EntriesBetweenValue DEF IInv, TypeOK, RingOK, NumEntries
<1>2. MaxEntries \in 1..255 /\ in_offs \in 0..MaxEntries - 1
  BY MaxEntriesAssumption DEF IInv, TypeOK, Slot
<1>3. SlotOf(k) \in Slot
  BY <1>1, <1>2, ScanSlot
<1>4. full \/ SlotOf(k) < in_offs
  <2>. SUFFICES ASSUME ~full PROVE SlotOf(k) < in_offs
    OBVIOUS
  <2>1. out_offs = 0 /\ k \in Slot /\ k < in_offs
    BY <1>1, <1>2 DEF IInv, RingOK, Slot
  <2>2. SlotOf(k) = k
    BY <2>1, SlotAfterZero DEF SlotOf
  <2>. QED BY <2>1, <2>2
<1>. QED BY <1>3, <1>4 DEF IInv, RingOK

LEMMA IInvOwned == IInv => BuffersOwnedOnce
<1>. SUFFICES ASSUME IInv, loaded PROVE BuffersOwnedOnce
  BY DEF BuffersOwnedOnce
<1>. DEFINE HeldPairs == {<<k, entry[SlotOf(k)].buffptr>> : k \in 0..NumEntries - 1}
            Input == IF curr_input.buffptr \in Ptr THEN {<<-1, curr_input.buffptr>>} ELSE {}
<1>1. \A o \in Owned : o \in HeldPairs \/ o \in Input
  BY DEF Owned
<1>2. ASSUME NEW o \in HeldPairs
      PROVE  /\ o[2] \in Ptr /\ o[2] \in allocated /\ o[2] # curr_input.buffptr
             /\ \E k \in 0..NumEntries - 1 : o = <<k, entry[SlotOf(k)].buffptr>>
  BY <1>2, HeldSlot DEF IInv, HeapOK
<1>3. ASSUME NEW o \in Input
      PROVE  /\ o = <<-1, curr_input.buffptr>> /\ o[2] = curr_input.buffptr
             /\ o[2] \in allocated
  BY <1>3 DEF IInv, HeapOK
<1>4. ASSUME NEW o \in HeldPairs, NEW q \in HeldPairs, o[2] = q[2]
      PROVE  o = q
  <2>1. PICK k \in 0..NumEntries - 1 : o = <<k, entry[SlotOf(k)].buffptr>>
    OBVIOUS
  <2>2. PICK l \in 0..NumEntries - 1 : q = <<l, entry[SlotOf(l)].buffptr>>
    OBVIOUS
  <2>3. /\ SlotOf(k) \in Slot /\ SlotOf(l) \in Slot /\ entry[SlotOf(k)].buffptr \in Ptr
        /\ entry[SlotOf(k)].buffptr = entry[SlotOf(l)].buffptr
    BY <1>4, <2>1, <2>2, HeldSlot
  <2>4. SlotOf(k) = SlotOf(l)
    BY <2>3 DEF IInv, HeapOK
  <2>. QED BY <2>1, <2>2, <2>4, SlotOfInjective
<1>. HIDE DEF HeldPairs, Input
<1>5. \A o, q \in Owned : o[2] = q[2] => o = q
  BY <1>1, <1>2, <1>3, <1>4
<1>. QED BY <1>1, <1>2, <1>3, <1>5 DEF BuffersOwnedOnce

\* Type correctness of the driver, with the heap's contents and the locals of
\* both handlers: no count in aesd_read or aesd_write goes below zero, and no
\* index leaves the ring or the buffer it is used on.
THEOREM DriverTypeCorrect == Spec => []TypeOK
<1>1. IInv => TypeOK
  BY DEF IInv
<1>. QED BY <1>1, InitIInv, StepIInv, PTL DEF Spec

\* No interleaving of calls, failed allocation or faulting copy makes two slots
\* share a buffer, or leaves a freed one in the device: the kfree of an eviction,
\* of a growing line and of module exit never frees twice or too early.
THEOREM BuffersAreOwnedOnce == Spec => []BuffersOwnedOnce
BY InitIInv, StepIInv, IInvOwned, PTL DEF Spec

-----------------------------------------------------------------------------
(* Lines, bytes and calls: the inductive invariant *)

\* The lines in the ring, and the slot of each.
LineNumbers == FirstLine + 1..Len(marks)
LineSlot(l) == SlotOf(l - FirstLine - 1)

\* Lines are not empty, and none ends after the bytes taken so far.
MarksOK ==
  /\ \A i, j \in 0..Len(marks) : i < j => Mark(i) < Mark(j)
  /\ Mark(Len(marks)) <= Len(stream)

\* How many lines were completed, as far as the offsets can tell.
CountOK == IF full THEN Len(marks) >= MaxEntries ELSE Len(marks) = in_offs

SizesOK == \A l \in LineNumbers : entry[LineSlot(l)].size = Mark(l) - Mark(l - 1)

RingLinesOK == MarksOK /\ CountOK /\ SizesOK /\ EvictedBytesExact

\* The n bytes of s after offset from are in buffer p, after offset at.
Holds(p, at, s, from, n) == \A j \in 1..n : mem[p][at + j] = s[from + j]

\* The bytes of line l are in its buffer.
LineHeld(l) ==
  Holds(entry[LineSlot(l)].buffptr, 0, stream, Mark(l - 1), entry[LineSlot(l)].size)

BytesOK == loaded => \A l \in LineNumbers : LineHeld(l)

\* The n bytes after the last line are the front of curr_input's buffer.
TailIs(n) ==
  /\ Len(stream) = Mark(Len(marks)) + n
  /\ Holds(curr_input.buffptr, 0, stream, Mark(Len(marks)), n)

\* How long that is, curr_input.size says only while no write is in its loop.
TailOK ==
  loaded => /\ \A t \in Thread : pc[t] = "w_loop" => TailIs(wr[t].curr_size)
            /\ (\A t \in Thread : pc[t] # "w_loop") => TailIs(curr_input.size)

\* What a write took so far is the front of the caller's buffer; the rest of it
\* follows the unfinished line in new_buf.
WroteOK(t) ==
  LET w == wr[t]
      taken == IF w.retval < 0 THEN 0 ELSE w.retval
  IN  /\ pc[t] = "w_loop" =>
           /\ w.count = Len(w.buf)
           /\ Len(stream) = w.start + w.i
           /\ \A j \in 1..w.i : stream[w.start + j] = w.buf[j]
           /\ Holds(w.new_buf, w.curr_size, w.buf, w.i, w.count - w.i)
      /\ pc[t] = "w_out" =>
           /\ taken <= Len(w.buf)
           /\ Len(stream) = w.start + taken
           /\ \A j \in 1..taken : stream[w.start + j] = w.buf[j]

\* kernel_buf holds the bytes of the stream from the position of the read on.
Copied(t) ==
  LET r == rd[t]
  IN  /\ Len(mem[r.kernel_buf]) = r.bytes_read
      /\ Holds(r.kernel_buf, 0, stream, r.pos, r.bytes_read)

\* The scan of a read has gone through r.i lines, its loop through at.
ReadOK(t) ==
  LET r == rd[t]
      at == r.i + r.entries_read
  IN  /\ pc[t] \in InRead => r.count \in ReadCounts
      /\ pc[t] \in {"r_find", "r_copy", "r_user"} => r.pos = SnappedPos(t)
      /\ pc[t] = "r_find" =>
           /\ r.i <= NumEntries /\ r.entries_read = 0 /\ r.retval = 0
           /\ mem[r.kernel_buf] = <<>>
           /\ total_bytes_evicted + r.sum = Mark(FirstLine + r.i)
      /\ pc[t] = "r_copy" =>
           /\ at <= NumEntries /\ r.i + r.total_entries = NumEntries
           /\ Copied(t)
           /\ r.pos + r.bytes_read = Mark(FirstLine + at) + r.start_char_index
           /\ IF at < NumEntries THEN r.buf_index = SlotOf(at) ELSE r.start_char_index = 0
      /\ pc[t] = "r_user" =>
           /\ Copied(t)
           /\ r.bytes_read = IF r.count < Mark(Len(marks)) - r.pos
                             THEN r.count ELSE Mark(Len(marks)) - r.pos
      /\ pc[t] = "r_out" /\ r.retval >= 0 => r.pos = SnappedPos(t) + r.retval

CallsOK == \A t \in Thread : WroteOK(t) /\ ReadOK(t)

\* A buffer handed out by kmalloc is an empty one; a file not open starts at 0.
FreeIsEmpty == \A p \in Ptr \ allocated : mem[p] = <<>>
FilesOK == \A t \in Thread : pc[t] = "closed" => fpos[t] = 0

LInv == IInv /\ RingLinesOK /\ BytesOK /\ TailOK /\ CallsOK /\ FreeIsEmpty /\ FilesOK

-----------------------------------------------------------------------------
(* Sequences of bytes *)

LEMMA SubSeqBytes ==
  ASSUME NEW s \in Seq(Byte), NEW from \in Nat, NEW n \in Nat, from + n <= Len(s)
  PROVE  /\ SubSeq(s, from + 1, from + n) \in Seq(Byte)
         /\ Len(SubSeq(s, from + 1, from + n)) = n
         /\ \A j \in 1..n : SubSeq(s, from + 1, from + n)[j] = s[from + j]
<1>. DEFINE m == from + 1
            k == from + n
<1>1. m \in Int /\ k \in Int /\ k - m + 1 = n /\ (IF m <= k THEN k - m + 1 ELSE 0) = n
  OBVIOUS
<1>2. \A j \in m..k : s[j] \in Byte
  OBVIOUS
<1>3. \A j \in 1..n : m + j - 1 = from + j
  OBVIOUS
<1>. HIDE DEF m, k
<1>4. /\ SubSeq(s, m, k) \in Seq(Byte)
      /\ Len(SubSeq(s, m, k)) = IF m <= k THEN k - m + 1 ELSE 0
      /\ \A j \in 1..k - m + 1 : SubSeq(s, m, k)[j] = s[m + j - 1]
  BY <1>1, <1>2, SubSeqProperties
<1>5. Len(SubSeq(s, m, k)) = n /\ \A j \in 1..n : SubSeq(s, m, k)[j] = s[from + j]
  BY <1>1, <1>3, <1>4
<1>. QED BY <1>4, <1>5 DEF m, k

LEMMA ConcatBytes ==
  ASSUME NEW s \in Seq(Byte), NEW r \in Seq(Byte)
  PROVE  /\ s \o r \in Seq(Byte) /\ Len(s \o r) = Len(s) + Len(r)
         /\ \A j \in 1..Len(s) : (s \o r)[j] = s[j]
         /\ \A j \in 1..Len(r) : (s \o r)[Len(s) + j] = r[j]
<1>1. s \o r \in Seq(Byte) /\ Len(s \o r) = Len(s) + Len(r)
  BY ConcatProperties
<1>2. \A i \in 1..Len(s) + Len(r) :
         (s \o r)[i] = IF i <= Len(s) THEN s[i] ELSE r[i - Len(s)]
  BY ConcatProperties
<1>3. Len(s) \in Nat /\ Len(r) \in Nat
  OBVIOUS
<1>4. ASSUME NEW j \in 1..Len(r) PROVE (s \o r)[Len(s) + j] = r[j]
  <2>1. /\ Len(s) + j \in 1..Len(s) + Len(r) /\ ~(Len(s) + j <= Len(s))
        /\ Len(s) + j - Len(s) = j
    BY <1>3
  <2>. QED BY <1>2, <2>1
<1>5. ASSUME NEW j \in 1..Len(s) PROVE (s \o r)[j] = s[j]
  BY <1>2, <1>3
<1>. QED BY <1>1, <1>4, <1>5

-----------------------------------------------------------------------------
(* The lines in the ring *)

LEMMA RingFacts ==
  ASSUME IInv
  PROVE  /\ MaxEntries \in 1..255
         /\ NumEntries = IF full THEN MaxEntries ELSE in_offs
         /\ NumEntries \in 0..MaxEntries
         /\ in_offs \in Slot /\ in_offs \in 0..MaxEntries - 1
         /\ out_offs \in Slot /\ out_offs \in 0..MaxEntries - 1
         /\ full \in BOOLEAN /\ (full => in_offs = out_offs) /\ (~full => out_offs = 0)
         /\ marks \in Seq(Nat) /\ stream \in Seq(Byte)
         /\ Len(marks) \in Nat /\ Len(stream) \in Nat
         /\ FirstLine \in Int
         /\ \A j \in 0..Len(marks) : Mark(j) \in Nat
         /\ Mark(0) = 0
<1>1. /\ MaxEntries \in 1..255 /\ in_offs \in Slot /\ out_offs \in Slot /\ full \in BOOLEAN
      /\ marks \in Seq(Nat) /\ stream \in Seq(Byte)
      /\ (full => in_offs = out_offs) /\ (~full => out_offs = 0)
  BY MaxEntriesAssumption DEF IInv, TypeOK, RingOK
<1>2. in_offs \in 0..MaxEntries - 1 /\ out_offs \in 0..MaxEntries - 1
  BY <1>1 DEF Slot
<1>3. NumEntries = IF full THEN MaxEntries ELSE in_offs
  BY <1>1, EntriesBetweenValue DEF NumEntries
<1>4. NumEntries \in 0..MaxEntries
  BY NumEntriesNat
<1>5. Len(marks) \in Nat /\ Len(stream) \in Nat
  BY <1>1
<1>6. FirstLine \in Int
  BY <1>4, <1>5 DEF FirstLine
<1>7. \A j \in 0..Len(marks) : Mark(j) \in Nat
  BY <1>1, <1>5 DEF Mark
<1>8. Mark(0) = 0
  BY DEF Mark
<1>. QED BY <1>1, <1>2, <1>3, <1>4, <1>5, <1>6, <1>7, <1>8

\* The oldest line is never a negative one.
LEMMA FirstLineNat ==
  ASSUME IInv, CountOK
  PROVE  FirstLine \in 0..Len(marks) /\ (~full => FirstLine = 0)
<1>1. CASE full
  <2>1. NumEntries = MaxEntries /\ Len(marks) >= MaxEntries
    BY <1>1, RingFacts DEF CountOK
  <2>. QED BY <1>1, <2>1, RingFacts DEF FirstLine
<1>2. CASE ~full
  <2>1. NumEntries = in_offs /\ Len(marks) = in_offs
    BY <1>2, RingFacts DEF CountOK
  <2>. QED BY <1>2, <2>1, RingFacts DEF FirstLine
<1>. QED BY <1>1, <1>2, RingFacts

\* A line in the ring is in a slot of its own, in a buffer of the heap.
LEMMA LineFacts ==
  ASSUME IInv, CountOK, NEW l \in LineNumbers
  PROVE  /\ l \in 1..Len(marks) /\ l - 1 \in 0..Len(marks)
         /\ l - FirstLine - 1 \in 0..NumEntries - 1
         /\ LineSlot(l) \in Slot /\ entry[LineSlot(l)].buffptr \in Ptr
         /\ entry[LineSlot(l)].size \in Nat
         /\ loaded => /\ entry[LineSlot(l)].buffptr \in allocated
                      /\ entry[LineSlot(l)].buffptr # curr_input.buffptr
                      /\ entry[LineSlot(l)].size <= Len(mem[entry[LineSlot(l)].buffptr])
<1>1. l \in 1..Len(marks) /\ l - 1 \in 0..Len(marks) /\ l - FirstLine - 1 \in 0..NumEntries - 1
  <2>1. l \in FirstLine + 1..Len(marks)
    BY DEF LineNumbers
  <2>2. /\ FirstLine \in Int /\ 0 <= FirstLine /\ Len(marks) \in Nat
        /\ NumEntries \in Int /\ NumEntries = Len(marks) - FirstLine
    BY FirstLineNat, RingFacts DEF FirstLine
  <2>. QED BY <2>1, <2>2
<1>2. LineSlot(l) \in Slot /\ entry[LineSlot(l)].buffptr \in Ptr
  BY <1>1, HeldSlot DEF LineSlot
<1>3. entry[LineSlot(l)].size \in Nat
  BY <1>2 DEF IInv, TypeOK
<1>. QED BY <1>1, <1>2, <1>3 DEF IInv, HeapOK

\* Entry k, oldest first, is line FirstLine + k + 1.
LEMMA EntryIsLine ==
  ASSUME IInv, CountOK, NEW k \in 0..NumEntries - 1
  PROVE  FirstLine + k + 1 \in LineNumbers /\ SlotOf(k) = LineSlot(FirstLine + k + 1)
<1>1. FirstLine + k + 1 \in LineNumbers
  <2>1. /\ FirstLine \in Int /\ Len(marks) \in Nat
        /\ NumEntries \in Int /\ NumEntries = Len(marks) - FirstLine
    BY FirstLineNat, RingFacts DEF FirstLine
  <2>2. FirstLine + k + 1 \in FirstLine + 1..Len(marks)
    BY <2>1
  <2>. QED BY <2>2 DEF LineNumbers
<1>2. (FirstLine + k + 1) - FirstLine - 1 = k
  BY FirstLineNat, RingFacts
<1>. QED BY <1>1, <1>2 DEF LineSlot

\* What the lines are depends on the offsets and on marks only.
LEMMA SameLines ==
  ASSUME UNCHANGED <<in_offs, out_offs, full, marks>>
  PROVE  /\ NumEntries' = NumEntries /\ FirstLine' = FirstLine
         /\ LineNumbers' = LineNumbers
         /\ \A j : Mark(j)' = Mark(j)
         /\ \A k : SlotOf(k)' = SlotOf(k)
         /\ \A l : LineSlot(l)' = LineSlot(l)
BY DEF NumEntries, FirstLine, LineNumbers, Mark, SlotOf, LineSlot

LEMMA RingLinesFrame ==
  ASSUME RingLinesOK, IInv, Len(stream') \in Nat, Len(stream) <= Len(stream'),
         UNCHANGED <<entry, in_offs, out_offs, full, total_bytes_evicted, marks>>
  PROVE  RingLinesOK'
<1>1. /\ NumEntries' = NumEntries /\ FirstLine' = FirstLine /\ LineNumbers' = LineNumbers
      /\ \A j : Mark(j)' = Mark(j)
      /\ \A l : LineSlot(l)' = LineSlot(l)
  BY SameLines
<1>2. MarksOK'
  <2>1. Mark(Len(marks)) <= Len(stream')
    BY RingFacts DEF RingLinesOK, MarksOK
  <2>. QED BY <1>1, <2>1 DEF RingLinesOK, MarksOK
<1>3. CountOK'
  BY <1>1 DEF RingLinesOK, CountOK
<1>4. SizesOK' /\ EvictedBytesExact'
  BY <1>1 DEF RingLinesOK, SizesOK, EvictedBytesExact
<1>. QED BY <1>2, <1>3, <1>4 DEF RingLinesOK

\* A commit numbers the new line after the others, puts it in slot in_offs and
\* leaves every line that stays in the slot it was in.
LEMMA CommitLines ==
  ASSUME IInv, IInv', CountOK, NEW p, NEW size, CommitEntry(p, size),
         NEW n \in Nat, NEW N \in Nat, N = Len(marks), marks' = Append(marks, n)
  PROVE  /\ CountOK'
         /\ Len(marks') = N + 1
         /\ FirstLine' = IF full THEN FirstLine + 1 ELSE FirstLine
         /\ N + 1 \in LineNumbers' /\ LineSlot(N + 1)' = in_offs
         /\ \A l \in LineNumbers' \ {N + 1} :
              l \in LineNumbers /\ LineSlot(l)' = LineSlot(l) /\ LineSlot(l) # in_offs
         /\ \A j \in 0..N : Mark(j)' = Mark(j)
         /\ Mark(N + 1)' = n
<1>1. /\ MaxEntries \in 1..255 /\ in_offs \in Slot /\ out_offs \in Slot
      /\ in_offs \in 0..MaxEntries - 1 /\ out_offs \in 0..MaxEntries - 1
      /\ marks \in Seq(Nat) /\ N \in Nat /\ full \in BOOLEAN
      /\ FirstLine \in 0..N
  BY RingFacts, FirstLineNat
<1>2. Len(marks') = N + 1
  BY <1>1
<1>3. /\ \A j \in 0..N : Mark(j)' = Mark(j)
      /\ Mark(N + 1)' = n
  <2>1. /\ \A j \in 1..N : marks'[j] = marks[j]
        /\ marks'[N + 1] = n
    BY <1>1
  <2>. QED BY <1>1, <2>1 DEF Mark
<1>4. in_offs' = IF in_offs = MaxEntries - 1 THEN 0 ELSE in_offs + 1
  BY <1>1, NextSlotValue DEF CommitEntry
<1>5. CASE full
  <2>1. full' /\ out_offs' = NextSlot(out_offs) /\ out_offs = in_offs
    BY <1>5, RingFacts DEF CommitEntry
  <2>2. NumEntries = MaxEntries /\ NumEntries' = MaxEntries
    BY <1>5, <2>1 DEF NumEntries, EntriesBetween
  <2>3. FirstLine = N - MaxEntries /\ FirstLine' = N + 1 - MaxEntries /\ N >= MaxEntries
    <3>1. N >= MaxEntries
      BY <1>5 DEF CountOK
    <3>. QED BY <1>1, <1>2, <2>2, <3>1 DEF FirstLine
  <2>4. CountOK'
    <3>1. Len(marks') >= MaxEntries
      BY <1>1, <1>2, <2>3
    <3>. QED BY <2>1, <3>1 DEF CountOK
  <2>5. LineNumbers' = N + 2 - MaxEntries..N + 1 /\ LineNumbers = N - MaxEntries + 1..N
    <3>1. FirstLine' + 1 = N + 2 - MaxEntries /\ FirstLine + 1 = N - MaxEntries + 1
      BY <1>1, <2>3
    <3>. QED BY <1>2, <3>1 DEF LineNumbers
  <2>6. N + 1 \in LineNumbers'
    BY <1>1, <2>5
  <2>7. LineSlot(N + 1)' = in_offs
    <3>1. (N + 1) - FirstLine' - 1 = MaxEntries - 1
      BY <1>1, <2>3
    <3>2. SlotAfter(NextSlot(out_offs), MaxEntries - 1) = out_offs
      BY <1>1, SlotAfterLast
    <3>. QED BY <2>1, <3>1, <3>2 DEF LineSlot, SlotOf
  <2>8. ASSUME NEW l \in LineNumbers' \ {N + 1}
        PROVE  l \in LineNumbers /\ LineSlot(l)' = LineSlot(l) /\ LineSlot(l) # in_offs
    <3>. DEFINE k == l - FirstLine' - 1
    <3>1. l \in Int /\ l >= N + 2 - MaxEntries /\ l <= N
      BY <1>1, <2>5
    <3>2. k \in 0..MaxEntries - 1 /\ k # MaxEntries - 1 /\ l - FirstLine - 1 = k + 1
      BY <1>1, <2>3, <3>1
    <3>3. l \in LineNumbers
      BY <1>1, <2>5, <3>1
    <3>. HIDE DEF k
    <3>4. /\ SlotAfter(NextSlot(out_offs), k) = SlotAfter(out_offs, k + 1)
          /\ SlotAfter(out_offs, k + 1) # out_offs
      BY <1>1, <3>2, SlotAfterNext
    <3>5. LineSlot(l)' = SlotAfter(NextSlot(out_offs), k)
      BY <2>1 DEF LineSlot, SlotOf, k
    <3>6. LineSlot(l) = SlotAfter(out_offs, k + 1)
      BY <3>2 DEF LineSlot, SlotOf
    <3>. QED BY <2>1, <3>3, <3>4, <3>5, <3>6
  <2>9. FirstLine' = FirstLine + 1
    BY <1>1, <2>3
  <2>. QED BY <1>2, <1>3, <1>5, <2>4, <2>6, <2>7, <2>8, <2>9
<1>6. CASE ~full
  <2>1. /\ out_offs = 0 /\ out_offs' = 0 /\ N = in_offs
        /\ full' = (NextSlot(in_offs) = out_offs)
        /\ NumEntries = in_offs
    BY <1>6, RingFacts DEF CommitEntry, CountOK
  <2>2. NextSlot(in_offs) = (IF in_offs = MaxEntries - 1 THEN 0 ELSE in_offs + 1)
    BY <1>1, NextSlotValue
  <2>3. NumEntries' = N + 1 /\ CountOK'
    <3>1. CASE in_offs = MaxEntries - 1
      <4>1. full'
        BY <1>1, <2>1, <2>2, <3>1
      <4>2. NumEntries' = MaxEntries
        BY <4>1 DEF NumEntries, EntriesBetween
      <4>3. Len(marks') >= MaxEntries /\ MaxEntries = N + 1
        BY <1>1, <1>2, <2>1, <3>1
      <4>. QED BY <4>1, <4>2, <4>3 DEF CountOK
    <3>2. CASE in_offs # MaxEntries - 1
      <4>1. NextSlot(in_offs) # out_offs /\ in_offs' = N + 1
        BY <1>1, <1>4, <2>1, <2>2, <3>2
      <4>2. ~full'
        BY <2>1, <4>1
      <4>3. in_offs' \in Slot /\ out_offs' \in Slot /\ full' \in BOOLEAN
        BY DEF IInv, TypeOK
      <4>4. NumEntries' = in_offs'
        BY <2>1, <4>2, <4>3, EntriesBetweenValue DEF NumEntries
      <4>. QED BY <1>2, <4>1, <4>2, <4>4 DEF CountOK
    <3>. QED BY <3>1, <3>2
  <2>4. FirstLine = 0 /\ FirstLine' = 0
    BY <1>1, <1>2, <2>1, <2>3 DEF FirstLine
  <2>5. LineNumbers' = 1..N + 1 /\ LineNumbers = 1..N
    BY <1>2, <2>4 DEF LineNumbers
  <2>7. LineSlot(N + 1)' = in_offs
    <3>1. (N + 1) - FirstLine' - 1 = in_offs
      BY <1>1, <2>1, <2>4
    <3>2. LineSlot(N + 1)' = SlotAfter(0, in_offs)
      BY <2>1, <3>1 DEF LineSlot, SlotOf
    <3>. QED BY <1>1, <3>2, SlotAfterZero
  <2>8. ASSUME NEW l \in LineNumbers' \ {N + 1}
        PROVE  l \in LineNumbers /\ LineSlot(l)' = LineSlot(l) /\ LineSlot(l) # in_offs
    <3>1. l \in 1..N
      BY <1>1, <2>5
    <3>2. l - FirstLine' - 1 = l - 1 /\ l - FirstLine - 1 = l - 1 /\ l - 1 \in Slot
          /\ l - 1 # in_offs
      BY <1>1, <2>1, <2>4, <3>1 DEF Slot
    <3>3. LineSlot(l)' = l - 1 /\ LineSlot(l) = l - 1
      BY <3>2, <2>1, SlotAfterZero DEF LineSlot, SlotOf
    <3>. QED BY <2>5, <3>1, <3>2, <3>3
  <2>9. N + 1 \in LineNumbers'
    BY <1>1, <2>5
  <2>. QED BY <1>2, <1>3, <1>6, <2>3, <2>4, <2>7, <2>8, <2>9
<1>. QED BY <1>1, <1>5, <1>6

\* Marks never go down.
LEMMA MarksGrow ==
  ASSUME IInv, MarksOK, NEW i \in 0..Len(marks), NEW j \in 0..Len(marks), i <= j
  PROVE  Mark(i) <= Mark(j) /\ Mark(j) <= Len(stream) /\ Mark(i) \in Nat /\ Mark(j) \in Nat
<1>. DEFINE N == Len(marks)
<1>1. /\ N \in Nat /\ Len(stream) \in Nat /\ Mark(N) \in Nat
      /\ Mark(i) \in Nat /\ Mark(j) \in Nat
  BY RingFacts
<1>2. Mark(i) <= Mark(j)
  BY <1>1 DEF MarksOK
<1>3. Mark(j) <= Mark(N) /\ Mark(N) <= Len(stream)
  BY <1>1 DEF MarksOK
<1>. HIDE DEF N
<1>. QED BY <1>1, <1>2, <1>3

\* The oldest line, if there is one, is in slot out_offs.
LEMMA OldestLine ==
  ASSUME IInv, CountOK
  PROVE  /\ SlotOf(0) = out_offs /\ LineSlot(FirstLine + 1) = out_offs
         /\ full => FirstLine + 1 \in LineNumbers
<1>1. SlotOf(0) = out_offs
  <2>1. 0 \in 0..MaxEntries - 1 /\ out_offs \in Slot /\ out_offs + 0 < MaxEntries
        /\ out_offs + 0 = out_offs
    <3>1. MaxEntries \in 1..255 /\ out_offs \in 0..MaxEntries - 1 /\ out_offs \in Slot
      BY RingFacts
    <3>. QED BY <3>1
  <2>. QED BY <2>1, SlotAfterValue DEF SlotOf
<1>2. (FirstLine + 1) - FirstLine - 1 = 0
  BY RingFacts
<1>3. full => FirstLine + 1 \in LineNumbers
  BY RingFacts DEF CountOK, LineNumbers, FirstLine
<1>. QED BY <1>1, <1>2, <1>3 DEF LineSlot

\* A commit of the size bytes up to the newline keeps the account of the lines.
LEMMA CommitRingLines ==
  ASSUME IInv, IInv', RingLinesOK, NEW p, NEW size \in Nat, CommitEntry(p, size),
         stream' = Append(stream, Newline),
         marks' = Append(marks, Len(stream) + 1),
         Len(stream) + 1 = Mark(Len(marks)) + size
  PROVE  RingLinesOK'
<1>1. PICK N \in Nat : N = Len(marks)
  BY RingFacts
<1>2. PICK n \in Nat : n = Len(stream) + 1
  BY RingFacts
<1>3. /\ CountOK' /\ Len(marks') = N + 1
      /\ FirstLine' = IF full THEN FirstLine + 1 ELSE FirstLine
      /\ N + 1 \in LineNumbers' /\ LineSlot(N + 1)' = in_offs
      /\ \A l \in LineNumbers' \ {N + 1} :
           l \in LineNumbers /\ LineSlot(l)' = LineSlot(l) /\ LineSlot(l) # in_offs
      /\ \A j \in 0..N : Mark(j)' = Mark(j)
      /\ Mark(N + 1)' = n
  BY <1>1, <1>2, CommitLines DEF RingLinesOK
<1>4. Len(stream') = n /\ \A j \in 0..N : Mark(j) \in Nat /\ Mark(j) < n
  <2>1. Len(stream') = n
    BY <1>2, RingFacts
  <2>2. \A j \in 0..N : Mark(j) \in Nat /\ Mark(j) <= Len(stream)
    BY <1>1, MarksGrow DEF RingLinesOK
  <2>. QED BY <1>2, <2>1, <2>2, RingFacts
<1>5. MarksOK'
  <2>1. ASSUME NEW i \in 0..N + 1, NEW j \in 0..N + 1, i < j
        PROVE  Mark(i)' < Mark(j)'
    <3>1. i \in 0..N
      BY <1>1, <2>1
    <3>2. CASE j = N + 1
      BY <1>3, <1>4, <3>1, <3>2
    <3>3. CASE j # N + 1
      <4>1. j \in 0..N
        BY <1>1, <3>3
      <4>2. Mark(i) < Mark(j)
        BY <1>1, <2>1, <3>1, <4>1 DEF RingLinesOK, MarksOK
      <4>. QED BY <1>3, <3>1, <4>1, <4>2
    <3>. QED BY <3>2, <3>3
  <2>2. Mark(Len(marks))' <= Len(stream')
    BY <1>2, <1>3, <1>4 DEF Mark
  <2>. QED BY <1>3, <2>1, <2>2 DEF MarksOK
<1>6. entry' = [entry EXCEPT ![in_offs] = [buffptr |-> p, size |-> size]]
      /\ entry \in [Slot -> [buffptr : Address, size : Nat]] /\ in_offs \in Slot
  BY DEF CommitEntry, IInv, TypeOK
<1>7. SizesOK'
  <2>1. entry'[LineSlot(N + 1)'].size = Mark(N + 1)' - Mark(N)'
    <3>1. entry'[in_offs].size = size
      BY <1>6
    <3>2. size = n - Mark(N)
      BY <1>1, <1>2, <1>4
    <3>. QED BY <1>1, <1>3, <3>1, <3>2
  <2>2. ASSUME NEW l \in LineNumbers' \ {N + 1}
        PROVE  entry'[LineSlot(l)'].size = Mark(l)' - Mark(l - 1)'
    <3>1. LineSlot(l) \in Slot /\ l \in 0..N /\ l - 1 \in 0..N
      BY <1>1, <1>3, LineFacts DEF RingLinesOK
    <3>2. entry[LineSlot(l)].size = Mark(l) - Mark(l - 1)
      BY <1>3 DEF RingLinesOK, SizesOK
    <3>3. entry'[LineSlot(l)] = entry[LineSlot(l)]
      BY <1>3, <1>6, <3>1
    <3>. QED BY <1>3, <3>1, <3>2, <3>3
  <2>3. (N + 1) - 1 = N
    BY <1>1
  <2>. QED BY <2>1, <2>2, <2>3 DEF SizesOK
<1>8. EvictedBytesExact'
  <2>1. FirstLine \in 0..N /\ total_bytes_evicted = Mark(FirstLine)
    BY <1>1, FirstLineNat DEF RingLinesOK, EvictedBytesExact
  <2>2. CASE full
    <3>1. FirstLine + 1 \in LineNumbers /\ LineSlot(FirstLine + 1) = out_offs
      BY <2>2, OldestLine DEF RingLinesOK
    <3>2. FirstLine + 1 \in 0..N /\ (FirstLine + 1) - 1 = FirstLine
      BY <1>1, <3>1, LineFacts, <2>1 DEF RingLinesOK
    <3>3. entry[out_offs].size = Mark(FirstLine + 1) - Mark(FirstLine)
      BY <3>1, <3>2 DEF RingLinesOK, SizesOK
    <3>4. total_bytes_evicted' = total_bytes_evicted + entry[out_offs].size
      BY <2>2 DEF CommitEntry
    <3>5. total_bytes_evicted' = Mark(FirstLine + 1)
      BY <1>4, <2>1, <3>2, <3>3, <3>4
    <3>6. PICK m \in 0..N : m = FirstLine + 1
      BY <3>2
    <3>7. FirstLine' = m /\ Mark(m)' = Mark(m)
      BY <1>3, <2>2, <3>6
    <3>. QED BY <3>5, <3>6, <3>7 DEF EvictedBytesExact, Mark
  <2>3. CASE ~full
    <3>1. total_bytes_evicted' = total_bytes_evicted /\ FirstLine' = FirstLine
      BY <1>3, <2>3 DEF CommitEntry
    <3>2. PICK m \in 0..N : m = FirstLine
      BY <2>1
    <3>3. Mark(m)' = Mark(m)
      BY <1>3, <3>2
    <3>. QED BY <2>1, <3>1, <3>2, <3>3 DEF EvictedBytesExact, Mark
  <2>. QED BY <2>2, <2>3
<1>. QED BY <1>3, <1>5, <1>7, <1>8 DEF RingLinesOK

\* The bytes of a line were taken before now.
LEMMA LineInStream ==
  ASSUME IInv, RingLinesOK, NEW l \in LineNumbers, NEW j \in 1..entry[LineSlot(l)].size
  PROVE  Mark(l - 1) + j \in 1..Len(stream) /\ Mark(l - 1) \in Nat
<1>1. l \in 1..Len(marks) /\ l - 1 \in 0..Len(marks) /\ l \in 0..Len(marks) /\ l - 1 <= l
  BY LineFacts, RingFacts DEF RingLinesOK
<1>2. /\ Mark(l - 1) \in Nat /\ Mark(l) \in Nat /\ Mark(l) <= Len(stream)
      /\ Len(stream) \in Nat
  BY <1>1, MarksGrow, RingFacts DEF RingLinesOK
<1>3. entry[LineSlot(l)].size = Mark(l) - Mark(l - 1)
  BY DEF RingLinesOK, SizesOK
<1>4. j \in Nat /\ 1 <= j /\ j <= Mark(l) - Mark(l - 1)
  BY <1>2, <1>3
<1>. QED BY <1>2, <1>4

\* A step that leaves the ring and the buffers of its lines alone keeps them.
LEMMA BytesFrame ==
  ASSUME IInv, RingLinesOK, BytesOK, loaded' => loaded,
         UNCHANGED <<entry, in_offs, out_offs, full, marks>>,
         \A j \in 1..Len(stream) : stream'[j] = stream[j],
         \A l \in LineNumbers :
            mem'[entry[LineSlot(l)].buffptr] = mem[entry[LineSlot(l)].buffptr]
  PROVE  BytesOK'
<1>. SUFFICES ASSUME loaded' PROVE (\A l \in LineNumbers : LineHeld(l))'
  BY DEF BytesOK
<1>1. /\ LineNumbers' = LineNumbers
      /\ \A j : Mark(j)' = Mark(j)
      /\ \A l : LineSlot(l)' = LineSlot(l)
  BY SameLines
<1>2. ASSUME NEW l \in LineNumbers, NEW j \in 1..entry[LineSlot(l)].size
      PROVE  mem'[entry[LineSlot(l)].buffptr][0 + j] = stream'[Mark(l - 1) + j]
  <2>1. mem[entry[LineSlot(l)].buffptr][0 + j] = stream[Mark(l - 1) + j]
    BY DEF BytesOK, LineHeld, Holds
  <2>. QED BY <2>1, LineInStream
<1>. QED BY <1>1, <1>2 DEF LineHeld, Holds

\* A commit of bytes that are those of the stream, which frees no buffer but
\* that of the line it evicts, keeps the others and adds its own.
LEMMA CommitBytes ==
  ASSUME IInv, IInv', RingLinesOK, BytesOK, loaded, NEW p \in Ptr, NEW size \in Nat,
         CommitEntry(p, size),
         stream' = Append(stream, Newline),
         marks' = Append(marks, Len(stream) + 1),
         Len(stream) + 1 = Mark(Len(marks)) + size,
         p \in allocated \ Evicted,
         \A q \in allocated \ Evicted : mem'[q] = mem[q],
         \A j \in 1..size : mem[p][j] = stream'[Mark(Len(marks)) + j]
  PROVE  BytesOK'
<1>1. PICK N \in Nat : N = Len(marks)
  BY RingFacts
<1>2. PICK n \in Nat : n = Len(stream) + 1
  BY RingFacts
<1>3. /\ N + 1 \in LineNumbers' /\ LineSlot(N + 1)' = in_offs
      /\ \A l \in LineNumbers' \ {N + 1} :
           l \in LineNumbers /\ LineSlot(l)' = LineSlot(l) /\ LineSlot(l) # in_offs
      /\ \A j \in 0..N : Mark(j)' = Mark(j)
  BY <1>1, <1>2, CommitLines DEF RingLinesOK
<1>4. /\ entry' = [entry EXCEPT ![in_offs] = [buffptr |-> p, size |-> size]]
      /\ entry \in [Slot -> [buffptr : Address, size : Nat]] /\ in_offs \in Slot
      /\ out_offs \in Slot /\ (full => in_offs = out_offs)
      /\ stream \in Seq(Byte)
  BY DEF CommitEntry, IInv, TypeOK, RingOK
<1>5. entry'[in_offs].buffptr = p /\ entry'[in_offs].size = size
  BY <1>4
<1>6. \A j \in 1..entry'[in_offs].size : mem'[entry'[in_offs].buffptr][0 + j] = stream'[Mark(N) + j]
  <2>. SUFFICES ASSUME NEW j \in 1..size PROVE mem'[p][0 + j] = stream'[Mark(N) + j]
    BY <1>5
  <2>1. 0 + j = j
    OBVIOUS
  <2>. QED BY <1>1, <2>1
<1>7. ASSUME NEW l \in LineNumbers' \ {N + 1}
      PROVE  /\ entry'[LineSlot(l)].buffptr = entry[LineSlot(l)].buffptr
             /\ entry'[LineSlot(l)].size = entry[LineSlot(l)].size
             /\ \A j \in 1..entry[LineSlot(l)].size :
                  mem'[entry[LineSlot(l)].buffptr][0 + j] = stream'[Mark(l - 1) + j]
  <2>1. /\ l \in LineNumbers /\ LineSlot(l) # in_offs
        /\ LineSlot(l) \in Slot /\ entry[LineSlot(l)].buffptr \in Ptr
        /\ entry[LineSlot(l)].buffptr \in allocated
    BY <1>3, LineFacts DEF RingLinesOK
  <2>2. entry'[LineSlot(l)] = entry[LineSlot(l)]
    BY <1>4, <2>1
  <2>3. entry[LineSlot(l)].buffptr \notin Evicted
    <3>. SUFFICES ASSUME full, entry[LineSlot(l)].buffptr = entry[out_offs].buffptr
                  PROVE  FALSE
      BY DEF Evicted
    <3>1. LineSlot(l) = out_offs
      BY <1>4, <2>1 DEF IInv, HeapOK
    <3>. QED BY <1>4, <2>1, <3>1
  <2>4. ASSUME NEW j \in 1..entry[LineSlot(l)].size
        PROVE  mem'[entry[LineSlot(l)].buffptr][0 + j] = stream'[Mark(l - 1) + j]
    <3>1. mem[entry[LineSlot(l)].buffptr][0 + j] = stream[Mark(l - 1) + j]
      BY <2>1 DEF BytesOK, LineHeld, Holds
    <3>2. Mark(l - 1) + j \in 1..Len(stream)
      BY <2>1, LineInStream
    <3>3. stream'[Mark(l - 1) + j] = stream[Mark(l - 1) + j]
      BY <1>4, <3>2
    <3>. QED BY <2>1, <2>3, <3>1, <3>3
  <2>. QED BY <2>2, <2>4
<1>8. ASSUME NEW j \in 1..entry'[LineSlot(N + 1)'].size
      PROVE  mem'[entry'[LineSlot(N + 1)'].buffptr][0 + j] = stream'[Mark((N + 1) - 1)' + j]
  <2>1. (N + 1) - 1 = N /\ N \in 0..N
    BY <1>1
  <2>. QED BY <1>3, <1>6, <2>1
<1>9. ASSUME NEW l \in LineNumbers' \ {N + 1}, NEW j \in 1..entry'[LineSlot(l)'].size
      PROVE  mem'[entry'[LineSlot(l)'].buffptr][0 + j] = stream'[Mark(l - 1)' + j]
  <2>1. l \in LineNumbers /\ LineSlot(l)' = LineSlot(l)
    BY <1>3
  <2>2. l - 1 \in 0..N
    BY <1>1, <2>1, LineFacts DEF RingLinesOK
  <2>3. Mark(l - 1)' = Mark(l - 1)
    BY <1>3, <2>2
  <2>4. /\ entry'[LineSlot(l)'].buffptr = entry[LineSlot(l)].buffptr
        /\ j \in 1..entry[LineSlot(l)].size
    BY <1>7, <2>1
  <2>5. mem'[entry[LineSlot(l)].buffptr][0 + j] = stream'[Mark(l - 1) + j]
    BY <1>7, <2>4
  <2>. QED BY <2>3, <2>4, <2>5
<1>. QED BY <1>8, <1>9 DEF BytesOK, LineHeld, Holds

-----------------------------------------------------------------------------
(* Who else is running *)

\* While t is inside a handler nobody else is, before its step or after it.
LEMMA OthersOutside ==
  ASSUME SemInv, SemInv', NEW t \in Thread, t \in Holders \/ t \in Holders',
         \A u \in Thread \ {t} : pc'[u] = pc[u],
         NEW u \in Thread \ {t}
  PROVE  pc[u] \notin InWrite \cup InRead /\ pc'[u] \notin InWrite \cup InRead
BY DEF SemInv, SemaphoreHeldByOne, Holders

\* So the unfinished line is as long as t says while t is in the loop of a write.
LEMMA TailOfHolder ==
  ASSUME TailOK, loaded, NEW t \in Thread,
         \A u \in Thread \ {t} : pc[u] \notin InWrite \cup InRead
  PROVE  /\ pc[t] = "w_loop" => TailIs(wr[t].curr_size)
         /\ pc[t] # "w_loop" => TailIs(curr_input.size)
<1>1. \A u \in Thread \ {t} : pc[u] # "w_loop"
  BY DEF InWrite
<1>. QED BY <1>1 DEF TailOK

\* What has to be shown of a step of the thread that holds the semaphore.
LEMMA HolderStep ==
  ASSUME LInv, IInv', NEW t \in Thread, t \in Holders \/ t \in Holders',
         NEW to, pc' = [pc EXCEPT ![t] = to], to # "closed",
         \A u \in Thread \ {t} : fpos'[u] = fpos[u],
         RingLinesOK', BytesOK', FreeIsEmpty',
         to = "w_loop" => TailIs(wr[t].curr_size)',
         to # "w_loop" => TailIs(curr_input.size)',
         WroteOK(t)', ReadOK(t)'
  PROVE  LInv'
<1>1. pc'[t] = to /\ \A u \in Thread \ {t} : pc'[u] = pc[u]
  BY DEF LInv, IInv, TypeOK
<1>2. \A u \in Thread \ {t} : pc'[u] \notin InWrite \cup InRead
  BY <1>1, OthersOutside DEF LInv, IInv
<1>3. TailOK'
  <2>1. \A u \in Thread \ {t} : pc'[u] # "w_loop"
    BY <1>2 DEF InWrite
  <2>. QED BY <1>1, <2>1 DEF TailOK
<1>4. CallsOK'
  <2>1. ASSUME NEW u \in Thread \ {t}
        PROVE  (WroteOK(u) /\ ReadOK(u))'
    BY <1>2 DEF WroteOK, ReadOK, InWrite, InRead
  <2>. QED BY <2>1 DEF CallsOK
<1>5. FilesOK'
  BY <1>1 DEF LInv, FilesOK
<1>. QED BY <1>3, <1>4, <1>5 DEF LInv

\* A step that writes to no memory but a buffer p of t's own.
LEMMA DeviceKept ==
  ASSUME LInv, IInv', NEW t \in Thread, t \in Holders \/ t \in Holders',
         UNCHANGED <<loaded, dev, history>>,
         NEW p \in Address, Private(p),
         \A q \in Address : mem'[q] = mem[q] \/ (q = p /\ p \in Ptr),
         pc[t] # "w_loop",
         NEW to, pc' = [pc EXCEPT ![t] = to], to # "closed", to # "w_loop",
         \A u \in Thread \ {t} : fpos'[u] = fpos[u],
         FreeIsEmpty', WroteOK(t)', ReadOK(t)'
  PROVE  LInv'
<1>1. /\ UNCHANGED <<entry, curr_input, in_offs, out_offs, full, total_bytes_evicted>>
      /\ UNCHANGED <<stream, marks>>
      /\ IInv /\ RingLinesOK /\ BytesOK /\ TailOK
  BY DEF dev, history, LInv
<1>2. RingLinesOK'
  <2>1. Len(stream') \in Nat /\ Len(stream) <= Len(stream')
    BY <1>1, RingFacts
  <2>. QED BY <1>1, <2>1, RingLinesFrame
<1>3. BytesOK'
  <2>1. ASSUME NEW l \in LineNumbers
        PROVE  mem'[entry[LineSlot(l)].buffptr] = mem[entry[LineSlot(l)].buffptr]
    <3>1. LineSlot(l) \in Slot /\ entry[LineSlot(l)].buffptr \in Ptr
      BY <1>1, LineFacts DEF RingLinesOK
    <3>. QED BY <3>1 DEF Private, Address
  <2>. QED BY <1>1, <2>1, BytesFrame
<1>4. TailIs(curr_input.size)'
  <2>1. loaded
    BY <1>1 DEF IInv, SemInv, Holders, InWrite, InRead
  <2>2. \A u \in Thread \ {t} : pc'[u] = pc[u]
    BY DEF LInv, IInv, TypeOK
  <2>3. \A u \in Thread \ {t} : pc[u] \notin InWrite \cup InRead
    BY <2>2, OthersOutside DEF LInv, IInv
  <2>4. TailIs(curr_input.size)
    BY <1>1, <2>1, <2>3, TailOfHolder
  <2>5. mem'[curr_input.buffptr] = mem[curr_input.buffptr]
    <3>1. curr_input.buffptr \in Address
      BY <1>1 DEF IInv, TypeOK
    <3>. QED BY <3>1 DEF Private
  <2>. QED BY <1>1, <2>4, <2>5 DEF TailIs, Holds, Mark
<1>. QED BY <1>2, <1>3, <1>4, HolderStep

-----------------------------------------------------------------------------
(* The slots a read goes through *)

LEMMA SlotOfValue ==
  ASSUME IInv, NEW k \in 0..MaxEntries - 1
  PROVE  SlotOf(k) = IF out_offs + k < MaxEntries THEN out_offs + k
                     ELSE out_offs + k - MaxEntries
BY RingFacts, SlotAfterValue DEF SlotOf

\* Moving buf_index one on is moving to the next oldest entry.
LEMMA NextSlotOf ==
  ASSUME IInv, NEW k \in 0..MaxEntries - 1, k # MaxEntries - 1
  PROVE  NextSlot(SlotOf(k)) = SlotOf(k + 1)
<1>1. /\ MaxEntries \in 1..255 /\ out_offs \in 0..MaxEntries - 1
  BY RingFacts
<1>2. k + 1 \in 0..MaxEntries - 1
  BY <1>1
<1>3. /\ SlotOf(k) = (IF out_offs + k < MaxEntries THEN out_offs + k
                      ELSE out_offs + k - MaxEntries)
      /\ SlotOf(k + 1) = (IF out_offs + (k + 1) < MaxEntries THEN out_offs + (k + 1)
                          ELSE out_offs + (k + 1) - MaxEntries)
  BY <1>2, SlotOfValue
<1>4. SlotOf(k) \in Slot
  BY <1>1, <1>3 DEF Slot
<1>5. NextSlot(SlotOf(k)) = IF SlotOf(k) = MaxEntries - 1 THEN 0 ELSE SlotOf(k) + 1
  BY <1>4, NextSlotValue
<1>. QED BY <1>1, <1>2, <1>3, <1>5

\* total_entries of a read that starts at the k-th oldest entry is the number of
\* entries from it to the newest one, the full ring read from its front included.
LEMMA EntriesFromValue ==
  ASSUME IInv, NEW k \in 0..NumEntries - 1
  PROVE  EntriesFrom(SlotOf(k)) = NumEntries - k
<1>1. /\ MaxEntries \in 1..255 /\ out_offs \in 0..MaxEntries - 1 /\ in_offs \in 0..MaxEntries - 1
      /\ NumEntries = (IF full THEN MaxEntries ELSE in_offs)
      /\ NumEntries \in 0..MaxEntries
      /\ (full => in_offs = out_offs) /\ (~full => out_offs = 0)
  BY RingFacts
<1>2. k \in 0..MaxEntries - 1 /\ k < NumEntries
  BY <1>1
<1>3. SlotOf(k) = IF out_offs + k < MaxEntries THEN out_offs + k ELSE out_offs + k - MaxEntries
  BY <1>2, SlotOfValue
<1>. DEFINE d == in_offs - SlotOf(k) + MaxEntries
<1>4. CASE full /\ k = 0
  <2>1. SlotOf(k) = in_offs
    BY <1>1, <1>3, <1>4
  <2>. QED BY <1>1, <1>4, <2>1 DEF EntriesFrom
<1>5. CASE ~(full /\ k = 0)
  <2>1. /\ SlotOf(k) # in_offs \/ ~full
        /\ d = NumEntries - k \/ d = NumEntries - k + MaxEntries
        /\ d \in Nat
    <3>1. CASE full
      BY <1>1, <1>2, <1>3, <1>5, <3>1
    <3>2. CASE ~full
      BY <1>1, <1>2, <1>3, <3>2
    <3>. QED BY <3>1, <3>2
  <2>2. NumEntries - k \in 0..MaxEntries - 1
    <3>1. CASE full
      BY <1>1, <1>2, <1>5, <3>1
    <3>2. CASE ~full
      BY <1>1, <1>2, <3>2
    <3>. QED BY <3>1, <3>2
  <2>3. EntriesFrom(SlotOf(k)) = Uint8(CMod(d, MaxEntries))
    BY <2>1 DEF EntriesFrom
  <2>. HIDE DEF d
  <2>. DEFINE m == NumEntries - k
  <2>4. m \in 0..MaxEntries - 1 /\ (d = m \/ d = m + MaxEntries) /\ d \in Nat
    BY <2>1, <2>2
  <2>. HIDE DEF m
  <2>5. d % MaxEntries = m
    <3>1. CASE d = m
      BY <1>1, <2>4, <3>1, ModSmall
    <3>2. CASE d = m + MaxEntries
      <4>1. d \in Nat /\ MaxEntries \in Nat \ {0} /\ MaxEntries <= d /\ d < 2 * MaxEntries
        BY <1>1, <2>4, <3>2
      <4>2. d % MaxEntries = d - MaxEntries
        BY <4>1, ModWrap
      <4>. QED BY <1>1, <2>4, <3>2, <4>2
    <3>. QED BY <2>4, <3>1, <3>2
  <2>6. CMod(d, MaxEntries) = m
    BY <2>4, <2>5 DEF CMod
  <2>7. Uint8(m) = m
    <3>1. m \in 0..255
      BY <1>1, <2>4
    <3>. QED BY <3>1, ModSmall DEF Uint8
  <2>. QED BY <2>3, <2>6, <2>7 DEF m
<1>. QED BY <1>4, <1>5

-----------------------------------------------------------------------------
(* Steps of a read *)

\* What a reader between down and up can use.
LEMMA ReadFacts ==
  ASSUME LInv, NEW t \in Thread, pc[t] \in InRead
  PROVE  /\ IInv /\ RingLinesOK /\ BytesOK /\ loaded /\ FreeIsEmpty
         /\ t \in Holders /\ pc \in [Thread -> PC]
         /\ rd \in [Thread -> ReadLocals] /\ rd[t] \in ReadLocals
         /\ rd[t].count \in Nat /\ rd[t].pos \in Nat /\ rd[t].i \in Nat
         /\ rd[t].sum \in Nat /\ rd[t].buf_index \in Slot
         /\ rd[t].start_char_index \in Nat /\ rd[t].entries_read \in Nat
         /\ rd[t].total_entries \in Nat /\ rd[t].bytes_read \in Nat
         /\ rd[t].kernel_buf \in Address /\ rd[t].retval \in Int
         /\ Private(rd[t].kernel_buf) /\ ReaderOK(t) /\ ReadOK(t)
         /\ rd[t].count \in ReadCounts
         /\ fpos[t] \in Nat /\ total_bytes_evicted \in Nat
         /\ SnappedPos(t) \in Nat /\ total_bytes_evicted <= SnappedPos(t)
         /\ mem \in [Address -> Seq(Byte)]
<1>1. IInv /\ RingLinesOK /\ BytesOK /\ FreeIsEmpty /\ ReadOK(t)
  BY DEF LInv, CallsOK
<1>2. /\ loaded /\ t \in Holders /\ pc \in [Thread -> PC] /\ ReaderOK(t)
      /\ rd \in [Thread -> ReadLocals] /\ rd[t] \in ReadLocals
      /\ total_bytes_evicted \in Nat
  BY <1>1, ReaderFacts
<1>3. fpos[t] \in Nat /\ mem \in [Address -> Seq(Byte)]
  BY <1>1 DEF IInv, TypeOK
<1>4. SnappedPos(t) \in Nat /\ total_bytes_evicted <= SnappedPos(t)
  BY <1>2, <1>3 DEF SnappedPos
<1>5. Private(rd[t].kernel_buf) /\ rd[t].count \in ReadCounts
  BY <1>1, <1>2 DEF ReaderOK, ReadOK
<1>. QED BY <1>1, <1>2, <1>3, <1>4, <1>5 DEF ReadLocals

\* The step of a reader that leaves the device, the heap and its file alone.
LEMMA QuietRead ==
  ASSUME LInv, IInv', NEW t \in Thread, pc[t] \in InRead,
         UNCHANGED <<loaded, dev, heap, wr, fpos, history>>,
         NEW to \in InRead, pc' = [pc EXCEPT ![t] = to],
         ReadOK(t)'
  PROVE  LInv'
<1>1. /\ mem' = mem /\ allocated' = allocated /\ fpos' = fpos
      /\ UNCHANGED <<loaded, dev, history>>
  BY DEF heap
<1>2. /\ to # "closed" /\ to # "w_loop" /\ to # "w_out" /\ pc[t] # "w_loop"
  BY DEF InRead
<1>3. pc'[t] = to
  BY ReadFacts
<1>4. WroteOK(t)'
  BY <1>2, <1>3 DEF WroteOK
<1>5. FreeIsEmpty'
  BY <1>1, ReadFacts DEF FreeIsEmpty
<1>6. t \in Holders /\ rd[t].kernel_buf \in Address /\ Private(rd[t].kernel_buf)
  BY ReadFacts
<1>. QED BY <1>1, <1>2, <1>4, <1>5, <1>6, DeviceKept

\* What ReadOK compares a read with.
LEMMA SameView ==
  ASSUME UNCHANGED <<dev, history>>
  PROVE  /\ NumEntries' = NumEntries /\ FirstLine' = FirstLine
         /\ total_bytes_evicted' = total_bytes_evicted /\ entry' = entry
         /\ Len(marks') = Len(marks) /\ stream' = stream
         /\ \A j : Mark(j)' = Mark(j)
         /\ \A k : SlotOf(k)' = SlotOf(k)
         /\ \A t : fpos'[t] = fpos[t] => SnappedPos(t)' = SnappedPos(t)
<1>1. /\ UNCHANGED <<entry, in_offs, out_offs, full, total_bytes_evicted>>
      /\ UNCHANGED <<stream, marks>>
  BY DEF dev, history
<1>2. \A t : fpos'[t] = fpos[t] => SnappedPos(t)' = SnappedPos(t)
  BY <1>1 DEF SnappedPos
<1>. QED BY <1>1, <1>2, SameLines

\* The size of the k-th oldest entry is that of line FirstLine + k + 1.
LEMMA EntrySize ==
  ASSUME IInv, RingLinesOK, NEW k \in 0..NumEntries - 1
  PROVE  /\ entry[SlotOf(k)].size = Mark(FirstLine + k + 1) - Mark(FirstLine + k)
         /\ Mark(FirstLine + k) \in Nat /\ Mark(FirstLine + k + 1) \in Nat
         /\ Mark(FirstLine + k + 1) <= Mark(Len(marks))
         /\ Mark(Len(marks)) \in Nat
<1>1. /\ FirstLine + k + 1 \in LineNumbers
      /\ SlotOf(k) = LineSlot(FirstLine + k + 1)
  BY EntryIsLine DEF RingLinesOK
<1>2. (FirstLine + k + 1) - 1 = FirstLine + k
  BY RingFacts
<1>3. entry[SlotOf(k)].size = Mark(FirstLine + k + 1) - Mark((FirstLine + k + 1) - 1)
  BY <1>1 DEF RingLinesOK, SizesOK
<1>4. FirstLine + k \in 0..Len(marks) /\ FirstLine + k + 1 \in 0..Len(marks)
  BY <1>1, <1>2, LineFacts DEF RingLinesOK
<1>5. Len(marks) \in 0..Len(marks)
  BY RingFacts
<1>. QED BY <1>2, <1>3, <1>4, <1>5, MarksGrow DEF RingLinesOK

LEMMA FindNextLines ==
  ASSUME LInv, IInv', NEW t \in Thread, FindNext(t)
  PROVE  LInv'
<1>. DEFINE r == rd[t]
            size == entry[SlotOf(r.i)].size
<1>1. /\ pc[t] = "r_find" /\ pc[t] \in InRead /\ rd[t].i < NumEntries
      /\ UNCHANGED <<loaded, dev, sem, heap, pc, wr, fpos, faults, history>>
      /\ rd' = [rd EXCEPT ![t].sum = @ + size, ![t].i = @ + 1]
  <2>1. pc[t] = "r_find" /\ pc[t] \in InRead
    BY DEF FindNext, MoreToScan, InRead
  <2>2. NumEntries \in Nat /\ rd[t].i \in Nat
    BY <2>1, ReadFacts, RingFacts
  <2>. QED BY <2>1, <2>2 DEF FindNext, MoreToScan
<1>2. /\ IInv /\ RingLinesOK /\ ReadOK(t) /\ rd \in [Thread -> ReadLocals] /\ r \in ReadLocals
      /\ r.i \in Nat /\ r.sum \in Nat /\ r.count \in ReadCounts /\ total_bytes_evicted \in Nat
      /\ NumEntries \in 0..MaxEntries /\ MaxEntries \in 1..255 /\ FirstLine \in Int
  BY <1>1, ReadFacts, RingFacts
<1>3. /\ rd'[t].count = r.count /\ rd'[t].pos = r.pos /\ rd'[t].retval = r.retval
      /\ rd'[t].kernel_buf = r.kernel_buf /\ rd'[t].entries_read = r.entries_read
      /\ rd'[t].i = r.i + 1 /\ rd'[t].sum = r.sum + size
  <2>. HIDE DEF size
  <2>. QED BY <1>1, <1>2 DEF ReadLocals
<1>4. /\ size = Mark(FirstLine + r.i + 1) - Mark(FirstLine + r.i)
      /\ Mark(FirstLine + r.i) \in Nat /\ Mark(FirstLine + r.i + 1) \in Nat
  <2>1. r.i \in 0..NumEntries - 1
    BY <1>1, <1>2
  <2>. QED BY <1>2, <2>1, EntrySize
<1>5. total_bytes_evicted + (r.sum + size) = Mark(FirstLine + (r.i + 1))
  <2>1. total_bytes_evicted + r.sum = Mark(FirstLine + r.i)
    BY <1>1, <1>2 DEF ReadOK
  <2>2. FirstLine + (r.i + 1) = FirstLine + r.i + 1
    BY <1>2
  <2>. HIDE DEF size
  <2>. QED BY <1>2, <1>4, <2>1, <2>2
<1>6. r.i + 1 <= NumEntries
  BY <1>1, <1>2
<1>7. /\ r.pos = SnappedPos(t) /\ r.entries_read = 0 /\ r.retval = 0
      /\ mem[r.kernel_buf] = <<>>
  BY <1>1, <1>2 DEF ReadOK
<1>8. /\ NumEntries' = NumEntries /\ FirstLine' = FirstLine
      /\ total_bytes_evicted' = total_bytes_evicted
      /\ \A j : Mark(j)' = Mark(j)
      /\ SnappedPos(t)' = SnappedPos(t)
  BY <1>1, SameView
<1>9. ReadOK(t)'
  <2>1. mem' = mem /\ pc'[t] = "r_find"
    BY <1>1 DEF heap
  <2>2. Mark(FirstLine + rd[t].i)' = Mark(FirstLine + (r.i + 1))
    BY <1>1, <1>3, <1>8 DEF Mark, history
  <2>3. (total_bytes_evicted + rd[t].sum)' = Mark(FirstLine + rd[t].i)'
    BY <1>3, <1>5, <1>8, <2>2
  <2>. HIDE DEF r, size
  <2>. QED BY <1>2, <1>3, <1>6, <1>7, <1>8, <2>1, <2>3 DEF ReadOK
<1>10. pc' = [pc EXCEPT ![t] = "r_find"] /\ "r_find" \in InRead
  <2>1. pc \in [Thread -> PC]
    BY <1>1, ReadFacts
  <2>. QED BY <1>1, <2>1 DEF InRead
<1>. QED BY <1>1, <1>9, <1>10, QuietRead

LEMMA FindHitLines ==
  ASSUME LInv, IInv', NEW t \in Thread, FindHit(t)
  PROVE  LInv'
<1>. DEFINE r == rd[t]
            i == SlotOf(r.i)
            start == CharOffset(t) - r.sum
<1>1. /\ pc[t] = "r_find" /\ pc[t] \in InRead /\ rd[t].i < NumEntries
      /\ UNCHANGED <<loaded, dev, heap, wr, fpos, history>>
      /\ rd' = [rd EXCEPT ![t].buf_index = i, ![t].total_entries = EntriesFrom(i),
                          ![t].start_char_index = start]
      /\ pc' = [pc EXCEPT ![t] = "r_copy"] /\ "r_copy" \in InRead
  <2>1. pc[t] = "r_find" /\ pc[t] \in InRead /\ "r_copy" \in InRead
    BY DEF FindHit, MoreToScan, InRead
  <2>2. NumEntries \in Nat /\ rd[t].i \in Nat
    BY <2>1, ReadFacts, RingFacts
  <2>. QED BY <2>1, <2>2 DEF FindHit, MoreToScan, Goto
<1>2. /\ IInv /\ ReadOK(t) /\ rd \in [Thread -> ReadLocals] /\ r \in ReadLocals
      /\ pc \in [Thread -> PC]
      /\ r.i \in Nat /\ r.sum \in Nat /\ r.pos \in Nat /\ r.count \in ReadCounts
      /\ total_bytes_evicted \in Nat /\ ReaderOK(t)
      /\ NumEntries \in 0..MaxEntries /\ MaxEntries \in 1..255
  BY <1>1, ReadFacts, RingFacts
<1>3. r.i \in 0..NumEntries - 1 /\ EntriesFrom(i) = NumEntries - r.i
  BY <1>1, <1>2, EntriesFromValue
<1>4. /\ r.pos = SnappedPos(t) /\ r.entries_read = 0 /\ mem[r.kernel_buf] = <<>>
      /\ total_bytes_evicted + r.sum = Mark(FirstLine + r.i)
      /\ r.bytes_read = 0
  BY <1>1, <1>2 DEF ReadOK, ReaderOK
<1>5. Mark(FirstLine + r.i) + start = r.pos + 0
  <2>1. start = r.pos - total_bytes_evicted - r.sum
    BY DEF CharOffset
  <2>. HIDE DEF start
  <2>. QED BY <1>2, <1>4, <2>1
<1>. HIDE DEF i, start
<1>6. /\ rd'[t].count = r.count /\ rd'[t].pos = r.pos /\ rd'[t].i = r.i
      /\ rd'[t].kernel_buf = r.kernel_buf /\ rd'[t].entries_read = 0
      /\ rd'[t].bytes_read = 0 /\ rd'[t].buf_index = i
      /\ rd'[t].total_entries = EntriesFrom(i) /\ rd'[t].start_char_index = start
      /\ pc'[t] = "r_copy"
  BY <1>1, <1>2, <1>4 DEF ReadLocals
<1>7. /\ NumEntries' = NumEntries /\ SnappedPos(t)' = SnappedPos(t)
      /\ mem' = mem
      /\ FirstLine' = FirstLine /\ marks' = marks
      /\ \A k : SlotOf(k)' = SlotOf(k)
  BY <1>1, SameView DEF heap, history
<1>8. ReadOK(t)'
  <2>1. Copied(t)'
    BY <1>4, <1>6, <1>7 DEF Copied, Holds
  <2>2. /\ rd'[t].i + rd'[t].entries_read = r.i
        /\ r.i <= NumEntries /\ r.i < NumEntries
        /\ r.i + EntriesFrom(i) = NumEntries
    BY <1>2, <1>3, <1>6
  <2>3. Mark(FirstLine + (rd[t].i + rd[t].entries_read))' = Mark(FirstLine + r.i)
    BY <1>7, <2>2 DEF Mark
  <2>4. (rd[t].pos + rd[t].bytes_read)' =
          Mark(FirstLine + (rd[t].i + rd[t].entries_read))' + rd'[t].start_char_index
    BY <1>5, <1>6, <2>3
  <2>5. SlotOf(rd[t].i + rd[t].entries_read)' = i
    <3>1. SlotOf(rd[t].i + rd[t].entries_read)' = SlotOf(r.i)
      BY <1>1, <2>2 DEF SlotOf, dev
    <3>. QED BY <3>1 DEF i
  <2>. HIDE DEF r
  <2>. QED BY <1>2, <1>4, <1>6, <1>7, <2>1, <2>2, <2>4, <2>5 DEF ReadOK
<1>. QED BY <1>1, <1>8, QuietRead

LEMMA FindEofLines ==
  ASSUME LInv, IInv', NEW t \in Thread, FindEof(t)
  PROVE  LInv'
<1>1. /\ pc[t] = "r_find" /\ pc[t] \in InRead
      /\ UNCHANGED <<loaded, dev, heap, wr, rd, fpos, history>>
      /\ pc' = [pc EXCEPT ![t] = "r_out"] /\ "r_out" \in InRead
  BY DEF FindEof, Goto, InRead
<1>2. /\ ReadOK(t) /\ pc \in [Thread -> PC] /\ rd[t].count \in ReadCounts
      /\ SnappedPos(t) \in Nat
  BY <1>1, ReadFacts
<1>3. rd[t].retval = 0 /\ rd[t].pos = SnappedPos(t) + 0
  BY <1>1, <1>2 DEF ReadOK
<1>4. ReadOK(t)'
  <2>1. pc'[t] = "r_out" /\ SnappedPos(t)' = SnappedPos(t) /\ rd' = rd
    BY <1>1, <1>2, SameView
  <2>. QED BY <1>2, <1>3, <2>1 DEF ReadOK
<1>. QED BY <1>1, <1>4, QuietRead

\* A read that copies no further has all the bytes it was asked for, or all
\* those up to the end of the last line.
LEMMA CopyDoneLines ==
  ASSUME LInv, IInv', NEW t \in Thread, CopyDone(t)
  PROVE  LInv'
<1>. DEFINE r == rd[t]
            at == r.i + r.entries_read
            end == Mark(Len(marks))
<1>1. /\ pc[t] = "r_copy" /\ pc[t] \in InRead /\ ~MoreToCopy(t)
      /\ UNCHANGED <<loaded, dev, heap, wr, rd, fpos, history>>
      /\ pc' = [pc EXCEPT ![t] = "r_user"] /\ "r_user" \in InRead
  BY DEF CopyDone, Goto, InRead
<1>2. /\ IInv /\ RingLinesOK /\ ReadOK(t) /\ pc \in [Thread -> PC] /\ r.count \in ReadCounts
      /\ r.count \in Nat /\ r.pos \in Nat /\ r.i \in Nat /\ r.entries_read \in Nat
      /\ r.start_char_index \in Nat /\ r.bytes_read \in Nat /\ r.total_entries \in Nat
      /\ ReaderOK(t)
      /\ NumEntries \in 0..MaxEntries /\ MaxEntries \in 1..255
      /\ NumEntries = (IF full THEN MaxEntries ELSE in_offs) /\ (~full => out_offs = 0)
      /\ Len(marks) \in Nat /\ FirstLine \in Int
  BY <1>1, ReadFacts, RingFacts
<1>3. end \in Nat
  BY <1>2, RingFacts
<1>4. /\ at <= NumEntries /\ r.i + r.total_entries = NumEntries
      /\ Copied(t) /\ r.pos = SnappedPos(t)
      /\ r.pos + r.bytes_read = Mark(FirstLine + at) + r.start_char_index
      /\ IF at < NumEntries THEN r.buf_index = SlotOf(at) ELSE r.start_char_index = 0
      /\ r.start_char_index <= entry[r.buf_index].size /\ r.bytes_read <= r.count
  BY <1>1, <1>2 DEF ReadOK, ReaderOK
<1>5. at \in Nat /\ NumEntries \in Nat /\ at <= NumEntries
  <2>1. r.i \in Nat /\ r.entries_read \in Nat /\ NumEntries \in Nat
    BY <1>2
  <2>. HIDE DEF r
  <2>2. at \in Nat
    BY <2>1
  <2>. QED BY <1>4, <2>1, <2>2
<1>6. r.bytes_read = IF r.count < end - r.pos THEN r.count ELSE end - r.pos
  <2>1. CASE at = NumEntries
    <3>1. FirstLine + at = Len(marks)
      BY <1>2, <2>1 DEF FirstLine
    <3>2. r.pos + r.bytes_read = end
      BY <1>2, <1>3, <1>4, <2>1, <3>1
    <3>. HIDE DEF r, at, end
    <3>. QED BY <1>2, <1>3, <1>4, <3>2
  <2>2. CASE at # NumEntries
    <3>1. at \in 0..NumEntries - 1 /\ at < NumEntries
      <4>. HIDE DEF at
      <4>. QED BY <1>5, <2>2
    <3>2. r.bytes_read >= r.count
      <4>1. ~(r.buf_index = in_offs /\ ~full)
        <5>. SUFFICES ASSUME r.buf_index = in_offs, ~full PROVE FALSE
          OBVIOUS
        <5>1. r.buf_index = SlotOf(at) /\ out_offs = 0 /\ NumEntries = in_offs
          BY <1>2, <1>4, <3>1
        <5>2. MaxEntries \in 1..255 /\ NumEntries \in 0..MaxEntries
          BY <1>2
        <5>. HIDE DEF at
        <5>3. at \in 0..MaxEntries - 1
          BY <3>1, <5>2
        <5>4. SlotOf(at) = IF out_offs + at < MaxEntries THEN out_offs + at
                           ELSE out_offs + at - MaxEntries
          BY <1>2, <5>3, SlotOfValue
        <5>5. out_offs + at = at /\ at < MaxEntries
          BY <5>1, <5>2, <5>3
        <5>6. SlotOf(at) = at
          BY <5>4, <5>5
        <5>7. r.buf_index = NumEntries
          BY <5>1
        <5>. HIDE DEF r
        <5>. QED BY <3>1, <5>1, <5>2, <5>6, <5>7
      <4>2. r.entries_read < r.total_entries
        <5>1. /\ r.i + r.entries_read < NumEntries /\ r.i + r.total_entries = NumEntries
              /\ r.i \in Nat /\ r.entries_read \in Nat /\ r.total_entries \in Nat
              /\ NumEntries \in Nat
          BY <1>2, <1>4, <3>1
        <5>. HIDE DEF r
        <5>. QED BY <5>1
      <4>. QED BY <1>1, <1>2, <4>1, <4>2 DEF MoreToCopy
    <3>3. /\ entry[SlotOf(at)].size = Mark(FirstLine + at + 1) - Mark(FirstLine + at)
          /\ Mark(FirstLine + at) \in Nat /\ Mark(FirstLine + at + 1) \in Nat
          /\ Mark(FirstLine + at + 1) <= end
      BY <1>2, <3>1, EntrySize
    <3>4. r.start_char_index <= entry[SlotOf(at)].size
      BY <1>4, <3>1
    <3>5. r.pos + r.bytes_read <= end
      <4>. HIDE DEF r, at, end
      <4>. QED BY <1>2, <1>3, <1>4, <3>3, <3>4
    <3>. HIDE DEF r, at, end
    <3>. QED BY <1>2, <1>3, <1>4, <3>2, <3>5
  <2>. QED BY <2>1, <2>2
<1>7. ReadOK(t)'
  <2>1. /\ pc'[t] = "r_user" /\ SnappedPos(t)' = SnappedPos(t) /\ rd' = rd
        /\ mem' = mem /\ marks' = marks /\ stream' = stream
    BY <1>1, <1>2, SameView DEF heap, history
  <2>2. Mark(Len(marks))' = end
    BY <2>1 DEF Mark
  <2>3. Copied(t)'
    BY <1>4, <2>1 DEF Copied, Holds
  <2>. HIDE DEF end
  <2>. QED BY <1>2, <1>4, <1>6, <2>1, <2>2, <2>3 DEF ReadOK
<1>. QED BY <1>1, <1>7, QuietRead

LEMMA CopyToUserLines ==
  ASSUME LInv, IInv', NEW t \in Thread, CopyToUser(t) \/ CopyToUserFault(t)
  PROVE  LInv'
<1>1. /\ pc[t] = "r_user" /\ pc[t] \in InRead
      /\ UNCHANGED <<loaded, dev, heap, wr, fpos, history>>
      /\ pc' = [pc EXCEPT ![t] = "r_out"] /\ "r_out" \in InRead
  BY DEF CopyToUser, CopyToUserFault, Goto, InRead
<1>2. /\ ReadOK(t) /\ pc \in [Thread -> PC] /\ rd[t].count \in ReadCounts
      /\ rd \in [Thread -> ReadLocals] /\ rd[t] \in ReadLocals
      /\ SnappedPos(t) \in Nat /\ rd[t].bytes_read \in Nat
  BY <1>1, ReadFacts
<1>3. rd[t].pos = SnappedPos(t)
  BY <1>1, <1>2 DEF ReadOK
<1>4. /\ rd'[t].count = rd[t].count
      /\ rd'[t].retval >= 0 => rd'[t].pos = SnappedPos(t) + rd'[t].retval
  <2>1. CASE CopyToUser(t)
    <3>1. rd' = [rd EXCEPT ![t].pos = @ + rd[t].bytes_read, ![t].retval = rd[t].bytes_read]
      BY <2>1 DEF CopyToUser
    <3>. QED BY <1>2, <1>3, <3>1 DEF ReadLocals
  <2>2. CASE CopyToUserFault(t)
    <3>1. rd' = [rd EXCEPT ![t].pos = @ + rd[t].bytes_read, ![t].retval = -EFAULT]
      BY <2>2 DEF CopyToUserFault
    <3>2. ~(-EFAULT >= 0)
      BY DEF EFAULT
    <3>3. rd'[t].retval = -EFAULT /\ rd'[t].count = rd[t].count
      BY <1>2, <3>1 DEF ReadLocals
    <3>. QED BY <3>2, <3>3
  <2>. QED BY <2>1, <2>2
<1>5. ReadOK(t)'
  <2>1. pc'[t] = "r_out" /\ SnappedPos(t)' = SnappedPos(t)
    BY <1>1, <1>2, SameView
  <2>. QED BY <1>2, <1>4, <2>1 DEF ReadOK
<1>. QED BY <1>1, <1>5, QuietRead

\* The steps of a read that touch the heap.
LEMMA ReadNoMemoryLines ==
  ASSUME LInv, IInv', NEW t \in Thread, NEW count \in ReadCounts, ReadNoMemory(t, count)
  PROVE  LInv'
<1>1. /\ Goto(t, "read", "r_out") /\ pc[t] = "read"
      /\ UNCHANGED <<loaded, dev, heap, wr, fpos, history>>
  BY DEF ReadNoMemory, Goto
<1>2. /\ t \in Holders' /\ pc'[t] = "r_out" /\ pc' = [pc EXCEPT ![t] = "r_out"]
      /\ rd \in [Thread -> ReadLocals]
  <2>1. IInv /\ SemInv' /\ loaded' = loaded /\ "r_out" \in InWrite \cup InRead
    BY <1>1 DEF LInv, IInv, InRead
  <2>. QED BY <1>1, <2>1, EnterFacts
<1>3. rd'[t].count = count /\ ~(rd'[t].retval >= 0)
  <2>. DEFINE r == [IdleRead EXCEPT !.count = count, !.pos = SnappedPos(t), !.retval = -ENOMEM]
  <2>1. r.count = count /\ r.retval = -ENOMEM
    BY DEF IdleRead
  <2>2. rd' = [rd EXCEPT ![t] = r]
    BY DEF ReadNoMemory
  <2>. HIDE DEF r
  <2>3. rd'[t].count = count /\ rd'[t].retval = -ENOMEM
    BY <1>2, <2>1, <2>2
  <2>4. ~(-ENOMEM >= 0)
    BY DEF ENOMEM
  <2>. QED BY <2>3, <2>4
<1>4. WroteOK(t)' /\ ReadOK(t)'
  BY <1>2, <1>3 DEF WroteOK, ReadOK
<1>5. mem' = mem /\ allocated' = allocated /\ fpos' = fpos /\ FreeIsEmpty'
  BY <1>1 DEF heap, LInv, FreeIsEmpty
<1>6. NULL \in Address /\ Private(NULL)
  BY PtrAssumption DEF Address, Private
<1>. QED BY <1>1, <1>2, <1>4, <1>5, <1>6, DeviceKept

LEMMA ReadBeginLines ==
  ASSUME LInv, IInv', NEW t \in Thread, NEW count \in ReadCounts, ReadBegin(t, count)
  PROVE  LInv'
<1>1. /\ Goto(t, "read", "r_find") /\ pc[t] = "read"
      /\ UNCHANGED <<loaded, dev, mem, wr, fpos, history>>
  BY DEF ReadBegin, Goto
<1>2. /\ t \in Holders' /\ pc'[t] = "r_find" /\ pc' = [pc EXCEPT ![t] = "r_find"]
      /\ rd \in [Thread -> ReadLocals] /\ loaded
  <2>1. IInv /\ SemInv' /\ loaded' = loaded /\ "r_find" \in InWrite \cup InRead
    BY <1>1 DEF LInv, IInv, InRead
  <2>. QED BY <1>1, <2>1, EnterFacts
<1>3. PICK p \in Kmalloc(count, allocated) \ {NULL} :
        /\ allocated' = allocated \cup ({p} \cap Ptr)
        /\ rd' = [rd EXCEPT ![t] = [IdleRead EXCEPT !.count = count, !.pos = SnappedPos(t),
                                                    !.kernel_buf = p]]
  BY DEF ReadBegin
<1>4. count \in Nat /\ p \in Address /\ (p \in Ptr \ allocated \/ p = ZERO_SIZE_PTR)
  <2>1. count \in Nat
    BY CallAssumption
  <2>. QED BY <1>3, <2>1, KmallocResult
<1>5. mem[p] = <<>>
  BY <1>4 DEF LInv, FreeIsEmpty, IInv, HeapOK
<1>6. /\ rd'[t].kernel_buf = p /\ rd'[t].count = count /\ rd'[t].pos = SnappedPos(t)
      /\ rd'[t].sum = 0 /\ rd'[t].i = 0 /\ rd'[t].entries_read = 0 /\ rd'[t].retval = 0
  <2>. DEFINE r == [IdleRead EXCEPT !.count = count, !.pos = SnappedPos(t), !.kernel_buf = p]
  <2>1. /\ r.kernel_buf = p /\ r.count = count /\ r.pos = SnappedPos(t)
        /\ r.sum = 0 /\ r.i = 0 /\ r.entries_read = 0 /\ r.retval = 0
    BY DEF IdleRead
  <2>2. rd' = [rd EXCEPT ![t] = r]
    BY <1>3
  <2>. HIDE DEF r
  <2>. QED BY <1>2, <2>1, <2>2
<1>7. /\ NumEntries' = NumEntries /\ SnappedPos(t)' = SnappedPos(t) /\ FirstLine' = FirstLine
      /\ total_bytes_evicted' = total_bytes_evicted /\ marks' = marks
      /\ NumEntries \in Nat /\ total_bytes_evicted \in Nat /\ FirstLine \in Int
      /\ total_bytes_evicted = Mark(FirstLine)
  <2>1. IInv /\ RingLinesOK
    BY DEF LInv
  <2>2. NumEntries \in Nat /\ FirstLine \in Int /\ total_bytes_evicted \in Nat
    <3>1. NumEntries \in 0..MaxEntries /\ FirstLine \in Int /\ MaxEntries \in 1..255
      BY <2>1, RingFacts
    <3>2. total_bytes_evicted \in Nat
      BY <2>1 DEF IInv, TypeOK
    <3>. QED BY <3>1, <3>2
  <2>. QED BY <1>1, <2>1, <2>2, SameView DEF RingLinesOK, EvictedBytesExact, history
<1>8. ReadOK(t)'
  <2>1. Mark(FirstLine + rd[t].i)' = Mark(FirstLine)
    BY <1>6, <1>7 DEF Mark
  <2>2. (total_bytes_evicted + rd[t].sum)' = Mark(FirstLine + rd[t].i)'
    BY <1>6, <1>7, <2>1
  <2>. QED BY <1>1, <1>2, <1>5, <1>6, <1>7, <2>2 DEF ReadOK
<1>9. WroteOK(t)' /\ FreeIsEmpty'
  BY <1>1, <1>2, <1>3 DEF WroteOK, LInv, FreeIsEmpty
<1>10. NULL \in Address /\ Private(NULL)
  BY PtrAssumption DEF Address, Private
<1>. QED BY <1>1, <1>2, <1>8, <1>9, <1>10, DeviceKept

LEMMA ReadOutLines ==
  ASSUME LInv, IInv', NEW t \in Thread, ReadOut(t)
  PROVE  LInv'
<1>1. /\ pc[t] = "r_out" /\ pc[t] \in InRead /\ pc' = [pc EXCEPT ![t] = "open"]
      /\ UNCHANGED <<loaded, dev, wr, history>>
      /\ mem' = [mem EXCEPT ![rd[t].kernel_buf] = <<>>]
      /\ allocated' = allocated \ {rd[t].kernel_buf}
      /\ fpos' = [fpos EXCEPT ![t] = StoredPos(t)]
  BY DEF ReadOut, Goto, InRead
<1>. DEFINE p == rd[t].kernel_buf
<1>2. /\ t \in Holders /\ p \in Address /\ Private(p) /\ IInv /\ FreeIsEmpty
      /\ pc \in [Thread -> PC] /\ mem \in [Address -> Seq(Byte)]
  BY <1>1, ReadFacts
<1>3. \A q \in Address : mem'[q] = mem[q] \/ (q = p /\ p \in Ptr)
  <2>1. p \notin Ptr => mem[p] = <<>>
    BY <1>2 DEF IInv, HeapOK, Address
  <2>. QED BY <1>1, <1>2, <2>1
<1>4. FreeIsEmpty'
  <2>1. \A q \in Ptr : q \in Address
    BY DEF Address
  <2>. QED BY <1>1, <1>2, <2>1 DEF FreeIsEmpty
<1>5. \A u \in Thread \ {t} : fpos'[u] = fpos[u]
  BY <1>1, <1>2 DEF IInv, TypeOK
<1>6. WroteOK(t)' /\ ReadOK(t)'
  <2>1. pc'[t] = "open"
    BY <1>1, <1>2
  <2>. QED BY <2>1 DEF WroteOK, ReadOK, InRead
<1>. QED BY <1>1, <1>2, <1>3, <1>4, <1>5, <1>6, DeviceKept

\* An iteration of the copy loop appends the bytes of the stream that follow
\* those already copied.
LEMMA CopyEntryLines ==
  ASSUME LInv, IInv', NEW t \in Thread, CopyEntry(t)
  PROVE  LInv'
<1>. DEFINE r == rd[t]
            at == r.i + r.entries_read
            e == entry[r.buf_index]
            left == e.size - r.start_char_index
            room == r.count - r.bytes_read
            n == IF left <= room THEN left ELSE room
            bytes == SubSeq(mem[e.buffptr], r.start_char_index + 1, r.start_char_index + n)
            to == IF left >= room THEN "r_user" ELSE "r_copy"
            end == Mark(Len(marks))
            old == mem[r.kernel_buf]
<1>1. /\ pc[t] = "r_copy" /\ pc[t] \in InRead /\ r.bytes_read < r.count
      /\ r.entries_read < r.total_entries
      /\ UNCHANGED <<loaded, dev, allocated, wr, fpos, history>>
      /\ mem' = [mem EXCEPT ![r.kernel_buf] = @ \o bytes]
      /\ rd' = [rd EXCEPT ![t].bytes_read = @ + n, ![t].entries_read = @ + 1,
                          ![t].start_char_index = 0, ![t].buf_index = NextSlot(@)]
  BY DEF CopyEntry, MoreToCopy, InRead
<1>2. /\ IInv /\ RingLinesOK /\ BytesOK /\ FreeIsEmpty /\ ReadOK(t) /\ ReaderOK(t) /\ loaded
      /\ pc \in [Thread -> PC] /\ rd \in [Thread -> ReadLocals] /\ r \in ReadLocals
      /\ r.count \in ReadCounts /\ r.buf_index \in Slot
      /\ r.kernel_buf \in Address /\ Private(r.kernel_buf) /\ t \in Holders
      /\ mem \in [Address -> Seq(Byte)]
  BY <1>1, ReadFacts
<1>3. /\ r.count \in Nat /\ r.pos \in Nat /\ r.i \in Nat /\ r.entries_read \in Nat
      /\ r.start_char_index \in Nat /\ r.bytes_read \in Nat /\ r.total_entries \in Nat
  BY <1>1, ReadFacts
<1>4. NumEntries \in 0..MaxEntries /\ MaxEntries \in 1..255 /\ FirstLine \in Int /\ end \in Nat
  <2>1. Len(marks) \in 0..Len(marks)
    BY <1>2, RingFacts
  <2>. QED BY <1>2, <2>1, RingFacts
<1>5. pc' = [pc EXCEPT ![t] = to] /\ pc'[t] = to
  BY <1>1, <1>2 DEF CopyEntry
<1>6. /\ r.i + r.total_entries = NumEntries /\ Copied(t) /\ r.pos = SnappedPos(t)
      /\ r.pos + r.bytes_read = Mark(FirstLine + at) + r.start_char_index
      /\ at < NumEntries => r.buf_index = SlotOf(at)
      /\ r.start_char_index <= e.size
      /\ r.kernel_buf \in Ptr
  <2>1. r.kernel_buf \in Ptr \/ r.count = 0
    BY <1>1, <1>2 DEF ReaderOK
  <2>2. r.kernel_buf \in Ptr
    <3>1. PICK c, b \in Nat : c = r.count /\ b = r.bytes_read
      BY <1>3
    <3>2. b < c
      BY <1>1, <3>1
    <3>3. c # 0
      BY <3>2
    <3>. QED BY <2>1, <3>1, <3>3
  <2>3. r.start_char_index <= e.size
    BY <1>1, <1>2 DEF ReaderOK
  <2>. QED BY <1>1, <1>2, <2>2, <2>3 DEF ReadOK
<1>7. at \in 0..NumEntries - 1 /\ r.buf_index = SlotOf(at)
  <2>1. at \in 0..NumEntries - 1 /\ at < NumEntries
    <3>1. r.i + r.total_entries = NumEntries /\ r.entries_read < r.total_entries
      BY <1>1, <1>6
    <3>2. NumEntries \in Nat
      BY <1>4
    <3>. HIDE DEF r
    <3>. QED BY <1>3, <3>1, <3>2
  <2>. QED BY <1>6, <2>1
<1>8. /\ e.size = Mark(FirstLine + at + 1) - Mark(FirstLine + at)
      /\ Mark(FirstLine + at) \in Nat /\ Mark(FirstLine + at + 1) \in Nat
      /\ Mark(FirstLine + at + 1) <= end
  BY <1>2, <1>7, EntrySize
<1>9. PICK l \in LineNumbers : /\ l = FirstLine + at + 1 /\ l - 1 = FirstLine + at
                               /\ LineSlot(l) = r.buf_index
  <2>1. FirstLine + at + 1 \in LineNumbers /\ SlotOf(at) = LineSlot(FirstLine + at + 1)
    BY <1>2, <1>7, EntryIsLine DEF RingLinesOK
  <2>2. (FirstLine + at + 1) - 1 = FirstLine + at
    <3>. HIDE DEF at
    <3>. QED BY <1>4, <1>7
  <2>. HIDE DEF at
  <2>. QED BY <1>7, <2>1, <2>2
<1>10. /\ e.buffptr \in Ptr /\ e.size \in Nat /\ e.size <= Len(mem[e.buffptr])
       /\ \A j \in 1..e.size : mem[e.buffptr][0 + j] = stream[Mark(FirstLine + at) + j]
  <2>1. /\ e.buffptr \in Ptr /\ e.size \in Nat /\ e.size <= Len(mem[e.buffptr])
    BY <1>2, <1>9, LineFacts DEF RingLinesOK
  <2>2. LineHeld(l)
    BY <1>2, <1>9 DEF BytesOK
  <2>. QED BY <1>9, <2>1, <2>2 DEF LineHeld, Holds
<1>11. left \in Nat /\ room \in Nat /\ n \in Nat /\ n <= left /\ n <= room
  <2>1. /\ r.bytes_read < r.count /\ r.start_char_index <= e.size
        /\ r.bytes_read \in Nat /\ r.count \in Nat /\ r.start_char_index \in Nat /\ e.size \in Nat
    BY <1>1, <1>3, <1>6, <1>10
  <2>. HIDE DEF r, e
  <2>2. left \in Nat /\ room \in Nat
    BY <2>1
  <2>. HIDE DEF left, room
  <2>. QED BY <2>2
<1>12. /\ bytes \in Seq(Byte) /\ Len(bytes) = n
       /\ \A j \in 1..n : bytes[j] = mem[e.buffptr][r.start_char_index + j]
  <2>. DEFINE src == mem[e.buffptr]
              from == r.start_char_index
  <2>1. src \in Seq(Byte) /\ from \in Nat /\ n \in Nat
    BY <1>2, <1>3, <1>10, <1>11 DEF Address
  <2>2. from + n <= Len(src)
    <3>1. from + n <= e.size
      <4>1. from \in Nat /\ e.size \in Nat /\ left = e.size - from
        BY <1>3, <1>10
      <4>. HIDE DEF left, n, from, e
      <4>2. PICK a, b, c \in Nat : a = n /\ b = from /\ c = e.size
        BY <1>11, <4>1
      <4>3. a <= c - b
        BY <1>11, <4>1, <4>2
      <4>. QED BY <4>2, <4>3
    <3>2. Len(src) \in Nat
      BY <2>1
    <3>. HIDE DEF n, e
    <3>. QED BY <1>10, <2>1, <3>1, <3>2
  <2>. HIDE DEF src, from, n
  <2>3. /\ SubSeq(src, from + 1, from + n) \in Seq(Byte)
        /\ Len(SubSeq(src, from + 1, from + n)) = n
        /\ \A j \in 1..n : SubSeq(src, from + 1, from + n)[j] = src[from + j]
    BY <2>1, <2>2, SubSeqBytes
  <2>. QED BY <2>3 DEF src, from
<1>. HIDE DEF bytes, left, room, n, e, at, end
<1>13. mem'[r.kernel_buf] = old \o bytes /\ old \in Seq(Byte) /\ Len(old) = r.bytes_read
  BY <1>1, <1>2, <1>6 DEF Copied
<1>14. /\ Len(old \o bytes) = r.bytes_read + n
       /\ \A j \in 1..r.bytes_read : (old \o bytes)[j] = old[j]
       /\ \A j \in 1..n : (old \o bytes)[r.bytes_read + j] = bytes[j]
  <2>1. /\ Len(old \o bytes) = Len(old) + Len(bytes)
        /\ \A j \in 1..Len(old) : (old \o bytes)[j] = old[j]
        /\ \A j \in 1..Len(bytes) : (old \o bytes)[Len(old) + j] = bytes[j]
    <3>1. old \in Seq(Byte) /\ bytes \in Seq(Byte)
      BY <1>12, <1>13
    <3>. HIDE DEF old
    <3>. QED BY <3>1, ConcatBytes
  <2>2. Len(old) = r.bytes_read /\ Len(bytes) = n
    BY <1>12, <1>13
  <2>. HIDE DEF old, r
  <2>. QED BY <2>1, <2>2
<1>15. ASSUME NEW j \in 1..r.bytes_read + n
       PROVE  (old \o bytes)[0 + j] = stream[r.pos + j]
  <2>1. CASE j <= r.bytes_read
    <3>1. j \in 1..r.bytes_read /\ 0 + j = j
      BY <1>3, <2>1
    <3>2. old[0 + j] = stream[r.pos + j]
      BY <1>6, <3>1 DEF Copied, Holds
    <3>. QED BY <1>14, <3>1, <3>2
  <2>2. CASE ~(j <= r.bytes_read)
    <3>. DEFINE k == j - r.bytes_read
                from == r.start_char_index
    <3>1. k \in 1..n /\ r.bytes_read + k = j /\ 0 + j = j
      BY <1>3, <1>11, <2>2
    <3>2. /\ from + k \in 1..e.size /\ 0 + (from + k) = from + k
          /\ Mark(FirstLine + at) + (from + k) = r.pos + j
      <4>1. n <= left /\ left = e.size - from /\ from \in Nat /\ e.size \in Nat /\ n \in Nat
        BY <1>3, <1>10, <1>11 DEF left
      <4>2. r.pos + r.bytes_read = Mark(FirstLine + at) + from
        BY <1>6
      <4>. HIDE DEF k, from
      <4>. QED BY <1>3, <1>8, <3>1, <4>1, <4>2
    <3>3. mem[e.buffptr][from + k] = stream[r.pos + j]
      BY <1>10, <3>2
    <3>4. (old \o bytes)[j] = bytes[k]
      BY <1>14, <3>1
    <3>5. bytes[k] = mem[e.buffptr][from + k]
      BY <1>12, <3>1
    <3>. QED BY <3>1, <3>3, <3>4, <3>5
  <2>. QED BY <2>1, <2>2
<1>16. /\ rd'[t].count = r.count /\ rd'[t].pos = r.pos /\ rd'[t].i = r.i
       /\ rd'[t].kernel_buf = r.kernel_buf /\ rd'[t].total_entries = r.total_entries
       /\ rd'[t].bytes_read = r.bytes_read + n
       /\ rd'[t].entries_read = r.entries_read + 1
       /\ rd'[t].start_char_index = 0 /\ rd'[t].buf_index = NextSlot(r.buf_index)
  BY <1>1, <1>2 DEF ReadLocals
<1>17. /\ NumEntries' = NumEntries /\ SnappedPos(t)' = SnappedPos(t) /\ FirstLine' = FirstLine
       /\ marks' = marks /\ stream' = stream /\ out_offs' = out_offs
  BY <1>1, SameView DEF history, dev
<1>18. Copied(t)'
  <2>1. mem'[rd'[t].kernel_buf] = old \o bytes
    BY <1>13, <1>16
  <2>2. rd'[t].bytes_read = r.bytes_read + n /\ rd'[t].pos = r.pos /\ stream' = stream
    BY <1>16, <1>17
  <2>. HIDE DEF old, r
  <2>. QED BY <1>14, <1>15, <2>1, <2>2 DEF Copied, Holds
<1>19. ASSUME left >= room
       PROVE  ReadOK(t)'
  <2>1. n = room /\ room = r.count - r.bytes_read /\ left = e.size - r.start_char_index
    BY <1>11, <1>19 DEF n, room, left
  <2>2. r.bytes_read + n = r.count
    BY <1>3, <2>1
  <2>3. r.count <= end - r.pos
    <3>1. r.pos + r.count = Mark(FirstLine + at) + r.start_char_index + room
      BY <1>3, <1>6, <1>8, <2>1
    <3>2. r.start_char_index + room <= e.size
      BY <1>3, <1>10, <1>11, <1>19, <2>1
    <3>. QED BY <1>3, <1>4, <1>8, <1>11, <3>1, <3>2
  <2>4. Mark(Len(marks))' = end
    BY <1>17 DEF Mark, end
  <2>5. r.count = IF r.count < end - r.pos THEN r.count ELSE end - r.pos
    BY <1>3, <1>4, <2>3
  <2>6. pc'[t] = "r_user"
    BY <1>5, <1>19
  <2>7. /\ rd'[t].count = r.count /\ r.count \in ReadCounts
        /\ rd'[t].pos = r.pos /\ r.pos = SnappedPos(t)' /\ rd'[t].bytes_read = r.count
    BY <1>2, <1>6, <1>16, <1>17, <2>2
  <2>. HIDE DEF r
  <2>. QED BY <1>18, <2>4, <2>5, <2>6, <2>7 DEF ReadOK
<1>20. ASSUME ~(left >= room)
       PROVE  ReadOK(t)'
  <2>1. n = left /\ left = e.size - r.start_char_index
    BY <1>11, <1>20 DEF n, left
  <2>2. r.pos + (r.bytes_read + n) = Mark(FirstLine + at + 1) + 0
    <3>1. /\ r.pos + r.bytes_read = Mark(FirstLine + at) + r.start_char_index
          /\ e.size = Mark(FirstLine + at + 1) - Mark(FirstLine + at)
      BY <1>6, <1>8
    <3>2. /\ r.pos \in Nat /\ r.bytes_read \in Nat /\ r.start_char_index \in Nat
          /\ e.size \in Nat
          /\ Mark(FirstLine + at) \in Nat /\ Mark(FirstLine + at + 1) \in Nat
      BY <1>3, <1>8, <1>10
    <3>. HIDE DEF r
    <3>. QED BY <2>1, <3>1, <3>2
  <2>3. (rd[t].i + rd[t].entries_read)' = at + 1 /\ at + 1 <= NumEntries
    <3>1. at = r.i + r.entries_read
      BY DEF at
    <3>2. at + 1 <= NumEntries
      BY <1>4, <1>7
    <3>. QED BY <1>3, <1>16, <3>1, <3>2
  <2>4. Mark(FirstLine + (rd[t].i + rd[t].entries_read))' = Mark(FirstLine + at + 1)
    <3>1. FirstLine + (at + 1) = FirstLine + at + 1
      BY <1>4, <1>7
    <3>. QED BY <1>17, <2>3, <3>1 DEF Mark
  <2>5. ASSUME at + 1 < NumEntries
        PROVE  NextSlot(r.buf_index) = SlotOf(rd[t].i + rd[t].entries_read)'
    <3>1. at \in 0..MaxEntries - 1 /\ at # MaxEntries - 1
      BY <1>4, <1>7, <2>5
    <3>2. NextSlot(r.buf_index) = SlotOf(at + 1)
      BY <1>2, <1>7, <3>1, NextSlotOf
    <3>. QED BY <1>17, <2>3, <3>2 DEF SlotOf
  <2>6. pc'[t] = "r_copy"
    BY <1>5, <1>20
  <2>7. (rd[t].pos + rd[t].bytes_read)' =
           Mark(FirstLine + (rd[t].i + rd[t].entries_read))' + rd'[t].start_char_index
    BY <1>16, <2>2, <2>4
  <2>8. (rd[t].i + rd[t].total_entries)' = NumEntries'
    BY <1>6, <1>16, <1>17
  <2>9. (rd[t].i + rd[t].entries_read)' <= NumEntries'
    BY <1>17, <2>3
  <2>10. IF (rd[t].i + rd[t].entries_read)' < NumEntries'
         THEN rd'[t].buf_index = SlotOf(rd[t].i + rd[t].entries_read)'
         ELSE rd'[t].start_char_index = 0
    BY <1>16, <1>17, <2>3, <2>5
  <2>11. /\ rd'[t].count = r.count /\ r.count \in ReadCounts
         /\ rd'[t].pos = r.pos /\ r.pos = SnappedPos(t)'
    BY <1>2, <1>6, <1>16, <1>17
  <2>. HIDE DEF r
  <2>. QED BY <1>18, <2>6, <2>7, <2>8, <2>9, <2>10, <2>11 DEF ReadOK
<1>21. ReadOK(t)'
  <2>. HIDE DEF r
  <2>. QED BY <1>19, <1>20
<1>22. \A q \in Address : mem'[q] = mem[q] \/ (q = r.kernel_buf /\ r.kernel_buf \in Ptr)
  BY <1>1, <1>2, <1>6
<1>23. FreeIsEmpty'
  <2>1. \A q \in Ptr : q \in Address
    BY DEF Address
  <2>2. r.kernel_buf \in allocated
    BY <1>2, <1>6 DEF Private
  <2>. QED BY <1>1, <1>2, <1>22, <2>1, <2>2 DEF FreeIsEmpty
<1>24. to \in {"r_user", "r_copy"}
  OBVIOUS
<1>25. WroteOK(t)'
  BY <1>5, <1>24 DEF WroteOK
<1>. HIDE DEF to
<1>. QED BY <1>1, <1>2, <1>5, <1>21, <1>22, <1>23, <1>24, <1>25, DeviceKept

-----------------------------------------------------------------------------
(* Steps of a write *)

\* What a writer between down and up can use.
LEMMA WriteFacts ==
  ASSUME LInv, NEW t \in Thread, pc[t] \in InWrite
  PROVE  /\ IInv /\ RingLinesOK /\ BytesOK /\ loaded /\ FreeIsEmpty
         /\ t \in Holders /\ pc \in [Thread -> PC]
         /\ wr \in [Thread -> WriteLocals] /\ wr[t] \in WriteLocals
         /\ wr[t].buf \in Seq(Byte) /\ wr[t].count \in Nat /\ wr[t].i \in Nat
         /\ wr[t].curr_size \in Nat /\ wr[t].new_buf \in Address
         /\ wr[t].retval \in Int /\ wr[t].start \in Nat
         /\ WriterOK(t) /\ WroteOK(t)
         /\ stream \in Seq(Byte) /\ Len(stream) \in Nat
         /\ Len(marks) \in Nat /\ Mark(Len(marks)) \in Nat
         /\ mem \in [Address -> Seq(Byte)]
         /\ pc[t] = "w_loop" => TailIs(wr[t].curr_size)
         /\ pc[t] # "w_loop" => TailIs(curr_input.size)
<1>1. IInv /\ RingLinesOK /\ BytesOK /\ FreeIsEmpty /\ WroteOK(t) /\ TailOK
  BY DEF LInv, CallsOK
<1>2. /\ t \in Holders /\ loaded /\ pc \in [Thread -> PC] /\ WriterOK(t)
      /\ wr \in [Thread -> WriteLocals] /\ wr[t] \in WriteLocals
  BY <1>1, WriterFacts
<1>3. mem \in [Address -> Seq(Byte)]
  BY <1>1 DEF IInv, TypeOK
<1>4. Len(marks) \in 0..Len(marks)
  BY <1>1, RingFacts
<1>5. \A u \in Thread \ {t} : pc[u] \notin InWrite \cup InRead
  BY <1>1, <1>2 DEF IInv, SemInv, SemaphoreHeldByOne, Holders
<1>6. /\ pc[t] = "w_loop" => TailIs(wr[t].curr_size)
      /\ pc[t] # "w_loop" => TailIs(curr_input.size)
  BY <1>1, <1>2, <1>5, TailOfHolder
<1>. QED BY <1>1, <1>2, <1>3, <1>4, <1>6, RingFacts DEF WriteLocals

LEMMA WriteOutLines ==
  ASSUME LInv, IInv', NEW t \in Thread, WriteOut(t)
  PROVE  LInv'
<1>1. /\ pc[t] = "w_out" /\ pc[t] \in InWrite /\ pc[t] # "w_loop"
      /\ pc' = [pc EXCEPT ![t] = "open"]
      /\ UNCHANGED <<loaded, dev, heap, fpos, history>>
  BY DEF WriteOut, Goto, InWrite
<1>2. t \in Holders /\ pc'[t] = "open" /\ FreeIsEmpty
  BY <1>1, WriteFacts
<1>3. WroteOK(t)' /\ ReadOK(t)'
  BY <1>2 DEF WroteOK, ReadOK, InRead
<1>4. mem' = mem /\ fpos' = fpos /\ FreeIsEmpty'
  BY <1>1, <1>2 DEF heap, FreeIsEmpty
<1>5. NULL \in Address /\ Private(NULL)
  BY PtrAssumption DEF Address, Private
<1>. QED BY <1>1, <1>2, <1>3, <1>4, <1>5, DeviceKept

\* An error is reported by a write that took nothing.
LEMMA NothingTaken ==
  ASSUME IInv, NEW t \in Thread, NEW payload \in Payloads, NEW error \in Int, error < 0,
         wr' = [wr EXCEPT ![t] = [WriteStart(t, payload) EXCEPT !.retval = error]],
         stream' = stream, pc'[t] = "w_out"
  PROVE  WroteOK(t)' /\ ReadOK(t)'
<1>. DEFINE start == WriteStart(t, payload)
            w == [start EXCEPT !.retval = error]
<1>1. start \in WriteLocals /\ start.buf = payload /\ start.start = Len(stream)
  BY WriteStartType
<1>. HIDE DEF start
<1>2. w.buf = payload /\ w.start = Len(stream) /\ w.retval = error
  BY <1>1 DEF WriteLocals
<1>3. wr' = [wr EXCEPT ![t] = w] /\ wr \in [Thread -> WriteLocals]
  BY DEF start, IInv, TypeOK
<1>. HIDE DEF w
<1>4. wr'[t].buf = payload /\ wr'[t].start = Len(stream) /\ wr'[t].retval < 0
  BY <1>2, <1>3
<1>5. Len(payload) \in Nat /\ Len(stream) \in Nat
  <2>1. payload \in Seq(Byte)
    BY CallAssumption
  <2>. QED BY <2>1, RingFacts
<1>6. /\ 0 <= Len(wr'[t].buf) /\ Len(stream') = wr'[t].start + 0
      /\ \A j \in 1..0 : stream'[wr'[t].start + j] = wr'[t].buf[j]
  BY <1>4, <1>5
<1>. QED BY <1>4, <1>6 DEF WroteOK, ReadOK, InRead

LEMMA WriteNoMemoryLines ==
  ASSUME LInv, IInv', NEW t \in Thread, NEW payload \in Payloads, WriteNoMemory(t, payload)
  PROVE  LInv'
<1>1. /\ Goto(t, "write", "w_out") /\ pc[t] = "write"
      /\ UNCHANGED <<loaded, dev, heap, fpos, history>>
  BY DEF WriteNoMemory, Goto
<1>2. t \in Holders' /\ pc'[t] = "w_out" /\ pc' = [pc EXCEPT ![t] = "w_out"]
  <2>1. IInv /\ SemInv' /\ loaded' = loaded /\ "w_out" \in InWrite \cup InRead
    BY <1>1 DEF LInv, IInv, InWrite
  <2>. QED BY <1>1, <2>1, EnterFacts
<1>3. WroteOK(t)' /\ ReadOK(t)'
  <2>1. wr' = [wr EXCEPT ![t] = [WriteStart(t, payload) EXCEPT !.retval = -ENOMEM]]
    BY DEF WriteNoMemory
  <2>2. -ENOMEM \in Int /\ -ENOMEM < 0 /\ stream' = stream
    BY <1>1 DEF ENOMEM, history
  <2>. QED BY <1>2, <2>1, <2>2, NothingTaken DEF LInv
<1>4. mem' = mem /\ allocated' = allocated /\ fpos' = fpos /\ FreeIsEmpty'
  BY <1>1 DEF heap, LInv, FreeIsEmpty
<1>5. NULL \in Address /\ Private(NULL)
  BY PtrAssumption DEF Address, Private
<1>. QED BY <1>1, <1>2, <1>3, <1>4, <1>5, DeviceKept

\* Moving the unfinished line to a buffer of its own leaves the lines alone and
\* keeps its bytes, in front of the new ones.
LEMMA GrowLines ==
  ASSUME LInv, loaded, loaded', \A u \in Thread : pc[u] # "w_loop",
         UNCHANGED history,
         NEW count \in Nat, NEW bytes \in Seq(Byte),
         NEW p \in Kmalloc(curr_input.size + count, allocated) \ {NULL},
         GrowInput(p, bytes),
         NEW n \in Nat, n = curr_input.size
  PROVE  /\ RingLinesOK' /\ BytesOK' /\ FreeIsEmpty' /\ TailIs(n)'
         /\ curr_input'.size = n
         /\ \A j \in 1..Len(bytes) : mem'[p][n + j] = bytes[j]
<1>. DEFINE old == IF curr_input.size > 0 THEN {curr_input.buffptr} ELSE {}
            buf == mem[curr_input.buffptr]
<1>1. /\ allocated' = (allocated \cup ({p} \cap Ptr)) \ old
      /\ mem' = [a \in Address |-> IF a = p THEN Pending \o bytes
                                   ELSE IF a \in old THEN <<>> ELSE mem[a]]
      /\ curr_input' = [curr_input EXCEPT !.buffptr = p]
      /\ UNCHANGED <<entry, in_offs, out_offs, full, total_bytes_evicted, marks>>
      /\ stream' = stream
  BY DEF GrowInput, history
<1>2. /\ IInv /\ RingLinesOK /\ BytesOK /\ FreeIsEmpty /\ TailIs(n)
  BY DEF LInv, TailOK
<1>3. /\ curr_input \in [buffptr : Address, size : Nat]
      /\ mem \in [Address -> Seq(Byte)] /\ HeapOK
      /\ stream \in Seq(Byte) /\ Len(stream) \in Nat
  BY <1>2, RingFacts DEF IInv, TypeOK
<1>4. p \in Address /\ (p \in Ptr \ allocated \/ p = ZERO_SIZE_PTR)
  <2>1. curr_input.size + count \in Nat
    BY <1>3
  <2>. QED BY <2>1, KmallocResult
<1>5. old = {} \/ old = {curr_input.buffptr}
  OBVIOUS
<1>. HIDE DEF old
<1>6. RingLinesOK'
  <2>1. Len(stream') \in Nat /\ Len(stream) <= Len(stream')
    BY <1>1, <1>3
  <2>. QED BY <1>1, <1>2, <2>1, RingLinesFrame
<1>7. BytesOK'
  <2>1. ASSUME NEW l \in LineNumbers
        PROVE  mem'[entry[LineSlot(l)].buffptr] = mem[entry[LineSlot(l)].buffptr]
    <3>1. /\ entry[LineSlot(l)].buffptr \in Ptr /\ entry[LineSlot(l)].buffptr \in allocated
          /\ entry[LineSlot(l)].buffptr # curr_input.buffptr
      BY <1>2, LineFacts DEF RingLinesOK
    <3>2. entry[LineSlot(l)].buffptr # p /\ entry[LineSlot(l)].buffptr \notin old
          /\ entry[LineSlot(l)].buffptr \in Address
      BY <1>4, <1>5, <3>1, PtrAssumption DEF Address
    <3>. QED BY <1>1, <3>2
  <2>. QED BY <1>1, <1>2, <2>1, BytesFrame
<1>8. FreeIsEmpty'
  <2>. SUFFICES ASSUME NEW q \in Ptr \ allocated' PROVE mem'[q] = <<>>
    BY DEF FreeIsEmpty
  <2>1. q \in Address
    BY DEF Address
  <2>2. q # p
    <3>1. curr_input.buffptr \in Ptr => curr_input.buffptr \in allocated
      BY <1>3 DEF HeapOK
    <3>2. p \in Ptr => p \notin old
      BY <1>4, <1>5, <3>1, PtrAssumption
    <3>. QED BY <1>1, <1>4, <3>2, PtrAssumption
  <2>3. q \in old \/ mem[q] = <<>>
    BY <1>1, <1>2 DEF FreeIsEmpty
  <2>. QED BY <1>1, <2>1, <2>2, <2>3
<1>9. /\ Pending \in Seq(Byte) /\ Len(Pending) = n
      /\ \A j \in 1..n : Pending[j] = buf[j]
  <2>1. Pending \in Seq(Byte) /\ Len(Pending) = n
    BY <1>2, PendingBytes
  <2>2. buf \in Seq(Byte) /\ 0 + n <= Len(buf) /\ 0 + 1 = 1 /\ 0 + n = n
    BY <1>3 DEF HeapOK
  <2>. HIDE DEF buf
  <2>3. \A j \in 1..n : SubSeq(buf, 0 + 1, 0 + n)[j] = buf[0 + j]
    BY <2>2, SubSeqBytes
  <2>4. \A j \in 1..n : SubSeq(buf, 1, n)[j] = buf[j]
    BY <2>2, <2>3
  <2>. QED BY <2>1, <2>4 DEF Pending, buf
<1>10. /\ mem'[p] = Pending \o bytes
       /\ curr_input'.buffptr = p /\ curr_input'.size = n
  BY <1>1, <1>3, <1>4
<1>11. /\ \A j \in 1..n : (Pending \o bytes)[j] = Pending[j]
       /\ \A j \in 1..Len(bytes) : (Pending \o bytes)[n + j] = bytes[j]
  <2>1. PICK s \in Seq(Byte) : s = Pending /\ Len(s) = n
    BY <1>9
  <2>2. /\ \A j \in 1..Len(s) : (s \o bytes)[j] = s[j]
        /\ \A j \in 1..Len(bytes) : (s \o bytes)[Len(s) + j] = bytes[j]
    BY ConcatBytes
  <2>. QED BY <2>1, <2>2
<1>12. TailIs(n)'
  <2>1. ASSUME NEW j \in 1..n
        PROVE  mem'[p][0 + j] = stream[Mark(Len(marks)) + j]
    <3>1. buf[0 + j] = stream[Mark(Len(marks)) + j]
      BY <1>2 DEF TailIs, Holds
    <3>2. 0 + j = j
      OBVIOUS
    <3>. QED BY <1>9, <1>10, <1>11, <3>1, <3>2
  <2>2. Mark(Len(marks))' = Mark(Len(marks))
    BY <1>1 DEF Mark
  <2>. QED BY <1>1, <1>2, <1>10, <2>1, <2>2 DEF TailIs, Holds
<1>. QED BY <1>6, <1>7, <1>8, <1>10, <1>11, <1>12

LEMMA WriteFaultLines ==
  ASSUME LInv, IInv', NEW t \in Thread, NEW payload \in Payloads, WriteFault(t, payload)
  PROVE  LInv'
<1>1. /\ Goto(t, "write", "w_out") /\ pc[t] = "write" /\ Down
      /\ UNCHANGED <<loaded, fpos, history>> /\ stream' = stream
  BY DEF WriteFault, Goto, history
<1>2. /\ t \in Holders' /\ pc'[t] = "w_out" /\ pc' = [pc EXCEPT ![t] = "w_out"] /\ loaded
  <2>1. IInv /\ SemInv' /\ loaded' = loaded /\ "w_out" \in InWrite \cup InRead
    BY <1>1 DEF LInv, IInv, InWrite
  <2>. QED BY <1>1, <2>1, EnterFacts
<1>3. \A u \in Thread : pc[u] # "w_loop"
  BY <1>1, <1>2 DEF Down, LInv, IInv, SemInv, SemaphoreHeldByOne, Holders, InWrite
<1>4. PICK n \in Nat : n = curr_input.size
  BY DEF LInv, IInv, TypeOK
<1>5. RingLinesOK' /\ BytesOK' /\ FreeIsEmpty' /\ TailIs(n)' /\ curr_input'.size = n
  <2>1. PICK p \in Kmalloc(curr_input.size + Len(payload), allocated) \ {NULL} :
          GrowInput(p, <<>>)
    BY DEF WriteFault
  <2>2. Len(payload) \in Nat /\ <<>> \in Seq(Byte)
    <3>1. payload \in Seq(Byte)
      BY CallAssumption
    <3>. QED BY <3>1
  <2>. QED BY <1>1, <1>2, <1>3, <1>4, <2>1, <2>2, GrowLines
<1>6. TailIs(curr_input.size)'
  BY <1>5 DEF TailIs
<1>7. WroteOK(t)' /\ ReadOK(t)'
  <2>1. wr' = [wr EXCEPT ![t] = [WriteStart(t, payload) EXCEPT !.retval = -EFAULT]]
    BY DEF WriteFault
  <2>2. -EFAULT \in Int /\ -EFAULT < 0
    BY DEF EFAULT
  <2>. QED BY <1>1, <1>2, <2>1, <2>2, NothingTaken DEF LInv
<1>8. "w_out" # "closed" /\ "w_out" # "w_loop" /\ \A u \in Thread \ {t} : fpos'[u] = fpos[u]
  BY <1>1
<1>. QED BY <1>2, <1>5, <1>6, <1>7, <1>8, HolderStep

LEMMA WriteBeginLines ==
  ASSUME LInv, IInv', NEW t \in Thread, NEW payload \in Payloads, WriteBegin(t, payload)
  PROVE  LInv'
<1>1. /\ Goto(t, "write", "w_loop") /\ pc[t] = "write" /\ Down
      /\ UNCHANGED <<loaded, fpos, history>> /\ stream' = stream
  BY DEF WriteBegin, Goto, history
<1>2. /\ t \in Holders' /\ pc'[t] = "w_loop" /\ pc' = [pc EXCEPT ![t] = "w_loop"] /\ loaded
  <2>1. IInv /\ SemInv' /\ loaded' = loaded /\ "w_loop" \in InWrite \cup InRead
    BY <1>1 DEF LInv, IInv, InWrite
  <2>. QED BY <1>1, <2>1, EnterFacts
<1>3. \A u \in Thread : pc[u] # "w_loop"
  BY <1>1, <1>2 DEF Down, LInv, IInv, SemInv, SemaphoreHeldByOne, Holders, InWrite
<1>4. PICK n \in Nat : n = curr_input.size
  BY DEF LInv, IInv, TypeOK
<1>5. PICK p \in Kmalloc(curr_input.size + Len(payload), allocated) \ {NULL} :
        /\ GrowInput(p, payload)
        /\ wr' = [wr EXCEPT ![t] = [WriteStart(t, payload) EXCEPT !.new_buf = p]]
  BY DEF WriteBegin
<1>6. payload \in Seq(Byte) /\ Len(payload) \in Nat /\ Len(stream) \in Nat
  <2>1. payload \in Seq(Byte)
    BY CallAssumption
  <2>. QED BY <2>1, RingFacts DEF LInv
<1>7. /\ RingLinesOK' /\ BytesOK' /\ FreeIsEmpty' /\ TailIs(n)'
      /\ \A j \in 1..Len(payload) : mem'[p][n + j] = payload[j]
  BY <1>1, <1>2, <1>3, <1>4, <1>5, <1>6, GrowLines
<1>8. /\ wr'[t].buf = payload /\ wr'[t].count = Len(payload) /\ wr'[t].i = 0
      /\ wr'[t].curr_size = n /\ wr'[t].new_buf = p /\ wr'[t].start = Len(stream)
  <2>. DEFINE start == WriteStart(t, payload)
              w == [start EXCEPT !.new_buf = p]
  <2>1. /\ start \in WriteLocals /\ start.buf = payload /\ start.count = Len(payload)
        /\ start.i = 0 /\ start.curr_size = n /\ start.start = Len(stream)
    BY <1>4, WriteStartType DEF LInv
  <2>. HIDE DEF start
  <2>2. /\ w.buf = payload /\ w.count = Len(payload) /\ w.i = 0
        /\ w.curr_size = n /\ w.new_buf = p /\ w.start = Len(stream)
    BY <2>1 DEF WriteLocals
  <2>3. wr' = [wr EXCEPT ![t] = w] /\ wr \in [Thread -> WriteLocals]
    BY <1>5 DEF start, LInv, IInv, TypeOK
  <2>. HIDE DEF w
  <2>. QED BY <2>2, <2>3
<1>9. TailIs(wr[t].curr_size)'
  BY <1>7, <1>8 DEF TailIs
<1>10. WroteOK(t)'
  <2>1. ASSUME NEW j \in 1..Len(payload) - 0
        PROVE  mem'[p][n + j] = payload[0 + j]
    <3>1. j \in 1..Len(payload) /\ 0 + j = j
      BY <1>6
    <3>. QED BY <1>7, <3>1
  <2>2. Len(stream') = Len(stream) + 0
    BY <1>1, <1>6
  <2>. QED BY <1>2, <1>8, <2>1, <2>2 DEF WroteOK, Holds
<1>11. ReadOK(t)'
  BY <1>2 DEF ReadOK, InRead
<1>12. "w_loop" # "closed" /\ \A u \in Thread \ {t} : fpos'[u] = fpos[u]
  BY <1>1
<1>. QED BY <1>2, <1>7, <1>9, <1>10, <1>11, <1>12, HolderStep

\* The byte an iteration of the loop takes is the next one of the caller's
\* buffer, and the one new_buf has after the unfinished line.
LEMMA TakenByte ==
  ASSUME LInv, NEW t \in Thread, pc[t] = "w_loop", wr[t].i < wr[t].count,
         stream' = Append(stream, ByteAt(t))
  PROVE  LET w == wr[t]
         IN  /\ Len(stream') = Len(stream) + 1
             /\ \A j \in 1..Len(stream) : stream'[j] = stream[j]
             /\ Len(stream) + 1 = Mark(Len(marks)) + (w.curr_size + 1)
             /\ \A j \in 1..w.curr_size + 1 :
                  mem[w.new_buf][j] = stream'[Mark(Len(marks)) + j]
             /\ w.count = Len(w.buf) /\ w.i + 1 <= Len(w.buf)
             /\ Len(stream') = w.start + (w.i + 1)
             /\ \A j \in 1..w.i + 1 : stream'[w.start + j] = w.buf[j]
             /\ \A j \in 1..w.count - (w.i + 1) :
                  mem[w.new_buf][w.curr_size + 1 + j] = w.buf[w.i + 1 + j]
<1>. DEFINE w == wr[t]
            N == Len(stream)
            end == Mark(Len(marks))
            new == mem[w.new_buf]
<1>1. /\ w.count \in Nat /\ w.i \in Nat /\ w.curr_size \in Nat /\ w.start \in Nat
      /\ w.buf \in Seq(Byte) /\ stream \in Seq(Byte) /\ N \in Nat /\ end \in Nat
      /\ WroteOK(t) /\ WriterOK(t) /\ TailIs(w.curr_size) /\ w.i < w.count
  BY WriteFacts DEF InWrite
<1>2. /\ w.count = Len(w.buf) /\ N = w.start + w.i
      /\ \A j \in 1..w.i : stream[w.start + j] = w.buf[j]
      /\ Holds(w.new_buf, w.curr_size, w.buf, w.i, w.count - w.i)
  BY <1>1 DEF WroteOK
<1>3. N = end + w.curr_size /\ \A j \in 1..w.curr_size : new[0 + j] = stream[end + j]
  BY <1>1 DEF TailIs, Holds, WriterOK
<1>4. \A j \in 1..w.count - w.i : new[w.curr_size + j] = w.buf[w.i + j]
  BY <1>2 DEF Holds
<1>5. ByteAt(t) = new[w.curr_size + 1]
  BY DEF ByteAt
<1>. HIDE DEF w, N, end, new
<1>6. /\ Len(stream') = N + 1
      /\ \A j \in 1..N : stream'[j] = stream[j]
      /\ stream'[N + 1] = new[w.curr_size + 1]
  BY <1>1, <1>5 DEF N
<1>7. /\ w.count \in Nat /\ w.i \in Nat /\ w.curr_size \in Nat /\ w.start \in Nat
       /\ N \in Nat /\ end \in Nat /\ w.i < w.count
  BY <1>1
<1>8. N + 1 = end + (w.curr_size + 1) /\ N + 1 = w.start + (w.i + 1) /\ w.i + 1 <= w.count
  <2>1. N = w.start + w.i /\ N = end + w.curr_size
    BY <1>2, <1>3
  <2>. QED BY <1>7, <2>1
<1>9. ASSUME NEW j \in 1..w.curr_size + 1
      PROVE  new[j] = stream'[end + j]
  <2>1. CASE j = w.curr_size + 1
    <3>1. end + j = N + 1
      BY <1>8, <2>1
    <3>. QED BY <1>6, <2>1, <3>1
  <2>2. CASE j # w.curr_size + 1
    <3>1. j \in 1..w.curr_size /\ 0 + j = j /\ end + j \in 1..N
      BY <1>1, <1>3, <2>2
    <3>. QED BY <1>3, <1>6, <3>1
  <2>. QED BY <2>1, <2>2
<1>10. ASSUME NEW j \in 1..w.i + 1
      PROVE  stream'[w.start + j] = w.buf[j]
  <2>1. CASE j = w.i + 1
    <3>1. w.start + j = N + 1 /\ 1 \in 1..w.count - w.i
      BY <1>1, <1>8, <2>1
    <3>2. new[w.curr_size + 1] = w.buf[w.i + 1]
      BY <1>4, <3>1
    <3>. QED BY <1>6, <2>1, <3>1, <3>2
  <2>2. CASE j # w.i + 1
    <3>1. j \in 1..w.i /\ w.start + j \in 1..N
      <4>1. N = w.start + w.i
        BY <1>2
      <4>. QED BY <1>7, <2>2, <4>1
    <3>. QED BY <1>2, <1>6, <3>1
  <2>. QED BY <2>1, <2>2
<1>11. ASSUME NEW j \in 1..w.count - (w.i + 1)
       PROVE  new[w.curr_size + 1 + j] = w.buf[w.i + 1 + j]
  <2>. DEFINE k == j + 1
  <2>1. /\ k \in 1..w.count - w.i
        /\ w.curr_size + k = w.curr_size + 1 + j /\ w.i + k = w.i + 1 + j
    <3>1. w.count - (w.i + 1) \in Int /\ w.count - w.i = w.count - (w.i + 1) + 1
      BY <1>7
    <3>2. j \in Int /\ 1 <= j /\ j <= w.count - (w.i + 1)
      BY <3>1
    <3>3. k \in 1..w.count - w.i
      BY <3>1, <3>2
    <3>. QED BY <1>7, <3>2, <3>3
  <2>. HIDE DEF k
  <2>2. new[w.curr_size + k] = w.buf[w.i + k]
    BY <1>4, <2>1
  <2>. QED BY <2>1, <2>2
<1>. QED BY <1>2, <1>6, <1>8, <1>9, <1>10, <1>11 DEF w, N, end, new

LEMMA WriteByteLines ==
  ASSUME LInv, IInv', NEW t \in Thread, WriteByte(t)
  PROVE  LInv'
<1>1. /\ pc[t] = "w_loop" /\ pc[t] \in InWrite /\ wr[t].i < wr[t].count
      /\ stream' = Append(stream, ByteAt(t))
      /\ wr' = [wr EXCEPT ![t].curr_size = @ + 1, ![t].i = @ + 1]
      /\ UNCHANGED <<loaded, entry, curr_input, in_offs, out_offs, full, total_bytes_evicted>>
      /\ UNCHANGED <<mem, allocated, pc, fpos, marks>>
  BY DEF WriteByte, MoreToWrite, InWrite, dev, heap
<1>. DEFINE w == wr[t]
            end == Mark(Len(marks))
<1>2. /\ IInv /\ RingLinesOK /\ BytesOK /\ FreeIsEmpty /\ t \in Holders /\ WriterOK(t)
      /\ pc \in [Thread -> PC] /\ wr \in [Thread -> WriteLocals] /\ w \in WriteLocals
      /\ w.curr_size \in Nat /\ w.i \in Nat /\ Len(stream) \in Nat
  BY <1>1, WriteFacts
<1>3. /\ Len(stream') = Len(stream) + 1
      /\ \A j \in 1..Len(stream) : stream'[j] = stream[j]
      /\ Len(stream) + 1 = end + (w.curr_size + 1)
      /\ \A j \in 1..w.curr_size + 1 : mem[w.new_buf][j] = stream'[end + j]
      /\ w.count = Len(w.buf) /\ Len(stream') = w.start + (w.i + 1)
      /\ \A j \in 1..w.i + 1 : stream'[w.start + j] = w.buf[j]
      /\ \A j \in 1..w.count - (w.i + 1) :
           mem[w.new_buf][w.curr_size + 1 + j] = w.buf[w.i + 1 + j]
  BY <1>1, TakenByte
<1>4. /\ wr'[t].buf = w.buf /\ wr'[t].count = w.count /\ wr'[t].i = w.i + 1
      /\ wr'[t].curr_size = w.curr_size + 1 /\ wr'[t].new_buf = w.new_buf
      /\ wr'[t].start = w.start
  BY <1>1, <1>2 DEF WriteLocals
<1>5. RingLinesOK'
  <2>1. Len(stream') \in Nat /\ Len(stream) <= Len(stream')
    BY <1>2, <1>3
  <2>. QED BY <1>1, <1>2, <2>1, RingLinesFrame
<1>6. BytesOK'
  BY <1>1, <1>2, <1>3, BytesFrame
<1>7. TailIs(wr[t].curr_size)'
  <2>1. curr_input'.buffptr = w.new_buf /\ Mark(Len(marks))' = end
    BY <1>1, <1>2 DEF WriterOK, Mark
  <2>2. ASSUME NEW j \in 1..w.curr_size + 1
        PROVE  mem'[w.new_buf][0 + j] = stream'[end + j]
    <3>1. 0 + j = j
      BY <1>2
    <3>. HIDE DEF w, end
    <3>. QED BY <1>1, <1>3, <3>1
  <2>. HIDE DEF w, end
  <2>. QED BY <1>3, <1>4, <2>1, <2>2 DEF TailIs, Holds
<1>8. WroteOK(t)'
  <2>1. pc'[t] = "w_loop" /\ mem' = mem
    BY <1>1
  <2>. HIDE DEF w
  <2>. QED BY <1>3, <1>4, <2>1 DEF WroteOK, Holds
<1>9. ReadOK(t)' /\ FreeIsEmpty'
  BY <1>1, <1>2 DEF ReadOK, InRead, FreeIsEmpty
<1>10. pc' = [pc EXCEPT ![t] = "w_loop"] /\ "w_loop" # "closed"
  BY <1>1, <1>2
<1>11. \A u \in Thread \ {t} : fpos'[u] = fpos[u]
  BY <1>1
<1>. QED BY <1>2, <1>5, <1>6, <1>7, <1>8, <1>9, <1>10, <1>11, HolderStep

LEMMA WriteEndLines ==
  ASSUME LInv, IInv', NEW t \in Thread, WriteEnd(t)
  PROVE  LInv'
<1>1. /\ pc[t] = "w_loop" /\ pc[t] \in InWrite /\ ~(wr[t].i < wr[t].count)
      /\ pc' = [pc EXCEPT ![t] = "w_out"]
      /\ curr_input' = [buffptr |-> wr[t].new_buf, size |-> wr[t].curr_size]
      /\ wr' = [wr EXCEPT ![t].retval = wr[t].count]
      /\ UNCHANGED <<loaded, entry, in_offs, out_offs, full, total_bytes_evicted>>
      /\ UNCHANGED <<mem, allocated, fpos, stream, marks>>
  BY DEF WriteEnd, MoreToWrite, Goto, InWrite, heap, history
<1>. DEFINE w == wr[t]
<1>2. /\ IInv /\ RingLinesOK /\ BytesOK /\ FreeIsEmpty /\ t \in Holders /\ WriterOK(t)
      /\ WroteOK(t) /\ TailIs(w.curr_size)
      /\ pc \in [Thread -> PC] /\ wr \in [Thread -> WriteLocals] /\ w \in WriteLocals
      /\ w.i \in Nat /\ w.count \in Nat /\ Len(stream) \in Nat
  BY <1>1, WriteFacts
<1>3. /\ w.i = w.count /\ w.new_buf = curr_input.buffptr
      /\ w.count = Len(w.buf) /\ Len(stream) = w.start + w.i
      /\ \A j \in 1..w.i : stream[w.start + j] = w.buf[j]
  BY <1>1, <1>2 DEF WriterOK, WroteOK
<1>4. wr'[t].buf = w.buf /\ wr'[t].retval = w.count /\ wr'[t].start = w.start
  BY <1>1, <1>2 DEF WriteLocals
<1>5. RingLinesOK' /\ BytesOK'
  BY <1>1, <1>2, RingLinesFrame, BytesFrame
<1>6. TailIs(curr_input.size)'
  <2>1. curr_input'.buffptr = curr_input.buffptr /\ curr_input'.size = w.curr_size
    BY <1>1, <1>3
  <2>2. Mark(Len(marks))' = Mark(Len(marks))
    BY <1>1 DEF Mark
  <2>. QED BY <1>1, <1>2, <2>1, <2>2 DEF TailIs, Holds
<1>7. WroteOK(t)'
  <2>1. pc'[t] = "w_out" /\ stream' = stream
    BY <1>1, <1>2
  <2>2. ~(w.count < 0) /\ w.count <= Len(w.buf)
    BY <1>2, <1>3
  <2>. HIDE DEF w
  <2>. QED BY <1>3, <1>4, <2>1, <2>2 DEF WroteOK
<1>8. ReadOK(t)' /\ FreeIsEmpty'
  BY <1>1, <1>2 DEF ReadOK, InRead, FreeIsEmpty
<1>9. "w_out" # "closed" /\ "w_out" # "w_loop" /\ \A u \in Thread \ {t} : fpos'[u] = fpos[u]
  BY <1>1
<1>. QED BY <1>1, <1>2, <1>5, <1>6, <1>7, <1>8, <1>9, HolderStep

\* A commit of the bytes up to the newline; what the caller gave after it moves
\* to a buffer of its own or, when there is none, was not taken.
LEMMA WriteNewlineLines ==
  ASSUME LInv, IInv', NEW t \in Thread, WriteNewline(t)
  PROVE  LInv'
<1>. DEFINE w == wr[t]
            size == w.curr_size + 1
            remaining == w.count - w.i - 1
            rest == SubSeq(mem[w.new_buf], w.curr_size + 2, w.curr_size + 1 + remaining)
            kept == allocated \ Evicted
<1>1. /\ pc[t] = "w_loop" /\ pc[t] \in InWrite /\ w.i < w.count
      /\ ByteAt(t) = Newline
      /\ CommitEntry(w.new_buf, size)
      /\ stream' = Append(stream, Newline) /\ marks' = Append(marks, Len(stream) + 1)
      /\ UNCHANGED <<loaded, fpos>>
  BY DEF WriteNewline, MoreToWrite, InWrite
<1>2. PICK p \in Kmalloc(remaining + 1, kept) :
        /\ allocated' = kept \cup ({p} \cap Ptr)
        /\ mem' = [a \in Address |-> IF a = p /\ p # NULL THEN rest
                                     ELSE IF a \in Evicted THEN <<>> ELSE mem[a]]
        /\ curr_input' = InputAfterLine(p, remaining)
        /\ wr' = [wr EXCEPT ![t].new_buf = p, ![t].curr_size = 0, ![t].i = @ + 1,
                            ![t].retval = IF p = NULL THEN ShortWrite(t) ELSE @]
        /\ pc' = [pc EXCEPT ![t] = IF p = NULL THEN "w_out" ELSE @]
  BY DEF WriteNewline
<1>3. /\ IInv /\ RingLinesOK /\ BytesOK /\ FreeIsEmpty /\ loaded /\ t \in Holders
      /\ WriterOK(t) /\ pc \in [Thread -> PC]
      /\ wr \in [Thread -> WriteLocals] /\ w \in WriteLocals
      /\ w.curr_size \in Nat /\ w.i \in Nat /\ w.count \in Nat
      /\ Len(stream) \in Nat /\ Len(marks) \in Nat /\ Mark(Len(marks)) \in Nat
      /\ w.new_buf \in Address /\ mem \in [Address -> Seq(Byte)]
  BY <1>1, WriteFacts
<1>4. /\ Len(stream') = Len(stream) + 1
      /\ \A j \in 1..Len(stream) : stream'[j] = stream[j]
      /\ Len(stream) + 1 = Mark(Len(marks)) + size
      /\ \A j \in 1..size : mem[w.new_buf][j] = stream'[Mark(Len(marks)) + j]
      /\ w.count = Len(w.buf) /\ w.i + 1 <= Len(w.buf) /\ Len(stream') = w.start + (w.i + 1)
      /\ \A j \in 1..w.i + 1 : stream'[w.start + j] = w.buf[j]
      /\ \A j \in 1..w.count - (w.i + 1) :
           mem[w.new_buf][w.curr_size + 1 + j] = w.buf[w.i + 1 + j]
  BY <1>1, TakenByte
<1>5. size \in Nat /\ remaining \in Nat /\ remaining = w.count - (w.i + 1)
  BY <1>1, <1>3
<1>6. /\ w.new_buf = curr_input.buffptr /\ HeapOK
      /\ Len(mem[w.new_buf]) = size + remaining /\ mem[w.new_buf] \in Seq(Byte)
  <2>1. /\ w.new_buf = curr_input.buffptr
        /\ Len(mem[w.new_buf]) = w.curr_size + (w.count - w.i)
    BY <1>1, <1>3 DEF WriterOK
  <2>2. mem[w.new_buf] \in Seq(Byte) /\ HeapOK
    BY <1>3 DEF IInv
  <2>3. w.curr_size + (w.count - w.i) = size + remaining
    <3>1. w.curr_size \in Nat /\ w.count \in Nat /\ w.i \in Nat
      BY <1>3
    <3>. HIDE DEF w
    <3>. QED BY <3>1
  <2>. QED BY <2>1, <2>2, <2>3
<1>7. w.new_buf \in Ptr /\ w.new_buf \in allocated /\ w.new_buf \notin Evicted
  <2>1. w.new_buf \in Ptr
    <3>1. mem[w.new_buf] # <<>>
      <4>1. size + remaining # 0
        BY <1>3, <1>5
      <4>. QED BY <1>6, <4>1
    <3>. QED BY <1>3, <1>6, <3>1 DEF HeapOK, Address
  <2>2. w.new_buf \in allocated
    BY <1>3, <1>6, <2>1 DEF HeapOK
  <2>3. \A i \in Slot : entry[i].buffptr # w.new_buf
    BY <1>3, <1>6, <2>1 DEF HeapOK
  <2>4. w.new_buf \notin Evicted
    <3>1. out_offs \in Slot
      BY <1>3, RingFacts
    <3>. QED BY <2>3, <3>1 DEF Evicted
  <2>. QED BY <2>1, <2>2, <2>4
<1>8. (p = NULL \/ p \in Ptr \ kept) /\ p \in Address
  <2>1. remaining + 1 \in Nat /\ remaining + 1 # 0
    BY <1>5
  <2>. QED BY <2>1, KmallocResult
<1>. HIDE DEF size, remaining, rest, kept
<1>9. \A q \in kept : mem'[q] = mem[q]
  <2>. SUFFICES ASSUME NEW q \in kept PROVE mem'[q] = mem[q]
    OBVIOUS
  <2>1. q \in Ptr /\ q \in Address /\ q \notin Evicted
    BY <1>3 DEF kept, IInv, TypeOK, Address
  <2>. QED BY <1>2, <1>8, <2>1, PtrAssumption
<1>10. RingLinesOK'
  BY <1>1, <1>3, <1>4, <1>5, CommitRingLines
<1>11. BytesOK'
  <2>1. w.new_buf \in allocated \ Evicted
    BY <1>7
  <2>2. \A q \in allocated \ Evicted : mem'[q] = mem[q]
    BY <1>9 DEF kept
  <2>. HIDE DEF w
  <2>. QED BY <1>1, <1>3, <1>4, <1>5, <1>7, <2>1, <2>2, CommitBytes
<1>12. FreeIsEmpty'
  <2>. SUFFICES ASSUME NEW q \in Ptr \ allocated' PROVE mem'[q] = <<>>
    BY DEF FreeIsEmpty
  <2>1. q \in Address /\ q # p /\ q \notin kept
    BY <1>2, <1>8, PtrAssumption DEF Address
  <2>2. q \in Evicted \/ mem[q] = <<>>
    BY <1>3, <2>1 DEF kept, FreeIsEmpty
  <2>. QED BY <1>2, <2>1, <2>2
<1>13. curr_input'.buffptr = p /\ curr_input'.size = IF p = NULL THEN 0 ELSE remaining
  BY <1>2 DEF InputAfterLine
<1>14. /\ wr'[t].buf = w.buf /\ wr'[t].count = w.count /\ wr'[t].i = w.i + 1
       /\ wr'[t].curr_size = 0 /\ wr'[t].new_buf = p /\ wr'[t].start = w.start
       /\ p = NULL => wr'[t].retval = w.i + 1
  <2>. DEFINE rv == IF p = NULL THEN ShortWrite(t) ELSE w.retval
              v == [w EXCEPT !.new_buf = p, !.curr_size = 0, !.i = w.i + 1, !.retval = rv]
  <2>1. p = NULL => rv = w.i + 1
    BY DEF ShortWrite
  <2>2. wr' = [wr EXCEPT ![t] = v]
    BY <1>2, <1>3
  <2>. HIDE DEF rv
  <2>3. /\ v.buf = w.buf /\ v.count = w.count /\ v.i = w.i + 1 /\ v.curr_size = 0
        /\ v.new_buf = p /\ v.start = w.start /\ v.retval = rv
    BY <1>3 DEF WriteLocals
  <2>. HIDE DEF v
  <2>. QED BY <1>3, <2>1, <2>2, <2>3
<1>15. TailIs(0)'
  <2>1. Mark(Len(marks))' = Len(stream')
    <3>1. PICK N \in Nat : N = Len(marks)
      BY <1>3
    <3>2. marks \in Seq(Nat) /\ Len(stream) + 1 \in Nat
      BY <1>3, RingFacts
    <3>3. Len(marks') = N + 1 /\ marks'[N + 1] = Len(stream) + 1 /\ N + 1 # 0
      BY <1>1, <3>1, <3>2
    <3>. QED BY <1>4, <3>3 DEF Mark
  <2>. QED BY <1>3, <1>4, <2>1 DEF TailIs, Holds
<1>16. ASSUME p = NULL
       PROVE  LInv'
  <2>1. pc' = [pc EXCEPT ![t] = "w_out"] /\ pc'[t] = "w_out"
    BY <1>2, <1>3, <1>16
  <2>2. WroteOK(t)' /\ ReadOK(t)'
    <3>1. ~(w.i + 1 < 0)
      BY <1>3
    <3>. HIDE DEF w
    <3>. QED BY <1>4, <1>14, <1>16, <2>1, <3>1 DEF WroteOK, ReadOK, InRead
  <2>3. TailIs(curr_input.size)'
    BY <1>13, <1>15, <1>16 DEF TailIs
  <2>4. "w_out" # "closed" /\ "w_out" # "w_loop" /\ \A u \in Thread \ {t} : fpos'[u] = fpos[u]
    BY <1>1
  <2>. QED BY <1>3, <1>10, <1>11, <1>12, <2>1, <2>2, <2>3, <2>4, HolderStep
<1>17. ASSUME p # NULL
       PROVE  LInv'
  <2>1. pc' = [pc EXCEPT ![t] = "w_loop"] /\ pc'[t] = "w_loop"
    BY <1>1, <1>2, <1>3, <1>17
  <2>2. mem'[p] = rest
    BY <1>2, <1>8, <1>17
  <2>3. ASSUME NEW j \in 1..remaining
        PROVE  rest[j] = w.buf[w.i + 1 + j]
    <3>. DEFINE src == mem[w.new_buf]
    <3>1. src \in Seq(Byte) /\ size \in Nat /\ remaining \in Nat /\ size + remaining <= Len(src)
      BY <1>5, <1>6
    <3>2. rest = SubSeq(src, size + 1, size + remaining)
      <4>1. w.curr_size + 2 = size + 1 /\ w.curr_size + 1 = size
        BY <1>3 DEF size
      <4>. QED BY <4>1 DEF rest
    <3>. HIDE DEF src
    <3>3. rest[j] = src[size + j]
      BY <3>1, <3>2, SubSeqBytes
    <3>4. src[w.curr_size + 1 + j] = w.buf[w.i + 1 + j]
      BY <1>4, <1>5 DEF src
    <3>. QED BY <3>3, <3>4 DEF size
  <2>4. WroteOK(t)' /\ ReadOK(t)'
    <3>1. \A j \in 1..w.count - (w.i + 1) : mem'[p][0 + j] = w.buf[w.i + 1 + j]
      <4>. SUFFICES ASSUME NEW j \in 1..w.count - (w.i + 1)
                    PROVE  mem'[p][0 + j] = w.buf[w.i + 1 + j]
        OBVIOUS
      <4>1. j \in 1..remaining /\ 0 + j = j
        BY <1>5
      <4>. QED BY <2>2, <2>3, <4>1
    <3>. HIDE DEF w
    <3>. QED BY <1>4, <1>14, <2>1, <3>1 DEF WroteOK, ReadOK, InRead, Holds
  <2>5. TailIs(wr[t].curr_size)'
    BY <1>14, <1>15 DEF TailIs
  <2>6. "w_loop" # "closed" /\ \A u \in Thread \ {t} : fpos'[u] = fpos[u]
    BY <1>1
  <2>. QED BY <1>3, <1>10, <1>11, <1>12, <2>1, <2>4, <2>5, <2>6, HolderStep
<1>. QED BY <1>16, <1>17

-----------------------------------------------------------------------------
(* Steps outside the handlers *)

\* A thread whose locals and file are left alone, and the device with them.
LEMMA SameCalls ==
  ASSUME UNCHANGED <<dev, mem, wr, rd, history>>, NEW t \in Thread,
         pc'[t] = pc[t], fpos'[t] = fpos[t], WroteOK(t), ReadOK(t)
  PROVE  (WroteOK(t) /\ ReadOK(t))'
<1>1. /\ UNCHANGED <<entry, in_offs, out_offs, full, total_bytes_evicted>>
      /\ UNCHANGED <<mem, wr, rd, stream, marks>>
  BY DEF dev, history
<1>2. WroteOK(t)'
  BY <1>1 DEF WroteOK, Holds
<1>3. ReadOK(t)'
  BY <1>1 DEF ReadOK, Copied, Holds, SnappedPos, NumEntries, FirstLine, Mark, SlotOf
<1>. QED BY <1>2, <1>3

\* A step that leaves device and heap alone, and nobody in the loop of a write
\* who was not there before.
LEMMA SameDevice ==
  ASSUME LInv, loaded' = loaded, UNCHANGED <<dev, heap, wr, history>>,
         \A u \in Thread : pc'[u] = "w_loop" <=> pc[u] = "w_loop"
  PROVE  RingLinesOK' /\ BytesOK' /\ TailOK' /\ FreeIsEmpty'
<1>1. /\ UNCHANGED <<entry, curr_input, in_offs, out_offs, full, total_bytes_evicted>>
      /\ UNCHANGED <<loaded, mem, allocated, wr, stream, marks>>
      /\ IInv /\ RingLinesOK /\ BytesOK /\ TailOK /\ FreeIsEmpty
  BY DEF dev, heap, history, LInv
<1>2. RingLinesOK'
  <2>1. Len(stream') \in Nat /\ Len(stream) <= Len(stream')
    BY <1>1, RingFacts
  <2>. QED BY <1>1, <2>1, RingLinesFrame
<1>3. BytesOK'
  BY <1>1, BytesFrame
<1>4. TailOK'
  <2>1. \A n : TailIs(n) => TailIs(n)'
    BY <1>1 DEF TailIs, Holds, Mark
  <2>2. \A u \in Thread : TailIs(wr[u].curr_size) => TailIs(wr[u].curr_size)'
    BY <1>1, <2>1 DEF TailIs
  <2>3. TailIs(curr_input.size) => TailIs(curr_input.size)'
    BY <1>1, <2>1 DEF TailIs
  <2>. QED BY <1>1, <2>2, <2>3 DEF TailOK
<1>5. FreeIsEmpty'
  BY <1>1 DEF FreeIsEmpty
<1>. QED BY <1>2, <1>3, <1>4, <1>5

LEMMA FileLines ==
  ASSUME LInv, IInv', NEW t \in Thread, Open(t) \/ Release(t) \/ Call(t)
  PROVE  LInv'
<1>1. /\ UNCHANGED <<loaded, dev, heap, wr, rd, history>>
      /\ pc[t] \notin InWrite \cup InRead /\ pc'[t] \notin InWrite \cup InRead
      /\ \A u \in Thread \ {t} : pc'[u] = pc[u] /\ fpos'[u] = fpos[u]
      /\ pc'[t] = "closed" => fpos'[t] = 0
  BY DEF LInv, IInv, TypeOK, SemInv, Open, Release, Call, Goto, InWrite, InRead
<1>2. RingLinesOK' /\ BytesOK' /\ TailOK' /\ FreeIsEmpty'
  <2>1. \A u \in Thread : pc'[u] = "w_loop" <=> pc[u] = "w_loop"
    BY <1>1 DEF InWrite
  <2>. QED BY <1>1, <2>1, SameDevice
<1>3. CallsOK'
  <2>1. ASSUME NEW u \in Thread \ {t}
        PROVE  (WroteOK(u) /\ ReadOK(u))'
    BY <1>1, SameCalls DEF heap, LInv, CallsOK
  <2>2. (WroteOK(t) /\ ReadOK(t))'
    BY <1>1 DEF WroteOK, ReadOK, InWrite, InRead
  <2>. QED BY <2>1, <2>2 DEF CallsOK
<1>4. FilesOK'
  BY <1>1 DEF LInv, FilesOK
<1>. QED BY <1>2, <1>3, <1>4 DEF LInv

\* The reset device has no line, and every file was closed before the reset.
LEMMA LoadLines ==
  ASSUME LInv, IInv', InitModule \/ InitModuleFails
  PROVE  LInv'
<1>1. /\ ~loaded /\ UNCHANGED <<heap, pc, fpos>>
      /\ curr_input' = NoEntry /\ in_offs' = 0 /\ out_offs' = 0 /\ ~full'
      /\ total_bytes_evicted' = 0 /\ stream' = <<>> /\ marks' = <<>>
  BY DEF InitModule, InitModuleFails, ResetDevice
<1>2. Len(stream') = 0 /\ Len(marks') = 0
  BY <1>1
<1>3. NumEntries' = 0 /\ FirstLine' = 0 /\ LineNumbers' = {}
  <2>1. in_offs' \in Slot /\ out_offs' \in Slot /\ full' \in BOOLEAN
    BY DEF IInv, TypeOK
  <2>2. NumEntries' = 0
    BY <1>1, <2>1, EntriesBetweenValue DEF NumEntries
  <2>. QED BY <1>2, <2>2 DEF FirstLine, LineNumbers
<1>4. RingLinesOK'
  BY <1>1, <1>2, <1>3 DEF RingLinesOK, MarksOK, CountOK, SizesOK, EvictedBytesExact, Mark
<1>5. BytesOK'
  BY <1>3 DEF BytesOK
<1>6. \A u \in Thread : pc'[u] = "closed"
  BY <1>1 DEF LInv, IInv, SemInv
<1>7. TailOK'
  <2>1. curr_input'.size = 0
    BY <1>1 DEF NoEntry
  <2>2. TailIs(curr_input.size)'
    BY <1>2, <2>1 DEF TailIs, Holds, Mark
  <2>. QED BY <1>6, <2>2 DEF TailOK
<1>8. CallsOK'
  BY <1>6 DEF CallsOK, WroteOK, ReadOK, InRead
<1>9. FreeIsEmpty' /\ FilesOK'
  BY <1>1 DEF LInv, FreeIsEmpty, FilesOK, heap
<1>. QED BY <1>4, <1>5, <1>7, <1>8, <1>9 DEF LInv

LEMMA CleanupLines ==
  ASSUME LInv, IInv', CleanupModule
  PROVE  LInv'
<1>1. /\ ~loaded' /\ \A t \in Thread : pc[t] = "closed"
      /\ allocated' = allocated \ FreedAtExit
      /\ mem' = [a \in Address |-> IF a \in FreedAtExit THEN <<>> ELSE mem[a]]
      /\ UNCHANGED <<entry, in_offs, out_offs, full, total_bytes_evicted>>
      /\ UNCHANGED <<pc, fpos, stream, marks>>
  BY DEF CleanupModule, dev, history
<1>2. RingLinesOK'
  <2>1. IInv /\ RingLinesOK
    BY DEF LInv
  <2>2. Len(stream') \in Nat /\ Len(stream) <= Len(stream')
    BY <1>1, <2>1, RingFacts
  <2>. QED BY <1>1, <2>1, <2>2, RingLinesFrame
<1>3. BytesOK' /\ TailOK'
  BY <1>1 DEF BytesOK, TailOK
<1>4. CallsOK'
  BY <1>1 DEF CallsOK, WroteOK, ReadOK, InRead
<1>5. FreeIsEmpty' /\ FilesOK'
  BY <1>1 DEF LInv, FreeIsEmpty, FilesOK, Address
<1>. QED BY <1>2, <1>3, <1>4, <1>5 DEF LInv

-----------------------------------------------------------------------------
(* The invariant *)

LEMMA InitLInv == Init => LInv
<1>. SUFFICES ASSUME Init PROVE LInv
  OBVIOUS
<1>1. IInv
  BY InitIInv
<1>2. /\ ~loaded /\ in_offs = 0 /\ ~full /\ total_bytes_evicted = 0
      /\ stream = <<>> /\ marks = <<>> /\ Len(stream) = 0 /\ Len(marks) = 0
      /\ \A p \in Ptr : mem[p] = <<>>
      /\ \A t \in Thread : pc[t] = "closed" /\ fpos[t] = 0
  BY DEF Init, Address
<1>3. NumEntries = 0 /\ FirstLine = 0 /\ LineNumbers = {}
  <2>1. NumEntries = 0
    BY <1>1, <1>2, RingFacts
  <2>. QED BY <1>2, <2>1 DEF FirstLine, LineNumbers
<1>4. RingLinesOK
  BY <1>2, <1>3 DEF RingLinesOK, MarksOK, CountOK, SizesOK, EvictedBytesExact, Mark
<1>5. BytesOK /\ TailOK
  BY <1>2 DEF BytesOK, TailOK
<1>6. CallsOK
  BY <1>2 DEF CallsOK, WroteOK, ReadOK, InRead
<1>7. FreeIsEmpty /\ FilesOK
  BY <1>2 DEF FreeIsEmpty, FilesOK
<1>. QED BY <1>1, <1>4, <1>5, <1>6, <1>7 DEF LInv

LEMMA StepLInv == LInv /\ [Next]_vars => LInv'
<1>. SUFFICES ASSUME LInv, [Next]_vars PROVE LInv'
  OBVIOUS
<1>1. IInv'
  BY StepIInv DEF LInv
<1>2. CASE InitModule \/ InitModuleFails \/ CleanupModule
  BY <1>1, <1>2, LoadLines, CleanupLines
<1>3. ASSUME NEW t \in Thread, Open(t) \/ Release(t) \/ Call(t)
      PROVE  LInv'
  BY <1>1, <1>3, FileLines
<1>4. ASSUME NEW t \in Thread, Write(t)
      PROVE  LInv'
  BY <1>1, <1>4, WriteNoMemoryLines, WriteFaultLines, WriteBeginLines, WriteByteLines,
     WriteNewlineLines, WriteEndLines, WriteOutLines DEF Write
<1>5. ASSUME NEW t \in Thread, Read(t)
      PROVE  LInv'
  BY <1>1, <1>5, ReadNoMemoryLines, ReadBeginLines, FindNextLines, FindHitLines,
     FindEofLines, CopyEntryLines, CopyDoneLines, CopyToUserLines, ReadOutLines DEF Read
<1>6. CASE UNCHANGED vars
  <2>1. /\ UNCHANGED <<loaded, dev, heap, pc, wr, rd, fpos, history>>
    BY <1>6 DEF vars
  <2>2. RingLinesOK' /\ BytesOK' /\ TailOK' /\ FreeIsEmpty'
    BY <2>1, SameDevice
  <2>3. CallsOK'
    <3>1. ASSUME NEW t \in Thread
          PROVE  (WroteOK(t) /\ ReadOK(t))'
      BY <2>1, SameCalls DEF heap, LInv, CallsOK
    <3>. QED BY <3>1 DEF CallsOK
  <2>4. FilesOK'
    BY <2>1 DEF LInv, FilesOK
  <2>. QED BY <1>1, <2>2, <2>3, <2>4 DEF LInv
<1>. QED BY <1>2, <1>3, <1>4, <1>5, <1>6 DEF Next

-----------------------------------------------------------------------------
(* What the invariant says of the ring, of a read and of a write *)

\* Stretches of the same length with the same bytes are equal.
LEMMA SameStretch ==
  ASSUME NEW s \in Seq(Byte), NEW r \in Seq(Byte), NEW at \in Nat, NEW from \in Nat,
         NEW n \in Nat, at + n <= Len(s), from + n <= Len(r),
         \A j \in 1..n : s[at + j] = r[from + j]
  PROVE  SubSeq(s, at + 1, at + n) = SubSeq(r, from + 1, from + n)
<1>. DEFINE a == SubSeq(s, at + 1, at + n)
            b == SubSeq(r, from + 1, from + n)
<1>1. a \in Seq(Byte) /\ Len(a) = n /\ \A j \in 1..n : a[j] = s[at + j]
  BY SubSeqBytes
<1>2. b \in Seq(Byte) /\ Len(b) = n /\ \A j \in 1..n : b[j] = r[from + j]
  BY SubSeqBytes
<1>. HIDE DEF a, b
<1>3. a = b
  BY <1>1, <1>2, SeqEqual
<1>. QED BY <1>3 DEF a, b

LEMMA LInvNewestLines == LInv => HoldsTheNewestLines
<1>. SUFFICES ASSUME LInv PROVE HoldsTheNewestLines
  OBVIOUS
<1>1. /\ IInv /\ RingLinesOK /\ BytesOK /\ CountOK
      /\ MaxEntries \in 1..255 /\ in_offs \in 0..MaxEntries - 1
      /\ NumEntries = (IF full THEN MaxEntries ELSE in_offs) /\ NumEntries \in 0..MaxEntries
      /\ stream \in Seq(Byte) /\ Len(stream) \in Nat /\ Len(marks) \in Nat
      /\ mem \in [Address -> Seq(Byte)]
  BY RingFacts DEF LInv, RingLinesOK, IInv, TypeOK
<1>2. NumEntries = IF Len(marks) < MaxEntries THEN Len(marks) ELSE MaxEntries
  <2>1. CASE full
    BY <1>1, <2>1 DEF CountOK
  <2>2. CASE ~full
    BY <1>1, <2>2 DEF CountOK
  <2>. QED BY <2>1, <2>2
<1>3. ASSUME loaded, NEW k \in 0..NumEntries - 1
      PROVE  LineAt(k) = SubSeq(stream, Mark(FirstLine + k) + 1, Mark(FirstLine + k + 1))
  <2>1. PICK l \in LineNumbers : /\ l = FirstLine + k + 1 /\ l - 1 = FirstLine + k
                                 /\ SlotOf(k) = LineSlot(l)
    <3>1. (FirstLine + k + 1) - 1 = FirstLine + k
      BY <1>1, RingFacts
    <3>. QED BY <1>1, <3>1, EntryIsLine
  <2>. DEFINE e == entry[LineSlot(l)]
              s == mem[e.buffptr]
              size == e.size
              from == Mark(l - 1)
  <2>2. size \in Nat /\ e.buffptr \in Ptr /\ size <= Len(s)
    BY <1>1, <1>3, LineFacts
  <2>3. s \in Seq(Byte)
    BY <1>1, <2>2 DEF Address
  <2>4. /\ size = Mark(l) - from /\ from \in Nat /\ Mark(l) \in Nat
        /\ Mark(l) <= Len(stream)
    <3>1. size = Mark(l) - from
      BY <1>1 DEF RingLinesOK, SizesOK
    <3>2. l - 1 \in 0..Len(marks) /\ l \in 0..Len(marks) /\ l - 1 <= l
      BY <1>1, LineFacts
    <3>. QED BY <1>1, <3>1, <3>2, MarksGrow DEF RingLinesOK
  <2>5. \A j \in 1..size : s[0 + j] = stream[from + j]
    BY <1>1, <1>3 DEF BytesOK, LineHeld, Holds
  <2>. HIDE DEF e, s, size, from
  <2>6. from + size = Mark(l) /\ 0 + size = size /\ 0 \in Nat /\ 0 + 1 = 1
    BY <2>2, <2>4
  <2>7. SubSeq(s, 0 + 1, 0 + size) = SubSeq(stream, from + 1, from + size)
    <3>1. 0 + size <= Len(s) /\ from + size <= Len(stream)
      BY <2>2, <2>4, <2>6
    <3>2. stream \in Seq(Byte) /\ size \in Nat /\ from \in Nat /\ 0 \in Nat
      BY <1>1, <2>2, <2>4
    <3>. QED BY <2>3, <2>5, <3>1, <3>2, SameStretch
  <2>8. SubSeq(s, 1, size) = SubSeq(stream, from + 1, Mark(l))
    BY <2>6, <2>7
  <2>9. LineAt(k) = SubSeq(s, 1, size)
    BY <2>1 DEF LineAt, s, size, e
  <2>. QED BY <2>1, <2>8, <2>9 DEF from
<1>. QED BY <1>2, <1>3 DEF HoldsTheNewestLines

LEMMA LInvWrites == LInv => WriteReportsWhatItTook
<1>. SUFFICES ASSUME LInv, NEW t \in Thread, pc[t] = "w_out"
              PROVE  LET taken == IF wr[t].retval < 0 THEN 0 ELSE wr[t].retval
                     IN  /\ Len(stream) = wr[t].start + taken
                         /\ SubSeq(stream, wr[t].start + 1, Len(stream))
                              = SubSeq(wr[t].buf, 1, taken)
  BY DEF WriteReportsWhatItTook
<1>. DEFINE w == wr[t]
            taken == IF w.retval < 0 THEN 0 ELSE w.retval
            buf == w.buf
            start == w.start
<1>1. /\ buf \in Seq(Byte) /\ stream \in Seq(Byte) /\ start \in Nat /\ w.retval \in Int
      /\ Len(stream) \in Nat /\ WroteOK(t)
  BY WriteFacts DEF InWrite
<1>2. /\ taken <= Len(buf) /\ Len(stream) = start + taken
      /\ \A j \in 1..taken : stream[start + j] = buf[j]
  BY <1>1 DEF WroteOK
<1>3. taken \in Nat
  BY <1>1
<1>. HIDE DEF taken, buf, start
<1>4. /\ 0 + taken = taken /\ 0 + taken <= Len(buf) /\ start + taken <= Len(stream)
      /\ 0 + 1 = 1 /\ \A j \in 1..taken : stream[start + j] = buf[0 + j]
  BY <1>1, <1>2, <1>3
<1>5. SubSeq(stream, start + 1, start + taken) = SubSeq(buf, 0 + 1, 0 + taken)
  BY <1>1, <1>3, <1>4, SameStretch
<1>6. SubSeq(stream, start + 1, Len(stream)) = SubSeq(buf, 1, taken)
  BY <1>2, <1>4, <1>5
<1>. QED BY <1>2, <1>6 DEF taken, buf, start

LEMMA LInvReads == LInv => ReadReturnsTheStream
<1>. SUFFICES ASSUME LInv, NEW t \in Thread, pc[t] = "r_user"
              PROVE  LET r == rd[t]
                         available == Mark(Len(marks)) - r.pos
                     IN  /\ r.bytes_read = IF r.count < available THEN r.count ELSE available
                         /\ r.bytes_read > 0 =>
                              mem[r.kernel_buf]
                                = SubSeq(stream, r.pos + 1, r.pos + r.bytes_read)
  BY DEF ReadReturnsTheStream
<1>. DEFINE r == rd[t]
            end == Mark(Len(marks))
            s == mem[r.kernel_buf]
            n == r.bytes_read
            from == r.pos
<1>1. /\ IInv /\ RingLinesOK /\ ReadOK(t) /\ r.count \in Nat /\ n \in Nat /\ from \in Nat
      /\ r.kernel_buf \in Address /\ mem \in [Address -> Seq(Byte)]
  BY ReadFacts DEF InRead
<1>2. /\ stream \in Seq(Byte) /\ Len(stream) \in Nat /\ end \in Nat /\ end <= Len(stream)
  <2>1. Len(marks) \in 0..Len(marks)
    BY <1>1, RingFacts
  <2>. QED BY <1>1, <2>1, RingFacts DEF RingLinesOK, MarksOK
<1>3. Copied(t) /\ n = IF r.count < end - from THEN r.count ELSE end - from
  BY <1>1 DEF ReadOK
<1>4. s \in Seq(Byte) /\ Len(s) = n /\ \A j \in 1..n : s[0 + j] = stream[from + j]
  BY <1>1, <1>3 DEF Copied, Holds
<1>5. from + n <= Len(stream)
  <2>. HIDE DEF n, from, end, r
  <2>. QED BY <1>1, <1>2, <1>3
<1>. HIDE DEF s, n, from
<1>6. s = SubSeq(stream, from + 1, from + n)
  <2>. DEFINE b == SubSeq(stream, from + 1, from + n)
  <2>1. b \in Seq(Byte) /\ Len(b) = n /\ \A j \in 1..n : b[j] = stream[from + j]
    BY <1>1, <1>2, <1>5, SubSeqBytes
  <2>. HIDE DEF b
  <2>2. ASSUME NEW j \in 1..n
        PROVE  s[j] = b[j]
    <3>1. 0 + j = j
      BY <1>1
    <3>. QED BY <1>4, <2>1, <3>1
  <2>3. s = b
    BY <1>4, <2>1, <2>2, SeqEqual
  <2>. QED BY <2>3 DEF b
<1>. QED BY <1>3, <1>6 DEF s, n, from

\* Wherever a read leaves the position of its file, it was given what lies
\* between there and where it started, which is f_pos or the oldest line.
LEMMA ReaderKeepsItsPlace ==
  ASSUME LInv, [Next]_vars, NEW t \in Thread, pc'[t] = "open", fpos'[t] # fpos[t]
  PROVE  LET from == fpos'[t] - rd[t].retval
         IN  /\ rd[t].retval >= 0
             /\ from >= fpos[t]
             /\ from > fpos[t] => from = Mark(FirstLine)
<1>1. ReadOut(t)
  <2>1. CASE InitModule \/ InitModuleFails \/ CleanupModule \/ UNCHANGED vars
    BY <2>1 DEF InitModule, InitModuleFails, CleanupModule, vars
  <2>2. ASSUME NEW u \in Thread, Open(u) \/ Call(u) \/ Write(u)
        PROVE  FALSE
    <3>1. fpos' = fpos
      BY <2>2 DEF Open, Call, Write, WriteNoMemory, WriteFault, WriteBegin, WriteByte,
                  WriteNewline, WriteEnd, WriteOut
    <3>. QED BY <3>1
  <2>3. ASSUME NEW u \in Thread, Release(u)
        PROVE  FALSE
    BY <2>3 DEF Release, Goto, LInv, IInv, TypeOK
  <2>4. ASSUME NEW u \in Thread, Read(u)
        PROVE  ReadOut(t)
    <3>1. CASE ReadOut(u)
      BY <3>1 DEF ReadOut, LInv, IInv, TypeOK
    <3>2. CASE ~ReadOut(u)
      <4>1. fpos' = fpos
        BY <2>4, <3>2 DEF Read, ReadNoMemory, ReadBegin, FindNext, FindHit, FindEof,
                          CopyEntry, CopyDone, CopyToUser, CopyToUserFault
      <4>. QED BY <4>1
    <3>. QED BY <3>1, <3>2
  <2>. QED BY <2>1, <2>2, <2>3, <2>4 DEF Next
<1>2. /\ pc[t] = "r_out" /\ fpos' = [fpos EXCEPT ![t] = StoredPos(t)]
  BY <1>1 DEF ReadOut, Goto
<1>3. /\ rd[t].retval \in Int /\ rd[t].pos \in Nat /\ fpos[t] \in Nat
      /\ total_bytes_evicted \in Nat /\ ReadOK(t) /\ SnappedPos(t) \in Nat
      /\ fpos \in [Thread -> Nat] /\ total_bytes_evicted = Mark(FirstLine)
  <2>1. pc[t] \in InRead
    BY <1>2 DEF InRead
  <2>2. fpos \in [Thread -> Nat] /\ total_bytes_evicted = Mark(FirstLine)
    BY DEF LInv, IInv, TypeOK, RingLinesOK, EvictedBytesExact
  <2>. QED BY <2>1, <2>2, ReadFacts
<1>4. rd[t].retval >= 0 /\ fpos'[t] = rd[t].pos
  BY <1>2, <1>3 DEF StoredPos
<1>5. fpos'[t] - rd[t].retval = SnappedPos(t)
  <2>1. rd[t].pos = SnappedPos(t) + rd[t].retval
    BY <1>2, <1>3, <1>4 DEF ReadOK
  <2>. QED BY <1>3, <1>4, <2>1
<1>6. SnappedPos(t) >= fpos[t] /\ (SnappedPos(t) > fpos[t] => SnappedPos(t) = Mark(FirstLine))
  BY <1>3 DEF SnappedPos
<1>. QED BY <1>4, <1>5, <1>6

-----------------------------------------------------------------------------
(* Every call comes to an end *)

\* Each step of the thread that holds the semaphore takes it nearer to up.
LEMMA HolderProgress ==
  ASSUME LInv, LInv', NEW t \in Thread, t \in Holders, Write(t) \/ Read(t)
  PROVE  StepsLeft(t)' \in 0..StepsLeft(t) - 1 \/ pc'[t] = "open"
<1>1. /\ pc[t] \in InWrite \cup InRead /\ pc \in [Thread -> PC]
      /\ wr \in [Thread -> WriteLocals] /\ rd \in [Thread -> ReadLocals]
      /\ MaxEntries \in 1..255
  BY MaxEntriesAssumption DEF Holders, LInv, IInv, SemInv, TypeOK
<1>2. ASSUME NEW payload \in Payloads,
             WriteNoMemory(t, payload) \/ WriteFault(t, payload) \/ WriteBegin(t, payload)
      PROVE  FALSE
  BY <1>1, <1>2 DEF WriteNoMemory, WriteFault, WriteBegin, Goto, InWrite, InRead
<1>3. ASSUME NEW count \in ReadCounts, ReadNoMemory(t, count) \/ ReadBegin(t, count)
      PROVE  FALSE
  BY <1>1, <1>3 DEF ReadNoMemory, ReadBegin, Goto, InWrite, InRead
<1>4. ASSUME WriteByte(t) \/ WriteNewline(t)
      PROVE  StepsLeft(t)' \in 0..StepsLeft(t) - 1
  <2>1. /\ pc[t] = "w_loop" /\ wr[t].i < wr[t].count
        /\ wr'[t].i = wr[t].i + 1 /\ wr'[t].count = wr[t].count
        /\ pc'[t] = "w_loop" \/ pc'[t] = "w_out"
    <3>1. CASE WriteByte(t)
      BY <1>1, <3>1 DEF WriteByte, MoreToWrite, WriteLocals
    <3>2. CASE WriteNewline(t)
      <4>1. PICK p, rv : /\ wr' = [wr EXCEPT ![t].new_buf = p, ![t].curr_size = 0,
                                             ![t].i = @ + 1, ![t].retval = rv]
                         /\ pc' = [pc EXCEPT ![t] = IF p = NULL THEN "w_out" ELSE @]
        BY <3>2, <1>1 DEF WriteNewline
      <4>. QED BY <1>1, <3>2, <4>1 DEF WriteNewline, MoreToWrite, WriteLocals
    <3>. QED BY <1>4, <3>1, <3>2
  <2>2. wr[t].i \in Nat /\ wr[t].count \in Nat
    BY <1>1 DEF WriteLocals
  <2>3. StepsLeft(t) = wr[t].count - wr[t].i + 1
    BY <2>1 DEF StepsLeft
  <2>4. StepsLeft(t)' = wr[t].count - (wr[t].i + 1) + 1 \/ StepsLeft(t)' = 0
    BY <2>1 DEF StepsLeft
  <2>. QED BY <2>1, <2>2, <2>3, <2>4
<1>5. ASSUME WriteEnd(t)
      PROVE  StepsLeft(t)' \in 0..StepsLeft(t) - 1
  <2>1. pc[t] = "w_loop" /\ pc'[t] = "w_out"
    BY <1>1, <1>5 DEF WriteEnd, Goto
  <2>2. wr[t].i \in Nat /\ wr[t].count \in Nat /\ wr[t].i <= wr[t].count
    BY <1>1, <2>1 DEF WriteLocals, LInv, IInv, ThreadsOK, WriterOK
  <2>3. StepsLeft(t) = wr[t].count - wr[t].i + 1 /\ StepsLeft(t)' = 0
    BY <2>1 DEF StepsLeft
  <2>. QED BY <2>2, <2>3
<1>6. ASSUME WriteOut(t) \/ ReadOut(t)
      PROVE  pc'[t] = "open"
  BY <1>1, <1>6 DEF WriteOut, ReadOut, Goto
<1>7. /\ rd[t].i \in Nat /\ rd[t].entries_read \in Nat /\ rd[t].total_entries \in Nat
      /\ rd'[t].i \in Nat /\ rd'[t].entries_read \in Nat /\ rd'[t].total_entries \in Nat
      /\ NumEntries \in 0..MaxEntries /\ NumEntries' \in 0..MaxEntries
      /\ ReadOK(t) /\ ReadOK(t)'
  <2>1. rd[t] \in ReadLocals /\ rd'[t] \in ReadLocals
    BY DEF LInv, IInv, TypeOK
  <2>2. ReadOK(t) /\ ReadOK(t)'
    BY DEF LInv, CallsOK
  <2>3. NumEntries \in 0..MaxEntries
    BY RingFacts DEF LInv
  <2>4. NumEntries' \in 0..MaxEntries
    <3>1. /\ in_offs' \in Slot /\ out_offs' \in Slot /\ full' \in BOOLEAN
          /\ (~full' => out_offs' = 0)
      BY DEF LInv, IInv, TypeOK, RingOK
    <3>2. NumEntries' = IF full' THEN MaxEntries ELSE in_offs'
      BY <3>1, EntriesBetweenValue DEF NumEntries
    <3>. QED BY <1>1, <3>1, <3>2 DEF Slot
  <2>. QED BY <2>1, <2>2, <2>3, <2>4 DEF ReadLocals
<1>8. pc[t] = "r_find" => /\ StepsLeft(t) = MaxEntries - rd[t].i + MaxEntries + 3
                          /\ rd[t].i <= MaxEntries /\ rd[t].entries_read = 0
  <2>. SUFFICES ASSUME pc[t] = "r_find"
                PROVE  rd[t].i <= MaxEntries /\ rd[t].entries_read = 0
    BY DEF StepsLeft
  <2>1. rd[t].i <= NumEntries /\ rd[t].entries_read = 0
    BY <1>7 DEF ReadOK
  <2>. QED BY <1>1, <1>7, <2>1
<1>9. pc[t] = "r_copy" => /\ StepsLeft(t) = MaxEntries - rd[t].entries_read + 2
                          /\ rd[t].entries_read <= MaxEntries
  <2>. SUFFICES ASSUME pc[t] = "r_copy" PROVE rd[t].entries_read <= MaxEntries
    BY DEF StepsLeft
  <2>1. rd[t].i + rd[t].entries_read <= NumEntries
    BY <1>7 DEF ReadOK
  <2>. QED BY <1>1, <1>7, <2>1
<1>10. ASSUME FindNext(t)
       PROVE  StepsLeft(t)' \in 0..StepsLeft(t) - 1
  <2>1. pc[t] = "r_find" /\ pc'[t] = "r_find" /\ rd'[t].i = rd[t].i + 1
    BY <1>1, <1>10 DEF FindNext, MoreToScan, ReadLocals
  <2>2. StepsLeft(t)' = MaxEntries - (rd[t].i + 1) + MaxEntries + 3
    BY <2>1 DEF StepsLeft
  <2>. QED BY <1>1, <1>7, <1>8, <2>1, <2>2
<1>11. ASSUME FindHit(t)
       PROVE  StepsLeft(t)' \in 0..StepsLeft(t) - 1
  <2>1. /\ pc[t] = "r_find" /\ pc'[t] = "r_copy"
        /\ rd'[t].entries_read = rd[t].entries_read
    BY <1>1, <1>11 DEF FindHit, Goto, ReadLocals
  <2>2. StepsLeft(t)' = MaxEntries - rd[t].entries_read + 2
    BY <2>1 DEF StepsLeft
  <2>. QED BY <1>1, <1>7, <1>8, <2>1, <2>2
<1>12. ASSUME FindEof(t)
       PROVE  StepsLeft(t)' \in 0..StepsLeft(t) - 1
  <2>1. pc[t] = "r_find" /\ pc'[t] = "r_out"
    BY <1>1, <1>12 DEF FindEof, Goto
  <2>2. StepsLeft(t)' = 0
    BY <2>1 DEF StepsLeft
  <2>. QED BY <1>1, <1>7, <1>8, <2>1, <2>2
<1>13. ASSUME CopyEntry(t)
       PROVE  StepsLeft(t)' \in 0..StepsLeft(t) - 1
  <2>1. pc[t] = "r_copy" /\ rd'[t].entries_read = rd[t].entries_read + 1
    <3>1. PICK m : rd' = [rd EXCEPT ![t].bytes_read = m, ![t].entries_read = @ + 1,
                                    ![t].start_char_index = 0, ![t].buf_index = NextSlot(@)]
      BY <1>1, <1>13 DEF CopyEntry
    <3>2. pc[t] = "r_copy"
      BY <1>13 DEF CopyEntry, MoreToCopy
    <3>3. rd \in [Thread -> ReadLocals] /\ rd[t] \in ReadLocals
      BY <1>1
    <3>4. rd'[t] = [rd[t] EXCEPT !.bytes_read = m, !.entries_read = @ + 1,
                                 !.start_char_index = 0, !.buf_index = NextSlot(@)]
      BY <3>1, <3>3
    <3>. QED BY <3>2, <3>3, <3>4 DEF ReadLocals
  <2>2. pc'[t] = "r_copy" \/ pc'[t] = "r_user"
    <3>1. PICK to \in {"r_user", "r_copy"} : pc' = [pc EXCEPT ![t] = to]
      BY <1>13, <2>1 DEF CopyEntry
    <3>. QED BY <1>1, <3>1
  <2>3. CASE pc'[t] = "r_copy"
    <3>1. StepsLeft(t)' = MaxEntries - (rd[t].entries_read + 1) + 2
      BY <2>1, <2>3 DEF StepsLeft
    <3>2. rd[t].entries_read + 1 <= MaxEntries
      <4>1. rd'[t].i + rd'[t].entries_read <= NumEntries'
        BY <1>7, <2>3 DEF ReadOK
      <4>. QED BY <1>1, <1>7, <2>1, <4>1
    <3>. QED BY <1>1, <1>7, <1>9, <2>1, <3>1, <3>2
  <2>4. CASE pc'[t] = "r_user"
    <3>1. StepsLeft(t)' = 1
      BY <2>4 DEF StepsLeft
    <3>. QED BY <1>1, <1>7, <1>9, <2>1, <3>1
  <2>. QED BY <2>2, <2>3, <2>4
<1>14. ASSUME CopyDone(t)
       PROVE  StepsLeft(t)' \in 0..StepsLeft(t) - 1
  <2>1. pc[t] = "r_copy" /\ pc'[t] = "r_user"
    BY <1>1, <1>14 DEF CopyDone, Goto
  <2>2. StepsLeft(t)' = 1
    BY <2>1 DEF StepsLeft
  <2>. QED BY <1>1, <1>7, <1>9, <2>1, <2>2
<1>15. ASSUME CopyToUser(t) \/ CopyToUserFault(t)
       PROVE  StepsLeft(t)' \in 0..StepsLeft(t) - 1
  <2>1. pc[t] = "r_user" /\ pc'[t] = "r_out"
    BY <1>1, <1>15 DEF CopyToUser, CopyToUserFault, Goto
  <2>2. StepsLeft(t)' = 0 /\ StepsLeft(t) = 1
    BY <2>1 DEF StepsLeft
  <2>. QED BY <2>2
<1>. QED BY <1>2, <1>3, <1>4, <1>5, <1>6, <1>10, <1>11, <1>12, <1>13, <1>14, <1>15
         DEF Write, Read

\* What anybody else can do meanwhile touches nothing t works with.
LEMMA OthersKeepOut ==
  ASSUME LInv, IInv', NEW t \in Thread, t \in Holders, NEW u \in Thread \ {t},
         Open(u) \/ Release(u) \/ Call(u) \/ Write(u) \/ Read(u)
  PROVE  /\ pc'[t] = pc[t] /\ wr'[t] = wr[t] /\ rd'[t] = rd[t]
         /\ UNCHANGED <<dev, heap, stream>>
<1>1. SemInv /\ SemInv' /\ pc[u] \notin InWrite \cup InRead /\ pc \in [Thread -> PC]
  BY DEF LInv, IInv, SemInv, SemaphoreHeldByOne, Holders
<1>2. CASE Open(u) \/ Release(u) \/ Call(u)
  BY <1>1, <1>2 DEF Open, Release, Call, Goto, history
<1>3. CASE Write(u) \/ Read(u)
  <2>1. sem = 1
    <3>1. ASSUME NEW payload \in Payloads,
                 WriteNoMemory(u, payload) \/ WriteFault(u, payload) \/ WriteBegin(u, payload)
          PROVE  sem = 1
      BY <3>1 DEF WriteNoMemory, WriteFault, WriteBegin, Down
    <3>2. ASSUME NEW count \in ReadCounts, ReadNoMemory(u, count) \/ ReadBegin(u, count)
          PROVE  sem = 1
      BY <3>2 DEF ReadNoMemory, ReadBegin, Down
    <3>3. ~(WriteByte(u) \/ WriteNewline(u) \/ WriteEnd(u) \/ WriteOut(u))
      BY <1>1 DEF WriteByte, WriteNewline, WriteEnd, WriteOut, MoreToWrite, Goto, InWrite
    <3>4. ~(FindNext(u) \/ FindHit(u) \/ FindEof(u) \/ CopyEntry(u) \/ CopyDone(u)
            \/ CopyToUser(u) \/ CopyToUserFault(u) \/ ReadOut(u))
      BY <1>1 DEF FindNext, FindHit, FindEof, CopyEntry, CopyDone, CopyToUser,
                  CopyToUserFault, ReadOut, MoreToScan, MoreToCopy, Goto, InRead
    <3>. QED BY <1>3, <3>1, <3>2, <3>3, <3>4 DEF Write, Read
  <2>2. sem = 0
    BY <1>1 DEF SemInv, SemaphoreHeldByOne, Holders, InWrite, InRead
  <2>. QED BY <2>1, <2>2
<1>. QED BY <1>2, <1>3

LEMMA CallProgress ==
  ASSUME LInv, LInv', [Next]_vars, NEW t \in Holders,
         <<pc[t], wr[t], rd[t], dev, heap, stream>>'
           # <<pc[t], wr[t], rd[t], dev, heap, stream>>
  PROVE  StepsLeft(t)' \in 0..StepsLeft(t) - 1 \/ pc'[t] = "open"
<1>1. t \in Thread /\ pc[t] # "closed" /\ IInv /\ IInv'
  BY DEF Holders, InWrite, InRead, LInv
<1>2. CASE InitModule \/ InitModuleFails \/ CleanupModule
  <2>1. loaded
    BY <1>1 DEF IInv, SemInv
  <2>. QED BY <1>1, <1>2, <2>1 DEF InitModule, InitModuleFails, CleanupModule
<1>3. ASSUME NEW u \in Thread, Open(u) \/ Release(u) \/ Call(u) \/ Write(u) \/ Read(u)
      PROVE  StepsLeft(t)' \in 0..StepsLeft(t) - 1 \/ pc'[t] = "open"
  <2>1. CASE u # t
    <3>1. /\ pc'[t] = pc[t] /\ wr'[t] = wr[t] /\ rd'[t] = rd[t]
          /\ UNCHANGED <<dev, heap, stream>>
      BY <1>1, <1>3, <2>1, OthersKeepOut
    <3>. QED BY <3>1
  <2>2. CASE u = t
    <3>1. ~(Open(t) \/ Release(t) \/ Call(t))
      BY <1>1 DEF Open, Release, Call, Goto, Holders, InWrite, InRead
    <3>. QED BY <1>1, <1>3, <2>2, <3>1, HolderProgress
  <2>. QED BY <2>1, <2>2
<1>4. CASE UNCHANGED vars
  BY <1>4 DEF vars, history
<1>. QED BY <1>2, <1>3, <1>4 DEF Next

-----------------------------------------------------------------------------
(* Theorems *)

\* The ring of aesd_write holds the newest MaxEntries lines, byte for byte,
\* whatever the chunks they were written in and whichever allocation failed.
THEOREM NewestLinesAreHeld == Spec => []HoldsTheNewestLines
<1>. QED BY LInvNewestLines, InitLInv, StepLInv, PTL DEF Spec

\* total_bytes_evicted of aesd_write is the position of the oldest byte held, so
\* aesd_read converts a f_pos into the ring without an error that grows.
THEOREM EvictedBytesAreExact == Spec => []EvictedBytesExact
<1>1. LInv => EvictedBytesExact
  BY DEF LInv, RingLinesOK
<1>. QED BY <1>1, InitLInv, StepLInv, PTL DEF Spec

\* aesd_write returns what it took, and took the front of the caller's buffer,
\* on its way out through the end of the loop and through each failure.
THEOREM WritesAreReported == Spec => []WriteReportsWhatItTook
<1>. QED BY LInvWrites, InitLInv, StepLInv, PTL DEF Spec

\* What aesd_read copies to the user is the stream at its position, at every
\* wrap-around of the ring and whatever was evicted before.
THEOREM ReadsReturnTheStream == Spec => []ReadReturnsTheStream
<1>. QED BY LInvReads, InitLInv, StepLInv, PTL DEF Spec

\* f_pos moves by what aesd_read gave the user, or over bytes that were evicted.
THEOREM ReadersKeepTheirPlace == Spec => ReaderSkipsOnlyEvicted
<1>. DEFINE Kept ==
       \A t \in Thread : pc'[t] = "open" /\ fpos'[t] # fpos[t] =>
          LET from == fpos'[t] - rd[t].retval
          IN  /\ rd[t].retval >= 0
              /\ from >= fpos[t]
              /\ from > fpos[t] => from = Mark(FirstLine)
<1>1. LInv /\ [Next]_vars => [Kept]_vars
  BY ReaderKeepsItsPlace
<1>. HIDE DEF Kept
<1>2. [][Kept]_vars => ReaderSkipsOnlyEvicted
  BY DEF Kept, ReaderSkipsOnlyEvicted
<1>. QED BY <1>1, <1>2, InitLInv, StepLInv, PTL DEF Spec

\* Every step of aesd_read and aesd_write between down and up brings the call
\* nearer to up: none of their loops can run for ever.
THEOREM CallsEnd == Spec => CallsComeToAnEnd
<1>. DEFINE Nearer ==
       \A t \in Holders :
          <<pc[t], wr[t], rd[t], dev, heap, stream>>'
             # <<pc[t], wr[t], rd[t], dev, heap, stream>> =>
          StepsLeft(t)' \in 0..StepsLeft(t) - 1 \/ pc'[t] = "open"
<1>1. LInv /\ [Next]_vars => [Nearer]_vars
  BY StepLInv, CallProgress
<1>. HIDE DEF Nearer
<1>2. [][Nearer]_vars => CallsComeToAnEnd
  BY DEF Nearer, CallsComeToAnEnd
<1>. QED BY <1>1, <1>2, InitLInv, StepLInv, PTL DEF Spec

-----------------------------------------------------------------------------
(* The concatenation of the lines *)

\* What is needed of induction: a set of naturals has a least element.
LEMMA LeastNatural ==
  ASSUME NEW S \in SUBSET Nat, S # {}
  PROVE  \E m \in S : \A k \in S : m <= k
<1>. DEFINE R == {ss \in Nat \X Nat : ss[1] < ss[2]}
<1>1. IsWellFoundedOn(R, Nat)
  BY NatLessThanWellFounded, Zenon DEF OpToRel
<1>. HIDE DEF R
<1>2. PICK m \in S : \A k \in S : <<k, m>> \notin R
  BY <1>1, WFMin, Zenon
<1>3. \A k \in S : ~(k < m)
  BY <1>2 DEF R
<1>. QED BY <1>3

\* The recursive function inside FlattenSeq has one solution, so any function
\* that satisfies its equation ends in what FlattenSeq returns.
LEMMA FlattenIs ==
  ASSUME NEW seqs, NEW n \in Nat \ {0}, Len(seqs) = n, NEW F \in [1..n -> Seq(Byte)],
         \A i \in 1..n : F[i] = IF i = 1 THEN seqs[i] ELSE F[i - 1] \o seqs[i]
  PROVE  Log!FlattenSeq(seqs) = F[n]
<1>. DEFINE Solves(g) == g = [i \in 1..n |-> IF i = 1 THEN seqs[i] ELSE g[i - 1] \o seqs[i]]
<1>1. Log!FlattenSeq(seqs) = (CHOOSE g : Solves(g))[n]
  BY DEF Log!FlattenSeq
<1>2. ASSUME NEW g, Solves(g)
      PROVE  g = F
  <2>. DEFINE Differ == {i \in 1..n : g[i] # F[i]}
  <2>1. DOMAIN g = 1..n /\ DOMAIN F = 1..n /\ g = [i \in 1..n |-> g[i]] /\ F = [i \in 1..n |-> F[i]]
    BY <1>2
  <2>2. \A i \in 1..n : g[i] = IF i = 1 THEN seqs[i] ELSE g[i - 1] \o seqs[i]
    BY <1>2
  <2>3. \A i \in 1..n : F[i] = IF i = 1 THEN seqs[i] ELSE F[i - 1] \o seqs[i]
    OBVIOUS
  <2>4. Differ = {}
    <3>1. SUFFICES ASSUME Differ # {} PROVE FALSE
      OBVIOUS
    <3>2. Differ \in SUBSET Nat
      OBVIOUS
    <3>3. PICK m \in Differ : \A k \in Differ : m <= k
      BY <3>1, <3>2, LeastNatural
    <3>4. m # 1
      BY <2>2, <2>3
    <3>5. m - 1 \in 1..n /\ ~(m <= m - 1)
      BY <3>4
    <3>6. g[m - 1] = F[m - 1]
      BY <3>3, <3>5
    <3>. QED BY <2>2, <2>3, <3>4, <3>6
  <2>5. \A i \in 1..n : g[i] = F[i]
    BY <2>4
  <2>6. [i \in 1..n |-> g[i]] = [i \in 1..n |-> F[i]]
    BY <2>5, Zenon
  <2>. QED BY <2>1, <2>6, Zenon
<1>3. Solves(F)
  <2>1. F = [i \in 1..n |-> F[i]]
    OBVIOUS
  <2>2. [i \in 1..n |-> F[i]]
          = [i \in 1..n |-> IF i = 1 THEN seqs[i] ELSE F[i - 1] \o seqs[i]]
    BY Zenon
  <2>. QED BY <2>1, <2>2, Zenon
<1>. HIDE DEF Solves
<1>4. Solves(CHOOSE g : Solves(g))
  BY <1>3, Zenon
<1>. QED BY <1>1, <1>2, <1>4

-----------------------------------------------------------------------------
(* Stretches of the stream *)

\* The bytes of s after the first from, up to the first upto.
Stretch(s, from, upto) == SubSeq(s, from + 1, upto)

LEMMA StretchBytes ==
  ASSUME NEW s \in Seq(Byte), NEW from \in Nat, NEW upto \in Nat,
         from <= upto, upto <= Len(s)
  PROVE  /\ Stretch(s, from, upto) \in Seq(Byte)
         /\ Len(Stretch(s, from, upto)) = upto - from
         /\ \A j \in 1..upto - from : Stretch(s, from, upto)[j] = s[from + j]
<1>1. PICK n \in Nat : n = upto - from /\ from + n = upto /\ from + n <= Len(s)
  OBVIOUS
<1>. QED BY <1>1, SubSeqBytes DEF Stretch

LEMMA JoinStretches ==
  ASSUME NEW s \in Seq(Byte), NEW a \in Nat, NEW b \in Nat, NEW c \in Nat,
         a <= b, b <= c, c <= Len(s)
  PROVE  Stretch(s, a, b) \o Stretch(s, b, c) = Stretch(s, a, c)
<1>. DEFINE x == Stretch(s, a, b)
            y == Stretch(s, b, c)
            z == Stretch(s, a, c)
<1>0. b <= Len(s) /\ a <= c
  <2>1. Len(s) \in Nat
    OBVIOUS
  <2>. QED BY <2>1
<1>1. x \in Seq(Byte) /\ Len(x) = b - a /\ \A j \in 1..b - a : x[j] = s[a + j]
  BY <1>0, StretchBytes
<1>2. y \in Seq(Byte) /\ Len(y) = c - b /\ \A j \in 1..c - b : y[j] = s[b + j]
  BY StretchBytes
<1>3. z \in Seq(Byte) /\ Len(z) = c - a /\ \A j \in 1..c - a : z[j] = s[a + j]
  BY <1>0, StretchBytes
<1>. HIDE DEF x, y, z
<1>4. /\ x \o y \in Seq(Byte) /\ Len(x \o y) = c - a
      /\ \A j \in 1..b - a : (x \o y)[j] = s[a + j]
      /\ \A j \in 1..c - b : (x \o y)[(b - a) + j] = s[b + j]
  <2>1. /\ x \o y \in Seq(Byte) /\ Len(x \o y) = Len(x) + Len(y)
        /\ \A j \in 1..Len(x) : (x \o y)[j] = x[j]
        /\ \A j \in 1..Len(y) : (x \o y)[Len(x) + j] = y[j]
    BY <1>1, <1>2, ConcatBytes
  <2>2. (b - a) + (c - b) = c - a
    OBVIOUS
  <2>3. /\ \A j \in 1..b - a : (x \o y)[j] = x[j]
        /\ \A j \in 1..c - b : (x \o y)[(b - a) + j] = y[j]
    BY <1>1, <1>2, <2>1
  <2>. QED BY <1>1, <1>2, <2>1, <2>2, <2>3
<1>5. ASSUME NEW j \in 1..c - a
      PROVE  (x \o y)[j] = z[j]
  <2>1. CASE j <= b - a
    BY <1>3, <1>4, <2>1
  <2>2. CASE ~(j <= b - a)
    <3>1. PICK i \in 1..c - b : j = (b - a) + i /\ b + i = a + j
      <4>1. j - (b - a) \in 1..c - b /\ j = (b - a) + (j - (b - a))
            /\ b + (j - (b - a)) = a + j
        BY <2>2
      <4>. QED BY <4>1
    <3>. QED BY <1>3, <1>4, <3>1
  <2>. QED BY <2>1, <2>2
<1>6. x \o y = z
  BY <1>3, <1>4, <1>5, SeqEqual
<1>. QED BY <1>6 DEF x, y, z

\* One more byte.
LEMMA GrowStretch ==
  ASSUME NEW s \in Seq(Byte), NEW b \in Byte, NEW from \in Nat, from <= Len(s)
  PROVE  /\ \A a, c \in Nat : a <= c /\ c <= Len(s) =>
               Stretch(Append(s, b), a, c) = Stretch(s, a, c)
         /\ Stretch(Append(s, b), from, Len(s) + 1) = Append(Stretch(s, from, Len(s)), b)
<1>. DEFINE N == Len(s)
            r == Append(s, b)
<1>1. /\ N \in Nat /\ r \in Seq(Byte) /\ Len(r) = N + 1
      /\ \A j \in 1..N : r[j] = s[j]
      /\ r[N + 1] = b
  OBVIOUS
<1>. HIDE DEF N, r
<1>0. ASSUME NEW a \in Nat, NEW c \in Nat, a <= c, c <= Len(r)
      PROVE  /\ Stretch(r, a, c) \in Seq(Byte) /\ Len(Stretch(r, a, c)) = c - a
             /\ \A j \in 1..c - a : Stretch(r, a, c)[j] = r[a + j]
  BY <1>0, <1>1, StretchBytes
<1>2. ASSUME NEW a \in Nat, NEW c \in Nat, a <= c, c <= N
      PROVE  Stretch(r, a, c) = Stretch(s, a, c)
  <2>1. /\ Stretch(r, a, c) \in Seq(Byte) /\ Len(Stretch(r, a, c)) = c - a
        /\ \A j \in 1..c - a : Stretch(r, a, c)[j] = r[a + j]
    <3>1. c <= Len(r)
      BY <1>1, <1>2
    <3>. QED BY <1>0, <1>2, <3>1
  <2>2. /\ Stretch(s, a, c) \in Seq(Byte) /\ Len(Stretch(s, a, c)) = c - a
        /\ \A j \in 1..c - a : Stretch(s, a, c)[j] = s[a + j]
    BY <1>2, StretchBytes DEF N
  <2>3. ASSUME NEW j \in 1..c - a
        PROVE  Stretch(r, a, c)[j] = Stretch(s, a, c)[j]
    <3>1. a + j \in 1..N
      BY <1>1, <1>2
    <3>. QED BY <1>1, <2>1, <2>2, <3>1
  <2>. QED BY <2>1, <2>2, <2>3, SeqEqual
<1>3. Stretch(r, from, N + 1) = Append(Stretch(s, from, N), b)
  <2>0. PICK u \in Nat : u = N + 1
    BY <1>1
  <2>. DEFINE x == Stretch(r, from, u)
              y == Stretch(s, from, N)
              n == N - from
  <2>1. n \in Nat /\ n + 1 = u - from /\ from + (n + 1) = N + 1
    BY <1>1, <2>0 DEF N
  <2>2. x \in Seq(Byte) /\ Len(x) = n + 1 /\ \A j \in 1..n + 1 : x[j] = r[from + j]
    <3>1. from <= u /\ u <= Len(r)
      BY <1>1, <2>0 DEF N
    <3>2. /\ x \in Seq(Byte) /\ Len(x) = u - from
          /\ \A j \in 1..u - from : x[j] = r[from + j]
      BY <1>0, <3>1
    <3>. QED BY <2>1, <3>2
  <2>3. y \in Seq(Byte) /\ Len(y) = n /\ \A j \in 1..n : y[j] = s[from + j]
    <3>1. from <= N /\ N \in Nat /\ N <= Len(s)
      BY <1>1 DEF N
    <3>. QED BY <3>1, StretchBytes
  <2>. HIDE DEF x, y, n
  <2>4. /\ Append(y, b) \in Seq(Byte) /\ Len(Append(y, b)) = n + 1
        /\ \A j \in 1..n : Append(y, b)[j] = y[j]
        /\ Append(y, b)[n + 1] = b
    BY <2>1, <2>3, AppendProperties
  <2>5. ASSUME NEW j \in 1..n + 1
        PROVE  x[j] = Append(y, b)[j]
    <3>1. CASE j = n + 1
      BY <1>1, <2>1, <2>2, <2>4, <3>1
    <3>2. CASE j # n + 1
      <4>1. j \in 1..n
        BY <2>1, <3>2
      <4>2. from + j \in 1..N
        BY <1>1, <2>1, <4>1
      <4>. QED BY <1>1, <2>2, <2>3, <2>4, <4>1, <4>2
    <3>. QED BY <3>1, <3>2
  <2>6. x = Append(y, b)
    BY <2>2, <2>4, <2>5, SeqEqual
  <2>. QED BY <2>0, <2>6 DEF x, y
<1>. QED BY <1>2, <1>3 DEF N, r

-----------------------------------------------------------------------------
(* What the log looks like *)

\* The lines of the log and the unfinished one, told from the stream.
StreamLines ==
  [k \in 1..NumEntries |-> Stretch(stream, Mark(FirstLine + k - 1), Mark(FirstLine + k))]
StreamTail == Stretch(stream, Mark(Len(marks)), Len(stream))

LogView ==
  /\ Lines = IF loaded THEN StreamLines ELSE <<>>
  /\ Partial = IF loaded THEN StreamTail ELSE <<>>

\* Where the lines in the ring begin and end.
LEMMA Bounds ==
  ASSUME IInv, RingLinesOK
  PROVE  /\ NumEntries \in Nat /\ FirstLine \in Nat /\ Len(marks) \in Nat
         /\ FirstLine + NumEntries = Len(marks)
         /\ stream \in Seq(Byte) /\ Len(stream) \in Nat
         /\ Mark(FirstLine) \in Nat /\ Mark(Len(marks)) \in Nat
         /\ Mark(FirstLine) <= Mark(Len(marks)) /\ Mark(Len(marks)) <= Len(stream)
         /\ \A k \in 0..NumEntries : Mark(FirstLine + k) \in Nat
         /\ \A j, k \in 0..NumEntries : j <= k => Mark(FirstLine + j) <= Mark(FirstLine + k)
         /\ \A k \in 0..NumEntries : Mark(FirstLine + k) <= Mark(Len(marks))
<1>1. PICK F, N, n \in Nat : /\ F = FirstLine /\ N = Len(marks) /\ n = NumEntries
                             /\ F + n = N
  <2>1. FirstLine \in 0..Len(marks) /\ Len(marks) \in Nat /\ NumEntries \in Nat
    BY RingFacts, FirstLineNat DEF RingLinesOK
  <2>2. FirstLine \in Nat /\ FirstLine + NumEntries = Len(marks)
    BY <2>1 DEF FirstLine
  <2>. QED BY <2>1, <2>2
<1>2. \A i, j \in 0..N : i <= j => /\ Mark(i) <= Mark(j) /\ Mark(j) <= Len(stream)
                                   /\ Mark(i) \in Nat /\ Mark(j) \in Nat
  BY <1>1, MarksGrow DEF RingLinesOK
<1>3. stream \in Seq(Byte) /\ Len(stream) \in Nat
  BY RingFacts
<1>4. \A k \in 0..n : F + k \in 0..N
  BY <1>1
<1>5. F \in 0..N /\ N \in 0..N /\ F <= N
  BY <1>1
<1>6. \A j, k \in 0..n : j <= k => F + j <= F + k
  BY <1>1
<1>7. \A k \in 0..n : F + k <= N
  BY <1>1
<1>. QED BY <1>1, <1>2, <1>3, <1>4, <1>5, <1>6, <1>7

LEMMA LInvLogView == LInv => LogView
<1>. SUFFICES ASSUME LInv, loaded PROVE Lines = StreamLines /\ Partial = StreamTail
  BY DEF LogView, Lines, Partial
<1>1. Lines = StreamLines
  <2>1. ASSUME NEW k \in 1..NumEntries
        PROVE  LineAt(k - 1)
                 = Stretch(stream, Mark(FirstLine + k - 1), Mark(FirstLine + k))
    <3>1. PICK F, n \in Nat : F = FirstLine /\ n = NumEntries
      BY Bounds DEF LInv
    <3>2. k - 1 \in 0..n - 1 /\ F + (k - 1) = F + k - 1 /\ F + (k - 1) + 1 = F + k
      BY <3>1
    <3>3. LineAt(k - 1) = SubSeq(stream, Mark(F + (k - 1)) + 1, Mark(F + (k - 1) + 1))
      BY <3>1, <3>2, LInvNewestLines DEF HoldsTheNewestLines
    <3>. QED BY <3>1, <3>2, <3>3 DEF Stretch
  <2>. QED BY <2>1 DEF Lines, StreamLines
<1>2. Partial = StreamTail
  <2>. DEFINE Front(p, n) == SubSeq(mem[p], 1, n)
              end == Mark(Len(marks))
  <2>1. ASSUME NEW n \in Nat, TailIs(n), n <= Len(mem[curr_input.buffptr])
        PROVE  Front(curr_input.buffptr, n) = StreamTail
    <3>. DEFINE s == mem[curr_input.buffptr]
    <3>1. /\ s \in Seq(Byte) /\ stream \in Seq(Byte) /\ end \in Nat
          /\ Len(stream) = end + n /\ \A j \in 1..n : s[0 + j] = stream[end + j]
      BY <2>1, Bounds DEF LInv, IInv, TypeOK, TailIs, Holds
    <3>. HIDE DEF s, end
    <3>2. 0 + n = n /\ 0 + 1 = 1 /\ 0 + n <= Len(s) /\ end + n <= Len(stream)
      BY <2>1, <3>1 DEF s
    <3>3. SubSeq(s, 0 + 1, 0 + n) = SubSeq(stream, end + 1, end + n)
      BY <3>1, <3>2, SameStretch
    <3>. QED BY <3>1, <3>2, <3>3 DEF s, end, StreamTail, Stretch
  <2>2. CASE Writers = {}
    <3>1. TailIs(curr_input.size)
      BY <2>2 DEF LInv, TailOK, Writers
    <3>2. curr_input.size \in Nat /\ curr_input.size <= Len(mem[curr_input.buffptr])
      BY DEF LInv, IInv, TypeOK, HeapOK
    <3>. QED BY <2>1, <2>2, <3>1, <3>2 DEF Partial, Pending
  <2>3. CASE Writers # {}
    <3>1. PICK t \in Writers : t = CHOOSE u \in Writers : TRUE
      BY <2>3
    <3>2. pc[t] = "w_loop" /\ t \in Thread
      BY DEF Writers
    <3>3. TailIs(wr[t].curr_size) /\ WriterOK(t) /\ wr[t] \in WriteLocals
      BY <3>2 DEF LInv, IInv, TypeOK, TailOK, ThreadsOK
    <3>4. /\ wr[t].curr_size \in Nat /\ wr[t].new_buf = curr_input.buffptr
          /\ wr[t].i \in Nat /\ wr[t].count \in Nat /\ wr[t].i <= wr[t].count
          /\ Len(mem[wr[t].new_buf]) = wr[t].curr_size + (wr[t].count - wr[t].i)
      BY <3>2, <3>3 DEF WriterOK, WriteLocals
    <3>5. wr[t].curr_size <= Len(mem[curr_input.buffptr])
      BY <3>4
    <3>6. Partial = Front(wr[t].new_buf, wr[t].curr_size)
      BY <2>3, <3>1 DEF Partial
    <3>. QED BY <2>1, <3>3, <3>4, <3>5, <3>6
  <2>. QED BY <2>2, <2>3
<1>. QED BY <1>1, <1>2

\* Read as one text, the lines are the stream from the oldest line to the newest.
LEMMA StreamText ==
  ASSUME IInv, RingLinesOK
  PROVE  Log!FlattenSeq(StreamLines)
           = Stretch(stream, Mark(FirstLine), Mark(Len(marks)))
<1>1. PICK F, n \in Nat : F = FirstLine /\ n = NumEntries /\ F + n = Len(marks)
  BY Bounds
<1>. DEFINE cut(k) == Mark(F + k)
            seqs == StreamLines
<1>2. /\ stream \in Seq(Byte) /\ \A k \in 0..n : cut(k) \in Nat /\ cut(k) <= Len(stream)
      /\ \A j, k \in 0..n : j <= k => cut(j) <= cut(k)
      /\ cut(0) = Mark(FirstLine) /\ cut(n) = Mark(Len(marks))
  <2>1. \A k \in 0..n : cut(k) \in Nat /\ cut(k) <= Len(stream)
    <3>1. ASSUME NEW k \in 0..n
          PROVE  cut(k) \in Nat /\ cut(k) <= Len(stream)
      <4>1. /\ cut(k) \in Nat /\ cut(k) <= Mark(Len(marks)) /\ Mark(Len(marks)) \in Nat
            /\ Mark(Len(marks)) <= Len(stream) /\ Len(stream) \in Nat
        BY <1>1, Bounds
      <4>. HIDE DEF cut
      <4>. QED BY <4>1
    <3>. QED BY <3>1
  <2>2. F + 0 = F
    OBVIOUS
  <2>. QED BY <1>1, <2>1, <2>2, Bounds
<1>3. seqs = [k \in 1..n |-> Stretch(stream, cut(k - 1), cut(k))]
  <2>1. \A k \in 1..n : F + (k - 1) = F + k - 1
    OBVIOUS
  <2>. QED BY <1>1, <2>1 DEF StreamLines
<1>. HIDE DEF cut, seqs
<1>4. Len(seqs) = n
  BY <1>3
<1>5. CASE n = 0
  <2>1. seqs = <<>>
    BY <1>3, <1>5
  <2>2. Log!FlattenSeq(seqs) = <<>>
    BY <2>1 DEF Log!FlattenSeq
  <2>3. Stretch(stream, cut(0), cut(0)) = <<>>
    <3>1. PICK c \in Nat : c = cut(0) /\ c <= Len(stream) /\ c <= c
      BY <1>2, <1>5
    <3>2. /\ Stretch(stream, c, c) \in Seq(Byte)
          /\ Len(Stretch(stream, c, c)) = c - c
      BY <1>2, <3>1, StretchBytes
    <3>3. c - c = 0
      OBVIOUS
    <3>. QED BY <3>1, <3>2, <3>3, EmptySeq
  <2>. QED BY <1>2, <1>5, <2>2, <2>3 DEF seqs
<1>6. CASE n # 0
  <2>. DEFINE T == [i \in 1..n |-> Stretch(stream, cut(0), cut(i))]
  <2>1. ASSUME NEW i \in 1..n
        PROVE  T[i] = IF i = 1 THEN seqs[i] ELSE T[i - 1] \o seqs[i]
    <3>1. CASE i = 1
      BY <1>3, <3>1
    <3>2. CASE i # 1
      <4>1. /\ i - 1 \in 1..n /\ i - 1 \in 0..n /\ i \in 0..n /\ 0 \in 0..n
            /\ 0 <= i - 1 /\ i - 1 <= i
        BY <3>2
      <4>2. /\ cut(0) \in Nat /\ cut(i - 1) \in Nat /\ cut(i) \in Nat
            /\ cut(0) <= cut(i - 1) /\ cut(i - 1) <= cut(i) /\ cut(i) <= Len(stream)
        BY <1>2, <4>1
      <4>3. Stretch(stream, cut(0), cut(i - 1)) \o Stretch(stream, cut(i - 1), cut(i))
              = Stretch(stream, cut(0), cut(i))
        BY <1>2, <4>2, JoinStretches
      <4>. QED BY <1>3, <3>2, <4>1, <4>3
    <3>. QED BY <3>1, <3>2
  <2>. HIDE DEF T
  <2>2. T \in [1..n -> Seq(Byte)]
    <3>1. ASSUME NEW i \in 1..n
          PROVE  Stretch(stream, cut(0), cut(i)) \in Seq(Byte)
      <4>1. i \in 0..n /\ 0 \in 0..n /\ 0 <= i
        OBVIOUS
      <4>. QED BY <1>2, <4>1, StretchBytes
    <3>. QED BY <3>1 DEF T
  <2>3. n \in Nat \ {0}
    BY <1>6
  <2>4. Log!FlattenSeq(seqs) = T[n]
    BY <1>4, <2>1, <2>2, <2>3, FlattenIs
  <2>5. T[n] = Stretch(stream, cut(0), cut(n))
    BY <1>6 DEF T
  <2>. QED BY <1>2, <2>4, <2>5 DEF seqs
<1>. QED BY <1>5, <1>6

-----------------------------------------------------------------------------
(* Steps that the log does not see *)

Dropped == IF loaded THEN total_bytes_evicted ELSE 0
Positions == [t \in Thread |-> Position(t)]
Replies == [t \in Thread |-> Reply(t)]

LEMMA NextLogView == LInv' => LogView'
BY LInvLogView, PTL

\* The contents of the log depend on these only.
LEMMA SameContents ==
  ASSUME LInv, LInv', loaded' = loaded,
         UNCHANGED <<in_offs, out_offs, full, total_bytes_evicted, stream, marks>>
  PROVE  Lines' = Lines /\ Partial' = Partial /\ Dropped' = Dropped
<1>1. /\ Lines = IF loaded THEN StreamLines ELSE <<>>
      /\ Partial = IF loaded THEN StreamTail ELSE <<>>
      /\ Lines' = IF loaded THEN StreamLines' ELSE <<>>
      /\ Partial' = IF loaded THEN StreamTail' ELSE <<>>
  BY LInvLogView, NextLogView DEF LogView
<1>2. StreamLines' = StreamLines
  BY DEF StreamLines, NumEntries, FirstLine, Mark
<1>3. StreamTail' = StreamTail
  BY DEF StreamTail, Mark
<1>. QED BY <1>1, <1>2, <1>3 DEF Dropped

\* Who else reads keeps position and answer while t takes a step.
LEMMA OthersStay ==
  ASSUME LInv, LInv', NEW t \in Thread, NEW u \in Thread \ {t},
         Open(t) \/ Release(t) \/ Call(t) \/ Write(t) \/ Read(t)
  PROVE  Position(u)' = Position(u) /\ Reply(u)' = Reply(u)
<1>1. /\ pc \in [Thread -> PC] /\ wr \in [Thread -> WriteLocals]
      /\ rd \in [Thread -> ReadLocals] /\ fpos \in [Thread -> Nat]
      /\ SemInv /\ SemInv'
  BY DEF LInv, IInv, SemInv, TypeOK
<1>2. CASE Open(t) \/ Release(t) \/ Call(t)
  <2>1. pc'[u] = pc[u] /\ fpos'[u] = fpos[u] /\ rd' = rd /\ mem' = mem
    BY <1>1, <1>2 DEF Open, Release, Call, Goto, heap
  <2>. QED BY <2>1 DEF Position, Reply, StoredPos
<1>3. CASE Write(t)
  <2>1. /\ pc'[u] = pc[u] /\ fpos'[u] = fpos[u] /\ rd' = rd
        /\ t \in Holders \/ t \in Holders'
    BY <1>1, <1>3 DEF Write, WriteNoMemory, WriteFault, WriteBegin, WriteByte, WriteNewline,
                      WriteEnd, WriteOut, Goto, MoreToWrite, Holders, InWrite
  <2>2. pc[u] # "r_out" /\ pc'[u] # "r_out"
    BY <1>1, <2>1 DEF SemInv, SemaphoreHeldByOne, Holders, InRead
  <2>. QED BY <2>1, <2>2 DEF Position, Reply
<1>4. CASE Read(t)
  <2>1. /\ pc'[u] = pc[u] /\ fpos'[u] = fpos[u]
        /\ t \in Holders \/ t \in Holders'
    BY <1>1, <1>4 DEF Read, ReadNoMemory, ReadBegin, FindNext, FindHit, FindEof, CopyEntry,
                      CopyDone, CopyToUser, CopyToUserFault, ReadOut, Goto, MoreToScan,
                      MoreToCopy, Holders, InRead
  <2>2. pc[u] # "r_out" /\ pc'[u] # "r_out"
    BY <1>1, <2>1 DEF SemInv, SemaphoreHeldByOne, Holders, InRead
  <2>. QED BY <2>1, <2>2 DEF Position, Reply
<1>. QED BY <1>2, <1>3, <1>4

\* So a step of t is told by what happens to t.
LEMMA OneReader ==
  ASSUME LInv, LInv', NEW t \in Thread,
         Open(t) \/ Release(t) \/ Call(t) \/ Write(t) \/ Read(t)
  PROVE  /\ Positions' = [Positions EXCEPT ![t] = Position(t)']
         /\ Replies' = [Replies EXCEPT ![t] = Reply(t)']
         /\ Position(t)' = Position(t) => Positions' = Positions
         /\ Reply(t)' = Reply(t) => Replies' = Replies
BY OthersStay DEF Positions, Replies

\* A step of t that changes nothing the log is made of.
Quiet(t) ==
  /\ UNCHANGED <<loaded, in_offs, out_offs, full, total_bytes_evicted, stream, marks>>
  /\ Position(t)' = Position(t) /\ Reply(t)' = Reply(t)

LEMMA QuietStep ==
  ASSUME LInv, LInv', NEW t \in Thread, Quiet(t),
         Open(t) \/ Release(t) \/ Call(t) \/ Write(t) \/ Read(t)
  PROVE  UNCHANGED Log!vars
<1>1. /\ Lines' = Lines /\ Partial' = Partial /\ Dropped' = Dropped
      /\ Positions' = Positions /\ Replies' = Replies
  BY SameContents, OneReader DEF Quiet
<1>. QED BY <1>1 DEF Log!vars, Dropped, Positions, Replies

LEMMA OpenCallLog ==
  ASSUME LInv, LInv', NEW t \in Thread, Open(t) \/ Call(t)
  PROVE  UNCHANGED Log!vars
<1>1. /\ loaded' = loaded /\ UNCHANGED <<dev, history, fpos>>
      /\ pc[t] # "r_out" /\ pc'[t] # "r_out"
  BY DEF Open, Call, Goto, LInv, IInv, TypeOK, history
<1>2. Quiet(t)
  BY <1>1 DEF Quiet, Position, Reply, dev, history
<1>. QED BY <1>2, QuietStep

LEMMA QuietWriteLog ==
  ASSUME LInv, LInv', NEW t \in Thread, Write(t), ~WriteByte(t), ~WriteNewline(t)
  PROVE  UNCHANGED Log!vars
<1>0. pc \in [Thread -> PC]
  BY DEF LInv, IInv, SemInv
<1>. DEFINE Same == UNCHANGED <<loaded, in_offs, out_offs, full, total_bytes_evicted,
                                stream, marks, fpos>>
            Away == pc[t] # "r_out" /\ pc'[t] # "r_out"
<1>1. ASSUME NEW payload \in Payloads, WriteNoMemory(t, payload)
      PROVE  Same /\ Away
  BY <1>0, <1>1 DEF WriteNoMemory, Goto, dev, history
<1>2. ASSUME NEW payload \in Payloads, WriteFault(t, payload) \/ WriteBegin(t, payload)
      PROVE  Same /\ Away
  BY <1>0, <1>2 DEF WriteFault, WriteBegin, GrowInput, Goto, history
<1>3. ASSUME WriteEnd(t) \/ WriteOut(t)
      PROVE  Same /\ Away
  BY <1>0, <1>3 DEF WriteEnd, WriteOut, Goto, dev, history
<1>4. Same /\ Away
  BY <1>1, <1>2, <1>3 DEF Write
<1>5. Quiet(t)
  BY <1>4 DEF Quiet, Position, Reply
<1>. QED BY <1>5, QuietStep

LEMMA QuietReadLog ==
  ASSUME LInv, LInv', NEW t \in Thread, Read(t),
         ~FindEof(t), ~CopyToUser(t), ~ReadOut(t)
  PROVE  UNCHANGED Log!vars
<1>0. pc \in [Thread -> PC] /\ rd \in [Thread -> ReadLocals] /\ ~(-ENOMEM >= 0)
  <2>1. ~(-ENOMEM >= 0)
    BY DEF ENOMEM
  <2>. QED BY <2>1 DEF LInv, IInv, SemInv, TypeOK
<1>. DEFINE Same == UNCHANGED <<loaded, in_offs, out_offs, full, total_bytes_evicted,
                                stream, marks, fpos>>
            Away == pc[t] # "r_out" /\ pc'[t] # "r_out"
            Failed == pc[t] # "r_out" /\ pc'[t] = "r_out" /\ ~(rd'[t].retval >= 0)
<1>1. ASSUME NEW count \in ReadCounts, ReadNoMemory(t, count)
      PROVE  Same /\ Failed
  <2>1. rd'[t].retval = -ENOMEM
    BY <1>0, <1>1 DEF ReadNoMemory, IdleRead
  <2>2. Same /\ pc[t] # "r_out" /\ pc'[t] = "r_out"
    BY <1>0, <1>1 DEF ReadNoMemory, Goto, dev, history
  <2>. QED BY <1>0, <2>1, <2>2
<1>2. ASSUME NEW count \in ReadCounts, ReadBegin(t, count)
      PROVE  Same /\ Away
  BY <1>0, <1>2 DEF ReadBegin, Goto, dev, history
<1>3. ASSUME FindNext(t) \/ FindHit(t)
      PROVE  Same /\ Away
  BY <1>0, <1>3 DEF FindNext, FindHit, MoreToScan, Goto, dev, history
<1>4. ASSUME CopyEntry(t)
      PROVE  Same /\ Away
  <2>1. pc[t] = "r_copy"
    BY <1>4 DEF CopyEntry, MoreToCopy
  <2>2. PICK to \in {"r_user", "r_copy"} : pc' = [pc EXCEPT ![t] = to]
    BY <1>4, <2>1 DEF CopyEntry
  <2>3. Same
    BY <1>4 DEF CopyEntry, dev, history
  <2>. QED BY <1>0, <2>1, <2>2, <2>3
<1>5. ASSUME CopyDone(t)
      PROVE  Same /\ Away
  BY <1>0, <1>5 DEF CopyDone, Goto, dev, history
<1>6. ASSUME CopyToUserFault(t)
      PROVE  Same /\ Failed
  <2>1. rd'[t].retval = -EFAULT /\ ~(-EFAULT >= 0)
    BY <1>0, <1>6 DEF CopyToUserFault, ReadLocals, EFAULT
  <2>2. Same /\ pc[t] # "r_out" /\ pc'[t] = "r_out"
    BY <1>0, <1>6 DEF CopyToUserFault, Goto, dev, history
  <2>. QED BY <2>1, <2>2
<1>7. Same /\ (Away \/ Failed)
  BY <1>1, <1>2, <1>3, <1>4, <1>5, <1>6 DEF Read
<1>8. Quiet(t)
  <2>1. Position(t)' = Position(t) /\ Reply(t)' = Reply(t)
    BY <1>7 DEF Position, Reply, StoredPos
  <2>. QED BY <1>7, <2>1 DEF Quiet
<1>. QED BY <1>8, QuietStep

-----------------------------------------------------------------------------
(* Steps the log sees *)

\* The end of a read gives its answer away, a close takes the position back.
LEMMA ReadOutLog ==
  ASSUME LInv, LInv', NEW t \in Thread, ReadOut(t)
  PROVE  Log!Return(t)
<1>1. /\ UNCHANGED <<loaded, in_offs, out_offs, full, total_bytes_evicted, stream, marks>>
      /\ pc[t] = "r_out" /\ pc'[t] = "open" /\ fpos'[t] = StoredPos(t)
  BY DEF ReadOut, Goto, dev, history, LInv, IInv, TypeOK
<1>2. Position(t)' = Position(t) /\ Reply(t)' = <<>>
  BY <1>1 DEF Position, Reply
<1>3. /\ Lines' = Lines /\ Partial' = Partial /\ Dropped' = Dropped
      /\ Positions' = Positions /\ Replies' = [Replies EXCEPT ![t] = <<>>]
  BY <1>1, <1>2, SameContents, OneReader DEF Read
<1>. QED BY <1>3 DEF Log!Return, Dropped, Positions, Replies

LEMMA ReleaseLog ==
  ASSUME LInv, LInv', NEW t \in Thread, Release(t)
  PROVE  Log!Close(t)
<1>1. /\ UNCHANGED <<loaded, in_offs, out_offs, full, total_bytes_evicted, stream, marks>>
      /\ pc[t] = "open" /\ pc'[t] = "closed" /\ fpos'[t] = 0
  BY DEF Release, Goto, dev, history, LInv, IInv, TypeOK
<1>2. Position(t)' = 0 /\ Reply(t)' = Reply(t)
  BY <1>1 DEF Position, Reply
<1>3. /\ Lines' = Lines /\ Partial' = Partial /\ Dropped' = Dropped
      /\ Positions' = [Positions EXCEPT ![t] = 0] /\ Replies' = Replies
  BY <1>1, <1>2, SameContents, OneReader
<1>. QED BY <1>3 DEF Log!Close, Dropped, Positions, Replies

LEMMA CleanupLog ==
  ASSUME LInv, LInv', CleanupModule
  PROVE  Log!Reset
<1>1. /\ ~loaded' /\ \A t \in Thread : pc[t] = "closed" /\ fpos[t] = 0
      /\ pc' = pc /\ fpos' = fpos
  BY DEF CleanupModule, LInv, FilesOK
<1>2. Lines' = <<>> /\ Partial' = <<>> /\ Dropped' = 0
  BY <1>1, NextLogView DEF LogView, Dropped
<1>3. \A t \in Thread : /\ Position(t) = 0 /\ Reply(t) = <<>>
                        /\ Position(t)' = 0 /\ Reply(t)' = <<>>
  BY <1>1 DEF Position, Reply
<1>4. Positions' = Positions /\ Replies' = Replies
  BY <1>3 DEF Positions, Replies
<1>. QED BY <1>2, <1>3, <1>4 DEF Log!Reset, Dropped, Positions, Replies

LEMMA LoadLog ==
  ASSUME LInv, LInv', InitModule \/ InitModuleFails
  PROVE  UNCHANGED Log!vars
<1>1. /\ ~loaded /\ in_offs' = 0 /\ out_offs' = 0 /\ full' = FALSE /\ total_bytes_evicted' = 0
      /\ stream' = <<>> /\ marks' = <<>> /\ pc' = pc /\ fpos' = fpos /\ rd' = rd /\ mem' = mem
  BY DEF InitModule, InitModuleFails, ResetDevice, heap
<1>2. Lines = <<>> /\ Partial = <<>> /\ Dropped = 0
  BY <1>1, LInvLogView DEF LogView, Dropped
<1>3. Lines' = <<>> /\ Partial' = <<>> /\ Dropped' = 0
  <2>1. NumEntries' = 0
    <3>1. in_offs' \in Slot /\ out_offs' \in Slot
      BY DEF LInv, IInv, TypeOK
    <3>. QED BY <1>1, <3>1, EntriesBetweenValue DEF NumEntries
  <2>2. StreamLines' = <<>>
    BY <2>1 DEF StreamLines
  <2>3. StreamTail' = <<>>
    BY <1>1 DEF StreamTail, Stretch, Mark
  <2>. QED BY <1>1, <2>2, <2>3, NextLogView DEF LogView, Dropped
<1>4. Positions' = Positions /\ Replies' = Replies
  BY <1>1 DEF Positions, Replies, Position, Reply, StoredPos
<1>. QED BY <1>2, <1>3, <1>4 DEF Log!vars, Dropped, Positions, Replies

\* A stretch of nothing, and a stretch of a stretch.
LEMMA EmptySubSeq ==
  ASSUME NEW s \in Seq(Byte), NEW k \in Nat
  PROVE  SubSeq(s, k + 1, k) = <<>>
BY SubSeqEmpty

LEMMA StretchOfStretch ==
  ASSUME NEW s \in Seq(Byte), NEW a \in Nat, NEW c \in Nat, a <= c, c <= Len(s),
         NEW k \in Nat, NEW upto \in Nat, k <= upto, a + upto <= c,
         NEW b \in Nat, b = a + k, NEW d \in Nat, d = a + upto
  PROVE  Stretch(Stretch(s, a, c), k, upto) = Stretch(s, b, d)
<1>. DEFINE x == Stretch(s, a, c)
<1>1. x \in Seq(Byte) /\ Len(x) = c - a /\ \A j \in 1..c - a : x[j] = s[a + j]
  BY StretchBytes
<1>. HIDE DEF x
<1>2. PICK m \in Nat : k + m = upto /\ b + m = d /\ b + m <= Len(s) /\ k + m <= Len(x)
  <2>1. Len(s) \in Nat
    OBVIOUS
  <2>2. upto - k \in Nat
    OBVIOUS
  <2>. QED BY <1>1, <2>1, <2>2
<1>3. ASSUME NEW j \in 1..m PROVE x[k + j] = s[b + j]
  <2>1. k + j \in 1..c - a /\ a + (k + j) = b + j
    BY <1>2
  <2>. QED BY <1>1, <2>1
<1>4. SubSeq(x, k + 1, k + m) = SubSeq(s, b + 1, b + m)
  BY <1>1, <1>2, <1>3, SameStretch
<1>. QED BY <1>2, <1>4 DEF x, Stretch

\* How many bytes a read of n bytes is given when there are rest of them.
Granted(rest, n) == IF rest < 0 THEN 0 ELSE IF rest < n THEN rest ELSE n

\* The read of t is answered with the m bytes of the stream after p.
Answered(t, n, p, m) ==
  /\ UNCHANGED <<loaded, in_offs, out_offs, full, total_bytes_evicted, stream, marks>>
  /\ p = SnappedPos(t) /\ m = Granted(Mark(Len(marks)) - p, n)
  /\ Position(t) = fpos[t] /\ Position(t)' = p + m
  /\ Reply(t) = <<>> /\ Reply(t)' = Stretch(stream, p, p + m)

LEMMA AnswerLog ==
  ASSUME LInv, LInv', NEW t \in Thread, Read(t), loaded,
         NEW n \in Nat, NEW p \in Nat, NEW m \in Nat, Answered(t, n, p, m)
  PROVE  Log!Read(t, n)
<1>1. IInv /\ RingLinesOK /\ fpos[t] \in Nat /\ stream \in Seq(Byte)
  BY Bounds DEF LInv, IInv, TypeOK
<1>2. PICK D, end \in Nat : /\ D = total_bytes_evicted /\ D = Mark(FirstLine)
                            /\ end = Mark(Len(marks)) /\ D <= end /\ end <= Len(stream)
  BY <1>1, Bounds DEF RingLinesOK, EvictedBytesExact
<1>3. PICK f \in Nat, rest \in Int : /\ f = fpos[t] /\ rest = end - p
                                     /\ m = Granted(rest, n) /\ p = IF f < D THEN D ELSE f
  <2>1. PICK rest \in Int : rest = end - p
    OBVIOUS
  <2>2. m = Granted(rest, n) /\ p = IF fpos[t] < D THEN D ELSE fpos[t]
    BY <1>2, <2>1 DEF Answered, SnappedPos
  <2>. QED BY <1>1, <2>1, <2>2
\* gap and upto are where the answer begins and ends in the log, d is where it
\* ends in the stream.
<1>4. PICK gap, upto, d \in Nat :
         /\ gap = IF f < D THEN 0 ELSE f - D
         /\ upto = gap + m /\ d = p + m /\ gap <= upto
         /\ p = D + gap /\ d = D + upto /\ d = D + gap + m
         /\ end - D - gap = rest
         /\ m # 0 => D + upto <= end
  <2>1. D <= end /\ rest = end - p /\ m = Granted(rest, n) /\ p = IF f < D THEN D ELSE f
    BY <1>2, <1>3
  <2>2. PICK gap \in Nat : gap = (IF f < D THEN 0 ELSE f - D) /\ p = D + gap
    <3>1. CASE f < D
      BY <2>1, <3>1
    <3>2. CASE ~(f < D)
      <4>1. f - D \in Nat /\ p = D + (f - D)
        BY <2>1, <3>2
      <4>. QED BY <3>2, <4>1
    <3>. QED BY <3>1, <3>2
  <2>3. PICK upto, d \in Nat : upto = gap + m /\ d = p + m
    OBVIOUS
  <2>4. m # 0 => p + m <= end
    BY <2>1 DEF Granted
  <2>5. /\ gap <= upto /\ d = D + upto /\ d = D + gap + m /\ end - D - gap = rest
        /\ m # 0 => D + upto <= end
    BY <2>1, <2>2, <2>3, <2>4
  <2>. QED BY <2>2, <2>3, <2>5
<1>5. /\ Lines' = Lines /\ Partial' = Partial /\ Dropped' = Dropped /\ Dropped = D
      /\ Positions' = [Positions EXCEPT ![t] = p + m]
      /\ Replies' = [Replies EXCEPT ![t] = Reply(t)']
      /\ Positions[t] = f /\ Replies[t] = <<>>
  BY <1>2, <1>3, SameContents, OneReader DEF Answered, Dropped, Positions, Replies
<1>6. Log!Text = Stretch(stream, D, end)
  BY <1>1, <1>2, LInvLogView, StreamText DEF LogView, Log!Text
<1>7. Stretch(stream, D, end) \in Seq(Byte) /\ Len(Stretch(stream, D, end)) = end - D
  BY <1>1, <1>2, StretchBytes
<1>8. Reply(t)' = Stretch(stream, p, d)
  BY <1>4, Zenon DEF Answered
<1>9. Reply(t)' = SubSeq(Log!Text, gap + 1, gap + m)
  <2>1. CASE m = 0
    <3>1. gap + m = gap /\ d = p
      BY <1>4, <2>1
    <3>2. SubSeq(Log!Text, gap + 1, gap) = <<>> /\ SubSeq(stream, p + 1, p) = <<>>
      BY <1>1, <1>6, <1>7, EmptySubSeq
    <3>. QED BY <1>8, <3>1, <3>2 DEF Stretch
  <2>2. CASE m # 0
    <3>1. Stretch(Stretch(stream, D, end), gap, upto) = Stretch(stream, p, d)
      <4>1. /\ stream \in Seq(Byte) /\ D <= end /\ end <= Len(stream)
            /\ gap <= upto /\ D + upto <= end /\ p = D + gap /\ d = D + upto
        BY <1>1, <1>2, <1>4, <2>2
      <4>. QED BY <4>1, StretchOfStretch
    <3>2. SubSeq(Log!Text, gap + 1, gap + m) = Stretch(Stretch(stream, D, end), gap, upto)
      BY <1>4, <1>6, Zenon DEF Stretch
    <3>. QED BY <1>8, <3>1, <3>2
  <2>. QED BY <2>1, <2>2
<1>10. /\ Len(Log!Text) - gap = rest
       /\ gap = IF Positions[t] < Dropped THEN 0 ELSE Positions[t] - Dropped
       /\ Positions' = [Positions EXCEPT ![t] = Dropped + gap + m]
  <2>1. Len(Log!Text) - gap = rest
    BY <1>4, <1>6, <1>7
  <2>2. p + m = Dropped + gap + m
    BY <1>4, <1>5
  <2>. QED BY <1>4, <1>5, <2>1, <2>2
<1>11. LET sk == IF Positions[t] < Dropped THEN 0 ELSE Positions[t] - Dropped
           more == Len(Log!Text) - sk
           size == IF more < 0 THEN 0 ELSE IF more < n THEN more ELSE n
       IN  /\ Replies[t] = <<>>
           /\ Replies' = [Replies EXCEPT ![t] = SubSeq(Log!Text, sk + 1, sk + size)]
           /\ Positions' = [Positions EXCEPT ![t] = Dropped + sk + size]
           /\ Lines' = Lines /\ Partial' = Partial /\ Dropped' = Dropped
  BY <1>3, <1>5, <1>9, <1>10 DEF Granted
<1>. QED BY <1>11 DEF Log!Read, Dropped, Positions, Replies

\* A read that finds no byte is answered with nothing, at the position it asked
\* for.
LEMMA FindEofLog ==
  ASSUME LInv, LInv', NEW t \in Thread, FindEof(t)
  PROVE  Log!Read(t, rd[t].count) /\ rd[t].count \in ReadCounts
<1>1. /\ UNCHANGED <<loaded, in_offs, out_offs, full, total_bytes_evicted, stream, marks>>
      /\ pc[t] = "r_find" /\ pc'[t] = "r_out" /\ rd' = rd /\ mem' = mem /\ fpos' = fpos
      /\ ~MoreToScan(t) /\ pc[t] \in InRead
  BY DEF FindEof, Goto, dev, heap, history, LInv, IInv, TypeOK, InRead
<1>2. /\ IInv /\ RingLinesOK /\ loaded /\ ReadOK(t) /\ ReaderOK(t)
      /\ rd[t].pos \in Nat /\ rd[t].count \in ReadCounts /\ rd[t].count \in Nat
      /\ rd[t].i \in Nat /\ rd[t].sum \in Nat /\ total_bytes_evicted \in Nat
      /\ fpos[t] \in Nat
  BY <1>1, ReadFacts
<1>3. PICK D, end, p \in Nat :
         /\ D = total_bytes_evicted /\ D = Mark(FirstLine) /\ end = Mark(Len(marks))
         /\ D <= end /\ p = rd[t].pos
  BY <1>2, Bounds DEF RingLinesOK, EvictedBytesExact
<1>4. p = (IF fpos[t] < D THEN D ELSE fpos[t]) /\ rd[t].retval = 0
      /\ mem[rd[t].kernel_buf] = <<>>
  BY <1>1, <1>2, <1>3 DEF ReadOK, SnappedPos
<1>5. end <= p
  <2>1. D + rd[t].sum = Mark(FirstLine + rd[t].i) /\ D + rd[t].sum <= p
        /\ rd[t].i <= NumEntries
    BY <1>1, <1>2, <1>3 DEF ReadOK, ReaderOK
  <2>2. ~(p < D)
    BY <1>2, <1>3, <1>4
  <2>3. ~(rd[t].i < NumEntries)
    BY <1>1, <1>3, <2>2 DEF MoreToScan
  <2>4. rd[t].i = NumEntries
    BY <1>2, <2>1, <2>3, Bounds
  <2>. QED BY <1>2, <1>3, <2>1, <2>4, Bounds
<1>6. /\ Position(t)' = p /\ Reply(t)' = <<>> /\ Position(t) = fpos[t] /\ Reply(t) = <<>>
  BY <1>1, <1>3, <1>4 DEF Position, Reply, StoredPos
<1>7. PICK n \in Nat : n = rd[t].count
  BY <1>2
<1>8. 0 = Granted(end - p, n) /\ p + 0 = p /\ Stretch(stream, p, p) = <<>>
  <2>1. stream \in Seq(Byte)
    BY <1>2, Bounds
  <2>. QED BY <1>5, <2>1, EmptySubSeq DEF Granted, Stretch
<1>9. p = SnappedPos(t)
  BY <1>3, <1>4 DEF SnappedPos
<1>10. Log!Read(t, n)
  <2>1. Answered(t, n, p, 0)
    BY <1>1, <1>3, <1>6, <1>8, <1>9 DEF Answered
  <2>. QED BY <1>1, <1>2, <2>1, AnswerLog DEF Read
<1>. QED BY <1>2, <1>7, <1>10

\* A read that gets to the user is answered with the bytes it has copied.
LEMMA CopyToUserLog ==
  ASSUME LInv, LInv', NEW t \in Thread, CopyToUser(t)
  PROVE  Log!Read(t, rd[t].count) /\ rd[t].count \in ReadCounts
<1>1. /\ UNCHANGED <<loaded, in_offs, out_offs, full, total_bytes_evicted, stream, marks>>
      /\ pc[t] = "r_user" /\ pc'[t] = "r_out" /\ mem' = mem /\ fpos' = fpos
      /\ pc[t] \in InRead
  BY DEF CopyToUser, Goto, dev, heap, history, LInv, IInv, TypeOK, InRead
<1>2. /\ IInv /\ RingLinesOK /\ loaded /\ ReadOK(t) /\ rd \in [Thread -> ReadLocals]
      /\ rd[t] \in ReadLocals /\ rd[t].count \in ReadCounts /\ rd[t].kernel_buf \in Address
      /\ mem \in [Address -> Seq(Byte)]
  BY <1>1, ReadFacts
<1>3. PICK n, m, p, end \in Nat :
         n = rd[t].count /\ m = rd[t].bytes_read /\ p = rd[t].pos /\ end = Mark(Len(marks))
  BY <1>1, <1>2, ReadFacts, Bounds
<1>4. /\ p = SnappedPos(t) /\ Copied(t)
      /\ m = IF n < end - p THEN n ELSE end - p
  BY <1>1, <1>2, <1>3 DEF ReadOK
<1>5. m = Granted(end - p, n)
  BY <1>4 DEF Granted
<1>6. rd'[t].pos = p + m /\ rd'[t].retval = m /\ rd'[t].kernel_buf = rd[t].kernel_buf
  BY <1>2, <1>3 DEF CopyToUser, ReadLocals
<1>7. mem[rd[t].kernel_buf] = Stretch(stream, p, p + m)
  <2>1. CASE m = 0
    <3>1. mem[rd[t].kernel_buf] \in Seq(Byte) /\ Len(mem[rd[t].kernel_buf]) = 0
      BY <1>2, <1>3, <1>4, <2>1 DEF Copied
    <3>2. stream \in Seq(Byte) /\ p + m = p
      BY <1>2, <2>1, Bounds
    <3>. QED BY <3>1, <3>2, EmptySeq, EmptySubSeq DEF Stretch
  <2>2. CASE m # 0
    <3>1. rd[t].bytes_read > 0
      BY <1>3, <2>2
    <3>2. mem[rd[t].kernel_buf] = SubSeq(stream, rd[t].pos + 1, rd[t].pos + rd[t].bytes_read)
      BY <1>1, <3>1, LInvReads DEF ReadReturnsTheStream
    <3>. QED BY <1>3, <2>2, <3>2 DEF Stretch
  <2>. QED BY <2>1, <2>2
<1>8. /\ Position(t)' = p + m /\ Position(t) = fpos[t] /\ Reply(t) = <<>>
      /\ Reply(t)' = Stretch(stream, p, p + m)
  <2>1. m >= 0
    OBVIOUS
  <2>. QED BY <1>1, <1>6, <1>7, <2>1 DEF Position, Reply, StoredPos
<1>9. Log!Read(t, n)
  <2>1. Answered(t, n, p, m)
    BY <1>1, <1>3, <1>4, <1>5, <1>8 DEF Answered
  <2>. QED BY <1>1, <1>2, <2>1, AnswerLog DEF Read
<1>. QED BY <1>2, <1>3, <1>9

\* A byte that ends no line lengthens the unfinished one.
LEMMA WriteByteLog ==
  ASSUME LInv, LInv', NEW t \in Thread, WriteByte(t)
  PROVE  Log!Accept(ByteAt(t)) /\ ByteAt(t) \in Byte
<1>1. /\ UNCHANGED <<loaded, in_offs, out_offs, full, total_bytes_evicted, marks>>
      /\ pc[t] = "w_loop" /\ pc' = pc /\ fpos' = fpos /\ wr[t].i < wr[t].count
      /\ stream' = Append(stream, ByteAt(t)) /\ ByteAt(t) # Newline /\ pc[t] \in InWrite
  BY DEF WriteByte, MoreToWrite, dev, InWrite
<1>2. /\ IInv /\ RingLinesOK /\ loaded /\ WriterOK(t) /\ mem \in [Address -> Seq(Byte)]
      /\ wr[t].new_buf \in Address /\ wr[t].curr_size \in Nat
      /\ wr[t].i \in Nat /\ wr[t].count \in Nat
  BY <1>1, WriteFacts
<1>3. ByteAt(t) \in Byte
  <2>1. PICK k, j, c \in Nat : k = wr[t].curr_size /\ j = wr[t].i /\ c = wr[t].count
    BY <1>2
  <2>2. /\ mem[wr[t].new_buf] \in Seq(Byte)
        /\ Len(mem[wr[t].new_buf]) = k + (c - j) /\ j < c
    BY <1>1, <1>2, <2>1 DEF WriterOK
  <2>3. k + 1 \in 1..Len(mem[wr[t].new_buf])
    BY <2>1, <2>2
  <2>4. mem[wr[t].new_buf][k + 1] \in Byte
    BY <2>2, <2>3
  <2>. QED BY <2>1, <2>4 DEF ByteAt
<1>4. PICK b \in Byte : b = ByteAt(t)
  BY <1>3
<1>5. PICK end, N \in Nat : end = Mark(Len(marks)) /\ N = Len(stream) /\ end <= N
  BY <1>2, Bounds
<1>6. /\ stream \in Seq(Byte) /\ stream' = Append(stream, b) /\ Len(stream') = N + 1
  BY <1>1, <1>2, <1>4, <1>5, Bounds
<1>7. /\ \A a, c \in Nat : a <= c /\ c <= N => Stretch(stream', a, c) = Stretch(stream, a, c)
      /\ Stretch(stream', end, N + 1) = Append(Stretch(stream, end, N), b)
  BY <1>5, <1>6, GrowStretch
<1>8. StreamLines' = StreamLines
  <2>1. NumEntries' = NumEntries /\ FirstLine' = FirstLine /\ \A j : Mark(j)' = Mark(j)
    BY <1>1 DEF NumEntries, FirstLine, Mark
  <2>2. ASSUME NEW k \in 1..NumEntries
        PROVE  Stretch(stream', Mark(FirstLine + k - 1), Mark(FirstLine + k))
                 = Stretch(stream, Mark(FirstLine + k - 1), Mark(FirstLine + k))
    <3>1. PICK F, n \in Nat : F = FirstLine /\ n = NumEntries
      BY <1>2, Bounds
    <3>2. /\ k - 1 \in 0..n /\ k \in 0..n /\ k - 1 <= k /\ F + (k - 1) = F + k - 1
      BY <3>1
    <3>3. /\ Mark(F + (k - 1)) \in Nat /\ Mark(F + k) \in Nat
          /\ Mark(F + (k - 1)) <= Mark(F + k) /\ Mark(F + k) <= end
      BY <1>2, <1>5, <3>1, <3>2, Bounds
    <3>4. PICK a, c \in Nat : a = Mark(F + k - 1) /\ c = Mark(F + k) /\ a <= c /\ c <= N
      BY <1>5, <3>2, <3>3
    <3>. QED BY <1>7, <3>1, <3>4
  <2>. QED BY <2>1, <2>2 DEF StreamLines
<1>9. StreamTail = Stretch(stream, end, N) /\ StreamTail' = Stretch(stream', end, N + 1)
  <2>1. Mark(Len(marks))' = end
    BY <1>1, <1>5 DEF Mark
  <2>. QED BY <1>5, <1>6, <2>1 DEF StreamTail
<1>10. /\ Lines' = Lines /\ Partial' = Append(Partial, b) /\ Dropped' = Dropped
  BY <1>1, <1>2, <1>7, <1>8, <1>9, LInvLogView, NextLogView DEF LogView, Dropped
<1>11. Positions' = Positions /\ Replies' = Replies
  <2>1. Position(t)' = Position(t) /\ Reply(t)' = Reply(t)
    BY <1>1 DEF Position, Reply
  <2>. QED BY <2>1, OneReader DEF Write
<1>. QED BY <1>1, <1>3, <1>4, <1>10, <1>11 DEF Log!Accept, Dropped, Positions, Replies

\* The n lines that s has between the places c.
Cuts(s, c, n) == [k \in 1..n |-> Stretch(s, c[k - 1], c[k])]

LEMMA Appended ==
  ASSUME NEW S, NEW q \in Seq(S), NEW e \in S, NEW n \in Nat, n = Len(q),
         NEW all, all = Append(q, e)
  PROVE  /\ all \in Seq(S) /\ all # <<>> /\ Len(all) = n + 1
         /\ \A k \in 1..n : all[k] = q[k]
         /\ all[n + 1] = e
BY AppendProperties

\* The lines of s, cut at c, and the line that byte b ends: one more line of s
\* with b at its end.
\* c are places that cut s into n lines, and one place where its next line ends.
Places(s, c, n) ==
  /\ c \in [0..n + 1 -> Nat]
  /\ \A k \in 0..n : c[k] <= Len(s)
  /\ \A k \in 1..n : c[k - 1] <= c[k]
  /\ c[n + 1] = Len(s) + 1

\* The lines with the one that b ends.
Completed(s, b, c, n) == Append(Cuts(s, c, n), Append(Stretch(s, c[n], Len(s)), b))

LEMMA CompleteLine ==
  ASSUME NEW s \in Seq(Byte), NEW b \in Byte, NEW n \in Nat, NEW c, Places(s, c, n)
  PROVE  /\ Completed(s, b, c, n) = Cuts(Append(s, b), c, n + 1)
         /\ n > 0 => /\ Tail(Completed(s, b, c, n))
                          = [k \in 1..n |-> Stretch(Append(s, b), c[k], c[k + 1])]
                     /\ Len(Head(Completed(s, b, c, n))) = c[1] - c[0]
<1>. DEFINE lines == Cuts(s, c, n)
            last == Append(Stretch(s, c[n], Len(s)), b)
            all == Completed(s, b, c, n)
            r == Append(s, b)
            longer == Cuts(r, c, n + 1)
            later == [k \in 1..n |-> Stretch(r, c[k], c[k + 1])]
<1>0. PICK S : S = Seq(Byte)
  OBVIOUS
<1>a. /\ c \in [0..n + 1 -> Nat] /\ \A k \in 0..n : c[k] <= Len(s)
      /\ \A k \in 1..n : c[k - 1] <= c[k]
      /\ c[n + 1] = Len(s) + 1
  BY DEF Places
<1>1. Len(s) \in Nat /\ r \in Seq(Byte) /\ Len(r) = Len(s) + 1
  OBVIOUS
<1>2. /\ \A k \in 1..n + 1 : k - 1 \in 0..n /\ k - 1 \in 0..n + 1 /\ k \in 0..n + 1
      /\ n \in 0..n /\ n \in 0..n + 1 /\ n + 1 \in 0..n + 1
      /\ \A k \in 1..n : k \in 0..n /\ k \in 0..n + 1 /\ k \in 1..n + 1
      /\ 0 \in 0..n + 1 /\ (n + 1) - 1 = n
  OBVIOUS
<1>3. c[n] \in Nat /\ c[n] <= Len(s)
  BY <1>a, <1>2
<1>4. last = Stretch(r, c[n], c[n + 1]) /\ last \in S
  <2>1. PICK a \in Nat : a = c[n] /\ a <= Len(s)
    BY <1>3
  <2>2. Stretch(s, a, Len(s)) \in Seq(Byte)
    BY <1>1, <2>1, StretchBytes
  <2>3. Stretch(r, a, Len(s) + 1) = Append(Stretch(s, a, Len(s)), b)
    BY <2>1, GrowStretch
  <2>. QED BY <1>0, <1>a, <2>1, <2>2, <2>3
<1>5. ASSUME NEW k \in 1..n
      PROVE  lines[k] = Stretch(r, c[k - 1], c[k]) /\ lines[k] \in S
  <2>1. PICK i, j \in Nat : i = c[k - 1] /\ j = c[k] /\ i <= j /\ j <= Len(s)
    BY <1>a, <1>2
  <2>2. Stretch(r, i, j) = Stretch(s, i, j)
    BY <1>3, <2>1, GrowStretch
  <2>3. Stretch(s, i, j) \in Seq(Byte)
    BY <2>1, StretchBytes
  <2>. QED BY <1>0, <2>1, <2>2, <2>3 DEF Cuts
<1>6. lines \in Seq(S) /\ Len(lines) = n
  BY <1>5 DEF Cuts
<1>. HIDE DEF lines, last, r
<1>7. /\ all \in Seq(S) /\ all # <<>> /\ Len(all) = n + 1
      /\ \A k \in 1..n : all[k] = lines[k]
      /\ all[n + 1] = last
  <2>1. all = Append(lines, last)
    BY DEF lines, last, all, Completed
  <2>2. last \in S
    BY <1>4
  <2>. QED BY <1>6, <2>1, <2>2, Appended
<1>. HIDE DEF all
<1>8. ASSUME NEW k \in 1..n + 1
      PROVE  all[k] = Stretch(r, c[k - 1], c[k]) /\ all[k] \in S
  <2>1. CASE k = n + 1
    BY <1>2, <1>4, <1>7, <2>1
  <2>2. CASE k # n + 1
    <3>1. k \in 1..n
      BY <2>2
    <3>. QED BY <1>5, <1>7, <3>1
  <2>. QED BY <2>1, <2>2
<1>9. all = longer
  <2>1. \A k \in 1..n + 1 : Stretch(r, c[k - 1], c[k]) \in S
    BY <1>8
  <2>2. longer \in Seq(S) /\ Len(longer) = n + 1 /\ \A k \in 1..n + 1 : all[k] = longer[k]
    BY <1>8, <2>1 DEF Cuts
  <2>. HIDE DEF longer
  <2>. QED BY <1>7, <2>1, <2>2, SeqEqual
<1>10. ASSUME n > 0
       PROVE  Tail(all) = later /\ Len(Head(all)) = c[1] - c[0]
  <2>1. 1 \in 1..n /\ 1 \in 1..n + 1 /\ 1 - 1 = 0 /\ (n + 1) - 1 = n
    BY <1>10
  <2>2. /\ Head(all) = all[1] /\ Tail(all) \in Seq(S)
        /\ Len(Tail(all)) = n /\ \A k \in 1..n : Tail(all)[k] = all[k + 1]
    <3>1. Head(all) = all[1]
      BY <1>7
    <3>2. /\ Tail(all) \in Seq(S) /\ Len(Tail(all)) = Len(all) - 1
          /\ \A k \in 1..Len(Tail(all)) : Tail(all)[k] = all[k + 1]
      BY <1>7, HeadTailProperties
    <3>. QED BY <1>7, <2>1, <3>1, <3>2
  <2>3. ASSUME NEW k \in 1..n
        PROVE  all[k + 1] = later[k] /\ later[k] \in S
    <3>1. k + 1 \in 1..n + 1 /\ (k + 1) - 1 = k
      OBVIOUS
    <3>. QED BY <1>8, <3>1
  <2>4. later \in Seq(S) /\ Len(later) = n
    BY <2>3
  <2>5. Tail(all) = later
    <3>. HIDE DEF later
    <3>1. \A k \in 1..n : Tail(all)[k] = later[k]
      BY <2>2, <2>3
    <3>. QED BY <2>2, <2>4, <3>1, SeqEqual
  <2>6. Len(all[1]) = c[1] - c[0]
    <3>1. PICK i, j \in Nat : i = c[1 - 1] /\ i = c[0] /\ j = c[1] /\ i <= j /\ j <= Len(s)
      BY <1>a, <1>2, <2>1
    <3>2. all[1] = Stretch(r, i, j)
      BY <1>8, <2>1, <3>1
    <3>3. j <= Len(r)
      BY <1>1, <3>1
    <3>4. Len(Stretch(r, i, j)) = j - i
      BY <1>1, <3>1, <3>3, StretchBytes
    <3>. QED BY <3>1, <3>2, <3>4
  <2>. QED BY <2>2, <2>5, <2>6
<1>. QED BY <1>9, <1>10 DEF r, all

LEMMA EntriesCounted == IInv => NumEntries \in Nat
BY RingFacts

LEMMA NextEntriesCounted == IInv' => (NumEntries \in Nat)'
BY EntriesCounted, PTL

\* A newline ends the unfinished line.
LEMMA WriteNewlineLog ==
  ASSUME LInv, LInv', NEW t \in Thread, WriteNewline(t)
  PROVE  Log!Accept(Newline) /\ Newline \in Byte
<1>1. /\ pc[t] = "w_loop" /\ wr[t].i < wr[t].count /\ pc[t] \in InWrite
      /\ CommitEntry(wr[t].new_buf, wr[t].curr_size + 1)
      /\ stream' = Append(stream, Newline) /\ marks' = Append(marks, Len(stream) + 1)
      /\ loaded' = loaded /\ fpos' = fpos
  BY DEF WriteNewline, MoreToWrite, InWrite
<1>2. IInv /\ IInv' /\ RingLinesOK /\ CountOK /\ loaded /\ stream \in Seq(Byte)
  BY <1>1, WriteFacts DEF LInv, RingLinesOK
<1>3. PICK F, n, N, L, end \in Nat :
         /\ F = FirstLine /\ n = NumEntries /\ N = Len(marks) /\ F + n = N
         /\ L = Len(stream) /\ end = Mark(N) /\ end <= L
  BY <1>2, Bounds
<1>4. PICK new \in Nat : new = L + 1
  OBVIOUS
<1>5. /\ Len(marks') = N + 1
      /\ FirstLine' = IF full THEN FirstLine + 1 ELSE FirstLine
      /\ \A j \in 0..N : Mark(j)' = Mark(j)
      /\ Mark(N + 1)' = new
  BY <1>1, <1>2, <1>3, <1>4, CommitLines
<1>. DEFINE c == [k \in 0..n + 1 |-> IF k = n + 1 THEN new ELSE Mark(F + k)]
            all == Completed(stream, Newline, c, n)
<1>6. /\ c \in [0..n + 1 -> Nat] /\ \A k \in 0..n : c[k] = Mark(F + k) /\ c[k] <= Len(stream)
      /\ \A k \in 1..n : c[k - 1] <= c[k]
      /\ c[n + 1] = Len(stream) + 1 /\ c[n + 1] = new /\ c[n] = end
  <2>1. \A k \in 0..n : /\ Mark(F + k) \in Nat /\ Mark(F + k) <= Mark(Len(marks))
    BY <1>2, <1>3, Bounds
  <2>2. \A j, k \in 0..n : j <= k => Mark(F + j) <= Mark(F + k)
    BY <1>2, <1>3, Bounds
  <2>3. \A k \in 0..n : Mark(F + k) <= L
    BY <1>3, <2>1
  <2>4. c \in [0..n + 1 -> Nat]
    <3>1. ASSUME NEW k \in 0..n + 1, k # n + 1 PROVE k \in 0..n
      BY <3>1
    <3>. QED BY <2>1, <3>1
  <2>5. \A k \in 0..n : k \in 0..n + 1 /\ k # n + 1
    OBVIOUS
  <2>6. \A k \in 0..n : c[k] = Mark(F + k)
    BY <2>5
  <2>7. /\ n \in 0..n /\ n + 1 \in 0..n + 1
        /\ \A k \in 1..n : k - 1 \in 0..n /\ k \in 0..n /\ k - 1 <= k
    OBVIOUS
  <2>8. c[n + 1] = new
    BY <2>7
  <2>. HIDE DEF c
  <2>9. \A k \in 1..n : c[k - 1] <= c[k]
    <3>1. ASSUME NEW k \in 1..n PROVE c[k - 1] <= c[k]
      <4>1. Mark(F + (k - 1)) <= Mark(F + k)
        BY <2>2, <2>7
      <4>2. c[k - 1] = Mark(F + (k - 1)) /\ c[k] = Mark(F + k)
        BY <2>6, <2>7
      <4>. QED BY <4>1, <4>2
    <3>. QED BY <3>1
  <2>10. c[n] = end
    BY <1>3, <2>6, <2>7
  <2>. QED BY <1>3, <1>4, <2>3, <2>4, <2>6, <2>8, <2>9, <2>10
<1>. HIDE DEF c
<1>7. /\ all = Cuts(stream', c, n + 1)
      /\ n > 0 => /\ Tail(all) = [k \in 1..n |-> Stretch(stream', c[k], c[k + 1])]
                  /\ Len(Head(all)) = c[1] - c[0]
  <2>1. Newline \in Byte
    BY ByteAssumption
  <2>2. Places(stream, c, n)
    BY <1>6 DEF Places
  <2>. QED BY <1>1, <1>2, <2>1, <2>2, CompleteLine
<1>8. Lines = Cuts(stream, c, n)
  <2>1. Lines = [k \in 1..n |-> Stretch(stream, Mark(F + k - 1), Mark(F + k))]
    BY <1>2, <1>3, LInvLogView DEF LogView, StreamLines
  <2>2. \A k \in 1..n : c[k - 1] = Mark(F + k - 1) /\ c[k] = Mark(F + k)
    <3>1. ASSUME NEW k \in 1..n PROVE c[k - 1] = Mark(F + k - 1) /\ c[k] = Mark(F + k)
      <4>1. k - 1 \in 0..n /\ k \in 0..n /\ F + (k - 1) = F + k - 1
        OBVIOUS
      <4>. QED BY <1>6, <4>1
    <3>. QED BY <3>1
  <2>. QED BY <2>1, <2>2 DEF Cuts
<1>9. Append(Lines, Append(Partial, Newline)) = all
  <2>1. Partial = Stretch(stream, c[n], Len(stream))
    BY <1>2, <1>3, <1>6, LInvLogView DEF LogView, StreamTail
  <2>. QED BY <1>8, <2>1 DEF Completed
<1>. HIDE DEF all
<1>10. Partial' = <<>>
  <2>1. Partial' = SubSeq(stream', Mark(Len(marks))' + 1, Len(stream'))
    BY <1>1, <1>2, NextLogView DEF LogView, StreamTail, Stretch
  <2>2. Mark(Len(marks))' = new
    BY <1>5
  <2>3. Len(stream') = new /\ stream' \in Seq(Byte)
    BY <1>1, <1>2, <1>3, <1>4, ByteAssumption
  <2>. QED BY <2>1, <2>2, <2>3, EmptySubSeq
<1>11. /\ Len(Lines) = n /\ (full => n = MaxEntries /\ n > 0) /\ (~full => n < MaxEntries)
       /\ full \in BOOLEAN
  <2>1. Len(Lines) = n
    BY <1>8 DEF Cuts
  <2>2. /\ MaxEntries \in 1..255 /\ n = IF full THEN MaxEntries ELSE in_offs
        /\ in_offs \in 0..MaxEntries - 1 /\ full \in BOOLEAN
    BY <1>2, <1>3, RingFacts
  <2>. QED BY <2>1, <2>2
<1>12. \A j \in 0..n + 1 : Mark(F + j)' = c[j]
  <2>1. ASSUME NEW j \in 0..n + 1
        PROVE  Mark(F + j)' = c[j]
    <3>1. CASE j = n + 1
      <4>1. F + j = N + 1
        BY <1>3, <3>1
      <4>. QED BY <1>5, <1>6, <3>1, <4>1
    <3>2. CASE j # n + 1
      <4>1. j \in 0..n /\ F + j \in 0..N
        BY <1>3, <3>2
      <4>2. Mark(F + j)' = Mark(F + j)
        BY <1>5, <4>1
      <4>. QED BY <1>6, <4>1, <4>2
    <3>. QED BY <3>1, <3>2
  <2>. QED BY <2>1
<1>13. PICK F1, n1 \in Nat : /\ F1 = (IF full THEN F + 1 ELSE F) /\ n1 = (N + 1) - F1
                             /\ F1 = FirstLine' /\ n1 = NumEntries'
  <2>1. NumEntries' \in Nat /\ FirstLine' = Len(marks') - NumEntries'
    BY <1>2, NextEntriesCounted DEF FirstLine
  <2>2. PICK F1 \in Nat : F1 = (IF full THEN F + 1 ELSE F) /\ F1 = FirstLine'
    BY <1>3, <1>5, <1>11
  <2>3. PICK n1 \in Nat : n1 = NumEntries'
    BY <2>1
  <2>4. n1 = (N + 1) - F1
    BY <1>5, <2>1, <2>2, <2>3
  <2>. QED BY <2>2, <2>3, <2>4
<1>14. Lines' = [k \in 1..n1 |-> Stretch(stream', Mark(F1 + k - 1)', Mark(F1 + k)')]
  <2>1. Lines' = StreamLines'
    BY <1>1, <1>2, NextLogView DEF LogView
  <2>. QED BY <1>13, <2>1 DEF StreamLines, Mark
<1>15. Positions' = Positions /\ Replies' = Replies
  <2>1. Position(t)' = Position(t) /\ Reply(t)' = Reply(t)
    <3>1. pc[t] # "r_out" /\ pc'[t] # "r_out"
      <4>1. PICK to \in {"w_out", "w_loop"} : pc' = [pc EXCEPT ![t] = to]
        <5>1. \E p : pc' = [pc EXCEPT ![t] = IF p = NULL THEN "w_out" ELSE pc[t]]
          BY DEF WriteNewline
        <5>. QED BY <1>1, <5>1
      <4>2. pc \in [Thread -> PC]
        BY <1>2 DEF IInv, SemInv
      <4>. QED BY <1>1, <4>1, <4>2
    <3>. QED BY <1>1, <3>1 DEF Position, Reply
  <2>. QED BY <2>1, OneReader DEF Write
<1>16. CASE ~full
  <2>1. F1 = F /\ n1 = n + 1
    BY <1>3, <1>13, <1>16
  <2>2. \A k \in 1..n + 1 : Mark(F + k - 1)' = c[k - 1] /\ Mark(F + k)' = c[k]
    <3>1. ASSUME NEW k \in 1..n + 1
          PROVE  Mark(F + k - 1)' = c[k - 1] /\ Mark(F + k)' = c[k]
      <4>1. k - 1 \in 0..n + 1 /\ k \in 0..n + 1 /\ F + (k - 1) = F + k - 1
        OBVIOUS
      <4>2. Mark(F + (k - 1))' = c[k - 1] /\ Mark(F + k)' = c[k]
        BY <1>12, <4>1
      <4>. QED BY <4>1, <4>2
    <3>. QED BY <3>1
  <2>3. Lines' = all
    BY <1>7, <1>14, <2>1, <2>2 DEF Cuts
  <2>4. Dropped' = Dropped
    BY <1>1, <1>2, <1>16 DEF CommitEntry, Dropped
  <2>5. Len(Lines) < MaxEntries
    BY <1>11, <1>16
  <2>. QED BY <1>9, <1>10, <1>15, <2>3, <2>4, <2>5, ByteAssumption
           DEF Log!Accept, Dropped, Positions, Replies
<1>17. CASE full
  <2>1. F1 = F + 1 /\ n1 = n
    BY <1>3, <1>13, <1>17
  <2>2. \A k \in 1..n : Mark(F1 + k - 1)' = c[k] /\ Mark(F1 + k)' = c[k + 1]
    <3>1. ASSUME NEW k \in 1..n
          PROVE  Mark(F1 + k - 1)' = c[k] /\ Mark(F1 + k)' = c[k + 1]
      <4>1. /\ k \in 0..n + 1 /\ k + 1 \in 0..n + 1
            /\ F1 + k - 1 = F + k /\ F1 + k = F + (k + 1)
        BY <2>1
      <4>2. Mark(F + k)' = c[k] /\ Mark(F + (k + 1))' = c[k + 1]
        BY <1>12, <4>1
      <4>. QED BY <4>1, <4>2
    <3>. QED BY <3>1
  <2>3. Lines' = Tail(all) /\ Len(Head(all)) = c[1] - c[0]
    BY <1>7, <1>11, <1>14, <1>17, <2>1, <2>2
  <2>4. Dropped' = Dropped + Len(Head(all))
    <3>1. total_bytes_evicted' = total_bytes_evicted + entry[out_offs].size
      BY <1>1, <1>17 DEF CommitEntry
    <3>2. 0 \in 0..NumEntries - 1 /\ n > 0
      BY <1>3, <1>11, <1>17
    <3>3. SlotOf(0) = out_offs
      BY <1>2, OldestLine
    <3>4. entry[SlotOf(0)].size = Mark(FirstLine + 0 + 1) - Mark(FirstLine + 0)
      BY <1>2, <3>2, EntrySize
    <3>5. F + 0 = F /\ F + 0 + 1 = F + 1 /\ 0 \in 0..n /\ 1 \in 0..n
      BY <3>2
    <3>6. c[0] = Mark(F + 0) /\ c[1] = Mark(F + 1)
      BY <1>6, <3>5
    <3>. QED BY <1>1, <1>2, <1>3, <2>3, <3>1, <3>3, <3>4, <3>5, <3>6 DEF Dropped
  <2>5. ~(Len(Lines) < MaxEntries)
    BY <1>11, <1>17
  <2>. QED BY <1>9, <1>10, <1>15, <2>3, <2>4, <2>5, ByteAssumption
           DEF Log!Accept, Dropped, Positions, Replies
<1>. QED BY <1>11, <1>16, <1>17

-----------------------------------------------------------------------------
(* The driver implements the log *)

LEMMA InitLog == Init => Log!Init
<1>. SUFFICES ASSUME Init PROVE Log!Init
  OBVIOUS
<1>1. Lines = <<>> /\ Partial = <<>> /\ Dropped = 0
  BY DEF Init, Lines, Partial, Dropped
<1>2. \A t \in Thread : Position(t) = 0 /\ Reply(t) = <<>>
  BY DEF Init, Position, Reply
<1>3. Positions = [t \in Thread |-> 0] /\ Replies = [t \in Thread |-> <<>>]
  BY <1>2 DEF Positions, Replies
<1>. QED BY <1>1, <1>3 DEF Log!Init, Dropped, Positions, Replies

\* Each step of the driver is a step of the log or none at all.
LEMMA StepLog == LInv /\ LInv' /\ [Next]_vars => [Log!Next]_(Log!vars)
<1>. SUFFICES ASSUME LInv, LInv', [Next]_vars PROVE [Log!Next]_(Log!vars)
  OBVIOUS
<1>1. CASE InitModule \/ InitModuleFails
  BY <1>1, LoadLog
<1>2. CASE CleanupModule
  BY <1>2, CleanupLog DEF Log!Next
<1>3. ASSUME NEW t \in Thread, Open(t) \/ Call(t)
      PROVE  UNCHANGED Log!vars
  BY <1>3, OpenCallLog
<1>4. ASSUME NEW t \in Thread, Release(t)
      PROVE  Log!Next
  BY <1>4, ReleaseLog DEF Log!Next
<1>5. ASSUME NEW t \in Thread, Write(t)
      PROVE  Log!Next \/ UNCHANGED Log!vars
  <2>1. CASE WriteByte(t)
    BY <2>1, WriteByteLog DEF Log!Next
  <2>2. CASE WriteNewline(t)
    BY <2>2, WriteNewlineLog DEF Log!Next
  <2>3. CASE ~WriteByte(t) /\ ~WriteNewline(t)
    BY <1>5, <2>3, QuietWriteLog
  <2>. QED BY <2>1, <2>2, <2>3
<1>6. ASSUME NEW t \in Thread, Read(t)
      PROVE  Log!Next \/ UNCHANGED Log!vars
  <2>1. CASE FindEof(t)
    BY <2>1, FindEofLog DEF Log!Next
  <2>2. CASE CopyToUser(t)
    BY <2>2, CopyToUserLog DEF Log!Next
  <2>3. CASE ReadOut(t)
    BY <2>3, ReadOutLog DEF Log!Next
  <2>4. CASE ~FindEof(t) /\ ~CopyToUser(t) /\ ~ReadOut(t)
    BY <1>6, <2>4, QuietReadLog
  <2>. QED BY <2>1, <2>2, <2>3, <2>4
<1>7. CASE UNCHANGED vars
  <2>1. /\ UNCHANGED <<loaded, in_offs, out_offs, full, total_bytes_evicted, stream, marks>>
        /\ UNCHANGED <<pc, fpos, rd, mem>>
    BY <1>7 DEF vars, dev, heap, history
  <2>2. Lines' = Lines /\ Partial' = Partial /\ Dropped' = Dropped
    BY <2>1, SameContents
  <2>3. Positions' = Positions /\ Replies' = Replies
    BY <2>1 DEF Positions, Replies, Position, Reply, StoredPos
  <2>. QED BY <2>2, <2>3 DEF Log!vars, Dropped, Positions, Replies
<1>. QED BY <1>1, <1>2, <1>3, <1>4, <1>5, <1>6, <1>7 DEF Next

\* The driver implements the line log: seen from outside, a write hands over
\* its bytes one by one and in order, and a read is answered in one step from
\* the lines held at that step, though aesd_write and aesd_read run for many
\* steps, fail on several paths and are interleaved with those of other threads.
THEOREM ImplementsLineLog == Spec => RefinesLineLog
BY InitLInv, StepLInv, InitLog, StepLog, PTL DEF Spec, RefinesLineLog, Log!Spec
=============================================================================
