--------------------------- MODULE CircularBuffer ---------------------------
(***************************************************************************)
(* The circular buffer library aesd-char-driver/aesd-circular-buffer.c:    *)
(* an array of MaxEntries entries, the slot in_offs the next write goes    *)
(* to, the slot out_offs the oldest entry is in, and the flag full that    *)
(* tells a full ring from an empty one (in both, in_offs = out_offs).      *)
(*                                                                         *)
(* The library never takes an entry out: an add to a full ring overwrites  *)
(* the oldest one.  The history variable added records every add; it is    *)
(* what the properties compare the ring with.                              *)
(***************************************************************************)
EXTENDS RingIndex, SequencesExt

CONSTANTS
  Buffptr,      \* the buffers a caller may add
  NULL,         \* the null pointer
  Sizes,        \* the entry sizes a caller may add
  MaxAdds       \* bound on the number of adds explored by TLC

ASSUME EntryAssumption == Sizes \subseteq Nat /\ NULL \notin Buffptr
ASSUME MaxAddsAssumption == MaxAdds \in Nat

VARIABLES
  entry,      \* entry[i]: the buffer and the size stored in slot i
  in_offs,    \* the slot of the next write
  out_offs,   \* the slot of the oldest entry
  full,       \* the ring holds MaxEntries entries
  added       \* history: every entry added, in order

vars == <<entry, in_offs, out_offs, full, added>>

Entry == [buffptr : Buffptr, size : Sizes]
EmptyEntry == [buffptr |-> NULL, size |-> 0]

-----------------------------------------------------------------------------
NumEntries == EntriesBetween(in_offs, out_offs, full)
SlotOf(k) == SlotAfter(out_offs, k)

\* count on entry to iteration k of the scan: the bytes of the k oldest entries.
Count ==
  LET sum[k \in 0..MaxEntries] ==
        IF k = 0 THEN 0 ELSE sum[k - 1] + entry[SlotOf(k - 1)].size
  IN  sum

\* Mutant of EntryHit: the byte after the entry counts as one of its own.
EntryHitOffByOne(k, char_offset) ==
  Count[k] + entry[SlotOf(k)].size >= char_offset

\* The test of iteration k of the scan.
EntryHit(k, char_offset) == Count[k] + entry[SlotOf(k)].size > char_offset

\* The slot and the byte inside it of position char_offset, counted from the
\* oldest byte held; NULL when fewer bytes are held.
FindEntryOffsetForFpos(char_offset) ==
  LET hits == {k \in 0..NumEntries - 1 : EntryHit(k, char_offset)}
  IN  IF hits = {}
      THEN NULL
      ELSE LET first == CHOOSE k \in hits : \A j \in hits : k <= j
           IN  [slot |-> SlotOf(first), byte |-> char_offset - Count[first]]

-----------------------------------------------------------------------------
\* aesd_circular_buffer_init: memset of the whole structure to 0.
Init ==
  /\ entry = [i \in Slot |-> EmptyEntry]
  /\ in_offs = 0
  /\ out_offs = 0
  /\ full = FALSE
  /\ added = <<>>

\* Mutant of AddEntry: out_offs stays on the slot that was overwritten.
AddEntryKeepingOutOffs(e) ==
  /\ Len(added) < MaxAdds
  /\ entry' = [entry EXCEPT ![in_offs] = e]
  /\ in_offs' = NextSlot(in_offs)
  /\ full' = (full \/ NextSlot(in_offs) = out_offs)
  /\ added' = Append(added, e)
  /\ UNCHANGED out_offs

\* aesd_circular_buffer_add_entry.
AddEntry(e) ==
  /\ Len(added) < MaxAdds
  /\ entry' = [entry EXCEPT ![in_offs] = e]
  /\ in_offs' = NextSlot(in_offs)
  /\ IF full
     THEN out_offs' = NextSlot(in_offs) /\ UNCHANGED full
     ELSE full' = (NextSlot(in_offs) = out_offs) /\ UNCHANGED out_offs
  /\ added' = Append(added, e)

Next == \E e \in Entry : AddEntry(e)

Spec == Init /\ [][Next]_vars

-----------------------------------------------------------------------------
(* Properties *)

\* Types of the library's state: every slot holds the zeroed entry or one
\* that was added, both offsets are slots.
TypeOK ==
  /\ entry \in [Slot -> Entry \cup {EmptyEntry}]
  /\ in_offs \in Slot
  /\ out_offs \in Slot
  /\ full \in BOOLEAN
  /\ added \in Seq(Entry)

\* The number of entries the scan of find_entry believes in is the number of
\* entries held: the truncating % and the uint8_t of num_entries never see a
\* negative difference, because the ring only wraps once it is full.
ScansWhatIsHeld ==
  NumEntries = IF Len(added) < MaxEntries THEN Len(added) ELSE MaxEntries

\* The entries from out_offs on are the newest ones added, oldest first: an
\* add to a full ring drops the oldest entry and no other.
HoldsTheNewest ==
  \A k \in 0..NumEntries - 1 :
     entry[SlotOf(k)] = added[Len(added) - NumEntries + k + 1]

\* The bytes of the entries held, oldest first, as the places they are at.
Concatenation ==
  FlattenSeq([k \in 1..NumEntries |->
                [j \in 1..entry[SlotOf(k - 1)].size |->
                   [slot |-> SlotOf(k - 1), byte |-> j - 1]]])

\* find_entry_offset_for_fpos finds, at every position, the byte that is at
\* that position when all entries are concatenated end to end (the words of
\* its comment), and NULL at every position past the last byte: no entry is
\* skipped, empty entries own no position, boundaries belong to the later one.
FindsTheByteOfTheConcatenation ==
  \A off \in 0..Len(Concatenation) + 1 :
     FindEntryOffsetForFpos(off) =
        IF off < Len(Concatenation) THEN Concatenation[off + 1] ELSE NULL

\* The entries held, oldest first.
Held == [k \in 1..NumEntries |-> entry[SlotOf(k - 1)]]

\* The ring as a sliding window over the adds: the abstract queue it promises.
Window == INSTANCE SlidingWindow WITH Item <- Entry, Capacity <- MaxEntries,
                                      window <- Held
RefinesSlidingWindow == Window!Spec
=============================================================================
