----------------------------- MODULE RingIndex -----------------------------
(***************************************************************************)
(* The index arithmetic of the ring of entries.  It is written twice in    *)
(* the source, in aesd-circular-buffer.c and again in main.c, with the     *)
(* same expressions: offsets and entry counts are uint8_t, and % is C's.   *)
(***************************************************************************)
EXTENDS Integers

CONSTANT MaxEntries   \* AESDCHAR_MAX_WRITE_OPERATIONS_SUPPORTED, 10 in the source

\* An entry count must fit in a uint8_t.
ASSUME MaxEntriesAssumption == MaxEntries \in 1..255

Slot == 0..MaxEntries - 1

\* C arithmetic: % truncates towards zero, a store to a uint8_t wraps at 256.
CMod(a, n) == IF a >= 0 THEN a % n ELSE -((-a) % n)
Uint8(x) == x % 256

\* Mutant of NextSlot: the offset is not wrapped.
NextSlotUnwrapped(i) == Uint8(i + 1)

\* The slot after i.
NextSlot(i) == Uint8(CMod(i + 1, MaxEntries))

\* Mutant of EntriesBetween: the full flag is not looked at.
EntriesIgnoringFull(in_offs, out_offs, full) ==
  Uint8(CMod(in_offs - out_offs, MaxEntries))

\* num_entries of find_entry: how many entries the ring holds.
EntriesBetween(in_offs, out_offs, full) ==
  IF full THEN MaxEntries ELSE Uint8(CMod(in_offs - out_offs, MaxEntries))

\* curr_index of iteration k of the scan: the slot of the k-th oldest entry.
SlotAfter(out_offs, k) == Uint8(CMod(out_offs + k, MaxEntries))
=============================================================================
