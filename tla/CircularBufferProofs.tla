------------------------ MODULE CircularBufferProofs ------------------------
(***************************************************************************)
(* Proofs about the circular buffer library, for every ring size, set of   *)
(* buffers and set of entry sizes.                                         *)
(*                                                                         *)
(* No property of the ring is inductive by itself.  What carries the       *)
(* induction is Shape: a ring that is not full has never moved out_offs,   *)
(* so in_offs is the number of adds, and only a full ring has in_offs =    *)
(* out_offs again.                                                         *)
(*                                                                         *)
(* What the search returns is a fact about one state: it compares two      *)
(* recursive definitions, the running sum of the scan and the              *)
(* concatenation, along the entries.                                       *)
(***************************************************************************)
EXTENDS CircularBuffer, SequenceTheorems, WellFoundedInduction, TLAPS

-----------------------------------------------------------------------------
(* What the index arithmetic of the ring computes, for every MaxEntries a  *)
(* uint8_t can count                                                       *)

\* Reduction modulo n, without %, on the two intervals the offsets reach.
LEMMA ModSmall ==
  ASSUME NEW n \in Nat \ {0}, NEW a \in 0..n - 1
  PROVE  a % n = a
OBVIOUS

LEMMA ModWrap ==
  ASSUME NEW n \in Nat \ {0}, NEW a \in Nat, n <= a, a < 2 * n
  PROVE  a % n = a - n
OBVIOUS

\* The slot after i is the next one, and slot 0 after the last (the uint8_t
\* that holds it never wraps): new_write_index and new_dev_in_offs.
LEMMA NextSlotValue ==
  ASSUME NEW i \in Slot
  PROVE  /\ NextSlot(i) = IF i = MaxEntries - 1 THEN 0 ELSE i + 1
         /\ NextSlot(i) \in Slot
<1>1. MaxEntries \in 1..255
  BY MaxEntriesAssumption
<1>2. CMod(i + 1, MaxEntries) = IF i = MaxEntries - 1 THEN 0 ELSE i + 1
  <2>1. CASE i = MaxEntries - 1
    BY <1>1, <2>1, ModWrap DEF Slot, CMod
  <2>2. CASE i # MaxEntries - 1
    BY <1>1, <2>2, ModSmall DEF Slot, CMod
  <2>. QED BY <2>1, <2>2
<1>3. CMod(i + 1, MaxEntries) \in 0..254
  BY <1>1, <1>2 DEF Slot
<1>4. NextSlot(i) = CMod(i + 1, MaxEntries)
  BY <1>3, ModSmall DEF NextSlot, Uint8
<1>. QED BY <1>1, <1>2, <1>4 DEF Slot

\* The k-th slot after i, which is at most one turn around the ring.
LEMMA SlotAfterValue ==
  ASSUME NEW i \in Slot, NEW k \in 0..MaxEntries - 1
  PROVE  /\ SlotAfter(i, k) = IF i + k < MaxEntries THEN i + k
                                               ELSE i + k - MaxEntries
         /\ SlotAfter(i, k) \in Slot
<1>1. MaxEntries \in 1..255
  BY MaxEntriesAssumption
<1>2. CMod(i + k, MaxEntries) = IF i + k < MaxEntries THEN i + k
                                                   ELSE i + k - MaxEntries
  <2>1. CASE i + k < MaxEntries
    <3>1. i + k \in 0..MaxEntries - 1
      BY <1>1, <2>1 DEF Slot
    <3>2. (i + k) % MaxEntries = i + k
      BY <1>1, <3>1, ModSmall
    <3>. QED BY <2>1, <3>1, <3>2 DEF CMod
  <2>2. CASE i + k >= MaxEntries
    <3>1. /\ i + k \in Nat /\ MaxEntries \in Nat \ {0}
          /\ MaxEntries <= i + k /\ i + k < 2 * MaxEntries
      BY <1>1, <2>2 DEF Slot
    <3>2. PICK a \in Nat : a = i + k
      BY <3>1
    <3>3. a % MaxEntries = a - MaxEntries
      BY <3>1, <3>2, ModWrap
    <3>. QED BY <1>1, <2>2, <3>1, <3>2, <3>3 DEF CMod, Slot
  <2>. QED BY <1>1, <2>1, <2>2 DEF Slot
<1>3. CMod(i + k, MaxEntries) \in 0..254
  BY <1>1, <1>2 DEF Slot
<1>4. SlotAfter(i, k) = CMod(i + k, MaxEntries)
  BY <1>3, ModSmall DEF SlotAfter, Uint8
<1>. QED BY <1>1, <1>2, <1>4 DEF Slot

\* A scan from slot 0 looks at slot k in iteration k.
LEMMA SlotAfterZero ==
  ASSUME NEW k \in Slot
  PROVE  SlotAfter(0, k) = k
<1>1. MaxEntries \in 1..255 /\ 0 \in Slot /\ k \in 0..MaxEntries - 1
  BY MaxEntriesAssumption DEF Slot
<1>2. SlotAfter(0, k) = IF 0 + k < MaxEntries THEN 0 + k ELSE 0 + k - MaxEntries
  BY <1>1, SlotAfterValue
<1>. QED BY <1>1, <1>2

\* When out_offs moves to the next slot every later entry moves up one place,
\* and the last place is the slot out_offs was on.
LEMMA SlotAfterNext ==
  ASSUME NEW i \in Slot, NEW k \in 0..MaxEntries - 1, k # MaxEntries - 1
  PROVE  /\ SlotAfter(NextSlot(i), k) = SlotAfter(i, k + 1)
         /\ SlotAfter(i, k + 1) \in Slot
         /\ SlotAfter(i, k + 1) # i
<1>1. MaxEntries \in 1..255 /\ i \in 0..MaxEntries - 1
  BY MaxEntriesAssumption DEF Slot
<1>2. k + 1 \in 0..MaxEntries - 1
  BY <1>1
<1>3. /\ NextSlot(i) = IF i = MaxEntries - 1 THEN 0 ELSE i + 1
      /\ NextSlot(i) \in Slot
  BY NextSlotValue
<1>4. SlotAfter(NextSlot(i), k) = IF NextSlot(i) + k < MaxEntries
                                  THEN NextSlot(i) + k
                                  ELSE NextSlot(i) + k - MaxEntries
  BY <1>3, SlotAfterValue
<1>5. /\ SlotAfter(i, k + 1) = IF i + (k + 1) < MaxEntries
                                THEN i + (k + 1)
                                ELSE i + (k + 1) - MaxEntries
      /\ SlotAfter(i, k + 1) \in Slot
  BY <1>2, SlotAfterValue
<1>6. CASE i = MaxEntries - 1
  BY <1>1, <1>2, <1>3, <1>4, <1>5, <1>6
<1>7. CASE i # MaxEntries - 1
  BY <1>1, <1>2, <1>3, <1>4, <1>5, <1>7
<1>. QED BY <1>6, <1>7

LEMMA SlotAfterLast ==
  ASSUME NEW i \in Slot
  PROVE  SlotAfter(NextSlot(i), MaxEntries - 1) = i
<1>1. MaxEntries \in 1..255 /\ i \in 0..MaxEntries - 1
  BY MaxEntriesAssumption DEF Slot
<1>2. /\ NextSlot(i) = IF i = MaxEntries - 1 THEN 0 ELSE i + 1
      /\ NextSlot(i) \in Slot
  BY NextSlotValue
<1>3. MaxEntries - 1 \in 0..MaxEntries - 1
  BY <1>1
<1>4. SlotAfter(NextSlot(i), MaxEntries - 1) =
        IF NextSlot(i) + (MaxEntries - 1) < MaxEntries
        THEN NextSlot(i) + (MaxEntries - 1)
        ELSE NextSlot(i) + (MaxEntries - 1) - MaxEntries
  BY <1>2, <1>3, SlotAfterValue
<1>. QED BY <1>1, <1>2, <1>4

\* num_entries of a ring that is full, or whose oldest entry is in slot 0: the
\* whole ring or in_offs, never the % of a negative number.
LEMMA EntriesBetweenValue ==
  ASSUME NEW i \in Slot, NEW j \in Slot, NEW ring_full \in BOOLEAN,
         ~ring_full => j = 0
  PROVE  EntriesBetween(i, j, ring_full) = IF ring_full THEN MaxEntries ELSE i
<1>1. CASE ring_full
  BY <1>1 DEF EntriesBetween
<1>2. CASE ~ring_full
  <2>1. MaxEntries \in 1..255 /\ j = 0 /\ i \in 0..MaxEntries - 1
    BY <1>2, MaxEntriesAssumption DEF Slot
  <2>2. i - j = i
    BY <2>1
  <2>3. CMod(i, MaxEntries) = i
    BY <2>1, ModSmall DEF CMod
  <2>4. Uint8(i) = i
    BY <2>1, ModSmall DEF Uint8
  <2>. QED BY <1>2, <2>2, <2>3, <2>4 DEF EntriesBetween
<1>. QED BY <1>1, <1>2

-----------------------------------------------------------------------------
(* The invariant *)

Shape ==
  IF full THEN in_offs = out_offs /\ Len(added) >= MaxEntries
          ELSE out_offs = 0 /\ in_offs = Len(added)

IInv == TypeOK /\ Shape /\ HoldsTheNewest

\* How many entries a ring of this shape holds.
LEMMA NumEntriesValue ==
  ASSUME TypeOK, Shape
  PROVE  /\ NumEntries = IF full THEN MaxEntries ELSE in_offs
         /\ NumEntries \in 0..MaxEntries
         /\ NumEntries <= Len(added)
<1>1. MaxEntries \in 1..255 /\ Len(added) \in Nat /\ in_offs \in 0..MaxEntries - 1
  BY MaxEntriesAssumption DEF TypeOK, Slot
<1>2. NumEntries = IF full THEN MaxEntries ELSE in_offs
  BY EntriesBetweenValue DEF NumEntries, Shape, TypeOK
<1>3. /\ full => Len(added) >= MaxEntries
      /\ ~full => in_offs = Len(added)
  BY DEF Shape
<1>. QED BY <1>1, <1>2, <1>3

LEMMA InitIInv == Init => IInv
<1>. SUFFICES ASSUME Init PROVE IInv
  OBVIOUS
<1>1. MaxEntries \in 1..255
  BY MaxEntriesAssumption
<1>2. TypeOK
  BY <1>1 DEF Init, TypeOK, Slot
<1>3. Shape
  BY DEF Init, Shape
<1>4. NumEntries = 0
  BY <1>2, <1>3, NumEntriesValue DEF Init
<1>5. HoldsTheNewest
  BY <1>4 DEF HoldsTheNewest
<1>. QED BY <1>2, <1>3, <1>5 DEF IInv

\* One add preserves the invariant.
LEMMA AddEntryIInv ==
  ASSUME IInv, NEW e \in Entry, AddEntry(e)
  PROVE  IInv'
<1>1. MaxEntries \in 1..255 /\ Len(added) \in Nat
  BY MaxEntriesAssumption DEF IInv, TypeOK
<1>2. /\ TypeOK /\ Shape /\ HoldsTheNewest
      /\ in_offs \in Slot /\ out_offs \in Slot /\ added \in Seq(Entry)
  BY DEF IInv, TypeOK
<1>3. /\ NextSlot(in_offs) = IF in_offs = MaxEntries - 1 THEN 0 ELSE in_offs + 1
      /\ NextSlot(in_offs) \in Slot
  BY <1>2, NextSlotValue
<1>4. /\ entry' = [entry EXCEPT ![in_offs] = e]
      /\ in_offs' = NextSlot(in_offs)
      /\ added' = Append(added, e)
      /\ Len(added') = Len(added) + 1
      /\ \A i \in 1..Len(added) : added'[i] = added[i]
      /\ added'[Len(added) + 1] = e
  BY <1>2 DEF AddEntry
<1>5. /\ full  => full' /\ out_offs' = in_offs'
      /\ ~full => (full' <=> in_offs' = out_offs) /\ out_offs' = out_offs
      /\ full' \in BOOLEAN
  BY <1>2, <1>4 DEF AddEntry, TypeOK
<1>6. TypeOK'
  <2>1. entry' \in [Slot -> Entry \cup {EmptyEntry}]
    BY <1>2, <1>4 DEF TypeOK
  <2>2. in_offs' \in Slot /\ out_offs' \in Slot /\ full' \in BOOLEAN
    BY <1>2, <1>3, <1>4, <1>5
  <2>3. added' \in Seq(Entry)
    BY <1>2, <1>4
  <2>. QED BY <2>1, <2>2, <2>3 DEF TypeOK
<1>7. Shape'
  <2>1. CASE full
    BY <1>1, <1>2, <1>4, <1>5, <2>1 DEF Shape
  <2>2. CASE ~full
    <3>1. /\ out_offs' = 0 /\ in_offs = Len(added)
          /\ full' <=> in_offs' = 0
      BY <1>2, <1>5, <2>2 DEF Shape
    <3>2. CASE in_offs = MaxEntries - 1
      <4>1. in_offs' = 0 /\ Len(added') = MaxEntries
        BY <1>1, <1>3, <1>4, <3>1, <3>2
      <4>. QED BY <1>1, <3>1, <4>1 DEF Shape
    <3>3. CASE in_offs # MaxEntries - 1
      <4>1. in_offs' = Len(added') /\ in_offs' # 0
        BY <1>1, <1>2, <1>3, <1>4, <3>1, <3>3 DEF Slot
      <4>. QED BY <3>1, <4>1 DEF Shape
    <3>. QED BY <3>2, <3>3
  <2>. QED BY <2>1, <2>2
<1>8. HoldsTheNewest'
  <2>. DEFINE n == NumEntries
  <2>1. /\ n = IF full THEN MaxEntries ELSE in_offs
        /\ n \in 0..MaxEntries
        /\ n <= Len(added)
    BY <1>2, NumEntriesValue
  <2>2. n' = IF full' THEN MaxEntries ELSE in_offs'
    <3>1. /\ in_offs' \in Slot /\ out_offs' \in Slot /\ full' \in BOOLEAN
          /\ ~full' => out_offs' = 0
      BY <1>6, <1>7 DEF TypeOK, Shape
    <3>. QED BY <3>1, EntriesBetweenValue DEF NumEntries
  <2>3. \A k \in 0..n - 1 : entry[SlotAfter(out_offs, k)] = added[Len(added) - n + k + 1]
    BY <1>2 DEF HoldsTheNewest, SlotOf
  <2>4. \A k \in 0..n' - 1 : entry'[SlotAfter(out_offs', k)] = added'[Len(added') - n' + k + 1]
    <3>1. CASE full
      <4>1. n = MaxEntries /\ n' = MaxEntries /\ out_offs = in_offs
            /\ out_offs' = NextSlot(in_offs) /\ Len(added) >= MaxEntries
        BY <1>2, <1>4, <1>5, <2>1, <2>2, <3>1 DEF Shape
      <4>. SUFFICES ASSUME NEW k \in 0..MaxEntries - 1
                    PROVE  entry'[SlotAfter(out_offs', k)] =
                           added'[Len(added') - MaxEntries + k + 1]
        BY <4>1
      <4>2. CASE k = MaxEntries - 1
        <5>1. SlotAfter(out_offs', k) = in_offs
          BY <1>2, <4>1, <4>2, SlotAfterLast
        <5>2. entry'[in_offs] = e
          BY <1>2, <1>4 DEF TypeOK
        <5>. QED BY <1>1, <1>4, <4>2, <5>1, <5>2
      <4>3. CASE k # MaxEntries - 1
        <5>1. k + 1 \in 0..MaxEntries - 1
          BY <1>1, <4>3
        <5>2. /\ SlotAfter(out_offs', k) = SlotAfter(out_offs, k + 1)
              /\ SlotAfter(out_offs, k + 1) \in Slot
              /\ SlotAfter(out_offs, k + 1) # in_offs
          BY <1>2, <4>1, <4>3, SlotAfterNext
        <5>3. entry'[SlotAfter(out_offs', k)] = entry[SlotAfter(out_offs, k + 1)]
          BY <1>2, <1>4, <5>2 DEF TypeOK
        <5>4. entry[SlotAfter(out_offs, k + 1)] = added[Len(added) - MaxEntries + (k + 1) + 1]
          BY <2>3, <4>1, <5>1
        <5>5. /\ Len(added) - MaxEntries + (k + 1) + 1 \in 1..Len(added)
              /\ Len(added') - MaxEntries + k + 1 = Len(added) - MaxEntries + (k + 1) + 1
          BY <1>1, <1>4, <4>1, <5>1
        <5>6. PICK i \in 1..Len(added) :
                 /\ i = Len(added) - MaxEntries + (k + 1) + 1
                 /\ i = Len(added') - MaxEntries + k + 1
          BY <5>5
        <5>7. added'[i] = added[i]
          BY <1>4
        <5>. QED BY <5>3, <5>4, <5>6, <5>7
      <4>. QED BY <4>2, <4>3
    <3>2. CASE ~full
      <4>1. /\ n = in_offs /\ n' = in_offs + 1 /\ out_offs = 0 /\ out_offs' = 0
            /\ in_offs = Len(added) /\ in_offs \in 0..MaxEntries - 1
        <5>1. n = in_offs /\ out_offs = 0 /\ out_offs' = 0 /\ in_offs = Len(added)
              /\ (full' <=> in_offs' = 0) /\ in_offs \in 0..MaxEntries - 1
          BY <1>2, <1>5, <2>1, <3>2 DEF Shape, Slot
        <5>2. n' = in_offs + 1
          BY <1>1, <1>3, <1>4, <2>2, <5>1
        <5>. QED BY <5>1, <5>2
      <4>. SUFFICES ASSUME NEW k \in 0..in_offs
                    PROVE  entry'[SlotAfter(0, k)] = added'[k + 1]
        BY <1>1, <1>4, <4>1
      <4>2. SlotAfter(0, k) = k /\ k \in Slot
        <5>1. k \in Slot
          BY <1>1, <4>1 DEF Slot
        <5>. QED BY <5>1, SlotAfterZero
      <4>3. CASE k = in_offs
        BY <1>2, <1>4, <4>1, <4>2, <4>3 DEF TypeOK
      <4>4. CASE k # in_offs
        <5>1. entry'[k] = entry[k] /\ k \in 0..n - 1
          BY <1>1, <1>2, <1>4, <4>1, <4>2, <4>4 DEF TypeOK
        <5>2. entry[SlotAfter(out_offs, k)] = added[Len(added) - n + k + 1]
          BY <2>3, <5>1
        <5>3. Len(added) - n + k + 1 = k + 1 /\ k + 1 \in 1..Len(added)
          BY <1>1, <4>1, <5>1
        <5>. QED BY <1>4, <4>1, <4>2, <5>1, <5>2, <5>3
      <4>. QED BY <4>3, <4>4
    <3>. QED BY <3>1, <3>2
  <2>. QED BY <2>4 DEF HoldsTheNewest, SlotOf
<1>. QED BY <1>6, <1>7, <1>8 DEF IInv

\* The invariant holds in every state of every behaviour.
THEOREM Invariance == Spec => []IInv
<1>1. Init => IInv
  BY InitIInv
<1>2. IInv /\ [Next]_vars => IInv'
  <2>. SUFFICES ASSUME IInv, [Next]_vars PROVE IInv'
    OBVIOUS
  <2>1. CASE Next
    BY <2>1, AddEntryIInv DEF Next
  <2>2. CASE UNCHANGED vars
    BY <2>2 DEF vars, IInv, TypeOK, Shape, HoldsTheNewest, NumEntries, SlotOf
  <2>. QED BY <2>1, <2>2
<1>. QED BY <1>1, <1>2, PTL DEF Spec

\* The offsets of the library stay slots and its entries are ones it was given
\* (aesd_circular_buffer_add_entry, any ring size up to 255).
THEOREM TypeCorrect == Spec => []TypeOK
<1>1. IInv => TypeOK
  BY DEF IInv
<1>. QED BY <1>1, Invariance, PTL

\* num_entries of find_entry is the number of entries held, for any ring size:
\* the truncating % of a negative number is never reached.
THEOREM ScanIsExact == Spec => []ScansWhatIsHeld
<1>1. IInv => ScansWhatIsHeld
  <2>. SUFFICES ASSUME IInv PROVE ScansWhatIsHeld
    OBVIOUS
  <2>1. /\ MaxEntries \in 1..255 /\ Len(added) \in Nat
        /\ in_offs \in 0..MaxEntries - 1
    BY MaxEntriesAssumption DEF IInv, TypeOK, Slot
  <2>2. NumEntries = IF full THEN MaxEntries ELSE in_offs
    BY NumEntriesValue DEF IInv
  <2>. QED BY <2>1, <2>2 DEF IInv, Shape, ScansWhatIsHeld
<1>. QED BY <1>1, Invariance, PTL

\* The ring holds the newest adds in order: aesd_circular_buffer_add_entry on
\* a full ring overwrites the oldest entry and loses no other.
THEOREM NewestAreHeld == Spec => []HoldsTheNewest
<1>1. IInv => HoldsTheNewest
  BY DEF IInv
<1>. QED BY <1>1, Invariance, PTL

\* The entries held are the last NumEntries adds.
HeldIsNewest ==
  /\ Held \in Seq(Entry)
  /\ Len(Held) = IF Len(added) < MaxEntries THEN Len(added) ELSE MaxEntries
  /\ \A k \in 1..Len(Held) : Held[k] = added[Len(added) - Len(Held) + k]

LEMMA HeldValue == IInv => HeldIsNewest
<1>. SUFFICES ASSUME IInv PROVE HeldIsNewest
  OBVIOUS
<1>1. /\ NumEntries \in Nat /\ NumEntries <= Len(added) /\ Len(added) \in Nat
      /\ added \in Seq(Entry)
      /\ NumEntries = IF Len(added) < MaxEntries THEN Len(added) ELSE MaxEntries
  BY NumEntriesValue, MaxEntriesAssumption DEF IInv, TypeOK, Shape, Slot
<1>2. ASSUME NEW k \in 1..NumEntries
      PROVE  /\ entry[SlotOf(k - 1)] = added[Len(added) - NumEntries + k]
             /\ added[Len(added) - NumEntries + k] \in Entry
  <2>1. k - 1 \in 0..NumEntries - 1 /\ Len(added) - NumEntries + k \in 1..Len(added)
    BY <1>1
  <2>2. entry[SlotOf(k - 1)] = added[Len(added) - NumEntries + (k - 1) + 1]
    BY <2>1 DEF IInv, HoldsTheNewest
  <2>3. Len(added) - NumEntries + (k - 1) + 1 = Len(added) - NumEntries + k
    BY <1>1
  <2>. QED BY <1>1, <2>1, <2>2, <2>3
<1>3. Held \in Seq(Entry) /\ Len(Held) = NumEntries
  <2>1. Held \in [1..NumEntries -> Entry]
    BY <1>2 DEF Held
  <2>2. Held \in Seq(Entry)
    BY <1>1, <2>1, SeqDef
  <2>3. DOMAIN Held = 1..NumEntries /\ DOMAIN Held = 1..Len(Held) /\ Len(Held) \in Nat
    BY <2>1, <2>2, LenProperties
  <2>. QED BY <1>1, <2>2, <2>3
<1>. QED BY <1>1, <1>2, <1>3 DEF Held, HeldIsNewest

\* One add of the library is one add to the sliding window.
LEMMA AddEntryAdds ==
  ASSUME IInv, IInv', NEW e \in Entry, AddEntry(e)
  PROVE  Window!Add(e)
<1>1. /\ MaxEntries \in 1..255 /\ Len(added) \in Nat /\ added \in Seq(Entry)
  BY MaxEntriesAssumption DEF IInv, TypeOK
<1>2. /\ Len(added') = Len(added) + 1
      /\ \A i \in 1..Len(added) : added'[i] = added[i]
      /\ added'[Len(added) + 1] = e
  BY <1>1 DEF AddEntry
<1>3. HeldIsNewest
  BY HeldValue
<1>4. HeldIsNewest'
  BY HeldValue, PTL
<1>5. /\ Held \in Seq(Entry) /\ Held' \in Seq(Entry)
      /\ Len(Held) \in Nat /\ Len(Held') \in Nat
  BY <1>3, <1>4 DEF HeldIsNewest
<1>6. CASE Len(Held) < MaxEntries
  <2>1. /\ Len(Held) = Len(added) /\ Len(Held') = Len(Held) + 1
    BY <1>1, <1>2, <1>3, <1>4, <1>6 DEF HeldIsNewest
  <2>. DEFINE new == Append(Held, e)
  <2>2. /\ new \in Seq(Entry) /\ Len(new) = Len(Held')
        /\ \A k \in 1..Len(Held) : new[k] = Held[k]
        /\ new[Len(Held) + 1] = e
    BY <1>5, <2>1, AppendProperties
  <2>3. ASSUME NEW k \in 1..Len(Held') PROVE Held'[k] = new[k]
    <3>. HIDE DEF new
    <3>1. Held'[k] = added'[k]
      <4>1. Held'[k] = added'[Len(added') - Len(Held') + k]
        BY <1>4 DEF HeldIsNewest
      <4>2. Len(added') - Len(Held') + k = k
        BY <1>1, <1>2, <1>5, <2>1
      <4>. QED BY <4>1, <4>2
    <3>2. CASE k = Len(Held) + 1
      BY <1>2, <2>1, <2>2, <3>1, <3>2
    <3>3. CASE k # Len(Held) + 1
      <4>1. k \in 1..Len(Held) /\ Len(added) - Len(Held) + k = k
        BY <1>1, <2>1, <3>3
      <4>. QED BY <1>2, <1>3, <2>1, <2>2, <3>1, <4>1 DEF HeldIsNewest
    <3>. QED BY <3>2, <3>3
  <2>4. Held' = new
    BY <1>5, <2>2, <2>3, SeqEqual
  <2>. QED BY <1>6, <2>4 DEF Window!Add
<1>7. CASE ~(Len(Held) < MaxEntries)
  <2>1. /\ Len(Held) = MaxEntries /\ Len(Held') = MaxEntries /\ Len(added) >= MaxEntries
    BY <1>1, <1>2, <1>3, <1>4, <1>7 DEF HeldIsNewest
  <2>. DEFINE new == Append(Tail(Held), e)
  <2>2. /\ Tail(Held) \in Seq(Entry) /\ Len(Tail(Held)) = MaxEntries - 1
        /\ \A k \in 1..MaxEntries - 1 : Tail(Held)[k] = Held[k + 1]
    BY <1>1, <1>5, <2>1, HeadTailProperties, EmptySeq
  <2>3. /\ new \in Seq(Entry) /\ Len(new) = MaxEntries
        /\ \A k \in 1..MaxEntries - 1 : new[k] = Tail(Held)[k]
        /\ new[MaxEntries] = e
    BY <1>1, <2>2, AppendProperties
  <2>4. ASSUME NEW k \in 1..MaxEntries PROVE Held'[k] = new[k]
    <3>. HIDE DEF new
    <3>1. Held'[k] = added'[Len(added) + 1 - MaxEntries + k]
      <4>1. Held'[k] = added'[Len(added') - Len(Held') + k]
        BY <1>4, <2>1 DEF HeldIsNewest
      <4>2. Len(added') - Len(Held') + k = Len(added) + 1 - MaxEntries + k
        BY <1>1, <1>2, <2>1
      <4>. QED BY <4>1, <4>2
    <3>2. CASE k = MaxEntries
      <4>1. Len(added) + 1 - MaxEntries + k = Len(added) + 1
        BY <1>1, <3>2
      <4>. QED BY <1>2, <2>3, <3>1, <3>2, <4>1
    <3>3. CASE k # MaxEntries
      <4>1. /\ k \in 1..MaxEntries - 1 /\ k + 1 \in 1..Len(Held)
            /\ Len(added) - Len(Held) + (k + 1) = Len(added) + 1 - MaxEntries + k
            /\ Len(added) + 1 - MaxEntries + k \in 1..Len(added)
        BY <1>1, <2>1, <3>3
      <4>2. Held[k + 1] = added[Len(added) - Len(Held) + (k + 1)]
        BY <1>3, <4>1 DEF HeldIsNewest
      <4>3. new[k] = Held[k + 1]
        BY <2>2, <2>3, <4>1
      <4>. QED BY <1>2, <3>1, <4>1, <4>2, <4>3
    <3>. QED BY <3>2, <3>3
  <2>5. Held' = new
    <3>. HIDE DEF new
    <3>. QED BY <1>5, <2>1, <2>3, <2>4, SeqEqual
  <2>. QED BY <1>7, <2>5 DEF Window!Add
<1>. QED BY <1>6, <1>7

\* The library implements the sliding window: every behaviour of the ring of
\* slots, offsets and full flag is one of the abstract queue.
THEOREM ImplementsSlidingWindow == Spec => RefinesSlidingWindow
<1>1. Init => Window!Init
  <2>. SUFFICES ASSUME Init PROVE Held = <<>>
    BY DEF Window!Init
  <2>1. HeldIsNewest /\ added = <<>>
    BY InitIInv, HeldValue DEF Init
  <2>2. Len(Held) = 0 /\ Held \in Seq(Entry)
    BY <2>1, MaxEntriesAssumption DEF HeldIsNewest
  <2>. QED BY <2>2
<1>2. IInv /\ IInv' /\ [Next]_vars => [Window!Next]_Held
  <2>. SUFFICES ASSUME IInv, IInv', [Next]_vars PROVE [Window!Next]_Held
    OBVIOUS
  <2>1. CASE Next
    BY <2>1, AddEntryAdds DEF Next, Window!Next
  <2>2. CASE UNCHANGED vars
    BY <2>2 DEF vars, Held, NumEntries, SlotOf
  <2>. QED BY <2>1, <2>2
<1>. QED BY <1>1, <1>2, Invariance, PTL DEF Spec, RefinesSlidingWindow, Window!Spec

-----------------------------------------------------------------------------
(* find_entry_offset_for_fpos: the sum it scans with, and the bytes held   *)
(* laid end to end, are both recursive; each is what its equations say     *)
(* because there is no least number at which they fail.                    *)

\* A nonempty set of naturals has a least element.
LEMMA LeastNatural ==
  ASSUME NEW S \in SUBSET Nat, S # {}
  PROVE  \E m \in S : \A k \in S : m <= k
<1>. DEFINE R == {ss \in Nat \X Nat : ss[1] < ss[2]}
<1>1. IsWellFoundedOn(R, Nat)
  BY NatLessThanWellFounded, Zenon DEF OpToRel
<1>. HIDE DEF R
<1>2. PICK m \in S : \A k \in S : <<k, m>> \notin R
  BY <1>1, WFMin, Zenon
<1>3. \A k \in S : ~(k < m)
  BY <1>2 DEF R
<1>. QED BY <1>3

\* C[k] is the sum of the first k sizes of s, up to n.
Sums(C, s, n) ==
  /\ C \in [0..n -> Nat]
  /\ \A k \in 0..n : C[k] = IF k = 0 THEN 0 ELSE C[k - 1] + s[k]

\* There is such a function: the one for n - 1 with one more value.
LEMMA SumsExist ==
  ASSUME NEW N \in Nat, NEW s \in [1..N -> Nat]
  PROVE  \A n \in 0..N : \E C : Sums(C, s, n)
<1>. DEFINE Missing == {n \in 0..N : \A C : ~Sums(C, s, n)}
<1>1. SUFFICES ASSUME Missing # {} PROVE FALSE
  OBVIOUS
<1>2. Missing \in SUBSET Nat
  OBVIOUS
<1>3. PICK m \in Missing : \A k \in Missing : m <= k
  BY <1>1, <1>2, LeastNatural
<1>4. m \in 0..N /\ \A C : ~Sums(C, s, m)
  OBVIOUS
<1>5. CASE m = 0
  <2>1. Sums([k \in 0..0 |-> 0], s, 0)
    BY DEF Sums
  <2>. QED BY <1>4, <1>5, <2>1
<1>6. CASE m # 0
  <2>1. PICK p \in Nat : p + 1 = m /\ p \in 0..N /\ p < m
    <3>1. m - 1 \in Nat /\ (m - 1) + 1 = m /\ m - 1 \in 0..N /\ m - 1 < m
      BY <1>4, <1>6
    <3>. QED BY <3>1
  <2>2. PICK C : Sums(C, s, p)
    BY <1>3, <2>1
  <2>3. /\ C \in [0..p -> Nat]
        /\ \A k \in 0..p : C[k] = IF k = 0 THEN 0 ELSE C[k - 1] + s[k]
    BY <2>2 DEF Sums
  <2>. DEFINE G == [k \in 0..m |-> IF k = m THEN C[p] + s[m] ELSE C[k]]
  <2>4. C[p] + s[m] \in Nat
    BY <1>4, <1>6, <2>1, <2>3
  <2>5. \A k \in 0..m : k # m => k \in 0..p /\ C[k] \in Nat
    BY <2>1, <2>3
  <2>6. G \in [0..m -> Nat]
    BY <2>4, <2>5
  <2>7. ASSUME NEW k \in 0..m
        PROVE  G[k] = IF k = 0 THEN 0 ELSE G[k - 1] + s[k]
    <3>1. CASE k = m
      <4>1. k # 0 /\ k - 1 = p /\ p \in 0..m /\ p # m
        BY <1>6, <2>1, <3>1
      <4>2. G[p] = C[p] /\ G[k] = C[p] + s[m]
        BY <3>1, <4>1
      <4>. QED BY <3>1, <4>1, <4>2
    <3>2. CASE k # m
      <4>1. k \in 0..p /\ (k # 0 => k - 1 \in 0..m /\ k - 1 # m)
        BY <2>1, <3>2
      <4>2. G[k] = C[k] /\ (k # 0 => G[k - 1] = C[k - 1])
        BY <3>2, <4>1
      <4>. QED BY <2>3, <4>1, <4>2
    <3>. QED BY <3>1, <3>2
  <2>. HIDE DEF G
  <2>8. Sums(G, s, m)
    BY <2>6, <2>7 DEF Sums
  <2>. QED BY <1>4, <2>8
<1>. QED BY <1>5, <1>6

\* Sums of sizes never shrink.
LEMMA SumsGrow ==
  ASSUME NEW n \in Nat, NEW s \in [1..n -> Nat], NEW C, Sums(C, s, n)
  PROVE  \A k \in 0..n : \A j \in 0..k : C[j] <= C[k]
<1>. DEFINE Bad == {k \in 0..n : \E j \in 0..k : ~(C[j] <= C[k])}
<1>1. SUFFICES ASSUME Bad # {} PROVE FALSE
  OBVIOUS
<1>2. Bad \in SUBSET Nat
  OBVIOUS
<1>3. PICK m \in Bad : \A k \in Bad : m <= k
  BY <1>1, <1>2, LeastNatural
<1>4. PICK j \in 0..m : ~(C[j] <= C[m])
  OBVIOUS
<1>5. /\ C \in [0..n -> Nat] /\ m \in 0..n
      /\ \A k \in 0..n : C[k] = IF k = 0 THEN 0 ELSE C[k - 1] + s[k]
  BY DEF Sums
<1>6. j # m /\ m # 0
  BY <1>4, <1>5
<1>7. PICK p \in 0..n : p = m - 1 /\ j \in 0..p /\ m \in 1..n
  <2>1. m - 1 \in 0..n /\ j \in 0..m - 1 /\ m \in 1..n
    BY <1>4, <1>5, <1>6
  <2>. QED BY <2>1
<1>8. p \notin Bad
  BY <1>3, <1>5, <1>7
<1>9. C[j] <= C[p]
  BY <1>7, <1>8
<1>10. C[m] = C[p] + s[m] /\ C[p] \in Nat /\ s[m] \in Nat /\ C[j] \in Nat
  BY <1>4, <1>5, <1>6, <1>7
<1>. QED BY <1>4, <1>9, <1>10

\* F is what the recursive function inside FlattenSeq computes on seqs up to n.
Flattens(F, X, seqs, n) ==
  /\ F \in [1..n -> Seq(X)]
  /\ \A i \in 1..n : F[i] = IF i = 1 THEN seqs[i] ELSE F[i - 1] \o seqs[i]

LEMMA FlattenExists ==
  ASSUME NEW X, NEW seqs \in Seq(Seq(X))
  PROVE  \A n \in 1..Len(seqs) : \E F : Flattens(F, X, seqs, n)
<1>. DEFINE Missing == {n \in 1..Len(seqs) : \A F : ~Flattens(F, X, seqs, n)}
<1>1. SUFFICES ASSUME Missing # {} PROVE FALSE
  OBVIOUS
<1>2. Missing \in SUBSET Nat
  OBVIOUS
<1>3. PICK m \in Missing : \A k \in Missing : m <= k
  BY <1>1, <1>2, LeastNatural
<1>4. m \in 1..Len(seqs) /\ m \in Nat /\ \A i \in 1..m : seqs[i] \in Seq(X)
  <2>1. m \in 1..Len(seqs) /\ Len(seqs) \in Nat
    OBVIOUS
  <2>2. \A i \in 1..Len(seqs) : seqs[i] \in Seq(X)
    BY ElementOfSeq
  <2>. QED BY <2>1, <2>2
<1>5. \A F : ~Flattens(F, X, seqs, m)
  OBVIOUS
<1>6. CASE m = 1
  <2>1. Flattens([i \in 1..1 |-> seqs[i]], X, seqs, 1)
    BY <1>4, <1>6 DEF Flattens
  <2>. QED BY <1>5, <1>6, <2>1
<1>7. CASE m # 1
  <2>0. PICK p \in Nat : p + 1 = m /\ p \in 1..Len(seqs) /\ p < m
    <3>1. m - 1 \in Nat /\ (m - 1) + 1 = m /\ m - 1 \in 1..Len(seqs) /\ m - 1 < m
      BY <1>4, <1>7
    <3>. QED BY <3>1
  <2>1. PICK F : Flattens(F, X, seqs, p)
    BY <1>3, <2>0
  <2>. DEFINE G == [i \in 1..m |-> IF i = m THEN F[p] \o seqs[m] ELSE F[i]]
  <2>2. /\ F \in [1..p -> Seq(X)]
        /\ \A i \in 1..p : F[i] = IF i = 1 THEN seqs[i] ELSE F[i - 1] \o seqs[i]
    BY <2>1 DEF Flattens
  <2>3. F[p] \o seqs[m] \in Seq(X)
    <3>1. F[p] \in Seq(X) /\ seqs[m] \in Seq(X)
      BY <1>4, <2>0, <2>2
    <3>. QED BY <3>1, ConcatProperties
  <2>4. \A i \in 1..m : i # m => i \in 1..p /\ F[i] \in Seq(X)
    BY <2>0, <2>2
  <2>5. G \in [1..m -> Seq(X)]
    BY <2>3, <2>4
  <2>6. ASSUME NEW i \in 1..m
        PROVE  G[i] = IF i = 1 THEN seqs[i] ELSE G[i - 1] \o seqs[i]
    <3>1. CASE i = m
      <4>1. i # 1 /\ i - 1 = p /\ p \in 1..m /\ p # m
        BY <1>7, <2>0, <3>1
      <4>2. G[p] = F[p] /\ G[i] = F[p] \o seqs[m]
        BY <3>1, <4>1
      <4>. QED BY <3>1, <4>1, <4>2
    <3>2. CASE i # m
      <4>1. i \in 1..p /\ (i # 1 => i - 1 \in 1..m /\ i - 1 # m)
        BY <2>0, <3>2
      <4>2. G[i] = F[i] /\ (i # 1 => G[i - 1] = F[i - 1])
        BY <3>2, <4>1
      <4>. QED BY <2>2, <4>1, <4>2
    <3>. QED BY <3>1, <3>2
  <2>. HIDE DEF G
  <2>7. Flattens(G, X, seqs, m)
    BY <2>5, <2>6 DEF Flattens
  <2>. QED BY <1>5, <2>7
<1>. QED BY <1>6, <1>7

\* FlattenSeq returns the last value of the function it defines by recursion.
LEMMA FlattenUnfolds ==
  ASSUME NEW X, NEW seqs \in Seq(Seq(X)), Len(seqs) # 0
  PROVE  \E F : /\ Flattens(F, X, seqs, Len(seqs))
                /\ FlattenSeq(seqs) = F[Len(seqs)]
<1>. DEFINE n == Len(seqs)
<1>. DEFINE Step(g) == [i \in 1..n |-> IF i = 1 THEN seqs[i] ELSE g[i - 1] \o seqs[i]]
<1>1. n \in Nat /\ n \in 1..n
  OBVIOUS
<1>2. PICK F : Flattens(F, X, seqs, n)
  BY <1>1, FlattenExists
<1>3. F = Step(F)
  <2>1. /\ F \in [1..n -> Seq(X)]
        /\ \A i \in 1..n : F[i] = IF i = 1 THEN seqs[i] ELSE F[i - 1] \o seqs[i]
    BY <1>2 DEF Flattens
  <2>2. F = [i \in 1..n |-> F[i]]
    BY <2>1
  <2>3. [i \in 1..n |-> F[i]] = Step(F)
    BY <2>1, Zenon
  <2>. QED BY <2>2, <2>3, Zenon
<1>4. FlattenSeq(seqs) = (CHOOSE g : g = Step(g))[n]
  BY DEF FlattenSeq
<1>5. PICK g : g = Step(g) /\ FlattenSeq(seqs) = g[n]
  <2>1. (CHOOSE g : g = Step(g)) = Step(CHOOSE g : g = Step(g))
    BY <1>3, Zenon
  <2>. QED BY <1>4, <2>1, Zenon
<1>6. \A i \in 1..n : g[i] = IF i = 1 THEN seqs[i] ELSE g[i - 1] \o seqs[i]
  BY <1>5
<1>. DEFINE Bad == {i \in 1..n : g[i] \notin Seq(X)}
<1>7. Bad = {}
  <2>1. SUFFICES ASSUME Bad # {} PROVE FALSE
    OBVIOUS
  <2>2. Bad \in SUBSET Nat
    OBVIOUS
  <2>3. PICK m \in Bad : \A k \in Bad : m <= k
    BY <2>1, <2>2, LeastNatural
  <2>4. seqs[m] \in Seq(X) /\ m \in 1..n
    BY ElementOfSeq
  <2>5. m # 1 /\ g[m] = g[m - 1] \o seqs[m]
    BY <1>6, <2>4
  <2>6. m - 1 \in 1..n /\ ~(m <= m - 1)
    BY <1>1, <2>4, <2>5
  <2>7. g[m - 1] \in Seq(X)
    BY <2>3, <2>6
  <2>. QED BY <2>4, <2>5, <2>7, ConcatProperties
<1>8. g \in [1..n -> Seq(X)]
  <2>1. g = [i \in 1..n |-> IF i = 1 THEN seqs[i] ELSE g[i - 1] \o seqs[i]]
    BY <1>5, Zenon
  <2>2. DOMAIN g = 1..n /\ g = [i \in 1..n |-> g[i]]
    BY <2>1
  <2>3. \A i \in 1..n : g[i] \in Seq(X)
    BY <1>7
  <2>. QED BY <2>2, <2>3
<1>9. Flattens(g, X, seqs, n)
  BY <1>6, <1>8 DEF Flattens
<1>. QED BY <1>5, <1>9

\* Where each element of a concatenation comes from: position off, counted
\* from 0, is in the piece m + 1 whose running sums lie around it.
LEMMA FlattenPositions ==
  ASSUME NEW X, NEW n \in Nat, NEW s \in [1..n -> Nat], NEW C, Sums(C, s, n),
         NEW seqs \in Seq(Seq(X)), Len(seqs) = n, n # 0,
         \A k \in 1..n : Len(seqs[k]) = s[k]
  PROVE  /\ Len(FlattenSeq(seqs)) = C[n]
         /\ \A off \in 0..C[n] - 1 : \E m \in 0..n - 1 :
              /\ C[m] <= off /\ off < C[m + 1]
              /\ FlattenSeq(seqs)[off + 1] = seqs[m + 1][off - C[m] + 1]
<1>1. PICK F : Flattens(F, X, seqs, n) /\ FlattenSeq(seqs) = F[n]
  BY FlattenUnfolds
<1>2. /\ F \in [1..n -> Seq(X)]
      /\ \A i \in 1..n : F[i] = IF i = 1 THEN seqs[i] ELSE F[i - 1] \o seqs[i]
      /\ C \in [0..n -> Nat]
      /\ \A k \in 0..n : C[k] = IF k = 0 THEN 0 ELSE C[k - 1] + s[k]
  BY <1>1, Zenon DEF Flattens, Sums
<1>. DEFINE Placed(k) ==
       /\ Len(F[k]) = C[k]
       /\ \A off \in 0..C[k] - 1 : \E m \in 0..k - 1 :
            /\ C[m] <= off /\ off < C[m + 1]
            /\ F[k][off + 1] = seqs[m + 1][off - C[m] + 1]
<1>. DEFINE Bad == {k \in 1..n : ~Placed(k)}
<1>. HIDE DEF Placed
<1>3. SUFFICES ASSUME Bad # {} PROVE FALSE
  <2>1. ASSUME Bad = {} PROVE Placed(n)
    <3>1. n \in 1..n
      OBVIOUS
    <3>. QED BY <2>1, <3>1
  <2>. QED BY <1>1, <2>1 DEF Placed
<1>4. Bad \in SUBSET Nat
  OBVIOUS
<1>5. PICK k \in Bad : \A j \in Bad : k <= j
  BY <1>3, <1>4, LeastNatural
<1>6. k \in 1..n /\ ~Placed(k)
  OBVIOUS
<1>. HIDE DEF Bad
<1>7. PICK p \in 0..n - 1 : p = k - 1 /\ p + 1 = k
  <2>1. k - 1 \in 0..n - 1 /\ (k - 1) + 1 = k
    BY <1>6
  <2>. QED BY <2>1
<1>8. /\ seqs[k] \in Seq(X) /\ Len(seqs[k]) = s[k] /\ s[k] \in Nat
      /\ C[k] = C[p] + s[k] /\ C[p] \in Nat /\ C[k] \in Nat
  <2>1. k \in 1..Len(seqs)
    BY <1>6
  <2>2. k \in 0..n /\ k # 0 /\ p \in 0..n
    BY <1>6, <1>7
  <2>. QED BY <2>1, <2>2, <1>2, <1>6, <1>7, ElementOfSeq
<1>9. CASE k = 1
  <2>1. F[k] = seqs[k] /\ p = 0 /\ C[p] = 0
    BY <1>2, <1>6, <1>7, <1>9
  <2>2. Len(F[k]) = C[k]
    BY <1>8, <2>1
  <2>3. ASSUME NEW off \in 0..C[k] - 1
        PROVE  /\ C[p] <= off /\ off < C[p + 1]
               /\ F[k][off + 1] = seqs[p + 1][off - C[p] + 1]
    <3>1. off - C[p] = off /\ C[p] <= off /\ off < C[k] /\ C[p + 1] = C[k]
      BY <1>7, <1>8, <2>1
    <3>2. seqs[p + 1] = F[k] /\ off - C[p] + 1 = off + 1
      BY <1>7, <2>1, <3>1
    <3>. QED BY <3>1, <3>2
  <2>4. p \in 0..k - 1
    BY <1>7
  <2>5. Placed(k)
    BY <2>2, <2>3, <2>4 DEF Placed
  <2>. QED BY <1>6, <2>5
<1>10. CASE k # 1
  <2>1. p \in 1..n /\ ~(k <= p)
    BY <1>6, <1>7, <1>10
  <2>2. Placed(p)
    BY <1>5, <2>1 DEF Bad
  <2>3. F[k] = F[p] \o seqs[k] /\ F[p] \in Seq(X) /\ Len(F[p]) = C[p]
    BY <1>2, <1>6, <1>7, <1>10, <2>1, <2>2 DEF Placed
  <2>4. /\ Len(F[k]) = C[k]
        /\ \A i \in 1..C[k] : F[k][i] = IF i <= C[p] THEN F[p][i] ELSE seqs[k][i - C[p]]
    <3>1. /\ Len(F[p] \o seqs[k]) = Len(F[p]) + Len(seqs[k])
          /\ \A i \in 1..Len(F[p]) + Len(seqs[k]) :
               (F[p] \o seqs[k])[i] = IF i <= Len(F[p]) THEN F[p][i]
                                      ELSE seqs[k][i - Len(F[p])]
      BY <1>8, <2>3, ConcatProperties
    <3>. QED BY <1>8, <2>3, <3>1
  <2>5. ASSUME NEW off \in 0..C[k] - 1
        PROVE  \E m \in 0..k - 1 :
                 /\ C[m] <= off /\ off < C[m + 1]
                 /\ F[k][off + 1] = seqs[m + 1][off - C[m] + 1]
    <3>1. off \in Int /\ off + 1 \in 1..C[k]
      BY <1>8
    <3>2. CASE off < C[p]
      <4>1. off \in 0..C[p] - 1 /\ off + 1 <= C[p]
        BY <1>8, <3>1, <3>2
      <4>2. PICK m \in 0..p - 1 : /\ C[m] <= off /\ off < C[m + 1]
                                  /\ F[p][off + 1] = seqs[m + 1][off - C[m] + 1]
        BY <2>2, <4>1 DEF Placed
      <4>3. m \in 0..k - 1 /\ F[k][off + 1] = F[p][off + 1]
        BY <1>7, <2>4, <3>1, <4>1
      <4>. QED BY <4>2, <4>3
    <3>3. CASE ~(off < C[p])
      <4>1. p \in 0..k - 1 /\ C[p] <= off /\ off < C[p + 1]
        <5>1. PICK c, d, o \in Nat : c = C[p] /\ d = C[k] /\ o = off
          <6>1. off \in Nat
            BY <1>8
          <6>. QED BY <1>8, <6>1
        <5>2. ~(o < c) /\ o + 1 \in 1..d
          BY <3>1, <3>3, <5>1
        <5>3. c <= o /\ o < d
          BY <5>2
        <5>4. p \in 0..k - 1 /\ C[p + 1] = C[k]
          BY <1>7
        <5>. QED BY <5>1, <5>3, <5>4
      <4>2. ~(off + 1 <= C[p]) /\ (off + 1) - C[p] = off - C[p] + 1
        <5>1. PICK c, o \in Nat : c = C[p] /\ o = off
          <6>1. off \in Nat
            BY <1>8
          <6>. QED BY <1>8, <6>1
        <5>2. ~(o < c)
          BY <3>3, <5>1
        <5>3. ~(o + 1 <= c) /\ (o + 1) - c = o - c + 1
          BY <5>2
        <5>. QED BY <5>1, <5>3
      <4>3. F[k][off + 1] = seqs[k][(off + 1) - C[p]]
        BY <2>4, <3>1, <4>2
      <4>. QED BY <1>7, <4>1, <4>2, <4>3
    <3>. QED BY <3>2, <3>3
  <2>6. Placed(k)
    BY <2>4, <2>5 DEF Placed
  <2>. QED BY <1>6, <2>6
<1>. QED BY <1>9, <1>10

\* The sizes the scan adds up, the place a byte is at, and the pieces that
\* Concatenation lays end to end.
SizeAt == [k \in 1..MaxEntries |-> entry[SlotOf(k - 1)].size]
Place == [slot : Slot, byte : Nat]
Pieces == [k \in 1..NumEntries |->
             [j \in 1..entry[SlotOf(k - 1)].size |->
                [slot |-> SlotOf(k - 1), byte |-> j - 1]]]

LEMMA ScanTypes ==
  ASSUME IInv
  PROVE  /\ MaxEntries \in Nat /\ NumEntries \in 0..MaxEntries
         /\ SizeAt \in [1..MaxEntries -> Nat]
         /\ \A k \in 0..MaxEntries - 1 : /\ SlotOf(k) \in Slot
                                         /\ entry[SlotOf(k)].size \in Nat
                                         /\ entry[SlotOf(k)].size = SizeAt[k + 1]
<1>1. MaxEntries \in 1..255 /\ NumEntries \in 0..MaxEntries
  BY MaxEntriesAssumption, NumEntriesValue DEF IInv
<1>2. ASSUME NEW k \in 0..MaxEntries - 1
      PROVE  SlotOf(k) \in Slot /\ entry[SlotOf(k)].size \in Nat
  <2>1. SlotOf(k) \in Slot
    BY SlotAfterValue DEF IInv, TypeOK, SlotOf
  <2>2. entry[SlotOf(k)] \in Entry \cup {EmptyEntry}
    BY <2>1 DEF IInv, TypeOK
  <2>3. \A e \in Entry : e.size \in Nat
    BY EntryAssumption DEF Entry
  <2>4. EmptyEntry.size \in Nat
    BY DEF EmptyEntry
  <2>. QED BY <2>1, <2>2, <2>3, <2>4
<1>3. \A k \in 1..MaxEntries : k - 1 \in 0..MaxEntries - 1
  BY <1>1
<1>4. SizeAt \in [1..MaxEntries -> Nat]
  BY <1>2, <1>3 DEF SizeAt
<1>5. ASSUME NEW k \in 0..MaxEntries - 1
      PROVE  entry[SlotOf(k)].size = SizeAt[k + 1]
  <2>1. k + 1 \in 1..MaxEntries /\ (k + 1) - 1 = k
    BY <1>1
  <2>. QED BY <2>1 DEF SizeAt
<1>. QED BY <1>1, <1>2, <1>4, <1>5

\* count on entry to iteration k of the scan is the sum of the first k sizes.
LEMMA CountSums ==
  ASSUME IInv
  PROVE  Sums(Count, SizeAt, MaxEntries)
<1>. DEFINE Step(f) == [k \in 0..MaxEntries |->
                          IF k = 0 THEN 0 ELSE f[k - 1] + entry[SlotOf(k - 1)].size]
<1>1. MaxEntries \in Nat /\ SizeAt \in [1..MaxEntries -> Nat]
  BY ScanTypes
<1>2. \A k \in 0..MaxEntries : k # 0 => /\ k - 1 \in 0..MaxEntries
                                        /\ entry[SlotOf(k - 1)].size = SizeAt[k]
                                        /\ SizeAt[k] \in Nat
  BY <1>1 DEF SizeAt
<1>3. PICK C : Sums(C, SizeAt, MaxEntries)
  BY <1>1, SumsExist
<1>4. C = Step(C)
  <2>1. /\ C \in [0..MaxEntries -> Nat]
        /\ \A k \in 0..MaxEntries :
             C[k] = IF k = 0 THEN 0 ELSE C[k - 1] + entry[SlotOf(k - 1)].size
    BY <1>2, <1>3 DEF Sums
  <2>2. C = [k \in 0..MaxEntries |-> C[k]]
    BY <2>1
  <2>3. [k \in 0..MaxEntries |-> C[k]] = Step(C)
    BY <2>1, Zenon
  <2>. QED BY <2>2, <2>3, Zenon
<1>5. Count = CHOOSE f : f = Step(f)
  BY DEF Count
<1>6. Count = Step(Count)
  <2>1. (CHOOSE f : f = Step(f)) = Step(CHOOSE f : f = Step(f))
    BY <1>4, Zenon
  <2>. QED BY <1>5, <2>1, Zenon
<1>. HIDE DEF Step
<1>7. PICK D : D = Count
  OBVIOUS
<1>8. D = Step(D)
  BY <1>6, <1>7
<1>9. \A k \in 0..MaxEntries : D[k] = IF k = 0 THEN 0 ELSE D[k - 1] + SizeAt[k]
  BY <1>2, <1>8 DEF Step
<1>. DEFINE Bad == {k \in 0..MaxEntries : D[k] \notin Nat}
<1>10. Bad = {}
  <2>1. SUFFICES ASSUME Bad # {} PROVE FALSE
    OBVIOUS
  <2>2. Bad \in SUBSET Nat
    OBVIOUS
  <2>3. PICK m \in Bad : \A k \in Bad : m <= k
    BY <2>1, <2>2, LeastNatural
  <2>4. m \in 0..MaxEntries /\ D[m] \notin Nat
    OBVIOUS
  <2>5. m # 0 /\ D[m] = D[m - 1] + SizeAt[m] /\ SizeAt[m] \in Nat
    BY <1>2, <1>9, <2>4
  <2>6. m - 1 \in 0..MaxEntries /\ ~(m <= m - 1)
    BY <1>1, <2>4, <2>5
  <2>7. D[m - 1] \in Nat
    BY <2>3, <2>6
  <2>. QED BY <2>4, <2>5, <2>7
<1>11. D \in [0..MaxEntries -> Nat]
  <2>1. DOMAIN D = 0..MaxEntries /\ D = [k \in 0..MaxEntries |-> D[k]]
    BY <1>8 DEF Step
  <2>2. \A k \in 0..MaxEntries : D[k] \in Nat
    BY <1>10
  <2>. QED BY <2>1, <2>2
<1>12. Sums(D, SizeAt, MaxEntries)
  BY <1>9, <1>11 DEF Sums
<1>. QED BY <1>7, <1>12

LEMMA PiecesOK ==
  ASSUME IInv
  PROVE  /\ Pieces \in Seq(Seq(Place)) /\ Len(Pieces) = NumEntries
         /\ \A k \in 1..NumEntries : Len(Pieces[k]) = SizeAt[k]
         /\ \A k \in 0..NumEntries - 1 : \A j \in 0..SizeAt[k + 1] - 1 :
              Pieces[k + 1][j + 1] = [slot |-> SlotOf(k), byte |-> j]
<1>1. /\ MaxEntries \in Nat /\ NumEntries \in 0..MaxEntries
      /\ \A k \in 0..MaxEntries - 1 : /\ SlotOf(k) \in Slot
                                      /\ entry[SlotOf(k)].size \in Nat
                                      /\ entry[SlotOf(k)].size = SizeAt[k + 1]
  BY ScanTypes
<1>2. ASSUME NEW k \in 1..NumEntries
      PROVE  /\ Pieces[k] \in Seq(Place) /\ Len(Pieces[k]) = SizeAt[k]
             /\ \A j \in 1..SizeAt[k] : Pieces[k][j] = [slot |-> SlotOf(k - 1), byte |-> j - 1]
  <2>1. k - 1 \in 0..MaxEntries - 1 /\ (k - 1) + 1 = k
    BY <1>1
  <2>2. PICK z \in Nat : z = SizeAt[k] /\ z = entry[SlotOf(k - 1)].size
    BY <1>1, <2>1
  <2>3. PICK sl \in Slot : sl = SlotOf(k - 1)
    BY <1>1, <2>1
  <2>4. Pieces[k] = [j \in 1..z |-> [slot |-> sl, byte |-> j - 1]]
    BY <2>2, <2>3 DEF Pieces
  <2>5. \A j \in 1..z : [slot |-> sl, byte |-> j - 1] \in Place
    BY DEF Place
  <2>6. [j \in 1..z |-> [slot |-> sl, byte |-> j - 1]] \in [1..z -> Place]
    BY <2>5
  <2>7. Pieces[k] \in Seq(Place) /\ Len(Pieces[k]) = z
    <3>1. Pieces[k] \in [1..z -> Place]
      BY <2>4, <2>6, Zenon
    <3>. QED BY <3>1
  <2>. QED BY <2>2, <2>3, <2>4, <2>7
<1>3. PICK S : S = Seq(Place)
  OBVIOUS
<1>4. Pieces \in Seq(S) /\ Len(Pieces) = NumEntries
  <2>1. DOMAIN Pieces = 1..NumEntries /\ Pieces = [k \in 1..NumEntries |-> Pieces[k]]
    BY DEF Pieces
  <2>2. Pieces \in [1..NumEntries -> S]
    BY <1>2, <1>3, <2>1
  <2>. QED BY <1>1, <2>2
<1>5. ASSUME NEW k \in 0..NumEntries - 1, NEW j \in 0..SizeAt[k + 1] - 1
      PROVE  Pieces[k + 1][j + 1] = [slot |-> SlotOf(k), byte |-> j]
  <2>1. k \in 0..MaxEntries - 1 /\ k + 1 \in 1..NumEntries /\ (k + 1) - 1 = k
    BY <1>1
  <2>2. PICK z \in Nat : z = SizeAt[k + 1]
    BY <1>1, <2>1
  <2>3. j + 1 \in 1..z /\ (j + 1) - 1 = j
    BY <2>2
  <2>. QED BY <1>2, <2>1, <2>2, <2>3
<1>. QED BY <1>2, <1>3, <1>4, <1>5

\* The scan stops at the first entry whose bytes reach past the position: the
\* one the running sums put the position in.
LEMMA FirstHit ==
  ASSUME IInv, NEW m \in 0..NumEntries - 1, NEW off \in Nat,
         Count[m] <= off, off < Count[m + 1]
  PROVE  FindEntryOffsetForFpos(off) = [slot |-> SlotOf(m), byte |-> off - Count[m]]
<1>1. /\ MaxEntries \in Nat /\ NumEntries \in 0..MaxEntries
      /\ SizeAt \in [1..MaxEntries -> Nat]
      /\ \A k \in 0..MaxEntries - 1 : entry[SlotOf(k)].size = SizeAt[k + 1]
  BY ScanTypes
<1>2. PICK C : C = Count
  OBVIOUS
<1>3. Sums(C, SizeAt, MaxEntries)
  BY <1>2, CountSums
<1>4. \A k \in 0..MaxEntries : \A j \in 0..k : C[j] <= C[k]
  BY <1>1, <1>3, SumsGrow
<1>5. \A k \in 0..MaxEntries : C[k] \in Nat
  BY <1>3 DEF Sums
<1>6. ASSUME NEW k \in 0..NumEntries - 1
      PROVE  EntryHit(k, off) <=> C[k + 1] > off
  <2>1. k \in 0..MaxEntries - 1 /\ k + 1 \in 0..MaxEntries /\ k + 1 # 0 /\ (k + 1) - 1 = k
    BY <1>1
  <2>2. C[k + 1] = C[k] + SizeAt[k + 1]
    BY <1>3, <2>1 DEF Sums
  <2>3. entry[SlotOf(k)].size = SizeAt[k + 1]
    BY <1>1, <2>1
  <2>. QED BY <1>2, <2>2, <2>3 DEF EntryHit
<1>. DEFINE hits == {k \in 0..NumEntries - 1 : EntryHit(k, off)}
<1>. DEFINE first == CHOOSE k \in hits : \A j \in hits : k <= j
<1>7. m \in hits
  BY <1>1, <1>2, <1>5, <1>6
<1>8. ASSUME NEW j \in hits PROVE m <= j
  <2>1. SUFFICES ASSUME j < m PROVE FALSE
    BY <1>1
  <2>2. j \in 0..NumEntries - 1 /\ C[j + 1] > off
    BY <1>6
  <2>3. m \in 0..MaxEntries /\ j + 1 \in 0..m /\ j + 1 \in 0..MaxEntries
    BY <1>1, <2>1, <2>2
  <2>4. C[j + 1] <= C[m] /\ C[m] \in Nat /\ C[j + 1] \in Nat
    BY <1>4, <1>5, <2>3
  <2>. QED BY <1>2, <2>2, <2>4
<1>9. \A k \in hits : k \in Int
  BY <1>1
<1>. HIDE DEF hits
<1>10. first \in hits /\ \A j \in hits : first <= j
  BY <1>7, <1>8, Zenon
<1>11. first = m
  <2>1. PICK f : f = first
    OBVIOUS
  <2>2. f <= m /\ m <= f /\ f \in Int /\ m \in Int
    BY <1>7, <1>8, <1>9, <1>10, <2>1
  <2>. QED BY <2>1, <2>2
<1>12. hits # {}
  BY <1>7
<1>13. FindEntryOffsetForFpos(off) = [slot |-> SlotOf(first), byte |-> off - Count[first]]
  BY <1>12, Zenon DEF hits, FindEntryOffsetForFpos
<1>. HIDE DEF first
<1>. QED BY <1>11, <1>13

\* Past the last byte the scan finds nothing.
LEMMA NoHit ==
  ASSUME IInv, NEW off \in Nat, Count[NumEntries] <= off
  PROVE  FindEntryOffsetForFpos(off) = NULL
<1>1. /\ MaxEntries \in Nat /\ NumEntries \in 0..MaxEntries
      /\ SizeAt \in [1..MaxEntries -> Nat]
      /\ \A k \in 0..MaxEntries - 1 : entry[SlotOf(k)].size = SizeAt[k + 1]
  BY ScanTypes
<1>2. PICK C : C = Count
  OBVIOUS
<1>3. Sums(C, SizeAt, MaxEntries)
  BY <1>2, CountSums
<1>4. \A k \in 0..MaxEntries : \A j \in 0..k : C[j] <= C[k]
  BY <1>1, <1>3, SumsGrow
<1>5. \A k \in 0..MaxEntries : C[k] \in Nat
  BY <1>3 DEF Sums
<1>6. ASSUME NEW k \in 0..NumEntries - 1
      PROVE  ~EntryHit(k, off)
  <2>1. /\ k \in 0..MaxEntries - 1 /\ k + 1 \in 0..MaxEntries /\ k + 1 # 0
        /\ (k + 1) - 1 = k /\ k + 1 \in 0..NumEntries
    BY <1>1
  <2>2. C[k + 1] = C[k] + SizeAt[k + 1]
    BY <1>3, <2>1 DEF Sums
  <2>3. entry[SlotOf(k)].size = SizeAt[k + 1]
    BY <1>1, <2>1
  <2>4. C[k + 1] <= C[NumEntries] /\ C[k + 1] \in Nat /\ C[NumEntries] \in Nat
    BY <1>1, <1>4, <1>5, <2>1
  <2>5. ~(C[k + 1] > off)
    BY <1>2, <2>4
  <2>. QED BY <1>2, <2>2, <2>3, <2>5 DEF EntryHit
<1>7. {k \in 0..NumEntries - 1 : EntryHit(k, off)} = {}
  BY <1>6
<1>. QED BY <1>7, Zenon DEF FindEntryOffsetForFpos

\* find_entry_offset_for_fpos returns, at every position of every ring that
\* adds can lead to, the byte that is there when the entries are laid end to
\* end, and NULL exactly past the last byte: empty entries own no position and
\* a boundary belongs to the later entry.
THEOREM FindsEveryByte == Spec => []FindsTheByteOfTheConcatenation
<1>1. IInv => FindsTheByteOfTheConcatenation
  <2>. SUFFICES ASSUME IInv PROVE FindsTheByteOfTheConcatenation
    OBVIOUS
  <2>1. PICK n : n = NumEntries
    OBVIOUS
  <2>2. /\ MaxEntries \in Nat /\ n \in 0..MaxEntries /\ n \in Nat
        /\ SizeAt \in [1..MaxEntries -> Nat]
    BY <2>1, ScanTypes
  <2>3. Sums(Count, SizeAt, MaxEntries)
    BY CountSums
  <2>. DEFINE s == [k \in 1..n |-> SizeAt[k]]
  <2>. DEFINE C == [k \in 0..n |-> Count[k]]
  <2>4. s \in [1..n -> Nat]
    BY <2>2
  <2>5. Sums(C, s, n)
    <3>1. PICK D : D = Count
      OBVIOUS
    <3>2. /\ D \in [0..MaxEntries -> Nat]
          /\ \A k \in 0..MaxEntries : D[k] = IF k = 0 THEN 0 ELSE D[k - 1] + SizeAt[k]
      BY <2>3, <3>1 DEF Sums
    <3>3. C = [k \in 0..n |-> D[k]]
      BY <3>1
    <3>4. C \in [0..n -> Nat]
      BY <2>2, <3>2, <3>3
    <3>5. ASSUME NEW k \in 0..n PROVE C[k] = IF k = 0 THEN 0 ELSE C[k - 1] + s[k]
      <4>1. k \in 0..MaxEntries /\ (k # 0 => k - 1 \in 0..n /\ k \in 1..n)
        BY <2>2
      <4>. QED BY <3>2, <3>3, <4>1
    <3>. QED BY <3>4, <3>5 DEF Sums
  <2>6. \A k \in 0..n : C[k] = Count[k] /\ C[k] \in Nat
    BY <2>5 DEF Sums
  <2>7. Concatenation = FlattenSeq(Pieces)
    BY Zenon DEF Concatenation, Pieces
  <2>8. /\ Pieces \in Seq(Seq(Place)) /\ Len(Pieces) = n
        /\ \A k \in 1..n : Len(Pieces[k]) = s[k]
        /\ \A k \in 0..n - 1 : \A j \in 0..SizeAt[k + 1] - 1 :
             Pieces[k + 1][j + 1] = [slot |-> SlotOf(k), byte |-> j]
    BY <2>1, PiecesOK
  <2>. HIDE DEF s, C
  <2>9. PICK L : L = Concatenation
    OBVIOUS
  <2>10. ASSUME n # 0
         PROVE  /\ Len(L) = C[n]
                /\ \A off \in 0..C[n] - 1 : \E m \in 0..n - 1 :
                     /\ C[m] <= off /\ off < C[m + 1]
                     /\ L[off + 1] = Pieces[m + 1][off - C[m] + 1]
    <3>1. /\ Len(FlattenSeq(Pieces)) = C[n]
          /\ \A off \in 0..C[n] - 1 : \E m \in 0..n - 1 :
               /\ C[m] <= off /\ off < C[m + 1]
               /\ FlattenSeq(Pieces)[off + 1] = Pieces[m + 1][off - C[m] + 1]
      <4>1. PICK P, c, z : P = Pieces /\ c = C /\ z = s
        OBVIOUS
      <4>2. n \in Nat /\ z \in [1..n -> Nat] /\ Sums(c, z, n) /\ n # 0
        BY <2>2, <2>4, <2>5, <2>10, <4>1
      <4>3. P \in Seq(Seq(Place)) /\ Len(P) = n
        BY <2>8, <4>1
      <4>4. \A k \in 1..n : Len(P[k]) = z[k]
        BY <2>8, <4>1
      <4>5. /\ Len(FlattenSeq(P)) = c[n]
            /\ \A off \in 0..c[n] - 1 : \E m \in 0..n - 1 :
                 /\ c[m] <= off /\ off < c[m + 1]
                 /\ FlattenSeq(P)[off + 1] = P[m + 1][off - c[m] + 1]
        <5>1. PICK X : X = Place
          OBVIOUS
        <5>2. P \in Seq(Seq(X))
          BY <4>3, <5>1
        <5>3. Len(P) = n
          BY <4>3
        <5>. QED BY <4>2, <4>4, <5>2, <5>3, FlattenPositions, SMTT(40)
      <4>. QED BY <4>1, <4>5
    <3>. QED BY <2>7, <2>9, <3>1, Zenon
  <2>11. Len(L) = C[n]
    <3>1. CASE n = 0
      <4>1. Pieces = <<>>
        BY <2>8, <3>1, EmptySeq
      <4>2. L = <<>>
        BY <2>7, <2>8, <2>9, <3>1, <4>1, Zenon DEF FlattenSeq
      <4>3. C[n] = 0
        BY <2>5, <3>1 DEF Sums
      <4>. QED BY <4>2, <4>3
    <3>2. CASE n # 0
      BY <2>10, <3>2
    <3>. QED BY <3>1, <3>2
  <2>12. n \in 0..n /\ C[n] \in Nat
    BY <2>2, <2>6
  <2>13. ASSUME NEW off \in 0..Len(L) + 1, off < Len(L)
         PROVE  FindEntryOffsetForFpos(off) = L[off + 1]
    <3>1. off \in 0..C[n] - 1 /\ off \in Nat
      BY <2>11, <2>12, <2>13
    <3>2. n # 0
      <4>1. C[0] = 0
        BY <2>2, <2>5 DEF Sums
      <4>. QED BY <3>1, <4>1
    <3>3. PICK m \in 0..n - 1 : /\ C[m] <= off /\ off < C[m + 1]
                                /\ L[off + 1] = Pieces[m + 1][off - C[m] + 1]
      BY <2>10, <3>1, <3>2
    <3>4. m \in 0..n /\ m + 1 \in 0..n /\ m + 1 \in 1..n /\ m + 1 # 0 /\ (m + 1) - 1 = m
      BY <2>2
    <3>5. C[m] \in Nat /\ C[m + 1] \in Nat /\ C[m + 1] = C[m] + s[m + 1]
      BY <2>5, <2>6, <3>4 DEF Sums
    <3>6. s[m + 1] = SizeAt[m + 1] /\ s[m + 1] \in Nat
      BY <2>4, <3>4 DEF s
    <3>7. off - C[m] \in 0..SizeAt[m + 1] - 1
      BY <3>1, <3>3, <3>5, <3>6
    <3>8. L[off + 1] = [slot |-> SlotOf(m), byte |-> off - C[m]]
      BY <2>8, <3>3, <3>7
    <3>9. FindEntryOffsetForFpos(off) = [slot |-> SlotOf(m), byte |-> off - Count[m]]
      BY <2>1, <2>6, <3>1, <3>3, <3>4, FirstHit
    <3>. QED BY <2>6, <3>4, <3>8, <3>9
  <2>14. ASSUME NEW off \in 0..Len(L) + 1, ~(off < Len(L))
         PROVE  FindEntryOffsetForFpos(off) = NULL
    <3>1. off \in Nat /\ Count[n] <= off
      BY <2>6, <2>11, <2>12, <2>14
    <3>. QED BY <2>1, <3>1, NoHit
  <2>. QED BY <2>9, <2>13, <2>14 DEF FindsTheByteOfTheConcatenation
<1>. QED BY <1>1, Invariance, PTL
=============================================================================
