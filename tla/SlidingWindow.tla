---------------------------- MODULE SlidingWindow ----------------------------
(***************************************************************************)
(* What the circular buffer promises to its users, without slots, offsets  *)
(* or a full flag: the last Capacity items added, oldest first.            *)
(***************************************************************************)
EXTENDS Integers, Sequences

CONSTANTS
  Item,       \* what may be added
  Capacity    \* how many items are kept

VARIABLE window

Init == window = <<>>

Add(x) ==
  window' = IF Len(window) < Capacity THEN Append(window, x)
                                      ELSE Append(Tail(window), x)

Next == \E x \in Item : Add(x)

Spec == Init /\ [][Next]_window
=============================================================================
