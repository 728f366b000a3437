--------------------------- MODULE MCSlotScheduling ---------------------------
(* A small instance of SlotScheduling for TLC: a slot at midnight and the    *)
(* slots on both sides of it.                                                *)
EXTENDS SlotScheduling, TLC

CONSTANTS evening, midnight, morning

SlotDays == [t \in Slots |-> IF t = midnight THEN {0, 1} ELSE IF t = evening THEN {0} ELSE {1}]
AllRival == {pair \in Lots \X Lots : pair[1] # pair[2]}

\* A call that is over has no arguments.
Relevant ==
  <<rows, at, days,
    [c \in Calls |-> IF at[c] = "idle" THEN << >> ELSE <<kind[c], lot[c], slot[c]>>]>>

Interchangeable == Permutations(Lots) \cup Permutations(Calls)
===============================================================================
