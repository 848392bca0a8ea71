------------------------- MODULE MCCommandDelivery --------------------------
(* Small instances of CommandDelivery for TLC. *)
EXTENDS CommandDelivery, TLC

CONSTANTS r1, r2, d1, d2

TwoRequests == {r1, r2}
OneDevice == {d1}
NoGroup == {}
OneGroup == {{d1}}
NoExits == {}
BothExit == {r1, r2}
RequestSymmetry == Permutations({r1, r2})
=============================================================================
