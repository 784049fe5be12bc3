------------------------------ MODULE SeatsMC ------------------------------
(* Small instances of Seats: two or three seats, one or two coroutines     *)
(* outside the gate.                                                       *)
EXTENDS Seats, TLC

SeatSymmetry == Permutations(Seats)
=============================================================================
