--------------------------- MODULE MCSosDispatch ---------------------------
(* Instances of SosDispatch for TLC. *)
EXTENDS SosDispatch

CONSTANTS p1, p2

TwoPhones == {p1, p2}

=============================================================================
