------------------------------ MODULE MCShield ------------------------------
(* Instances of Shield for TLC. *)
EXTENDS Shield

CONSTANTS c1, c2

TwoContacts == {c1, c2}

=============================================================================
