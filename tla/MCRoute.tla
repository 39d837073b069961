------------------------------ MODULE MCRoute ------------------------------
(***************************************************************************)
(* An instance of Route: the routes of up to two points out of a few, with  *)
(* differences of both signs that take one group of bits, two and more.     *)
(***************************************************************************)
EXTENDS Route

MCPoints == {[lat |-> 0, lng |-> 0], [lat |-> 15, lng |-> -16],
             [lat |-> -1, lng |-> 512], [lat |-> -17000, lng |-> 8],
             [lat |-> 1297160, lng |-> 7759460]}

MCWays == {<<>>} \cup {<<p>> : p \in MCPoints} \cup
              {<<p, q>> : p, q \in MCPoints}

=============================================================================
