--------------------------- MODULE MCCommissioning ---------------------------
(* An instance of Commissioning for TLC: both adapters with a device each.     *)
EXTENDS Commissioning

CONSTANTS p1, c1

\* An earlier run left nothing, or what it has told last.
NothingLeft == [started |-> FALSE, commissionable |-> FALSE, code |-> FALSE]
MCNothingLeft == {NothingLeft}
MCVdcLeft ==
  {NothingLeft, [started |-> TRUE, commissionable |-> TRUE, code |-> TRUE]}
=============================================================================
