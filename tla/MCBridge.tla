------------------------------ MODULE MCBridge ------------------------------
(* Instances of Bridge for TLC: both adapters with a device each, and the    *)
(* P44 adapter alone with two.                                               *)
EXTENDS Bridge

CONSTANTS p1, p2, c1
=============================================================================
