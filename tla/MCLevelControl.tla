--------------------------- MODULE MCLevelControl ---------------------------
(* A light with three levels, two channel values each, for TLC.              *)
EXTENDS LevelControl
=============================================================================
