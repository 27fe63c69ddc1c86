-------------------------- MODULE MCEndpointAlloc --------------------------
(* Instances of EndpointAlloc for TLC. *)
EXTENDS EndpointAlloc, SequencesExt

\* Device 2 is a composed device with all the subdevices, the others are single.
MCSubsOf == [m \in Main |-> IF m = 2 THEN SetToSortSeq(Sub, <) ELSE <<>>]
=============================================================================
