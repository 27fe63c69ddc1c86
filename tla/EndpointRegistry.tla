-------------------------- MODULE EndpointRegistry --------------------------
(***************************************************************************)
(* What endpoint id assignment promises, whatever the storage format and   *)
(* the order in which devices appear (src/src/devices/device.h: "not       *)
(* reusing indexes but always assigning incremented indexes for new        *)
(* devices, until wrap-around"): a device keeps its id as long as the id   *)
(* is a dynamic one, and a device without one gets an id that no device    *)
(* ever had.  A device keeps its id over restarts; installed a second time *)
(* in one run it gets another one, since the first object still has the    *)
(* id.  The promise ends (sound = FALSE) with the first wrap-around or the *)
(* first crash that leaves the stored counter behind the ids that were     *)
(* assigned from it, or that loses the id of a device in migration.        *)
(***************************************************************************)
EXTENDS Integers

CONSTANTS
  Uid,        \* endpointUIDs
  InvalidId   \* no id

VARIABLES
  idOf,       \* the id each device has, InvalidId when it has none
  nextId,     \* no id from here on was ever assigned
  floor,      \* lower ids belong to fixed endpoints
  bridged,    \* the devices installed since the last start
  sound       \* the promise still holds

vars == <<idOf, nextId, floor, bridged, sound>>

Init ==
  /\ sound = TRUE
  /\ bridged = {}
  /\ floor \in Nat
  /\ nextId \in Nat /\ floor <= nextId
  /\ idOf \in [Uid -> 0 .. InvalidId]
  /\ \A u \in Uid : idOf[u] # InvalidId => idOf[u] < nextId
  /\ \A u, v \in Uid : idOf[u] = idOf[v] /\ idOf[u] # InvalidId => u = v

\* The device comes back under its id.
Reuse(u) ==
  /\ sound
  /\ u \notin bridged
  /\ idOf[u] # InvalidId /\ idOf[u] >= floor
  /\ bridged' = bridged \cup {u}
  /\ UNCHANGED <<idOf, nextId, floor, sound>>

\* A device without an id, one whose id a fixed endpoint has now, or one that
\* is installed a second time.
Assign(u) ==
  /\ sound
  /\ idOf[u] = InvalidId \/ idOf[u] < floor \/ u \in bridged
  /\ idOf' = [idOf EXCEPT ![u] = nextId]
  /\ nextId' = nextId + 1
  /\ bridged' = bridged \cup {u}
  /\ UNCHANGED <<floor, sound>>

Restart ==
  /\ sound
  /\ bridged' = {}
  /\ UNCHANGED <<idOf, nextId, floor, sound>>

RaiseFloor ==
  /\ sound
  /\ bridged = {}
  /\ floor' \in Nat /\ floor' > floor
  /\ nextId' = IF nextId < floor' THEN floor' ELSE nextId
  /\ UNCHANGED <<idOf, bridged, sound>>

Spoiled == sound' = FALSE

Next == (\E u \in Uid : Reuse(u) \/ Assign(u)) \/ Restart \/ RaiseFloor \/ Spoiled

Spec == Init /\ [][Next]_vars
=============================================================================
