----------------------------- MODULE BridgeMain -----------------------------
(***************************************************************************)
(* The main application as its adapters see it: the startup protocol, the  *)
(* device maps of the adapters (class BridgeAdapter) and the life of a     *)
(* device object from registration to its endpoint in the matter stack     *)
(* (src/src/p44mbrd_main.cpp, src/src/adapters/adapters.cpp).              *)
(*                                                                         *)
(* Everything runs in one main loop.  One handler of an adapter may call   *)
(* several of the functions below before it returns, so they are operators *)
(* from one state of the bridge to the next; the adapter modules compose   *)
(* them.  executeNow() postpones a call until the main loop is idle: the   *)
(* postponed calls are counted in "starts" and StartChip runs one of them. *)
(*                                                                         *)
(* Endpoint ids are assigned as in EndpointAlloc; here an endpoint is the  *)
(* position of its device in mDevices.  Only bridge-level devices appear.  *)
(***************************************************************************)
EXTENDS Integers, Sequences, SequencesExt

CONSTANTS
  Uid,        \* endpointUIDs of all adapters
  Adapters,   \* the adapters in use
  MaxDyn      \* CHIP_DEVICE_CONFIG_DYNAMIC_ENDPOINT_COUNT

ASSUME MainAssumption == IsFiniteSet(Uid) /\ MaxDyn \in Nat

VARIABLE bridge

NoObj == 0    \* no device object
NoEp  == 0    \* kInvalidEndpointId

(***************************************************************************)
(* A device object is its position in objs, the objects created so far.    *)
(* bridgeable and active are the two flags of P44_DeviceImpl; reachable is *)
(* what the stack is told.                                                 *)
(***************************************************************************)
DeviceObject == [uid : Uid, ep : Nat, bridgeable : BOOLEAN, active : BOOLEAN, reachable : BOOLEAN]

Bridge == [
  unstarted : Int,            \* mUnstartedAdapters
  starts    : Nat,            \* startChip calls postponed by executeNow
  up        : BOOLEAN,        \* mChipAppInitialized
  exited    : BOOLEAN,        \* terminateApp was called
  objs      : Seq(DeviceObject),
  map       : [Uid -> Nat],   \* mDeviceUIDMap of the UID's adapter
  table     : Seq(Nat),       \* mDevices
  on        : SUBSET Nat,     \* endpoints that are enabled in the stack
  \* history
  handed    : SUBSET Uid,     \* devices given to the bridge and not removed since
  removed   : SUBSET Uid,     \* devices removed when they were bridged ...
  early     : SUBSET Uid,     \* ... and when the stack was not started yet
  late      : SUBSET Uid,     \* registered as initial devices after the start
  added     : SUBSET Uid      \* given to bridgeAdditionalDevice
]

BridgeTypeOK ==
  /\ bridge \in Bridge
  /\ \A u \in Uid : bridge.map[u] \in 0 .. Len(bridge.objs)
  /\ Len(bridge.table) <= MaxDyn
  /\ \A i \in DOMAIN bridge.table : bridge.table[i] \in DOMAIN bridge.objs
  /\ bridge.on \subseteq DOMAIN bridge.table

InitBridge == [
  unstarted |-> Cardinality(Adapters), starts |-> 0, up |-> FALSE, exited |-> FALSE,
  objs |-> <<>>, map |-> [u \in Uid |-> NoObj], table |-> <<>>, on |-> {},
  handed |-> {}, removed |-> {}, early |-> {}, late |-> {}, added |-> {}]

\* BridgeAdapter::hasBridgeableDevices of any adapter.
HasBridgeableDevices(b) == \E u \in Uid : b.map[u] # NoObj

\* p44mbrd_main.cpp:390: postpone startChip.
PostponeStart(b) == [b EXCEPT !.starts = @ + 1]

\* adapterStartupComplete
StartupComplete(b) ==
  IF b.unstarted - 1 > 0 \/ ~HasBridgeableDevices(b)
    THEN [b EXCEPT !.unstarted = @ - 1]
    ELSE PostponeStart([b EXCEPT !.unstarted = @ - 1])

\* A new device object; it is not in any map yet.
NewDevice(u) == [uid |-> u, ep |-> NoEp, bridgeable |-> TRUE, active |-> TRUE, reachable |-> FALSE]
NewObject(b, u) == [b EXCEPT !.objs = Append(@, NewDevice(u))]
Newest(b) == Len(b.objs)

\* registerInitialDevice for a new object of each of the UIDs, one by one: an
\* entry that exists is replaced.
RegisterInitialDevices(b, us) ==
  LET order == SetToSeq(us)
      objs  == b.objs \o [i \in DOMAIN order |-> NewDevice(order[i])]
      new   == (DOMAIN objs) \ (DOMAIN b.objs)
  IN  [b EXCEPT !.objs = objs,
                !.map = [u \in Uid |-> IF u \in us THEN CHOOSE o \in new : objs[o].uid = u ELSE @[u]],
                !.handed = @ \cup us,
                !.late = IF b.up THEN @ \cup us ELSE @]

\* The device object has the endpoint i of the stack.
Installed(d, i) == [d EXCEPT !.ep = i, !.reachable = d.active /\ d.bridgeable]

BugInstall(b, os) ==   \* does not look for room
  LET table == b.table \o os
      new   == (DOMAIN table) \ (DOMAIN b.table)
  IN  [b EXCEPT !.table = table,
                !.on = @ \cup new,
                !.objs = [o \in DOMAIN @ |->
                            IF \E i \in new : table[i] = o
                              THEN Installed(@[o], CHOOSE i \in new : table[i] = o)
                              ELSE @[o]]]

\* installSingleBridgedDevice for one device after the other, as long as there is
\* room, and addAsDeviceEndpoint, didGetInstalled (P44: updateBridgedInfo) once
\* their ids are known.
Install(b, os) ==
  LET room  == MaxDyn - Len(b.table)
      table == b.table \o (IF Len(os) <= room THEN os ELSE SubSeq(os, 1, room))
      new   == (DOMAIN table) \ (DOMAIN b.table)
  IN  [b EXCEPT !.table = table,
                !.on = @ \cup new,
                !.objs = [o \in DOMAIN @ |->
                            IF \E i \in new : table[i] = o
                              THEN Installed(@[o], CHOOSE i \in new : table[i] = o)
                              ELSE @[o]]]

\* addAdditionalDevice: before the stack runs it is the start that installs.
AddAdditionalDevice(b, o) == IF ~b.up THEN PostponeStart(b) ELSE Install(b, <<o>>)

\* reEnableDevice: didGetInstalled and didBecomeOperational only; the endpoint
\* of the main device is not enabled.
ReEnableDevice(b, o) ==
  [b EXCEPT !.objs[o].reachable = b.objs[o].active /\ b.objs[o].bridgeable]

BugBridgeAdditionalDevice(b, o) ==   \* keeps the device only when it got installed
  LET u    == b.objs[o].uid
      prev == IF b.map[u] = NoObj THEN NoEp ELSE b.objs[b.map[u]].ep
      new  == [b EXCEPT !.map[u] = IF b.up THEN o ELSE @,
                        !.handed = @ \cup {u}, !.added = @ \cup {u}]
  IN  IF prev \in b.on THEN b
      ELSE IF prev # NoEp THEN ReEnableDevice(new, o)
      ELSE AddAdditionalDevice(new, o)

\* bridgeAdditionalDevice
BridgeAdditionalDevice(b, o) ==
  LET u    == b.objs[o].uid
      prev == IF b.map[u] = NoObj THEN NoEp ELSE b.objs[b.map[u]].ep
      new  == [b EXCEPT !.map[u] = o, !.handed = @ \cup {u}, !.added = @ \cup {u}]
  IN  IF prev \in b.on THEN b
      ELSE IF prev # NoEp THEN ReEnableDevice(new, o)
      ELSE AddAdditionalDevice(new, o)

\* removeDevice -> disableDevice: of no effect when there is no endpoint yet.
RemoveDevice(b, o) ==
  [b EXCEPT !.on = @ \ {b.objs[o].ep},
            !.handed = @ \ {b.objs[o].uid},
            !.removed = IF b.up THEN @ \cup {b.objs[o].uid} ELSE @,
            !.early = IF b.up THEN @ ELSE @ \cup {b.objs[o].uid}]

\* installInitiallyBridgedDevices: a cleared table, filled from the maps.
InstallInitial(b) ==
  Install([b EXCEPT !.table = <<>>, !.on = {}], SetToSeq({b.map[u] : u \in Uid} \ {NoObj}))

BugStartedChip(b) == [InstallInitial(b) EXCEPT !.up = TRUE]   \* no check for a second start

\* startChip, when the main loop gets to it.  A second start ends the program.
StartedChip(b) ==
  IF b.up THEN [b EXCEPT !.exited = TRUE]
  ELSE [InstallInitial(b) EXCEPT !.up = TRUE]

StartChip ==
  /\ bridge.starts > 0 /\ ~bridge.exited
  /\ bridge' = [StartedChip(bridge) EXCEPT !.starts = @ - 1]

---------------------------------------------------------------------------
(* What is known of a device from outside.                                 *)

\* Its endpoints, of which there should be one at most.
EndpointsOf(u)  == {i \in DOMAIN bridge.table : bridge.objs[bridge.table[i]].uid = u}
IsEnabled(u)    == EndpointsOf(u) \cap bridge.on # {}
\* The stack runs, and no start is about to end it.
Settled         == bridge.up /\ ~bridge.exited /\ bridge.starts = 0
\* Registered as an initial device when the stack already ran, and never added.
Missed          == bridge.late \ bridge.added
HasRoom         == Len(bridge.table) < MaxDyn
=============================================================================
