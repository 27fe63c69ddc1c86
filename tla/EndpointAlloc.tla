--------------------------- MODULE EndpointAlloc ---------------------------
(***************************************************************************)
(* Assignment of matter endpoint ids to bridged devices by the main        *)
(* application (src/src/p44mbrd_main.cpp), across restarts, crashes,       *)
(* migration from the legacy storage format and software updates.          *)
(*                                                                         *)
(* Every handler of the main application runs to its end before the next   *)
(* one starts, but the process may die between two writes to the key-value *)
(* store.  A handler is therefore split into one step per write (and one   *)
(* per iteration of the collision scan); Crash may come between any two.   *)
(***************************************************************************)
EXTENDS Integers, Sequences

CONSTANTS
  Main,         \* bridge-level devices; an endpointUID is its rank in the device map
  Sub,          \* endpointUIDs of the subdevices of composed devices
  SubsOf,       \* the subdevices of each bridge-level device, in order
  MaxDyn,       \* CHIP_DEVICE_CONFIG_DYNAMIC_ENDPOINT_COUNT
  InvalidId,    \* kInvalidEndpointId, 0xFFFF
  LegacyFirst,  \* kLegacyFirstDynamicEndpointID
  MinFixed,     \* emberAfFixedEndpointCount() of the first software version
  MaxFixed      \* bound: emberAfFixedEndpointCount() of the last one

Uid == Main \cup Sub

ASSUME DevicesAssumption ==
  /\ Main \subseteq Nat /\ Sub \subseteq Nat /\ Main \cap Sub = {}
  /\ SubsOf \in [Main -> Seq(Sub)]
  /\ \A m, n \in Main : \A i \in DOMAIN SubsOf[m], j \in DOMAIN SubsOf[n] :
       SubsOf[m][i] = SubsOf[n][j] => m = n /\ i = j

ASSUME IdsAssumption ==
  /\ MaxDyn \in Nat \ {0} /\ LegacyFirst \in Nat \ {0}
  /\ MinFixed \in Nat \ {0} /\ MaxFixed \in Nat /\ MinFixed <= MaxFixed
  /\ InvalidId \in Nat
  /\ MaxFixed + MaxDyn < InvalidId /\ LegacyFirst + MaxDyn < InvalidId

Id  == 0 .. InvalidId       \* EndpointId (uint16_t); InvalidId: none
Idx == 0 .. MaxDyn - 1      \* legacy dynamic endpoint index

VARIABLES
  \* the key-value store; a key that is not found reads as InvalidId
  kvsEp,          \* "device_eps/<uid>"
  kvsFirstFree,   \* "firstFreeEndpointId"
  kvsLegacy,      \* "devices/<uid>": legacy dynamic endpoint index
  kvsMap,         \* "endPointMap": the indices it marks as used ({}: none, or not found)
  fixedCount,     \* emberAfFixedEndpointCount() of the installed software
  \* the main application's memory
  phase,          \* where the running handler is
  addFrom,        \* addAdditionalDevice: index of the added device (0: startChip)
  mains,          \* devices in the adapters' maps not yet handed to installDevice
  todo,           \* main device and subdevices installDevice still has to install
  mainEp,         \* installDevice: the main device's id, parent of its subdevices
  candidate,      \* installSingleBridgedDevice: endpointId
  scanAt,         \* installSingleBridgedDevice: index of the collision scan
  firstFree,      \* mFirstFreeEndpointId
  devices,        \* mDevices[0 .. mNumDynamicEndPoints-1] with the device's id and parent
  registered,     \* external: indices accepted by emberAfSetDynamicEndpoint
  \* history
  torn,           \* a crash came between two writes that belong together
  wrapped         \* endpoint ids have wrapped around

kvs     == <<kvsEp, kvsFirstFree, kvsLegacy, kvsMap>>
job     == <<addFrom, mains, todo, mainEp>>
search  == <<candidate, scanAt>>
table   == <<devices, registered>>
vars    == <<kvs, fixedCount, phase, job, search, firstFree, table, torn, wrapped>>

Phase == {"down", "forget", "validate", "next", "migrate", "check", "scan", "assign", "operational"}

Device == [uid : Uid, ep : Id, parent : Id]

TypeOK ==
  /\ kvsEp \in [Uid -> Id]
  /\ kvsFirstFree \in Id
  /\ kvsLegacy \in [Uid -> Idx \cup {InvalidId}]
  /\ kvsMap \in SUBSET Idx
  /\ fixedCount \in MinFixed .. MaxFixed
  /\ phase \in Phase
  /\ addFrom \in Nat
  /\ mains \in SUBSET Main
  /\ todo \in Seq(Uid)
  /\ mainEp \in Id
  /\ candidate \in Id
  /\ scanAt \in Nat
  /\ firstFree \in Id
  /\ devices \in Seq(Device)
  /\ registered \in SUBSET Nat
  /\ torn \in BOOLEAN
  /\ wrapped \in BOOLEAN

---------------------------------------------------------------------------
(* A store is either new, or one left by the legacy scheme, in which every *)
(* device has an index of its own that the endPointMap marks as used.      *)

LegacyStore(legacy, map) ==
  /\ \A u \in Uid : legacy[u] # InvalidId => legacy[u] \in map
  /\ \A u, v \in Uid : legacy[u] = legacy[v] /\ legacy[u] # InvalidId => u = v

Init ==
  /\ phase = "down"
  /\ addFrom = 0 /\ mains = {} /\ todo = <<>> /\ mainEp = InvalidId
  /\ candidate = InvalidId /\ scanAt = 0 /\ firstFree = InvalidId
  /\ devices = <<>> /\ registered = {}
  /\ kvsEp = [u \in Uid |-> InvalidId]
  /\ kvsFirstFree = InvalidId
  /\ kvsLegacy \in [Uid -> Idx \cup {InvalidId}]
  /\ kvsMap \in SUBSET Idx
  /\ LegacyStore(kvsLegacy, kvsMap)
  /\ fixedCount = MinFixed
  /\ torn = FALSE
  /\ wrapped = FALSE

---------------------------------------------------------------------------
(* startChip -> installInitiallyBridgedDevices, for the devices the        *)
(* adapters have registered.                                               *)

\* 527-536: the ids the legacy map makes the next free id exceed.
BugMapBounds == {fixedCount} \cup {i + LegacyFirst : i \in kvsMap}
MapBounds == {fixedCount} \cup {i + LegacyFirst + 1 : i \in kvsMap}

\* 514-539: clear the device list, read firstFreeEndpointId; when there is
\* none derive it from the legacy map and store it.
StartChip(registeredDevices) ==
  /\ phase = "down"
  /\ registeredDevices # {}
  /\ \/ /\ kvsFirstFree # InvalidId \/ kvsMap = {}
        /\ firstFree' = kvsFirstFree
        /\ UNCHANGED kvsFirstFree
        /\ phase' = "validate"
     \/ /\ kvsFirstFree = InvalidId /\ kvsMap # {}
        /\ \E e \in MapBounds : /\ \A b \in MapBounds : b <= e
                               /\ firstFree' = e
                               /\ kvsFirstFree' = e
        /\ phase' = "forget"
  /\ mains' = registeredDevices
  /\ UNCHANGED <<kvsEp, kvsLegacy, kvsMap, fixedCount, addFrom, todo, mainEp,
                 search, table, torn, wrapped>>

\* 540: forget the legacy map.
ForgetMap ==
  /\ phase = "forget"
  /\ kvsMap' = {}
  /\ phase' = "validate"
  /\ UNCHANGED <<kvsEp, kvsFirstFree, kvsLegacy, fixedCount, job, search,
                 firstFree, table, torn, wrapped>>

\* 551-557: make sure the next free id is a dynamic one.
BugValidate ==   \* leaves an id of a fixed endpoint in place
  /\ phase = "validate"
  /\ IF firstFree = InvalidId
       THEN firstFree' = fixedCount /\ kvsFirstFree' = fixedCount
       ELSE UNCHANGED <<firstFree, kvsFirstFree>>
  /\ phase' = "next"
  /\ UNCHANGED <<kvsEp, kvsLegacy, kvsMap, fixedCount, job, search, table, torn, wrapped>>

Validate ==
  /\ phase = "validate"
  /\ \/ /\ firstFree = InvalidId \/ firstFree < fixedCount
        /\ firstFree' = fixedCount
        /\ kvsFirstFree' = fixedCount
     \/ /\ firstFree # InvalidId /\ firstFree >= fixedCount
        /\ UNCHANGED <<firstFree, kvsFirstFree>>
  /\ phase' = "next"
  /\ UNCHANGED <<kvsEp, kvsLegacy, kvsMap, fixedCount, job, search, table, torn, wrapped>>

---------------------------------------------------------------------------
(* installDevice and installSingleBridgedDevice.                           *)

\* installInitialDevices takes the devices in the order of the map.
NextMain(m) ==
  /\ phase = "next" /\ todo = <<>>
  /\ m \in mains /\ \A n \in mains : m <= n
  /\ mains' = mains \ {m}
  /\ todo' = <<m>> \o SubsOf[m]
  /\ UNCHANGED <<kvs, fixedCount, phase, addFrom, mainEp, search, firstFree,
                 table, torn, wrapped>>

Full == Len(devices) >= MaxDyn

\* 414-417, 646: no room; the subdevices of a main device without room are not tried.
NoEndpoint ==
  /\ phase = "next" /\ todo # <<>>
  /\ Full
  /\ todo' = IF Head(todo) \in Main THEN <<>> ELSE Tail(todo)
  /\ UNCHANGED <<kvs, fixedCount, phase, addFrom, mains, mainEp, search,
                 firstFree, table, torn, wrapped>>

\* 427-436: the device is still stored in the legacy format; delete that key ...
LegacyFound ==
  /\ phase = "next" /\ todo # <<>>
  /\ ~Full
  /\ kvsLegacy[Head(todo)] # InvalidId
  /\ candidate' = kvsLegacy[Head(todo)] + LegacyFirst
  /\ kvsLegacy' = [kvsLegacy EXCEPT ![Head(todo)] = InvalidId]
  /\ phase' = "migrate"
  /\ UNCHANGED <<kvsEp, kvsFirstFree, kvsMap, fixedCount, job, scanAt,
                 firstFree, table, torn, wrapped>>

\* 437: ... and store the id in the new one.
BugMigratePut ==   \* keeps the legacy index
  /\ phase = "migrate"
  /\ kvsEp' = [kvsEp EXCEPT ![Head(todo)] = candidate - LegacyFirst]
  /\ phase' = "check"
  /\ UNCHANGED <<kvsFirstFree, kvsLegacy, kvsMap, fixedCount, job, search,
                 firstFree, table, torn, wrapped>>

MigratePut ==
  /\ phase = "migrate"
  /\ kvsEp' = [kvsEp EXCEPT ![Head(todo)] = candidate]
  /\ phase' = "check"
  /\ UNCHANGED <<kvsFirstFree, kvsLegacy, kvsMap, fixedCount, job, search,
                 firstFree, table, torn, wrapped>>

\* 448-454: look up the id the device had before.
Lookup ==
  /\ phase = "next" /\ todo # <<>>
  /\ ~Full
  /\ kvsLegacy[Head(todo)] = InvalidId
  /\ candidate' = kvsEp[Head(todo)]
  /\ phase' = "check"
  /\ UNCHANGED <<kvs, fixedCount, job, scanAt, firstFree, table, torn, wrapped>>

BugCheckScanFrom ==   \* skips the first device
  /\ phase = "check"
  /\ \/ /\ candidate = InvalidId \/ candidate < fixedCount
        /\ candidate' = InvalidId
        /\ phase' = "assign"
        /\ UNCHANGED scanAt
     \/ /\ candidate # InvalidId /\ candidate >= fixedCount
        /\ phase' = "scan"
        /\ scanAt' = 2
        /\ UNCHANGED candidate
  /\ UNCHANGED <<kvs, fixedCount, job, firstFree, table, torn, wrapped>>

BugCheckBound ==   \* off by one against the fixed endpoints
  /\ phase = "check"
  /\ \/ /\ candidate = InvalidId \/ candidate <= fixedCount
        /\ candidate' = InvalidId
        /\ phase' = "assign"
        /\ UNCHANGED scanAt
     \/ /\ candidate # InvalidId /\ candidate > fixedCount
        /\ phase' = "scan"
        /\ scanAt' = 1
        /\ UNCHANGED candidate
  /\ UNCHANGED <<kvs, fixedCount, job, firstFree, table, torn, wrapped>>

\* 456-463: an id that now belongs to a fixed endpoint cannot be used again.
Check ==
  /\ phase = "check"
  /\ \/ /\ candidate = InvalidId \/ candidate < fixedCount
        /\ candidate' = InvalidId
        /\ phase' = "assign"
        /\ UNCHANGED scanAt
     \/ /\ candidate # InvalidId /\ candidate >= fixedCount
        /\ phase' = "scan"
        /\ scanAt' = 1
        /\ UNCHANGED candidate
  /\ UNCHANGED <<kvs, fixedCount, job, firstFree, table, torn, wrapped>>

\* External: emberAfEndpointCount() counts all dynamic slots once one was set.
EndpointCount == IF registered = {} THEN fixedCount ELSE fixedCount + MaxDyn

BugNextId(e) == e + 1

\* 469, 493: the id after e, and whether it wrapped around.
NextId(e)   == IF e + 1 = InvalidId THEN EndpointCount ELSE e + 1
WrapsAt(e)  == e + 1 = InvalidId

BugScanStep ==   \* goes on only past an adjusted next free id
  /\ phase = "scan" /\ scanAt <= Len(devices)
  /\ IF devices[scanAt].ep = firstFree
       THEN firstFree' = NextId(firstFree) /\ wrapped' = (wrapped \/ WrapsAt(firstFree))
       ELSE UNCHANGED <<firstFree, wrapped>>
  /\ IF devices[scanAt].ep = candidate
       THEN candidate' = InvalidId /\ phase' = "assign" /\ scanAt' = 0
       ELSE /\ scanAt' = IF firstFree' # firstFree THEN scanAt + 1 ELSE scanAt
            /\ UNCHANGED <<candidate, phase>>
  /\ UNCHANGED <<kvs, fixedCount, job, table, torn>>

\* 466-478: one iteration of the scan for an id that is already in use.
ScanStep ==
  /\ phase = "scan" /\ scanAt <= Len(devices)
  /\ IF devices[scanAt].ep = firstFree
       THEN firstFree' = NextId(firstFree) /\ wrapped' = (wrapped \/ WrapsAt(firstFree))
       ELSE UNCHANGED <<firstFree, wrapped>>
  /\ IF devices[scanAt].ep = candidate
       THEN candidate' = InvalidId /\ phase' = "assign" /\ scanAt' = 0
       ELSE scanAt' = scanAt + 1 /\ UNCHANGED <<candidate, phase>>
  /\ UNCHANGED <<kvs, fixedCount, job, table, torn>>

ScanDone ==
  /\ phase = "scan" /\ scanAt > Len(devices)
  /\ phase' = "assign"
  /\ scanAt' = 0
  /\ UNCHANGED <<kvs, fixedCount, job, candidate, firstFree, table, torn, wrapped>>

MatterBridgeEndpoint == 1

BugEnter(u, e) ==   \* the subdevices read the parent's id before it has one
  /\ devices' = Append(devices, [uid |-> u, ep |-> e,
                                 parent |-> IF u \in Main THEN MatterBridgeEndpoint ELSE mainEp])
  /\ mainEp' = mainEp
  /\ todo' = Tail(todo)
  /\ candidate' = InvalidId
  /\ phase' = "next"

\* 495-503: the parent of the main device is the bridge.
Enter(u, e) ==
  /\ devices' = Append(devices, [uid |-> u, ep |-> e,
                                 parent |-> IF u \in Main THEN MatterBridgeEndpoint ELSE mainEp])
  /\ mainEp' = IF u \in Main THEN e ELSE mainEp
  /\ todo' = Tail(todo)
  /\ candidate' = InvalidId
  /\ phase' = "next"

AssignKnown ==
  /\ phase = "assign" /\ candidate # InvalidId
  /\ Enter(Head(todo), candidate)
  /\ UNCHANGED <<kvs, fixedCount, addFrom, mains, scanAt, firstFree,
                 registered, torn, wrapped>>

\* 485-494: the next free id, stored at once.
AssignNew ==
  /\ phase = "assign" /\ candidate = InvalidId
  /\ Enter(Head(todo), firstFree)
  /\ kvsEp' = [kvsEp EXCEPT ![Head(todo)] = firstFree]
  /\ firstFree' = NextId(firstFree)
  /\ wrapped' = (wrapped \/ WrapsAt(firstFree))
  /\ UNCHANGED <<kvsFirstFree, kvsLegacy, kvsMap, fixedCount, addFrom, mains,
                 scanAt, registered, torn>>

---------------------------------------------------------------------------
(* The end of both handlers: store firstFreeEndpointId and publish the new *)
(* devices.  External: emberAfSetDynamicEndpoint refuses an id that another *)
(* dynamic endpoint has.                                                   *)

Accepted(batch) ==
  {i \in batch : \A j \in registered \cup {k \in batch : k < i} : devices[j].ep # devices[i].ep}

\* 559-570
InitialInstalled ==
  /\ phase = "next" /\ todo = <<>> /\ mains = {} /\ addFrom = 0
  /\ kvsFirstFree' = firstFree
  /\ registered' = Accepted(DOMAIN devices)
  /\ phase' = "operational"
  /\ UNCHANGED <<kvsEp, kvsLegacy, kvsMap, fixedCount, job, search, firstFree,
                 devices, torn, wrapped>>

\* 656-671: a device that was announced later (adapters.cpp 70-98).  A second
\* object for a UID that is already installed comes this way too: two answers
\* with the same device make two objects (p44bridge.cpp 525, 884-886).
AddAdditionalDevice(m) ==
  /\ phase = "operational"
  /\ addFrom' = Len(devices) + 1
  /\ todo' = <<m>> \o SubsOf[m]
  /\ phase' = "next"
  /\ UNCHANGED <<kvs, fixedCount, mains, mainEp, search, firstFree, table,
                 torn, wrapped>>

BugAdditionalInstalled ==   \* does not store firstFreeEndpointId
  /\ phase = "next" /\ todo = <<>> /\ addFrom # 0
  /\ LET batch == addFrom .. Len(devices)
     IN registered' = registered \cup
          IF addFrom \in Accepted(batch) THEN Accepted(batch) ELSE {}
  /\ addFrom' = 0
  /\ phase' = "operational"
  /\ UNCHANGED <<kvs, fixedCount, mains, todo, mainEp,
                 search, firstFree, devices, torn, wrapped>>

\* 672-699: the subdevices are only added when the main device was; a device
\* for which there was no room has no valid id and is refused.
AdditionalInstalled ==
  /\ phase = "next" /\ todo = <<>> /\ addFrom # 0
  /\ kvsFirstFree' = firstFree
  /\ LET batch == addFrom .. Len(devices)
     IN registered' = registered \cup
          IF addFrom \in Accepted(batch) THEN Accepted(batch) ELSE {}
  /\ addFrom' = 0
  /\ phase' = "operational"
  /\ UNCHANGED <<kvsEp, kvsLegacy, kvsMap, fixedCount, mains, todo, mainEp,
                 search, firstFree, devices, torn, wrapped>>

---------------------------------------------------------------------------
(* The environment: the process ends at any time and loses its memory, the *)
(* software is updated to a version with more fixed endpoints.             *)

Crash ==
  /\ phase # "down"
  /\ torn' = (torn \/ phase = "migrate"
                   \/ (phase # "operational" /\ firstFree # kvsFirstFree))
  /\ phase' = "down"
  /\ addFrom' = 0 /\ mains' = {} /\ todo' = <<>> /\ mainEp' = InvalidId
  /\ candidate' = InvalidId /\ scanAt' = 0 /\ firstFree' = InvalidId
  /\ devices' = <<>> /\ registered' = {}
  /\ UNCHANGED <<kvs, fixedCount, wrapped>>

Update ==
  /\ phase = "down"
  /\ fixedCount' \in fixedCount + 1 .. MaxFixed
  /\ UNCHANGED <<kvs, phase, job, search, firstFree, table, torn, wrapped>>

InstallStep ==
  \/ \E m \in Main : NextMain(m)
  \/ NoEndpoint \/ LegacyFound \/ MigratePut \/ Lookup \/ Check
  \/ ScanStep \/ ScanDone \/ AssignKnown \/ AssignNew

System == ForgetMap \/ Validate \/ InstallStep \/ InitialInstalled \/ AdditionalInstalled

Next ==
  \/ \E ds \in SUBSET Main : StartChip(ds)
  \/ System
  \/ \E m \in Main : AddAdditionalDevice(m)
  \/ Crash
  \/ Update

Spec == Init /\ [][Next]_vars

\* The main loop runs a handler it has started to its end.
FairSpec == Spec /\ WF_vars(System)
---------------------------------------------------------------------------
(* Properties.                                                             *)

\* The id a device has, in whichever format it is stored; between the two
\* writes of a migration it is in memory only.
IdOf(u) ==
  IF phase = "migrate" /\ u = Head(todo) THEN candidate
  ELSE IF kvsLegacy[u] # InvalidId THEN kvsLegacy[u] + LegacyFirst
  ELSE kvsEp[u]

Sound == ~torn /\ ~wrapped

\* Two installed devices never have the same endpoint id, so the stack accepts
\* every one of them (465: "Note: this does not happen, normally").
UniqueIds ==
  \A i, j \in DOMAIN devices : devices[i].ep = devices[j].ep => i = j

UniqueWhileSound == Sound => UniqueIds

\* Up to a wrap-around alone.
UniqueUnlessWrapped == wrapped \/ UniqueIds

\* No two devices, bridged or remembered, own the same id, and the next free id
\* lies above all of them.
StoreInjective ==
  Sound =>
    /\ \A u, v \in Uid : IdOf(u) = IdOf(v) /\ IdOf(u) # InvalidId => u = v
    /\ phase \notin {"down", "forget", "validate"} =>
         \A u \in Uid : IdOf(u) # InvalidId => IdOf(u) < firstFree

\* Even after torn crashes and wrap-arounds a device never returns to an id that
\* an installed device has: the collision scan (464-478) misses none.
KnownNeverCollides ==
  phase = "assign" /\ candidate # InvalidId =>
    \A i \in DOMAIN devices : devices[i].ep # candidate

\* The entry installed last for its UID: an object that was added a second time
\* leaves the entry of the first one in the list.
Newest(i) == \A j \in DOMAIN devices : j > i => devices[j].uid # devices[i].uid

\* Once both handlers are through, every installed device is a live endpoint
\* of the stack, the newest object of each UID under the id that the store
\* remembers, so that the next start finds it there.
OperationalMatchesStore ==
  Sound /\ phase = "operational" =>
    /\ registered = DOMAIN devices
    /\ \A i \in DOMAIN devices : Newest(i) => kvsEp[devices[i].uid] = devices[i].ep

\* A subdevice's parent is the endpoint of the composed device it belongs to.
ParentIsMain ==
  \A i \in DOMAIN devices : devices[i].uid \in Sub =>
    \E j \in DOMAIN devices :
      /\ devices[j].uid \in Main
      /\ devices[i].uid \in {SubsOf[devices[j].uid][k] : k \in DOMAIN SubsOf[devices[j].uid]}
      /\ devices[i].parent = devices[j].ep

\* A device keeps its id over migration, restarts and additions, unless a
\* software update has given that id to a fixed endpoint (459), or an installed
\* entry has it when the device is installed again (472-476).
IdentityStable ==
  [][Sound' => \A u \in Uid :
       /\ IdOf(u) # InvalidId /\ IdOf(u) >= fixedCount
       /\ \A i \in DOMAIN devices : devices[i].uid # u
       => IdOf(u)' = IdOf(u)]_vars

\* Without the second case: the id is never another one (457: "This UID was
\* already assigned to an endpoint earlier - re-use the endpoint ID").
IdentityKept ==
  [][Sound' => \A u \in Uid :
       IdOf(u) # InvalidId /\ IdOf(u) >= fixedCount => IdOf(u)' = IdOf(u)]_vars

\* Every started handler reaches the main loop again (or the process dies).
HandlerEnds == phase # "down" ~> phase \in {"down", "operational"}

---------------------------------------------------------------------------
(* Refinement of EndpointRegistry.                                         *)

\* The id the store makes the next start count from (519-557).
StoredNext ==
  IF kvsFirstFree # InvalidId
    THEN IF kvsFirstFree < fixedCount THEN fixedCount ELSE kvsFirstFree
    ELSE CHOOSE e \in MapBounds : \A b \in MapBounds : b <= e

NextFree ==
  IF phase = "down" THEN StoredNext
  ELSE IF firstFree = InvalidId \/ firstFree < fixedCount THEN fixedCount
  ELSE firstFree

Registry == INSTANCE EndpointRegistry
  WITH idOf <- [u \in Uid |-> IdOf(u)], nextId <- NextFree, floor <- fixedCount,
       bridged <- {devices[i].uid : i \in DOMAIN devices}, sound <- Sound

\* The stored and migrated mapping implements the registry.
RegistrySpec == Registry!Spec
=============================================================================
