------------------------------- MODULE Rooms -------------------------------
(***************************************************************************)
(* Zones of the vdcd as rooms of Matter: each is an endpoint list and a    *)
(* "deep off" action of the Actions cluster (P44_BridgeImpl in             *)
(* src/src/adapters/p44/p44bridge.cpp, P44_DeviceImpl::updateZoneInfo, and *)
(* ActionsManager in src/src/bridge/actions.cpp).                          *)
(*                                                                         *)
(* A push is handled when it is made here: nothing of this depends on what *)
(* is on its way.                                                          *)
(***************************************************************************)
EXTENDS DeviceLink

CONSTANTS
  Initial,        \* devices of the initial query
  Later,          \* devices that are bridged later
  Composed,       \* those of them that are composed
  Zones,          \* zones other than the global one
  ZoneNames,      \* bound: names a zone is given
  MaxZoneChanges  \* bound: pushes, additions and removals

VARIABLES
  zoneOf,         \* mZoneId of each device
  description,    \* zone of each device as the query found it
  installed,      \* the initial devices have endpoints, and their zones lists
  bridged,        \* mDeviceUIDMap
  zoneNames,      \* mZoneMap: the names of the zones known, or Unknown
  lists,          \* mEndPointLists, or NoList
  actions,        \* mActions: the zones with a deep-off action
  moved           \* history: devices that were given another zone, or removed

roomVars == <<zoneOf, description, installed, bridged, zoneNames, lists, actions, moved>>

Global == "global"
Unknown == "unknown"
Numbered == "Zone_n"
NoEndpoint == "no endpoint"
NoList == [name |-> Unknown, endpoints |-> {}]
Member == Initial \cup Later
ZoneName == ZoneNames \cup {Numbered}

\* Zones have ids and devices have endpoints; the strings above stand for none.
ASSUME RoomsAssumption ==
  /\ Initial \cap Later = {} /\ NoEndpoint \notin Member
  /\ Global \notin Zones /\ Unknown \notin ZoneNames
  /\ MaxZoneChanges \in Nat

RoomsTypeOK ==
  /\ zoneOf \in [Member -> Zones \cup {Global}] /\ description \in [Member -> Zones \cup {Global}]
  /\ installed \in BOOLEAN /\ bridged \subseteq Member /\ moved \subseteq Member
  /\ zoneNames \in [Zones -> ZoneName \cup {Unknown}]
  /\ \A z \in Zones :
       lists[z].name \in ZoneName \cup {Unknown}
       /\ lists[z].endpoints \subseteq Member \cup {NoEndpoint}
  /\ actions \subseteq Zones

\* The initial devices have been queried; the others are not known yet.
RoomsInit(zones) ==
  /\ description = zones /\ zoneOf = [d \in Member |-> Global]
  /\ installed = FALSE /\ bridged = Initial
  /\ zoneNames = [z \in Zones |-> Unknown] /\ lists = [z \in Zones |-> NoList]
  /\ actions = {} /\ moved = {}

---------------------------------------------------------------------------

Endpoint(d) == IF installed' THEN d ELSE NoEndpoint

BugRoomOf(z, name) ==   \* before the device has got its zone
  [name |-> name, endpoints |-> {Endpoint(d) : d \in {e \in bridged' : zoneOf[e] = z}}]

\* updateZoneDependencies: the list of a zone, made again of all devices.
RoomOf(z, name) ==
  [name |-> name, endpoints |-> {Endpoint(d) : d \in {e \in bridged' : zoneOf'[e] = z}}]

\* addOrUpdateZone: a name that is not explicit does not replace another one.
NameAfter(names, z, name) ==
  IF names[z] = Unknown \/ name # Numbered THEN [names EXCEPT ![z] = name] ELSE names

\* A composed device hands a push to its subdevices, which skip a zone
\* (P44_ComposedImpl::handleBridgePushProperties).
ZonePushIgnored(d) ==
  /\ d \in bridged \cap Composed
  /\ Happens(MaxZoneChanges, <<>>)
  /\ UNCHANGED roomVars

\* P44_DeviceImpl::handleBridgePushProperties for a zone, and updateZoneInfo with
\* the matter flag: only a zone that is new or renamed is listed again.  Before
\* the device is installed its endpoint is not known.
ZonePush(d, z, name) ==
  /\ d \in bridged \ Composed
  /\ Happens(MaxZoneChanges, <<>>)
  /\ zoneOf' = [zoneOf EXCEPT ![d] = z]
  /\ moved' = IF z = IF installed THEN zoneOf[d] ELSE description[d] THEN moved
                  ELSE moved \cup {d}
  /\ zoneNames' = IF z = Global THEN zoneNames ELSE NameAfter(zoneNames, z, name)
  /\ UNCHANGED <<description, installed, bridged>>
  /\ IF zoneNames' # zoneNames
       THEN /\ lists' = [lists EXCEPT ![z] = RoomOf(z, name)]
            /\ actions' = actions \cup {z}
       ELSE UNCHANGED <<lists, actions>>

\* The zones of the devices that have been installed, in some order, with the
\* names that were found.
KnownZones(names, found) ==
  [z \in Zones |-> IF found[z] = Unknown THEN names[z] ELSE NameAfter(names, z, found[z])[z]]

\* deviceDidGetInstalled of the initial devices, with the zones of their
\* descriptions, then initialDevicesInstalled.
InstallInitial(found) ==
  /\ ~installed /\ installed' = TRUE
  /\ \A z \in Zones : found[z] = Unknown <=> \A d \in Initial : description[d] # z
  /\ zoneOf' = [d \in Member |-> IF d \in bridged THEN description[d] ELSE zoneOf[d]]
  /\ zoneNames' = KnownZones(zoneNames, found)
  /\ UNCHANGED <<description, bridged, moved, link>>
  /\ lists' = [z \in Zones |-> IF zoneNames'[z] = Unknown THEN lists[z] ELSE RoomOf(z, zoneNames'[z])]
  /\ actions' = actions \cup {z \in Zones : zoneNames'[z] # Unknown}

\* A device that is bridged later: installed without the matter flag, so that
\* its zone is known, but not listed.
AddLater(d, name) ==
  /\ installed /\ d \notin bridged
  /\ Happens(MaxZoneChanges, <<>>)
  /\ bridged' = bridged \cup {d}
  /\ zoneOf' = [zoneOf EXCEPT ![d] = description[d]]
  /\ zoneNames' = IF description[d] = Global THEN zoneNames
                  ELSE NameAfter(zoneNames, description[d], name)
  /\ UNCHANGED <<description, installed, lists, actions, moved>>

\* A device vanishes; the lists keep its endpoint.
Vanish(d) ==
  /\ installed /\ d \in bridged
  /\ Happens(MaxZoneChanges, <<>>)
  /\ bridged' = bridged \ {d}
  /\ moved' = moved \cup {d}
  /\ UNCHANGED <<zoneOf, description, installed, zoneNames, lists, actions>>

\* invokeInstantAction, P44SceneAction::invoke: an action that is not known is
\* not found.
InvokeAction(z) ==
  /\ installed /\ z \in actions
  /\ Command
  /\ Notify(<<[zone |-> z]>>)
  /\ UNCHANGED roomVars

\* External: callScene for all devices of the zone.
CallScene(z) ==
  /\ Deliver([zone |-> z], <<>>)
  /\ UNCHANGED roomVars

RoomsNext ==
  \/ \E d \in Member, z \in Zones \cup {Global}, name \in ZoneName : ZonePush(d, z, name)
  \/ \E found \in [Zones -> ZoneName \cup {Unknown}] : InstallInitial(found)
  \/ \E d \in Later, name \in ZoneName : AddLater(d, name)
  \/ \E d \in Member : ZonePushIgnored(d) \/ Vanish(d)
  \/ \E z \in Zones : InvokeAction(z) \/ CallScene(z)

---------------------------------------------------------------------------

\* An initial device that has stayed is in the list of its own room and in no
\* other, whatever zones were renamed and whichever devices came, moved or went;
\* no list has an endpoint that was not known, though zones pushed before the
\* installation were listed then (619-656).
RoomsListed ==
  installed =>
    /\ \A z \in Zones : NoEndpoint \notin lists[z].endpoints
    /\ \A d \in Initial \ moved :
         {z \in Zones : d \in lists[z].endpoints} = {zoneOf[d]} \ {Global}
=============================================================================
