----------------------------- MODULE P44Adapter -----------------------------
(***************************************************************************)
(* The P44 adapter (src/src/adapters/p44/p44bridge.cpp): it learns over    *)
(* one TCP connection to the vdcd which devices are bridgeable, first by a *)
(* query for all of them, then by push notifications, and after a          *)
(* reconnect by another query.                                             *)
(*                                                                         *)
(* External: the vdcd answers calls in the order they were sent, answers   *)
(* and notifications arrive in the order they were sent.                   *)
(***************************************************************************)
EXTENDS BridgeMain

CONSTANTS
  P44Uid,         \* dSUIDs of the devices the vdcd has
  P44Composed,    \* those bridged as a composed device (P44_ComposedImpl)
  MaxP44Changes,  \* bound: changes of bridgeability, and devices that vanish
  MaxP44Losses    \* bound: connections that break

VARIABLES
  p44Connected,   \* the bridge API connection is open
  p44Once,        \* mConnectedOnce
  toVdc,          \* calls on their way to the vdcd
  fromVdc,        \* answers and notifications on their way back
  bridgeables,    \* external: the devices that exist and are bridgeable
  p44Changes,     \* changes so far
  p44Losses       \* losses so far

ASSUME P44Assumption ==
  P44Uid \subseteq Uid /\ P44Composed \subseteq P44Uid /\ MaxP44Changes \in Nat /\ MaxP44Losses \in Nat

p44Vars == <<p44Connected, p44Once, toVdc, fromVdc, bridgeables, p44Changes, p44Losses>>

Call == [call : {"initial", "reconnect"}] \cup [call : {"info"}, uid : P44Uid]
Message ==
  [msg : {"initial", "reconnect"}, uids : SUBSET P44Uid]
    \cup [msg : {"info", "push"}, uid : P44Uid, bridgeable : BOOLEAN]
    \cup [msg : {"vanish"}, uid : P44Uid]

P44TypeOK ==
  /\ p44Connected \in BOOLEAN /\ p44Once \in BOOLEAN
  /\ toVdc \in Seq(Call) /\ fromVdc \in Seq(Message)
  /\ bridgeables \in SUBSET P44Uid
  /\ p44Changes \in 0 .. MaxP44Changes /\ p44Losses \in 0 .. MaxP44Losses

P44Init ==
  /\ p44Connected = FALSE /\ p44Once = FALSE
  /\ toVdc = <<>> /\ fromVdc = <<>>
  /\ bridgeables \in SUBSET P44Uid
  /\ p44Changes = 0 /\ p44Losses = 0

---------------------------------------------------------------------------
(* The connection.                                                         *)

\* p44bridgeapi.cpp 54-70, p44bridge.cpp 147-166: query all devices the first
\* time, look for unknown ones later.
P44Connect ==
  /\ ~p44Connected
  /\ p44Connected' = TRUE
  /\ p44Once' = TRUE
  /\ toVdc' = <<[call |-> IF p44Once THEN "reconnect" ELSE "initial"]>>
  /\ UNCHANGED <<bridge, fromVdc, bridgeables, p44Changes, p44Losses>>

\* The same, but the query cannot be sent: call() answers it at once with an
\* error, and an empty initial answer completes the startup.
P44ConnectFails ==
  /\ ~p44Connected /\ p44Losses < MaxP44Losses
  /\ p44Losses' = p44Losses + 1
  /\ p44Once' = TRUE
  /\ bridge' = IF p44Once THEN bridge ELSE StartupComplete(bridge)
  /\ UNCHANGED <<p44Connected, toVdc, fromVdc, bridgeables, p44Changes>>

\* The connection breaks with all that is on its way; it is tried again 5 s
\* later.  Calls without an answer stay pending forever.
P44Lost ==
  /\ p44Connected /\ p44Losses < MaxP44Losses
  /\ p44Losses' = p44Losses + 1
  /\ p44Connected' = FALSE
  /\ toVdc' = <<>> /\ fromVdc' = <<>>
  /\ UNCHANGED <<bridge, p44Once, bridgeables, p44Changes>>

---------------------------------------------------------------------------
(* External: the vdcd.                                                     *)

VdcAnswer ==
  /\ p44Connected /\ toVdc # <<>>
  /\ toVdc' = Tail(toVdc)
  /\ LET c == Head(toVdc)
     IN fromVdc' = Append(fromVdc,
          IF c.call = "info"
            THEN [msg |-> "info", uid |-> c.uid, bridgeable |-> c.uid \in bridgeables]
            ELSE [msg |-> c.call, uids |-> bridgeables])
  /\ UNCHANGED <<bridge, p44Connected, p44Once, bridgeables, p44Changes, p44Losses>>

Notify(m) == fromVdc' = IF p44Connected THEN Append(fromVdc, m) ELSE fromVdc

VdcChange(u) ==
  /\ p44Changes < MaxP44Changes
  /\ p44Changes' = p44Changes + 1
  /\ bridgeables' = IF u \in bridgeables THEN bridgeables \ {u} ELSE bridgeables \cup {u}
  /\ Notify([msg |-> "push", uid |-> u, bridgeable |-> u \notin bridgeables])
  /\ UNCHANGED <<bridge, p44Connected, p44Once, toVdc, p44Losses>>

VdcVanish(u) ==
  /\ p44Changes < MaxP44Changes
  /\ u \in bridgeables
  /\ p44Changes' = p44Changes + 1
  /\ bridgeables' = bridgeables \ {u}
  /\ Notify([msg |-> "vanish", uid |-> u])
  /\ UNCHANGED <<bridge, p44Connected, p44Once, toVdc, p44Losses>>

---------------------------------------------------------------------------
(* Handlers.                                                               *)

Received(m) ==
  /\ fromVdc # <<>> /\ Head(fromVdc) = m
  /\ fromVdc' = Tail(fromVdc)
  /\ UNCHANGED <<p44Connected, p44Once, bridgeables, p44Changes, p44Losses>>

\* bridgedDeviceFromJSON for each of the devices: creates the object and registers
\* it, always as an initial one.
BridgedDevicesFromJSON(b, us) == RegisterInitialDevices(b, us)

\* bridgeApiCollectQueryHandler
P44CollectQuery(us) ==
  /\ Received([msg |-> "initial", uids |-> us])
  /\ bridge' = StartupComplete(BridgedDevicesFromJSON(bridge, us))
  /\ UNCHANGED toVdc

BugP44ReconnectQuery(us) ==   \* leaves unknown devices to the push notifications
  /\ Received([msg |-> "reconnect", uids |-> us])
  /\ UNCHANGED <<bridge, toVdc>>

\* bridgeApiReconnectQueryHandler: known devices are left as they are.
P44ReconnectQuery(us) ==
  /\ Received([msg |-> "reconnect", uids |-> us])
  /\ LET order == SetToSeq({u \in us : bridge.map[u] = NoObj})
     IN toVdc' = toVdc \o [i \in DOMAIN order |-> [call |-> "info", uid |-> order[i]]]
  /\ UNCHANGED bridge

\* newDeviceInfoQueryHandler
P44DeviceInfo(u, isBridgeable) ==
  /\ Received([msg |-> "info", uid |-> u, bridgeable |-> isBridgeable])
  /\ bridge' = IF ~isBridgeable THEN bridge
               ELSE LET b == BridgedDevicesFromJSON(bridge, {u})
                    IN  BridgeAdditionalDevice(b, Newest(b))
  /\ UNCHANGED toVdc

BugP44Push(u, isBridgeable) ==   \* forgets to report the change
  /\ Received([msg |-> "push", uid |-> u, bridgeable |-> isBridgeable])
  /\ LET o == bridge.map[u]
     IN \/ /\ o # NoObj
           /\ bridge' = IF u \in P44Composed THEN bridge
                        ELSE [bridge EXCEPT !.objs[o].bridgeable = isBridgeable]
           /\ UNCHANGED toVdc
        \/ /\ o = NoObj
           /\ toVdc' = IF isBridgeable THEN Append(toVdc, [call |-> "info", uid |-> u]) ELSE toVdc
           /\ UNCHANGED bridge

\* bridgeApiNotificationHandler, pushNotification with x-p44-bridgeable: a known
\* device becomes reachable or not (P44_DeviceImpl::handleBridgePushProperties),
\* an unknown one that is bridgeable is asked for (newDeviceGotBridgeable).  A
\* composed device hands the push to its subdevices, which ignore this property
\* (P44_ComposedImpl::handleBridgePushProperties).
P44Push(u, isBridgeable) ==
  /\ Received([msg |-> "push", uid |-> u, bridgeable |-> isBridgeable])
  /\ LET o == bridge.map[u]
     IN \/ /\ o # NoObj /\ u \notin P44Composed
           /\ bridge' = [bridge EXCEPT !.objs[o].bridgeable = isBridgeable,
                                       !.objs[o].reachable = isBridgeable /\ bridge.objs[o].active]
           /\ UNCHANGED toVdc
        \/ /\ o # NoObj /\ u \in P44Composed
           /\ UNCHANGED <<bridge, toVdc>>
        \/ /\ o = NoObj
           /\ toVdc' = IF isBridgeable THEN Append(toVdc, [call |-> "info", uid |-> u]) ELSE toVdc
           /\ UNCHANGED bridge

\* P44_DeviceImpl::handleBridgeNotification, vanish.
P44Vanish(u) ==
  /\ Received([msg |-> "vanish", uid |-> u])
  /\ LET o == bridge.map[u]
     IN bridge' = IF o = NoObj THEN bridge
                  ELSE RemoveDevice([bridge EXCEPT !.objs[o].bridgeable = FALSE,
                                                   !.objs[o].active = FALSE], o)
  /\ UNCHANGED toVdc

P44Receive ==
  \/ \E us \in SUBSET P44Uid : P44CollectQuery(us) \/ P44ReconnectQuery(us)
  \/ \E u \in P44Uid :
       \/ \E isBridgeable \in BOOLEAN : P44DeviceInfo(u, isBridgeable) \/ P44Push(u, isBridgeable)
       \/ P44Vanish(u)

P44System == P44Connect \/ VdcAnswer \/ P44Receive

P44Next ==
  /\ ~bridge.exited
  /\ \/ P44System \/ P44ConnectFails \/ P44Lost
     \/ \E u \in P44Uid : VdcChange(u) \/ VdcVanish(u)

---------------------------------------------------------------------------

\* Nothing is on its way, and nothing ever got lost.
P44Quiet == p44Connected /\ toVdc = <<>> /\ fromVdc = <<>> /\ p44Losses = 0

\* The device is there for the controllers.
IsReachable(u) ==
  LET o == bridge.map[u]
  IN  o # NoObj /\ bridge.objs[o].ep \in bridge.on /\ bridge.objs[o].reachable

\* Whenever the connection is quiet and the stack runs, every bridgeable device is
\* reachable over matter, whatever was pushed while the startup or a query was
\* under way, unless it has vanished (removed, early); and every device that is
\* reachable is bridgeable, unless it is a composed one.
P44Consistent ==
  P44Quiet /\ Settled =>
    \A u \in P44Uid :
      /\ IsReachable(u) => u \in bridgeables \cup P44Composed
      /\ u \in bridgeables /\ u \notin bridge.removed \cup bridge.early =>
           IsReachable(u) \/ ~HasRoom

\* A device that stays bridgeable gets an endpoint, however often the connection
\* breaks, before or after the first answer, unless the program ends (or there
\* is no room, or it had vanished before).
P44Discovered ==
  \A u \in P44Uid :
    <>[](u \in bridgeables) =>
      <>(IsEnabled(u) \/ bridge.exited \/ u \in bridge.removed \/ ~HasRoom)
=============================================================================
