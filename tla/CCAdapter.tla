------------------------------ MODULE CCAdapter ------------------------------
(***************************************************************************)
(* The CC adapter (src/src/adapters/cc/ccbridge.cpp): on every connection  *)
(* to the JSON-RPC server it registers, subscribes to notifications and    *)
(* queries the list of items, then follows the "vitals" of the items.      *)
(*                                                                         *)
(* External: the server answers requests in the order they were sent,      *)
(* answers and notifications arrive in the order they were sent.           *)
(***************************************************************************)
EXTENDS BridgeMain

CONSTANTS
  CCUid,          \* the items that can be bridged
  MaxCCChanges,   \* bound: items created and deleted, created again after a restart of deviced
  MaxCCFailures   \* bound: connections that break, requests answered with an error

VARIABLES
  ccConnected,    \* the JSON-RPC connection is open
  ccSubscribed,   \* external: the server sends notifications on it
  toCC,           \* requests on their way
  fromCC,         \* answers and notifications on their way back
  items,          \* external: the items that exist
  ccChanges,      \* changes so far
  ccFailures      \* failures so far

ASSUME CCAssumption ==
  CCUid \subseteq Uid /\ MaxCCChanges \in Nat /\ MaxCCFailures \in Nat

ccVars == <<ccConnected, ccSubscribed, toCC, fromCC, items, ccChanges, ccFailures>>

Request == [call : {"register", "subscribe", "list"}] \cup [call : {"info"}, uid : CCUid]
Incoming ==
  [msg : {"register", "subscribe"}, ok : BOOLEAN]
    \cup [msg : {"list"}, uids : SUBSET CCUid]
    \cup [msg : {"info"}, uid : CCUid, ok : BOOLEAN]
    \cup [msg : {"created", "deleted"}, uid : CCUid]

CCTypeOK ==
  /\ ccConnected \in BOOLEAN /\ ccSubscribed \in BOOLEAN
  /\ toCC \in Seq(Request) /\ fromCC \in Seq(Incoming)
  /\ items \in SUBSET CCUid
  /\ ccChanges \in 0 .. MaxCCChanges /\ ccFailures \in 0 .. MaxCCFailures

CCInit ==
  /\ ccConnected = FALSE /\ ccSubscribed = FALSE
  /\ toCC = <<>> /\ fromCC = <<>>
  /\ items \in SUBSET CCUid
  /\ ccChanges = 0 /\ ccFailures = 0

---------------------------------------------------------------------------
(* The connection.                                                         *)

\* jsonRpcConnectionStatusHandler: the same for the first and later connections.
CCConnect ==
  /\ ~ccConnected
  /\ ccConnected' = TRUE
  /\ toCC' = <<[call |-> "register"]>>
  /\ UNCHANGED <<bridge, ccSubscribed, fromCC, items, ccChanges, ccFailures>>

CCLost ==
  /\ ccConnected /\ ccFailures < MaxCCFailures
  /\ ccFailures' = ccFailures + 1
  /\ ccConnected' = FALSE /\ ccSubscribed' = FALSE
  /\ toCC' = <<>> /\ fromCC' = <<>>
  /\ UNCHANGED <<bridge, items, ccChanges>>

---------------------------------------------------------------------------
(* External: the server and deviced.                                       *)

CCAnswer ==
  /\ ccConnected /\ toCC # <<>>
  /\ toCC' = Tail(toCC)
  /\ LET r == Head(toCC)
     IN CASE r.call = "register" ->
               fromCC' = Append(fromCC, [msg |-> "register", ok |-> TRUE]) /\ UNCHANGED ccSubscribed
          [] r.call = "subscribe" ->
               fromCC' = Append(fromCC, [msg |-> "subscribe", ok |-> TRUE]) /\ ccSubscribed' = TRUE
          [] r.call = "list" ->
               fromCC' = Append(fromCC, [msg |-> "list", uids |-> items]) /\ UNCHANGED ccSubscribed
          [] r.call = "info" ->
               /\ fromCC' = Append(fromCC, [msg |-> "info", uid |-> r.uid, ok |-> r.uid \in items])
               /\ UNCHANGED ccSubscribed
  /\ UNCHANGED <<bridge, ccConnected, items, ccChanges, ccFailures>>

\* An error for the list completes the startup as an empty list does.
CCAnswerError ==
  /\ ccConnected /\ toCC # <<>> /\ ccFailures < MaxCCFailures
  /\ Head(toCC).call # "info"
  /\ ccFailures' = ccFailures + 1
  /\ toCC' = Tail(toCC)
  /\ fromCC' = Append(fromCC, IF Head(toCC).call = "list" THEN [msg |-> "list", uids |-> {}]
                              ELSE [msg |-> Head(toCC).call, ok |-> FALSE])
  /\ UNCHANGED <<bridge, ccConnected, ccSubscribed, items, ccChanges>>

Vitals(what, u) ==
  /\ ccChanges < MaxCCChanges
  /\ ccChanges' = ccChanges + 1
  /\ fromCC' = IF ccSubscribed THEN Append(fromCC, [msg |-> what, uid |-> u]) ELSE fromCC
  /\ UNCHANGED <<bridge, ccConnected, ccSubscribed, toCC, ccFailures>>

\* An item is created, or, when it exists, deviced has restarted.
ItemCreated(u) == Vitals("created", u) /\ items' = items \cup {u}
ItemDeleted(u) == u \in items /\ Vitals("deleted", u) /\ items' = items \ {u}

---------------------------------------------------------------------------
(* Handlers.                                                               *)

CCReceived(m) ==
  /\ fromCC # <<>> /\ Head(fromCC) = m
  /\ fromCC' = Tail(fromCC)
  /\ UNCHANGED <<ccConnected, ccSubscribed, items, ccChanges, ccFailures>>

\* client_registered, client_subscribed: the next request, or give up.
CCSetupAnswer(what, ok) ==
  /\ CCReceived([msg |-> what, ok |-> ok])
  /\ IF ok
       THEN /\ toCC' = Append(toCC, [call |-> IF what = "register" THEN "subscribe" ELSE "list"])
            /\ UNCHANGED bridge
       ELSE bridge' = StartupComplete(bridge) /\ UNCHANGED toCC

\* deviceListReceived: createDeviceForData(item, true) for all items.
CCDeviceList(us) ==
  /\ CCReceived([msg |-> "list", uids |-> us])
  /\ bridge' = StartupComplete(RegisterInitialDevices(bridge, us))
  /\ UNCHANGED toCC

BugCCItemInfo(u, ok) ==   \* does not look at the error of an item that is gone
  /\ CCReceived([msg |-> "info", uid |-> u, ok |-> ok])
  /\ bridge' = LET b == NewObject(bridge, u) IN BridgeAdditionalDevice(b, Newest(b))
  /\ UNCHANGED toCC

\* itemInfoReceived: createDeviceForData(item, false).
CCItemInfo(u, ok) ==
  /\ CCReceived([msg |-> "info", uid |-> u, ok |-> ok])
  /\ bridge' = IF ~ok THEN bridge
               ELSE LET b == NewObject(bridge, u) IN BridgeAdditionalDevice(b, Newest(b))
  /\ UNCHANGED toCC

\* jsonRpcRequestHandler, item_vitals_changed: "we might already have it due to a
\* deviced restart".
CCCreated(u) ==
  /\ CCReceived([msg |-> "created", uid |-> u])
  /\ toCC' = IF bridge.map[u] = NoObj THEN Append(toCC, [call |-> "info", uid |-> u]) ELSE toCC
  /\ UNCHANGED bridge

CCDeleted(u) ==
  /\ CCReceived([msg |-> "deleted", uid |-> u])
  /\ bridge' = IF bridge.map[u] # NoObj THEN RemoveDevice(bridge, bridge.map[u]) ELSE bridge
  /\ UNCHANGED toCC

CCReceive ==
  \/ \E what \in {"register", "subscribe"}, ok \in BOOLEAN : CCSetupAnswer(what, ok)
  \/ \E us \in SUBSET CCUid : CCDeviceList(us)
  \/ \E u \in CCUid :
       \/ CCCreated(u) \/ CCDeleted(u)
       \/ \E ok \in BOOLEAN : CCItemInfo(u, ok)

CCSystem == CCConnect \/ CCAnswer \/ CCReceive

CCNext ==
  /\ ~bridge.exited
  /\ \/ CCSystem \/ CCLost \/ CCAnswerError
     \/ \E u \in CCUid : ItemCreated(u) \/ ItemDeleted(u)

---------------------------------------------------------------------------

CCQuiet == ccConnected /\ ccSubscribed /\ toCC = <<>> /\ fromCC = <<>> /\ ccFailures = 0

\* Whenever the connection is quiet and the stack runs, exactly the existing
\* items have an enabled endpoint, whatever was created or deleted while the
\* startup or a query was under way; an item deleted before the stack started
\* (early) keeps its endpoint, one deleted later (removed) never gets it back,
\* and one that was registered too late (Missed) never gets one.
CCConsistent ==
  CCQuiet /\ Settled =>
    \A u \in CCUid :
      /\ IsEnabled(u) /\ u \notin bridge.early => u \in items
      /\ u \in items /\ u \notin bridge.removed \cup Missed => IsEnabled(u) \/ ~HasRoom
=============================================================================
