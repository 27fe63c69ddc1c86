------------------------------- MODULE Bridge -------------------------------
(***************************************************************************)
(* The whole bridge: the main application with both adapters, which share  *)
(* the startup protocol, the postponed starts and the table of devices.    *)
(***************************************************************************)
EXTENDS P44Adapter, CCAdapter

ASSUME UidAssumption == Uid = P44Uid \cup CCUid /\ P44Uid \cap CCUid = {}
ASSUME AdaptersAssumption == Adapters \subseteq {"P44", "CC"}

vars == <<bridge, p44Vars, ccVars>>

TypeOK == BridgeTypeOK /\ P44TypeOK /\ CCTypeOK

Init == bridge = InitBridge /\ P44Init /\ CCInit

Next ==
  \/ StartChip /\ UNCHANGED <<p44Vars, ccVars>>
  \/ "P44" \in Adapters /\ P44Next /\ UNCHANGED ccVars
  \/ "CC" \in Adapters /\ CCNext /\ UNCHANGED p44Vars

Spec == Init /\ [][Next]_vars

\* The main loop gets to every handler that is due, the servers answer, and a
\* connection that is tried again and again succeeds in the end.
Fairness ==
  /\ WF_vars(StartChip /\ UNCHANGED <<p44Vars, ccVars>>)
  /\ WF_vars("P44" \in Adapters /\ ~bridge.exited /\ P44System /\ UNCHANGED ccVars)
  /\ WF_vars("CC" \in Adapters /\ ~bridge.exited /\ CCSystem /\ UNCHANGED p44Vars)

FairSpec == Spec /\ Fairness

---------------------------------------------------------------------------
(* Properties of the whole.                                                *)

\* A device that was given to the bridge and never removed has an enabled
\* endpoint as soon as the stack runs, from whichever adapter and however early
\* or late it came, unless it was missed.
HandedIsEnabled ==
  Settled =>
    \A u \in bridge.handed \ (bridge.removed \cup bridge.early \cup Missed) : IsEnabled(u) \/ ~HasRoom

\* No device is missed: "register a device to appear initially (at start of the
\* matter stack) as a bridged device" (adapters.h 204).
InitialDevicesAppear ==
  Settled => \A u \in bridge.handed \ (bridge.removed \cup bridge.early) : IsEnabled(u) \/ ~HasRoom

\* The same for a device that is given again after it was removed: "will be
\* re-enabled when a device with same endpointUID is passed to
\* bridgeAdditionalDevice" (adapters.h 227-229).
ReEnabledWhenHandedAgain ==
  Settled => \A u \in bridge.handed \ (bridge.early \cup Missed) : IsEnabled(u) \/ ~HasRoom

\* Once the stack runs, no endpoint is ever given to another device object: the
\* table only grows, over startups that complete late or twice and reconnects.
TableOnlyGrows ==
  [][bridge.up => \A i \in DOMAIN bridge.table :
       i \in DOMAIN bridge'.table /\ bridge'.table[i] = bridge.table[i]]_vars

\* Adding devices "can be called ... at any time after adapter startup"
\* (adapters.h 57-60); it never ends the program.
NeverExits == ~bridge.exited

\* Each adapter calls startupComplete() in the end (adapters.h 145).
EveryStartupCompletes == <>(bridge.unstarted <= 0)
=============================================================================
