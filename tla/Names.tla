-------------------------------- MODULE Names --------------------------------
(***************************************************************************)
(* The name of a bridged device: NodeLabel (class Device,                  *)
(* src/src/devices/device.cpp), the name its adapter remembers (mName of   *)
(* P44_DeviceImpl and CC_DeviceImpl), and the name at the other end.  Both *)
(* ends can change it.  A device of the CC adapter takes over new names,   *)
(* but does not send any; a composed device of the P44 adapter sends new   *)
(* names, but does not take any over.                                      *)
(***************************************************************************)
EXTENDS DeviceLink

CONSTANTS
  Name,           \* bound: the names in use
  NameAdapters    \* bound: the adapters whose devices are explored

VARIABLES
  adapter,        \* the adapter of the device
  composed,       \* it is a P44_ComposedImpl
  named,          \* the device is installed
  nodeLabel,      \* mNodeLabel
  mName,          \* mName
  theirName,      \* external: the name at the vdcd or at deviced
  nameKept,       \* history: shown without having been sent, until the next report,
                  \* or although another one was reported
  nameWanted      \* history: the written name that counts, or NoName

nameVars == <<adapter, composed, named, nodeLabel, mName, theirName, nameKept, nameWanted>>

NoName == "no name"
ASSUME NameAssumption ==
  Name # {} /\ NoName \notin Name /\ NameAdapters # {} /\ NameAdapters \subseteq {"P44", "CC"}

NameTypeOK ==
  /\ adapter \in NameAdapters /\ composed \in BOOLEAN /\ named \in BOOLEAN /\ nameKept \in BOOLEAN
  /\ {mName, theirName} \subseteq Name
  /\ {nodeLabel, nameWanted} \subseteq Name \cup {NoName}

\* The device is made from its description, with the name it has by then.
NameInit(a, c, n) ==
  /\ adapter = a /\ composed = c /\ named = FALSE
  /\ nodeLabel = NoName /\ mName = n /\ theirName = n
  /\ nameKept = FALSE /\ nameWanted = NoName

---------------------------------------------------------------------------

\* deviceDidGetInstalled, updateBridgedInfo: the label is the name remembered,
\* which is an older one when a report was handled before (P44).
InstallName ==
  /\ ~named /\ named' = TRUE
  /\ nodeLabel' = mName
  /\ nameKept' = (nameKept \/ nodeLabel \notin {NoName, mName})
  /\ UNCHANGED <<link, adapter, composed, mName, theirName, nameWanted>>

BugChangeName(n) ==   \* remembers the name before it compares it
  /\ mName' = n
  /\ Notify(<<>>)

\* changeName, of the P44 and of the CC adapter: a name that is the one
\* remembered is not sent.
ChangeName(n) ==
  /\ mName' = n
  /\ Notify(IF adapter = "P44" /\ n # mName THEN <<[name |-> n]>> ELSE <<>>)

NameSent(n) == adapter = "P44" /\ linkUp /\ n # mName

\* handleWriteAttribute -> updateNodeLabel(bridged, matter)
WriteNodeLabel(n) ==
  /\ named /\ Command
  /\ UNCHANGED <<adapter, composed, named, theirName>>
  /\ \/ /\ n # nodeLabel
        /\ nodeLabel' = n
        /\ ChangeName(n)
        /\ nameKept' = (nameKept \/ ~NameSent(n))
        /\ nameWanted' = IF NameSent(n) \/ (Quiet /\ theirName = n) THEN n ELSE NoName
     \/ /\ n = nodeLabel
        /\ UNCHANGED <<toDevice, nodeLabel, mName, nameKept, nameWanted>>

BugNameReported(n) ==   \* a new name is for the description only
  /\ UNCHANGED nodeLabel
  /\ mName' = n

\* The P44 device shows a new name and does not remember it; a composed one hands
\* the push to its subdevices, which skip it.  The CC device calls its own
\* changeName (handle_config_changed), which shows it if it is not the one
\* remembered.
NameReported(n) ==
  /\ nodeLabel' = IF ~composed /\ (adapter = "P44" \/ n # mName) THEN n ELSE nodeLabel
  /\ mName' = IF adapter = "P44" THEN mName ELSE n

\* handleBridgePushProperties, handle_config_changed
NameReport(n) ==
  /\ Report([name |-> n])
  /\ NameReported(n)
  /\ nameKept' = (composed /\ n # IF named THEN nodeLabel ELSE mName)
  /\ UNCHANGED <<adapter, composed, named, theirName, nameWanted>>

---------------------------------------------------------------------------
(* External: the vdcd or deviced, which report each change.                *)

Renamed(n) == IF n = theirName THEN <<>> ELSE <<[name |-> n]>>

NameSet(n) ==
  /\ Deliver([name |-> n], Renamed(n))
  /\ theirName' = n
  /\ UNCHANGED <<adapter, composed, named, nodeLabel, mName, nameKept, nameWanted>>

NameOwn(n) ==
  /\ n # theirName
  /\ Happens(MaxOwn, Renamed(n))
  /\ theirName' = n
  /\ nameWanted' = NoName
  /\ UNCHANGED <<adapter, composed, named, nodeLabel, mName, nameKept>>

\* The CC adapter makes its devices anew after its connection was lost.
NameLost ==
  /\ adapter = "P44" /\ LinkLost
  /\ nameWanted' = NoName
  /\ UNCHANGED <<adapter, composed, named, nodeLabel, mName, theirName, nameKept>>

NameNext ==
  \/ InstallName
  \/ \E n \in Name : WriteNodeLabel(n) \/ NameOwn(n)
  \/ fromDevice # <<>> /\ NameReport(Head(fromDevice).name)
  \/ toDevice # <<>> /\ NameSet(Head(toDevice).name)
  \/ NameLost
  \/ LinkReconnect /\ UNCHANGED nameVars

---------------------------------------------------------------------------

\* With nothing on its way NodeLabel is the name at the other end, however writes
\* and renames crossed: unless the device was not heard of since the connection
\* stands, or a name is shown that was never sent, or a composed device was told
\* another one (device.cpp 251, p44devices.cpp 78, 215, 245, ccdevices.cpp 84).
NameShown == Quiet /\ heard /\ named /\ ~nameKept => nodeLabel = theirName

\* The last name written and sent is the one the vdcd ends up with, unless it was
\* renamed there or the connection broke (p44devices.cpp 78-89).
NameObeys == Quiet /\ nameWanted # NoName => theirName = nameWanted
=============================================================================
