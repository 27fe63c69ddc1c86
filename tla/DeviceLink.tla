----------------------------- MODULE DeviceLink -----------------------------
(***************************************************************************)
(* What every bridged device works with: notifications that p44mbrd sends  *)
(* to the device, and reports of the device's state that come back.  Both  *)
(* ways keep their order, and cross each other.  Commands from Matter and  *)
(* changes at the device itself (its own controls, other clients of the    *)
(* vdcd) are bounded, and so are breaks of the connection to the vdcd.     *)
(***************************************************************************)
EXTENDS Integers, Sequences, FiniteSets

CONSTANTS
  MaxCommands,    \* bound: commands from Matter
  MaxOwn,         \* bound: changes at the device itself
  MaxLosses       \* bound: breaks of the connection

ASSUME BoundsAssumption == MaxCommands \in Nat /\ MaxOwn \in Nat /\ MaxLosses \in Nat

VARIABLES
  linkUp,         \* the connection to the vdcd stands
  toDevice,       \* notifications on their way to the device
  fromDevice,     \* reports on their way back
  commands,       \* commands so far
  own,            \* changes at the device so far
  losses,         \* breaks of the connection so far
  heard           \* history: the device has reported since the connection stands

queues == <<toDevice, fromDevice>>
link == <<linkUp, queues, commands, own, losses, heard>>

LinkTypeOK ==
  /\ linkUp \in BOOLEAN /\ heard \in BOOLEAN
  /\ commands \in 0 .. MaxCommands /\ own \in Nat /\ losses \in 0 .. MaxLosses

LinkInit ==
  /\ linkUp = TRUE /\ toDevice = <<>> /\ fromDevice = <<>>
  /\ commands = 0 /\ own = 0 /\ losses = 0 /\ heard = FALSE

\* Nothing is on its way.
Quiet == linkUp /\ toDevice = <<>> /\ fromDevice = <<>>

\* A command from Matter; what it sends is up to the cluster.
Command ==
  /\ commands < MaxCommands
  /\ commands' = commands + 1
  /\ UNCHANGED <<linkUp, fromDevice, own, losses, heard>>

\* P44_DeviceImpl::notify, for a number of notifications; without a connection
\* they are lost.
Notify(notifications) ==
  toDevice' = IF linkUp THEN toDevice \o notifications ELSE toDevice

\* P44_DeviceImpl::handleBridgePushProperties
Report(state) ==
  /\ fromDevice # <<>> /\ state = Head(fromDevice)
  /\ fromDevice' = Tail(fromDevice)
  /\ heard' = TRUE
  /\ UNCHANGED <<linkUp, toDevice, commands, own, losses>>

\* External: pushNotification to the bridges that are connected.
Push(reports) == fromDevice' = IF linkUp THEN fromDevice \o reports ELSE fromDevice

\* External: the device gets a notification, and pushes the reports it makes.
Deliver(notification, reports) ==
  /\ toDevice # <<>> /\ notification = Head(toDevice)
  /\ toDevice' = Tail(toDevice)
  /\ Push(reports)
  /\ UNCHANGED <<linkUp, commands, own, losses, heard>>

\* External: the device goes on with what it does.
GoesOn(reports) ==
  /\ Push(reports)
  /\ UNCHANGED <<linkUp, toDevice, commands, own, losses, heard>>

\* External: something happens at the device itself, at most limit times.
Happens(limit, reports) ==
  /\ own < limit
  /\ own' = own + 1
  /\ Push(reports)
  /\ UNCHANGED <<linkUp, toDevice, commands, losses, heard>>

\* The connection breaks with all that is on its way.
LinkLost ==
  /\ linkUp /\ losses < MaxLosses
  /\ linkUp' = FALSE /\ losses' = losses + 1
  /\ toDevice' = <<>> /\ fromDevice' = <<>>
  /\ heard' = FALSE
  /\ UNCHANGED <<commands, own>>

\* The next attempt succeeds: bridgeApiReconnectQueryHandler, which leaves the
\* devices it knows as they are, and does not read their state again.
LinkReconnect ==
  /\ ~linkUp /\ linkUp' = TRUE
  /\ UNCHANGED <<queues, commands, own, losses, heard>>
=============================================================================
