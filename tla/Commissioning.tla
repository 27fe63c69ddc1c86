---------------------------- MODULE Commissioning ----------------------------
(***************************************************************************)
(* What the gateways are told of the bridge: whether it runs, whether it   *)
(* can be commissioned, and the code for that (updateRunningStatus,        *)
(* updateCommissionableStatus, updateCommissioningInfo and cleanup of      *)
(* src/src/p44mbrd_main.cpp).  The P44 adapter writes it to properties of  *)
(* the vdcd, the CC adapter keeps it and tells the gateway.  Everything    *)
(* happens in steps of Bridge or between them.                             *)
(*                                                                         *)
(* External: the commissioning windows of the matter SDK.                  *)
(***************************************************************************)
EXTENDS Bridge

CONSTANTS
  MaxWindows,     \* bound: windows opened and closed
  MaxAnswers,     \* bound: messages to the gateway under way when it asks again
  VdcLeft         \* bound: what an earlier run may have left at the vdcd

VARIABLES
  window,         \* external: a commissioning window is open
  windows,        \* changes of it so far
  cleaned,        \* cleanup() was run
  toStatus,       \* setProperty calls on their way to the vdcd
  vdcStatus,      \* external: x-p44-bridge at the vdcd
  ccStatus,       \* IsCommissionable, QRCodeData of CC_BridgeImpl
  toGateway,      \* matter_commissionable_status, and answers, on their way
  gateway,        \* external: what the gateway was told last, if anything
  vdcBehind,      \* history: a status was lost, or reset while the stack runs
  ccReported,     \* history: reportCommissionable was called
  ccBehind        \* history: a status was lost and not asked for since

windowVars == <<window, windows>>
vdcVars == <<toStatus, vdcStatus, vdcBehind>>
ccStatusVars == <<ccStatus, toGateway, gateway, ccReported, ccBehind>>
statusVars == <<windowVars, cleaned, vdcVars, ccStatusVars>>
allVars == <<vars, statusVars>>

VdcStatus == [started : BOOLEAN, commissionable : BOOLEAN, code : BOOLEAN]
CCStatus == [commissionable : BOOLEAN, code : BOOLEAN]
Property == {"started", "commissionable", "code"}

ASSUME StatusAssumption == VdcLeft \subseteq VdcStatus /\ VdcLeft # {}

StatusTypeOK ==
  /\ TypeOK
  /\ {window, cleaned, vdcBehind, ccReported, ccBehind} \subseteq BOOLEAN
  /\ windows \in 0 .. MaxWindows
  /\ toStatus \in Seq(Property \X BOOLEAN) /\ vdcStatus \in VdcStatus
  /\ toGateway \in Seq(CCStatus) /\ ccStatus \in CCStatus /\ gateway \in {<<>>} \cup Seq(CCStatus)

\* IsCommissionable is not set before the first report (ccbridge.h 52).
StatusInit ==
  /\ Init
  /\ window = FALSE /\ windows = 0 /\ cleaned = FALSE
  /\ toStatus = <<>> /\ vdcStatus \in VdcLeft /\ vdcBehind = FALSE
  /\ ccStatus \in [commissionable : BOOLEAN, code : {FALSE}]
  /\ toGateway = <<>> /\ gateway = <<>> /\ ccReported = FALSE /\ ccBehind = FALSE

---------------------------------------------------------------------------
(* What the adapters do with a status.                                     *)

\* P44BridgeApi::setProperty: without a connection the calls are lost.
SetProperties(calls) == toStatus' = IF p44Connected' THEN toStatus \o calls ELSE toStatus

Code(isKnown)      == <<"code", isKnown>>
Started(isRunning) == <<"started", isRunning>>
Commissionable(is) == <<"commissionable", is>>

\* P44_BridgeImpl::updateBridgeStatus
UpdateBridgeStatus(isStarted) ==
  SetProperties(<<Code(FALSE), Started(isStarted), Commissionable(FALSE)>>)

\* matter_commissionable_status, and the answer to matter_get_commissionable
StatusMessage(s) == [commissionable |-> s.commissionable, code |-> s.commissionable /\ s.code]

BugReportToCC(is) ==   \* tells the gateway without keeping it
  /\ UNCHANGED ccStatus
  /\ toGateway' = IF ccConnected' THEN Append(toGateway, StatusMessage([ccStatus EXCEPT !.commissionable = is]))
                  ELSE toGateway

\* CC_BridgeImpl::reportCommissionable
ReportToCC(is) ==
  /\ ccStatus' = [ccStatus EXCEPT !.commissionable = is]
  /\ toGateway' = IF ccConnected' THEN Append(toGateway, StatusMessage(ccStatus')) ELSE toGateway

Reported ==
  /\ vdcBehind' = (vdcBehind \/ ~p44Connected')
  /\ ccReported' = TRUE /\ ccBehind' = (ccBehind \/ ~ccConnected')
  /\ UNCHANGED <<vdcStatus, gateway>>

\* updateCommissionableStatus
UpdateCommissionableStatus(is) ==
  /\ SetProperties(<<Commissionable(is)>>)
  /\ ReportToCC(is)
  /\ Reported

---------------------------------------------------------------------------
(* The stack.                                                              *)

BugStartCalls(isCommissionable) ==   \* the code after the status
  IF isCommissionable THEN <<Commissionable(TRUE), Started(TRUE), Commissionable(TRUE), Code(TRUE)>>
  ELSE <<Started(TRUE), Code(TRUE)>>

\* chipAppInit: the code; the window that the SDK opens when there is no fabric;
\* the running status.  startChip: commissionable with no fabric.
StartCalls(isCommissionable) ==
  IF isCommissionable THEN <<Code(TRUE), Commissionable(TRUE), Started(TRUE), Commissionable(TRUE)>>
  ELSE <<Code(TRUE), Started(TRUE)>>

\* startChip.  With fabrics the CC adapter is told the code only.
StartStack(hasFabrics) ==
  /\ StartChip /\ ~bridge.up
  /\ UNCHANGED <<p44Vars, ccVars, windows, cleaned>>
  /\ window' = ~hasFabrics
  /\ SetProperties(StartCalls(~hasFabrics))
  /\ IF hasFabrics
       THEN /\ ccStatus' = [ccStatus EXCEPT !.code = TRUE]
            /\ vdcBehind' = (vdcBehind \/ ~p44Connected)
            /\ UNCHANGED <<vdcStatus, toGateway, gateway, ccReported, ccBehind>>
       ELSE /\ ccStatus' = [commissionable |-> TRUE, code |-> TRUE]
            /\ toGateway' = IF ccConnected THEN toGateway \o <<ccStatus', ccStatus'>> ELSE toGateway
            /\ Reported

StartAgain == StartChip /\ bridge.up /\ UNCHANGED <<p44Vars, ccVars, statusVars>>

BugWindowChanges ==   \* only an opened window is reported
  /\ bridge.up /\ ~bridge.exited /\ windows < MaxWindows
  /\ UNCHANGED <<vars, cleaned>>
  /\ window' = ~window /\ windows' = windows + 1
  /\ IF window' THEN UpdateCommissionableStatus(TRUE) ELSE UNCHANGED <<vdcVars, ccStatusVars>>

\* OnCommissioningWindowOpened, OnCommissioningWindowClosed: by itself, or when an
\* adapter calls requestCommissioning -> makeCommissionable.
WindowChanges ==
  /\ bridge.up /\ ~bridge.exited /\ windows < MaxWindows
  /\ UNCHANGED <<vars, cleaned>>
  /\ window' = ~window /\ windows' = windows + 1
  /\ UpdateCommissionableStatus(window')

\* "terminate" of the vdcd, "matter_reset_credentials" of the CC server.
Terminate ==
  /\ p44Connected \/ ccConnected
  /\ ~bridge.exited /\ bridge' = [bridge EXCEPT !.exited = TRUE]
  /\ UNCHANGED <<p44Vars, ccVars, statusVars>>

\* cleanup: the adapters close their connections, then chipAppCleanup tells them
\* that the stack stops.
Cleanup ==
  /\ bridge.exited /\ ~cleaned
  /\ cleaned' = TRUE
  /\ bridge' = [bridge EXCEPT !.up = FALSE]
  /\ p44Connected' = FALSE /\ toVdc' = <<>> /\ fromVdc' = <<>>
  /\ ccConnected' = FALSE /\ ccSubscribed' = FALSE /\ toCC' = <<>> /\ fromCC' = <<>>
  /\ SetProperties(IF bridge.up THEN <<Started(FALSE)>> ELSE <<>>)
  /\ window' = FALSE
  /\ UNCHANGED <<p44Once, bridgeables, p44Changes, p44Losses, items, ccChanges, ccFailures,
                 windows, vdcStatus, vdcBehind, ccStatusVars>>

---------------------------------------------------------------------------
(* The connections.                                                        *)

\* queryBridge: "first update (reset) bridge status".
ConnectVdc ==
  /\ P44Connect
  /\ IF p44Once THEN UNCHANGED <<toStatus, vdcBehind>>
     ELSE UpdateBridgeStatus(FALSE) /\ vdcBehind' = bridge.up
  /\ UNCHANGED vdcStatus

\* The same on a connection that does not take them.
FailToConnectVdc ==
  /\ P44ConnectFails
  /\ vdcBehind' = (vdcBehind \/ ~p44Once)
  /\ UNCHANGED <<toStatus, vdcStatus>>

\* bridgeApiReconnectQueryHandler: "bridge is running when it has any bridgeable
\* devices now".
ReconnectVdc ==
  /\ \E us \in SUBSET P44Uid : P44ReconnectQuery(us)
  /\ UpdateBridgeStatus(\E u \in P44Uid : bridge.map[u] # NoObj)
  /\ vdcBehind' = bridge.up
  /\ UNCHANGED vdcStatus

LoseVdc ==
  /\ P44Lost
  /\ toStatus' = <<>>
  /\ vdcBehind' = (vdcBehind \/ toStatus # <<>>)
  /\ UNCHANGED vdcStatus

\* Every other step of the P44 adapter and the vdcd.
OtherVdc ==
  /\ \/ VdcAnswer
     \/ P44Receive /\ Head(fromVdc).msg # "reconnect"
     \/ \E u \in P44Uid : VdcChange(u) \/ VdcVanish(u)
  /\ UNCHANGED vdcVars

\* External: the vdcd sets a property.
PropertySet ==
  /\ toStatus # <<>>
  /\ toStatus' = Tail(toStatus)
  /\ vdcStatus' = [vdcStatus EXCEPT ![Head(toStatus)[1]] = Head(toStatus)[2]]
  /\ UNCHANGED <<vars, windowVars, cleaned, vdcBehind, ccStatusVars>>

\* The connection breaks with what is on its way to the gateway.
StepCC ==
  /\ CCNext
  /\ toGateway' = IF ccConnected' THEN toGateway ELSE <<>>
  /\ ccBehind' = (ccBehind \/ (~ccConnected' /\ toGateway # <<>>))
  /\ UNCHANGED <<ccStatus, gateway, ccReported>>

\* jsonRpcRequestHandler, matter_get_commissionable
GetCommissionable ==
  /\ ccConnected /\ ~bridge.exited /\ Len(toGateway) < MaxAnswers
  /\ toGateway' = Append(toGateway, StatusMessage(ccStatus))
  /\ ccBehind' = FALSE
  /\ UNCHANGED <<vars, windowVars, cleaned, vdcVars, ccStatus, gateway, ccReported>>

\* External: the gateway gets a status.
GatewayTold ==
  /\ toGateway # <<>>
  /\ toGateway' = Tail(toGateway) /\ gateway' = <<Head(toGateway)>>
  /\ UNCHANGED <<vars, windowVars, cleaned, vdcVars, ccStatus, ccReported, ccBehind>>

StatusNext ==
  \/ \E hasFabrics \in BOOLEAN : StartStack(hasFabrics)
  \/ StartAgain \/ WindowChanges \/ Terminate \/ Cleanup \/ PropertySet
  \/ GetCommissionable \/ GatewayTold
  \/ /\ ~bridge.exited
     /\ ConnectVdc \/ FailToConnectVdc \/ ReconnectVdc \/ LoseVdc \/ OtherVdc
     /\ UNCHANGED <<ccVars, windowVars, cleaned, ccStatusVars>>
  \/ StepCC /\ UNCHANGED <<p44Vars, windowVars, cleaned, vdcVars>>

StatusSpec == StatusInit /\ [][StatusNext]_allVars

---------------------------------------------------------------------------

\* Once everything has arrived, the vdcd knows that the bridge runs, whether it
\* can be commissioned, and the code, whatever window opened or closed when, and
\* whenever the first connection came: unless a status got lost or was
\* reset after the start (p44mbrd_main.cpp 293-335, p44bridge.cpp 58-76).
VdcKnows ==
  p44Connected /\ toStatus = <<>> /\ bridge.up /\ ~bridge.exited /\ ~vdcBehind =>
    vdcStatus = [started |-> TRUE, commissionable |-> window, code |-> TRUE]

\* Whenever the bridge becomes commissionable for the vdcd, the code that is then
\* shown is there already (p44mbrd_main.cpp 1033 before 1113, 388).
CodeComesFirst ==
  [][~vdcStatus.commissionable /\ vdcStatus'.commissionable /\ ~vdcBehind => vdcStatus.code]_allVars

\* What the CC gateway was told last is the status, with the code when it is
\* needed, from the first report on: over lost connections too, as soon as it
\* asks again (ccbridge.cpp 63-86, 467-479).
GatewayKnows ==
  ccConnected /\ toGateway = <<>> /\ gateway # <<>> /\ ccReported /\ ~ccBehind /\ ~bridge.exited =>
    gateway = <<[commissionable |-> window, code |-> window]>>

\* "is called by matter side to report current commissionable status"
\* (adapters.h 173): so the vdcd has it whenever it is connected.
VdcAlwaysKnows ==
  p44Connected /\ toStatus = <<>> /\ toVdc = <<>> /\ fromVdc = <<>> /\ bridge.up /\ ~bridge.exited =>
    vdcStatus.commissionable = window
=============================================================================
