----------------------------- MODULE CCDevices -----------------------------
(***************************************************************************)
(* The devices of the CC adapter (src/src/adapters/cc/ccdevices.cpp): a    *)
(* dimmer, which is the LevelControl cluster with CC_LevelControlImpl, and *)
(* a shutter, awning, screen or venetian blind, which is the               *)
(* WindowCovering cluster with CC_WindowCoveringImpl.  The connection to   *)
(* the deviced does not break here: CCAdapter creates the devices again    *)
(* when it comes back.                                                     *)
(*                                                                         *)
(* A dimmer has two steps for each level; the levels in DimShort come back *)
(* one lower, by floating point.  The values of a blind in BlindTiny are   *)
(* below 1%; a position in BlindShort comes back one lower.                *)
(***************************************************************************)
EXTENDS DeviceLink

CONSTANTS
  DimMax,         \* bound: the highest level, instead of 254
  DimShort,
  BlindMax,       \* bound: steps of a position, instead of 10000
  BlindTiny,
  BlindShort

VARIABLES
  dimLevel,       \* mLevel
  dimmer,         \* external: the value of the dimmer
  dimming,        \* external: the direction in which it dims, or 0
  hasTilt,        \* mHasTilt
  feedback,       \* mFeedback
  ccReversed,     \* kMotorDirectionReversed of the Mode attribute
  ccTarget,       \* TargetPosition...Percent100ths of each axis
  ccCurrent,      \* CurrentPosition...Percent100ths of each axis
  ccFaults,       \* SafetyStatus, and "unresponsive" for mUnresponsive
  blind,          \* external: the values of the blind
  goal,           \* external: the values it moves to
  faults,         \* external: its error flags
  blindKnown,     \* history: the mode is that of the last report
  blindWanted     \* history: the value that counts for an axis, or NoValue

ccVars == <<dimLevel, dimmer, dimming, hasTilt, feedback, ccReversed, ccTarget, ccCurrent, ccFaults,
            blind, goal, faults, blindKnown, blindWanted>>

dimmerVars == <<dimLevel, dimmer, dimming>>
blindVars == <<hasTilt, feedback, ccReversed, ccTarget, ccCurrent, ccFaults, blind, goal, faults,
               blindKnown, blindWanted>>

DimLevel == 1 .. DimMax
DimValue == 0 .. 2 * (DimMax - 1)
BlindAxis == {"lift", "tilt"}
BlindValue == 0 .. BlindMax
NoBlind == BlindMax + 1         \* null
NoBlinds == [a \in BlindAxis |-> NoBlind]
Fault == {"blocked", "unresponsive"}

ASSUME CCAssumption ==
  /\ DimMax \in Nat /\ DimMax > 1 /\ DimShort \subseteq 2 .. DimMax
  /\ BlindMax \in Nat \ {0} /\ BlindTiny \subseteq 0 .. BlindMax - 1
  /\ BlindShort \subseteq 1 .. BlindMax

CCTypeOK ==
  /\ dimLevel \in 0 .. DimMax /\ dimmer \in DimValue
  /\ dimming \in {-1, 0, 1}
  /\ hasTilt \in BOOLEAN /\ feedback \in BOOLEAN /\ ccReversed \in BOOLEAN
  /\ \A f \in {ccTarget, ccCurrent, blind, goal, blindWanted} :
       f \in [BlindAxis -> BlindValue \cup {NoBlind}]
  /\ ccFaults \subseteq Fault /\ faults \subseteq Fault

---------------------------------------------------------------------------
(* The dimmer.                                                             *)

\* setLevel's argument, and updateLevel.
FromDimLevel(l) == 2 * (l - 1)
DimFloor(v) == 1 + v \div 2
ToDimLevel(v) ==
  IF v % 2 = 0 /\ DimFloor(v) \in DimShort THEN DimFloor(v) - 1 ELSE DimFloor(v)

BugMoveToLevel(l) ==   \* takes the minimum for off, and leaves that to on/off
  /\ Command
  /\ dimLevel' = l
  /\ Notify(IF l # dimLevel /\ l > 1 THEN <<[dimto |-> FromDimLevel(l)]>> ELSE <<>>)
  /\ UNCHANGED <<dimmer, dimming, blindVars>>

\* updateCurrentLevel for a command that is executed, and
\* CC_LevelControlImpl::setLevel.
MoveToLevel(l) ==
  /\ Command
  /\ dimLevel' = l
  /\ Notify(IF l # dimLevel THEN <<[dimto |-> FromDimLevel(l)]>> ELSE <<>>)
  /\ UNCHANGED <<dimmer, dimming, blindVars>>

\* Move and Stop, and CC_LevelControlImpl::dim: the value sent is 1 for all but
\* direction 0, for which it is -1.
Dim(direction) ==
  /\ Command
  /\ Notify(<<[dim |-> IF direction # 0 THEN 1 ELSE -1]>>)
  /\ UNCHANGED <<dimLevel, dimmer, dimming, blindVars>>

\* CC_LevelControlImpl::handle_state_changed: the level only, not on/off.
ReportLevel(v) ==
  /\ Report([level |-> v])
  /\ dimLevel' = ToDimLevel(v)
  /\ UNCHANGED <<dimmer, dimming, blindVars>>

\* External: the dimmer.
Dims(v, direction) ==
  /\ dimmer' = v /\ dimming' = direction
  /\ UNCHANGED <<dimLevel, blindVars>>

NewValue(v) == IF v = dimmer THEN <<>> ELSE <<[level |-> v]>>

DimmerSet(v) == Deliver([dimto |-> v], NewValue(v)) /\ Dims(v, 0)
DimmerDims(d) == Deliver([dim |-> d], <<>>) /\ Dims(dimmer, d)
DimmerGoesOn ==
  /\ dimming # 0
  /\ LET v == dimmer + dimming
     IN IF v \in DimValue THEN GoesOn(NewValue(v)) /\ Dims(v, dimming)
        ELSE GoesOn(<<>>) /\ Dims(dimmer, 0)
DimmerOwn(v) ==
  v # dimmer /\ Happens(MaxOwn, NewValue(v)) /\ Dims(v, 0)

---------------------------------------------------------------------------
(* The blind: conversions.                                                 *)

\* matter2bridge
CCMatter2Bridge(p) == IF ccReversed THEN BlindMax - p ELSE p

\* bridge2matter: what is below 1% is 0, before it is reversed.
Seen(v) == IF v \in BlindTiny THEN 0 ELSE IF v \in BlindShort THEN v - 1 ELSE v
CCBridge2Matter(v) == IF ccReversed THEN BlindMax - Seen(v) ELSE Seen(v)

\* Without feedback the blind is only told the direction.
Ends(p) == IF CCMatter2Bridge(p) > 0 THEN BlindMax ELSE 0

---------------------------------------------------------------------------
(* The blind: commands.                                                    *)

Counting(a, v) == [blindWanted EXCEPT ![a] = v]

BugStartBlind(a) ==   \* does not look at the type of movement
  Notify(<<[axis |-> "lift", value |-> CCMatter2Bridge(ccTarget'["lift"])]>>)

\* CC_WindowCoveringImpl::startMovement for the target that was set: "moveto"
\* with feedback or "move" without, or "tilt".
StartBlind(a) ==
  Notify(CASE a = "lift" -> <<[axis |-> "lift", value |->
                IF feedback THEN CCMatter2Bridge(ccTarget'["lift"]) ELSE Ends(ccTarget'["lift"])]>>
           [] a = "tilt" /\ hasTilt ->
                <<[axis |-> "tilt", value |-> CCMatter2Bridge(ccTarget'["tilt"])]>>
           [] OTHER -> <<>>)

\* What counts for the axis after the command.
WantsBlind(a) ==
  CASE a = "lift" -> Counting(a, IF feedback THEN CCMatter2Bridge(ccTarget'[a]) ELSE Ends(ccTarget'[a]))
    [] a = "tilt" /\ hasTilt -> Counting(a, CCMatter2Bridge(ccTarget'[a]))
    [] OTHER -> blindWanted

\* Go to Lift or Tilt Percentage, Up or Open, Down or Close: the SDK sets the
\* target, then calls HandleMovement.
GoToBlind(a, p) ==
  /\ Command
  /\ ccTarget' = [ccTarget EXCEPT ![a] = p]
  /\ StartBlind(a)
  /\ blindWanted' = WantsBlind(a)
  /\ UNCHANGED <<hasTilt, feedback, ccReversed, ccCurrent, ccFaults, blind, goal, faults,
                 blindKnown, dimmerVars>>

\* CC_WindowCoveringImpl::simpleStartMovement
SimpleStartBlind(a, up) ==
  LET v == CCMatter2Bridge(IF up THEN 0 ELSE BlindMax)
  IN /\ Command
     /\ Notify(<<[axis |-> a, value |-> v]>>)
     /\ blindWanted' = Counting(a, v)
     /\ UNCHANGED <<hasTilt, feedback, ccReversed, ccTarget, ccCurrent, ccFaults, blind, goal,
                    faults, blindKnown, dimmerVars>>

\* CC_WindowCoveringImpl::stopMovement: "move" with 0.
StopBlind ==
  /\ Command
  /\ Notify(<<[move |-> 0]>>)
  /\ blindWanted' = NoBlinds
  /\ UNCHANGED <<hasTilt, feedback, ccReversed, ccTarget, ccCurrent, ccFaults, blind, goal,
                 faults, blindKnown, dimmerVars>>

\* A client writes the Mode attribute.
ReverseBlind ==
  /\ Command
  /\ ccReversed' = ~ccReversed
  /\ blindKnown' = FALSE
  /\ UNCHANGED <<toDevice, hasTilt, feedback, ccTarget, ccCurrent, ccFaults, blind, goal, faults,
                 blindWanted, dimmerVars>>

---------------------------------------------------------------------------
(* The blind: reports.                                                     *)

BugCurrentOf(r, a) ==   \* a shown 0 is taken for no position
  IF r.value[a] = NoBlind \/ CCBridge2Matter(r.value[a]) = 0 THEN ccCurrent[a]
  ELSE CCBridge2Matter(r.value[a])

CurrentOf(r, a) ==
  IF r.value[a] = NoBlind \/ (a = "tilt" /\ ~hasTilt) THEN ccCurrent[a]
  ELSE CCBridge2Matter(r.value[a])

\* CC_WindowCoveringImpl::handle_state_changed, with error flags: the current
\* position only.
BlindReport(r) ==
  /\ Report(r)
  /\ ccCurrent' = [a \in BlindAxis |-> CurrentOf(r, a)]
  /\ ccFaults' = r.faults
  /\ blindKnown' = TRUE
  /\ UNCHANGED <<hasTilt, feedback, ccReversed, ccTarget, blind, goal, faults, blindWanted,
                 dimmerVars>>

---------------------------------------------------------------------------
(* External: the blind.                                                    *)

BlindState(vs, fs) == <<[value |-> vs, faults |-> fs]>>
BlindRests == blind = goal

\* A command to an axis the blind lacks does nothing.
BlindSet(a, v) ==
  /\ Deliver([axis |-> a, value |-> v], <<>>)
  /\ goal' = IF blind[a] = NoBlind THEN goal ELSE [goal EXCEPT ![a] = v]
  /\ UNCHANGED <<hasTilt, feedback, ccReversed, ccTarget, ccCurrent, ccFaults, blind, faults,
                 blindKnown, blindWanted, dimmerVars>>

BlindStops ==
  /\ Deliver([move |-> 0], <<>>)
  /\ goal' = blind
  /\ UNCHANGED <<hasTilt, feedback, ccReversed, ccTarget, ccCurrent, ccFaults, blind, faults,
                 blindKnown, blindWanted, dimmerVars>>

Nearer(from, to) == IF from < to THEN from + 1 ELSE from - 1

\* It reports positions on its way.
BlindMoves(a) ==
  /\ blind[a] # goal[a]
  /\ blind' = [blind EXCEPT ![a] = Nearer(@, goal[a])]
  /\ GoesOn(BlindState(blind', faults))
  /\ UNCHANGED <<hasTilt, feedback, ccReversed, ccTarget, ccCurrent, ccFaults, goal, faults,
                 blindKnown, blindWanted, dimmerVars>>

\* Somebody moves it, or a fault appears, which stops it, or disappears.
BlindOwn(v, fs) ==
  /\ IF fs = faults THEN goal' = [blind EXCEPT !["lift"] = v] /\ Happens(MaxOwn, <<>>)
     ELSE goal' = blind /\ v = blind["lift"] /\ Happens(MaxOwn, BlindState(blind, fs))
  /\ faults' = fs
  /\ blindWanted' = NoBlinds
  /\ UNCHANGED <<hasTilt, feedback, ccReversed, ccTarget, ccCurrent, ccFaults, blind,
                 blindKnown, dimmerVars>>

---------------------------------------------------------------------------

\* The installed dimmer: its level was computed before it had an endpoint, from
\* variables that were never set.
DimmerInit(v) ==
  dimLevel \in 0 .. DimMax /\ dimmer = v /\ dimming = 0

\* The installed blind: mHasTilt is only set for venetian blinds and mInverted
\* only for awnings; both are never initialized, nor is mUnresponsive unless the
\* description had error flags.  Positions are null.
BlindInit(venetian, awning, fb, v, fs) ==
  /\ hasTilt \in BOOLEAN /\ (venetian => hasTilt)
  /\ ccReversed \in BOOLEAN /\ (awning => ccReversed)
  /\ feedback = fb
  /\ ccTarget = NoBlinds /\ ccCurrent = NoBlinds
  /\ ccFaults \in {{}, {"unresponsive"}}
  /\ blind = [a \in BlindAxis |-> IF a = "tilt" /\ ~venetian THEN NoBlind ELSE v]
  /\ goal = blind /\ faults = fs
  /\ blindKnown = TRUE /\ blindWanted = NoBlinds

DimmerNext ==
  \/ \E l \in DimLevel : MoveToLevel(l)
  \/ \E d \in {-1, 0, 1} : Dim(d) \/ DimmerDims(d)
  \/ \E v \in DimValue : ReportLevel(v) \/ DimmerSet(v) \/ DimmerOwn(v)
  \/ DimmerGoesOn

BlindNext ==
  \/ \E a \in BlindAxis, p \in BlindValue : GoToBlind(a, p)
  \/ \E a \in BlindAxis, up \in BOOLEAN : SimpleStartBlind(a, up)
  \/ StopBlind \/ ReverseBlind
  \/ fromDevice # <<>> /\ BlindReport(Head(fromDevice))
  \/ \E a \in BlindAxis, v \in BlindValue : BlindSet(a, v)
  \/ BlindStops
  \/ \E a \in BlindAxis : BlindMoves(a)
  \/ \E v \in BlindValue, fs \in {{}, {"blocked"}, {"unresponsive"}} : BlindOwn(v, fs)

---------------------------------------------------------------------------

\* Once nothing is on its way a dimmer at rest is shown with its level, however
\* its reports and commands crossed (201-209, 242-251).
DimmerShown ==
  Quiet /\ heard /\ dimming = 0 =>
    dimLevel = ToDimLevel(dimmer) \/ dimmer = FromDimLevel(dimLevel)

\* Once nothing is on its way a blind at rest that has reported is shown where
\* it is, with its faults, though mInverted and mHasTilt may be anything; only
\* a written Mode leaves the old position until the next report (441-509).
BlindShown ==
  Quiet /\ heard /\ BlindRests =>
    /\ ccFaults = faults
    /\ blindKnown => \A a \in BlindAxis :
         blind[a] # NoBlind /\ (a = "tilt" => hasTilt) => ccCurrent[a] = CCBridge2Matter(blind[a])

\* Once nothing is on its way each axis is where the last command for it sent
\* it, whatever commands for the other one came between, unless the blind was
\* stopped or moved otherwise (335-407).
BlindObeys ==
  Quiet /\ BlindRests =>
    \A a \in BlindAxis : blindWanted[a] # NoBlind /\ blind[a] # NoBlind => blind[a] = blindWanted[a]
=============================================================================
