----------------------------- MODULE FanControl -----------------------------
(***************************************************************************)
(* A fan: the FanControl cluster (src/src/devices/devicefancontrol.cpp)    *)
(* on top of the default channel of a vdcd device                          *)
(* (P44_SimpleFanControlImpl, which is P44_LevelControlImpl).              *)
(*                                                                         *)
(* The channel has steps of half a percent.  A percentage in FanShort      *)
(* comes back from the channel one lower, by floating point.               *)
(***************************************************************************)
EXTENDS DeviceLink

CONSTANTS
  FanPercents,    \* bound: the percentages a client writes
  FanSpeeds,      \* bound: the speeds, in half percents, set at the fan itself
  FanShort

VARIABLES
  percentSetting, \* PercentSetting attribute
  percentCurrent, \* PercentCurrent attribute
  speed,          \* external: the fan's channel, in half percents
  fanWanted       \* history: the setting that counts, or NoPercent

fanVars == <<percentSetting, percentCurrent, speed, fanWanted>>

Percent == 0 .. 100
NoPercent == 101

ASSUME FanAssumption ==
  FanPercents \subseteq Percent /\ FanSpeeds \subseteq 0 .. 200 /\ FanShort \subseteq Percent \ {0}

FanTypeOK ==
  /\ percentSetting \in Percent /\ percentCurrent \in Percent
  /\ speed \in 0 .. 200 /\ fanWanted \in Percent \cup {NoPercent}

\* The installed fan: its description has a level, but the attributes keep
\* their defaults, as updateLevel without the matter flag sets nothing.
FanInit(s) ==
  percentSetting = 0 /\ percentCurrent = 0 /\ speed = s /\ fanWanted = NoPercent

\* value2percent, and updateLevel's cast.
FanToPercent(s) ==
  IF s % 2 = 0 /\ s \div 2 \in FanShort THEN s \div 2 - 1 ELSE s \div 2

\* setLevel and percent2value
FanFromPercent(p) == 2 * p

FanShows(p) == FanToPercent(speed) = p \/ speed = FanFromPercent(p)

---------------------------------------------------------------------------

\* What is known of the setting p: it counts when it was sent, or was not
\* needed.  It is lost when PercentCurrent had not followed the fan yet, or the
\* connection was down.
Settled(p) ==
  IF linkUp /\ (p # percentCurrent \/ (Quiet /\ FanShows(p))) THEN p ELSE NoPercent

BugUpdateFanLevel(p) ==   \* compares with the setting it has just been given
  Notify(IF p # percentSetting' THEN <<[speed |-> FanFromPercent(p)]>> ELSE <<>>)

\* updateLevel with the bridged flag.
UpdateFanLevel(p) ==
  Notify(IF p # percentCurrent THEN <<[speed |-> FanFromPercent(p)]>> ELSE <<>>)

\* PercentSetting is written, and handleAttributeChange called for it.  Whether
\* it is called when the value is the same is up to the SDK.
SetPercent(p) ==
  /\ percentSetting' = p
  /\ \/ /\ UpdateFanLevel(p)
        /\ fanWanted' = Settled(p)
     \/ /\ p = percentSetting
        /\ UNCHANGED <<toDevice, fanWanted>>
  /\ UNCHANGED <<percentCurrent, speed>>

\* handleAttributeChange for a written PercentSetting.
WritePercent(p) == Command /\ SetPercent(p)

\* handleAttributeChange for FanMode, and setImpliedLevel: off, low, medium,
\* high or on, and auto, which a fan without it takes for 100%.
ImpliedLevel == {0, 33, 66, 100}
WriteFanMode(p) == Command /\ SetPercent(p)

\* The stages 0 to 3 of HandleStep, and the setting of each.
Stage(p) == (p + 16) \div 33

Stepped(stage, wrap, lowest) ==
  IF stage > 3 THEN IF wrap THEN lowest ELSE 3
  ELSE IF stage < lowest THEN IF wrap THEN 3 ELSE lowest
  ELSE stage

StagePercent(stage) == IF stage = 0 THEN 0 ELSE 33 * stage + 1

\* HandleStep
Step(direction, wrap, lowestOff) ==
  /\ Command
  /\ SetPercent(StagePercent(
       Stepped(Stage(percentCurrent) + direction, wrap, IF lowestOff THEN 0 ELSE 1)))

\* P44_LevelControlImpl::parseOutputState, with updateLevel's matter flag.
ReportSpeed(s) ==
  /\ Report([speed |-> s])
  /\ percentCurrent' = FanToPercent(s)
  /\ UNCHANGED <<percentSetting, speed, fanWanted>>

---------------------------------------------------------------------------
(* External: the fan.                                                      *)

Runs(s) == IF s = speed THEN <<>> ELSE <<[speed |-> s]>>

FanSet(s) ==
  /\ Deliver([speed |-> s], Runs(s))
  /\ speed' = s
  /\ UNCHANGED <<percentSetting, percentCurrent, fanWanted>>

FanOwn(s) ==
  /\ s # speed
  /\ Happens(MaxOwn, Runs(s))
  /\ speed' = s
  /\ fanWanted' = NoPercent
  /\ UNCHANGED <<percentSetting, percentCurrent>>

FanLost ==
  /\ LinkLost
  /\ fanWanted' = NoPercent
  /\ UNCHANGED <<percentSetting, percentCurrent, speed>>

FanNext ==
  \/ \E p \in FanPercents : WritePercent(p)
  \/ \E p \in ImpliedLevel : WriteFanMode(p)
  \/ \E direction \in {-1, 1}, wrap, lowestOff \in BOOLEAN : Step(direction, wrap, lowestOff)
  \/ fromDevice # <<>> /\ ReportSpeed(Head(fromDevice).speed)
  \/ toDevice # <<>> /\ FanSet(Head(toDevice).speed)
  \/ \E s \in FanSpeeds : FanOwn(s)
  \/ FanLost
  \/ LinkReconnect /\ UNCHANGED fanVars

---------------------------------------------------------------------------

\* Once nothing is on its way the fan runs at the last setting, however reports
\* and commands crossed, unless it was changed at the fan or lost (99-114).
FanObeys == Quiet /\ fanWanted # NoPercent => FanShows(fanWanted)

\* A step up that does not wrap never asks for less than the speed shown, and a
\* step down that may switch off never for more, though the stages are coarser
\* than the percentages and their settings not in the middle of them (186-203).
StepMoves ==
  [][\A wrap, lowestOff \in BOOLEAN :
       /\ ~wrap /\ Step(1, wrap, lowestOff) => percentSetting' >= percentCurrent
       /\ ~wrap /\ lowestOff /\ Step(-1, wrap, lowestOff) => percentSetting' <= percentCurrent]_fanVars
=============================================================================
