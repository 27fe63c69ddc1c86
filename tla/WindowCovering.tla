--------------------------- MODULE WindowCovering ---------------------------
(***************************************************************************)
(* A blind of the vdcd: the WindowCovering cluster                         *)
(* (src/src/devices/devicewindowcovering.cpp) and P44_WindowCoveringImpl   *)
(* (src/src/adapters/p44/p44devices.cpp).  The SDK's cluster server stores *)
(* the target of a command in the attributes before it calls the code.     *)
(*                                                                         *)
(* A channel value is 100% when the blind is open, a position is 100% when *)
(* it covers the window, unless the motor is reversed.  The positions in   *)
(* CoverShort come back from the channel one step lower, by floating point.*)
(***************************************************************************)
EXTENDS DeviceLink

CONSTANTS
  CoverMax,       \* bound: steps of a position, instead of 10000
  CoverShort

VARIABLES
  axes,           \* lift, and tilt with mHasTilt
  reversed,       \* kMotorDirectionReversed of the Mode attribute
  target,         \* TargetPosition...Percent100ths of each axis
  current,        \* CurrentPosition...Percent100ths of each axis
  obstacle,       \* SafetyStatus: kObstacleDetected
  value,          \* external: the channel values
  staged,         \* external: channel values to apply with the next one
  moving,         \* external: movingState is not 0
  coverKnown,     \* history: the mode is that of the last report
  coverWanted     \* history: the channel values that count, or NoPosition

coverVars == <<axes, reversed, target, current, obstacle, value, staged, moving,
               coverKnown, coverWanted>>

Axis == {"lift", "tilt"}
Position100ths == 0 .. CoverMax
NoPosition == CoverMax + 1      \* null
Nothing == [a \in Axis |-> NoPosition]

ASSUME CoverAssumption ==
  CoverMax \in Nat \ {0} /\ CoverShort \subseteq 1 .. CoverMax

CoverTypeOK ==
  /\ axes \subseteq Axis /\ reversed \in BOOLEAN /\ obstacle \in BOOLEAN /\ moving \in BOOLEAN
  /\ \A f \in {target, current, value, staged, coverWanted} :
       f \in [Axis -> Position100ths \cup {NoPosition}]

---------------------------------------------------------------------------
(* Conversions.                                                            *)

\* matter2bridge
Matter2Bridge(p) == IF reversed THEN p ELSE CoverMax - p

Turned(v) == IF reversed THEN v ELSE CoverMax - v

\* bridge2matter
Bridge2Matter(v) == IF Turned(v) \in CoverShort THEN Turned(v) - 1 ELSE Turned(v)

---------------------------------------------------------------------------
(* Commands.                                                               *)

ToChannel(a, v, now) == <<[channel |-> a, value |-> v, now |-> now]>>

BugTiltFirst(goal) == IF goal["tilt"] = NoPosition THEN <<>>
                      ELSE ToChannel("tilt", Matter2Bridge(goal["tilt"]), FALSE)

\* The tilt is sent first, and waits for the lift unless that is null.
TiltFirst(goal) == IF goal["tilt"] = NoPosition THEN <<>>
                   ELSE ToChannel("tilt", Matter2Bridge(goal["tilt"]), goal["lift"] = NoPosition)

LiftThen(goal) == IF goal["lift"] = NoPosition THEN <<>>
                  ELSE ToChannel("lift", Matter2Bridge(goal["lift"]), TRUE)

\* P44_WindowCoveringImpl::startMovement, from HandleMovement: both axes,
\* whichever was asked for.
StartMovement(goal) ==
  Notify((IF "tilt" \in axes THEN TiltFirst(goal) ELSE <<>>) \o LiftThen(goal))

\* What counts after a command for axis a to p.  The other axis is sent as it is
\* shown; what was sent for it before is undone when an older report has been
\* shown since.
WantedAfter(a, p) ==
  [b \in Axis |->
     IF ~linkUp THEN NoPosition
     ELSE IF b = a THEN Matter2Bridge(p)
     ELSE IF coverWanted[b] # NoPosition /\ target[b] # NoPosition
               /\ Matter2Bridge(target[b]) = coverWanted[b] THEN coverWanted[b]
     ELSE NoPosition]

\* Go to Lift or Tilt Percentage, Up or Open and Down or Close: the SDK sets the
\* target, then calls HandleMovement.
GoTo(a, p) ==
  /\ Command /\ a \in axes
  /\ target' = [target EXCEPT ![a] = p]
  /\ StartMovement(target')
  /\ coverWanted' = WantedAfter(a, p)
  /\ UNCHANGED <<axes, reversed, current, obstacle, value, staged, moving, coverKnown>>

\* simpleStartMovement, from StartNonPAMovement.
SimpleStart(a, up) ==
  /\ Command /\ a \in axes
  /\ Notify(ToChannel(a, Matter2Bridge(IF up THEN 0 ELSE CoverMax), TRUE))
  /\ coverWanted' = [coverWanted EXCEPT
       ![a] = IF linkUp THEN Matter2Bridge(IF up THEN 0 ELSE CoverMax) ELSE NoPosition]
  /\ UNCHANGED <<axes, reversed, target, current, obstacle, value, staged, moving, coverKnown>>

\* stopMovement, from HandleStopMotion.
StopMotion ==
  /\ Command
  /\ Notify(<<[scene |-> "stop"]>>)
  /\ coverWanted' = Nothing
  /\ UNCHANGED <<axes, reversed, target, current, obstacle, value, staged, moving, coverKnown>>

\* A client writes the Mode attribute; nothing is converted again.
WriteMode ==
  /\ Command
  /\ reversed' = ~reversed
  /\ coverKnown' = FALSE
  /\ UNCHANGED <<axes, target, current, obstacle, value, staged, moving, coverWanted, toDevice>>

---------------------------------------------------------------------------
(* Reports.                                                                *)

BugCurrentAfter(r, a) ==   \* waits for a transitional value at rest too
  IF r.value[a] # NoPosition /\ r.transitional[a] # NoPosition
    THEN Bridge2Matter(r.transitional[a])
    ELSE current[a]

\* The position shown for an axis: the value when the blind is at rest, else how
\* far it has moved when it knows, else the former one.
CurrentAfter(r, a) ==
  IF r.value[a] = NoPosition THEN current[a]
  ELSE IF ~r.moving THEN Bridge2Matter(r.value[a])
  ELSE IF r.transitional[a] # NoPosition THEN Bridge2Matter(r.transitional[a])
  ELSE current[a]

\* P44_WindowCoveringImpl::parseOutputState, for a report with both states.
ParseCover(r) ==
  /\ obstacle' = r.obstacle
  /\ target' = [a \in Axis |-> IF r.value[a] # NoPosition THEN Bridge2Matter(r.value[a])
                               ELSE target[a]]
  /\ current' = [a \in Axis |-> CurrentAfter(r, a)]
  /\ coverKnown' = TRUE

CoverReport(r) ==
  /\ Report(r)
  /\ ParseCover(r)
  /\ UNCHANGED <<axes, reversed, value, staged, moving, coverWanted>>

---------------------------------------------------------------------------
(* External: the blind.                                                    *)

\* An axis the blind lacks has no channel.
Pushed(vs, m, o, t) ==
  <<[value |-> vs, moving |-> m, obstacle |-> o, transitional |-> [Nothing EXCEPT !["lift"] = t]]>>

Applied(a, v) ==
  [b \in Axis |-> IF b = a THEN v ELSE IF staged[b] # NoPosition THEN staged[b] ELSE value[b]]

\* setOutputChannelValue
CoverSet(n) ==
  LET goal == Applied(n.channel, n.value)
  IN /\ IF n.now
          THEN /\ \E t \in {NoPosition, value["lift"]} : Deliver(n, Pushed(goal, TRUE, FALSE, t))
               /\ value' = goal /\ staged' = Nothing /\ moving' = TRUE
          ELSE /\ Deliver(n, <<>>)
               /\ staged' = [staged EXCEPT ![n.channel] = n.value]
               /\ UNCHANGED <<value, moving>>
     /\ UNCHANGED <<axes, reversed, target, current, obstacle, coverKnown, coverWanted>>

Rests(v) == [value EXCEPT !["lift"] = v]

\* callScene with the stop scene: the value becomes the position reached.
CoverStop(v) ==
  /\ moving \/ v = value["lift"]
  /\ Deliver([scene |-> "stop"], IF moving THEN Pushed(Rests(v), FALSE, FALSE, NoPosition) ELSE <<>>)
  /\ value' = Rests(v) /\ moving' = FALSE
  /\ UNCHANGED <<axes, reversed, target, current, obstacle, staged, coverKnown, coverWanted>>

CoverArrives ==
  /\ moving /\ moving' = FALSE
  /\ GoesOn(Pushed(value, FALSE, FALSE, NoPosition))
  /\ UNCHANGED <<axes, reversed, target, current, obstacle, value, staged, coverKnown, coverWanted>>

\* Somebody moves the blind, or it meets an obstacle.
CoverOwn(v) ==
  /\ \/ /\ ~moving /\ v # value["lift"]
        /\ Happens(MaxOwn, Pushed(Rests(v), TRUE, FALSE, NoPosition))
        /\ moving' = TRUE
     \/ /\ moving
        /\ Happens(MaxOwn, Pushed(Rests(v), FALSE, TRUE, NoPosition))
        /\ moving' = FALSE
  /\ value' = Rests(v)
  /\ coverWanted' = Nothing
  /\ UNCHANGED <<axes, reversed, target, current, obstacle, staged, coverKnown>>

CoverLost ==
  /\ LinkLost
  /\ coverWanted' = Nothing
  /\ UNCHANGED <<axes, reversed, target, current, obstacle, value, staged, moving, coverKnown>>

---------------------------------------------------------------------------

\* The installed blind: target and current position are those of the description.
CoverInit(as, vs) ==
  /\ axes = as /\ reversed = FALSE /\ obstacle = FALSE
  /\ value = vs /\ staged = Nothing /\ moving = FALSE
  /\ target = [a \in Axis |-> IF vs[a] = NoPosition THEN NoPosition ELSE Bridge2Matter(vs[a])]
  /\ current = target
  /\ coverKnown = TRUE /\ coverWanted = Nothing

CoverNext ==
  \/ \E a \in Axis, p \in Position100ths : GoTo(a, p)
  \/ \E a \in Axis, up \in BOOLEAN : SimpleStart(a, up)
  \/ StopMotion \/ WriteMode
  \/ fromDevice # <<>> /\ CoverReport(Head(fromDevice))
  \/ toDevice # <<>> /\ "channel" \in DOMAIN Head(toDevice) /\ CoverSet(Head(toDevice))
  \/ \E v \in Position100ths : CoverStop(v) \/ CoverOwn(v)
  \/ CoverArrives
  \/ CoverLost
  \/ LinkReconnect /\ UNCHANGED coverVars

---------------------------------------------------------------------------

\* An axis of a blind at rest that has reported its value is shown where it is,
\* with nothing left to do, whatever movements, stops and obstacles came before:
\* asked to go where it is shown, or one step on when the value came back short,
\* it would not move.
\* Only a written Mode leaves the old positions until the next report (719-826).
CoveringShown ==
  Quiet /\ ~moving /\ heard /\ coverKnown =>
    \A a \in axes : value[a] # NoPosition =>
      /\ current[a] = target[a]
      /\ value[a] \in {Matter2Bridge(current[a]), Matter2Bridge(current[a] + 1)}

\* Once nothing is on its way each axis has the value last sent for it, though
\* every command sends both and the tilt waits for the lift (657-683), unless a
\* stop, the blind itself, a lost connection or an older report came between.
CoveringObeys ==
  Quiet /\ ~moving =>
    \A a \in axes : coverWanted[a] # NoPosition => value[a] = coverWanted[a]
=============================================================================
