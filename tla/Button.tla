------------------------------- MODULE Button -------------------------------
(***************************************************************************)
(* A pushbutton with one position, or a rocker with two: the Switch        *)
(* cluster (src/src/devices/switchdevices.cpp) and the state machine that  *)
(* makes its events from the click types of the vdcd                       *)
(* (P44_ButtonImpl in src/src/adapters/p44/p44devices.cpp).                *)
(***************************************************************************)
EXTENDS DeviceLink

CONSTANTS
  MaxPresses,     \* bound: presses in a sequence
  MaxButton,      \* bound: events of the inputs
  ButtonStarts    \* bound: what the inputs are doing when the vdcd describes them

VARIABLES
  fitted,         \* the device is installed
  switchInfo,     \* its first state in the description: one report, or none (null)
  positions,      \* mActivePositions
  clicks,         \* mClicks
  position,       \* mPosition, 0 when no position is active
  told,           \* the Switch events of the last report
  input,          \* external: the vdcd's button behaviours
  pressed,        \* history: position of the last press told, 0 after a release
  mixed           \* history: sequences of both positions, broken ones, or such that
                  \* were under way, or handled, before the installation

buttonVars == <<fitted, switchInfo, positions, clicks, position, told, input, pressed, mixed>>

Position == 1 .. 2
Input == [phase : {"idle", "down", "held", "up"}, presses : 0 .. MaxPresses]
Idle == [phase |-> "idle", presses |-> 0]

ASSUME ButtonAssumption ==
  /\ MaxPresses \in 1 .. 4 /\ MaxButton \in Nat
  /\ ButtonStarts \subseteq [Position -> Input]
  /\ \A in \in ButtonStarts, p \in Position : in[p].phase = "idle" <=> in[p].presses = 0

ButtonTypeOK ==
  /\ fitted \in BOOLEAN /\ positions \in SUBSET Position
  /\ clicks \in Nat /\ position \in 0 .. 2 /\ pressed \in 0 .. 2 /\ mixed \in BOOLEAN
  /\ input \in [Position -> Input]

\* External: what the vdcd may say of an input in a description: nothing of one
\* that was never pressed, else its last report.
Describes(p, in) ==
  LET state(value, click) == <<[at |-> p, value |-> value, click |-> click, presses |-> in.presses]>>
  IN CASE in.phase = "idle" -> {<<>>, state(FALSE, "complete")}
       [] in.phase = "down" -> {state(TRUE, "progress")}
       [] in.phase = "up"   -> {state(FALSE, "progress"), state(FALSE, "count")}
       [] in.phase = "held" -> {state(TRUE, "hold")}

FirstOf(ps) == IF 1 \in ps THEN 1 ELSE 2

\* No position is pressed, or the first one for the first time: the description
\* says so.
Plain(ps, in) ==
  \E doing \in {Idle, [phase |-> "down", presses |-> 1]} :
    \A p \in ps : in[p] = IF p = FirstOf(ps) THEN doing ELSE Idle

\* The device is made from a description of inputs at in, of which the state of the
\* first position counts; setActivePosition for the inputs.
ButtonInit(ps, in, state) ==
  /\ fitted = FALSE /\ switchInfo = state
  /\ positions = ps /\ clicks = 0 /\ position = 0 /\ told = <<>>
  /\ input = in
  /\ pressed = 0 /\ mixed = ~Plain(ps, in)

---------------------------------------------------------------------------

Event(kind, at, count) == <<[event |-> kind, at |-> at, count |-> count]>>

\* The position that a report leads to.
To(r) == IF r.value THEN r.at ELSE 0

\* With mPosition at, a report is evaluated when it changes the position, or ends
\* the sequence.
Evaluated(r, at) == To(r) # at \/ r.click = "complete"

BugClicksAfter(r, c, at) ==   \* counts on after the end
  IF ~Evaluated(r, at) THEN c
  ELSE CASE r.click = "count" -> r.presses
         [] r.click = "progress" /\ To(r) # 0 -> c + 1
         [] OTHER -> c

\* mClicks: tips and clicks bring the count, presses are counted until then.
ClicksAfter(r, c, at) ==
  IF ~Evaluated(r, at) THEN c
  ELSE CASE r.click = "count" -> r.presses
         [] r.click = "progress" /\ To(r) # 0 -> c + 1
         [] r.click = "complete" -> 0
         [] OTHER -> c

BugEvents(r, c, at) ==   \* evaluates each report
  CASE r.click \in {"count", "progress"} /\ To(r) = 0 -> Event("ShortRelease", at, 0)
    [] r.click = "progress" /\ To(r) # 0 -> Event("InitialPress", To(r), 0)
    [] r.click = "complete" /\ To(r) = 0 -> Event("MultiPressComplete", at, c)
    [] r.click = "hold" -> Event("LongPress", To(r), 0)
    [] r.click = "hold_end" -> Event("LongRelease", at, 0)
    [] OTHER -> <<>>

\* The Switch events for a report, with c clicks at position at.
Events(r, c, at) ==
  IF ~Evaluated(r, at) THEN <<>>
  ELSE CASE r.click \in {"count", "progress"} /\ To(r) = 0 -> Event("ShortRelease", at, 0)
         [] r.click = "progress" /\ To(r) # 0 ->
              Event("InitialPress", To(r), 0) \o
              (IF c > 0 THEN Event("MultiPressOngoing", To(r), c + 1) ELSE <<>>)
         [] r.click = "complete" /\ To(r) = 0 -> Event("MultiPressComplete", at, c)
         [] r.click = "hold" -> Event("LongPress", To(r), 0)
         [] r.click = "hold_end" -> Event("LongRelease", at, 0)
         [] OTHER -> <<>>

\* What the reported events say about the position that is pressed.
PressedAfter(events) ==
  IF events = <<>> THEN pressed
  ELSE CASE events[1].event \in {"InitialPress", "LongPress"} -> events[1].at
         [] events[1].event \in {"ShortRelease", "LongRelease"} -> 0
         [] OTHER -> pressed

\* P44_ButtonImpl::parseButtonState for the state of one position; the scan of
\* the positions ends at the first that the report contains.  A device without
\* an endpoint tells nothing.
ParseButtonState(r, c, at) ==
  /\ clicks' = ClicksAfter(r, c, at)
  /\ told' = IF fitted' THEN Events(r, c, at) ELSE <<>>
  /\ position' = IF Evaluated(r, at) THEN To(r) ELSE at
  /\ pressed' = PressedAfter(told')

\* updateBridgedInfo: nothing is pressed but what the description says, whatever
\* was reported since then.
InstallButton ==
  /\ ~fitted /\ fitted' = TRUE
  /\ UNCHANGED <<link, switchInfo, positions, input, mixed>>
  /\ \/ /\ switchInfo = <<>>
        /\ clicks' = 0 /\ position' = 0
        /\ UNCHANGED <<told, pressed>>
     \/ switchInfo # <<>> /\ ParseButtonState(switchInfo[1], 0, 0)

AllIdle == \A p \in positions : input[p] = Idle

ButtonReport(r) ==
  /\ Report(r)
  /\ UNCHANGED <<fitted, switchInfo, positions, input>>
  /\ ParseButtonState(r, clicks, position)
  /\ mixed' = (fitted => mixed /\ ~(r.click = "complete" /\ AllIdle /\ Len(fromDevice) = 1))

---------------------------------------------------------------------------
(* External: the button behaviours of the vdcd.  A sequence of presses, or *)
(* a hold, ends with "complete"; a click type with a count comes either    *)
(* instead of a release or after it.                                       *)

State(p, value, click) ==
  [at |-> p, value |-> value, click |-> click, presses |-> input[p].presses]

ButtonHappens(p, phase, presses, reports) ==
  /\ p \in positions
  /\ Happens(MaxButton, reports)
  /\ input' = [input EXCEPT ![p] = [phase |-> phase, presses |-> presses]]
  /\ UNCHANGED <<fitted, switchInfo, positions, clicks, position, told, pressed>>

Press(p) ==
  /\ input[p].phase \in {"idle", "up"} /\ input[p].presses < MaxPresses
  /\ ButtonHappens(p, "down", input[p].presses + 1, <<State(p, TRUE, "progress")>>)
  /\ mixed' = (mixed \/ ~linkUp \/ \E q \in positions \ {p} : input[q] # Idle)

Release(p) ==
  /\ input[p].phase = "down"
  /\ \E click \in {"progress", "count"} :
       ButtonHappens(p, "up", input[p].presses, <<State(p, FALSE, click)>>)
  /\ mixed' = (mixed \/ ~linkUp)

Finish(p) ==
  /\ input[p].phase = "up"
  /\ ButtonHappens(p, "idle", 0, <<State(p, FALSE, "count"), State(p, FALSE, "complete")>>)
  /\ mixed' = (mixed \/ ~linkUp)

Hold(p) ==
  /\ input[p].phase = "down"
  /\ ButtonHappens(p, "held", input[p].presses, <<State(p, TRUE, "hold")>>)
  /\ mixed' = (mixed \/ ~linkUp)

HoldEnd(p) ==
  /\ input[p].phase = "held"
  /\ ButtonHappens(p, "idle", 0, <<State(p, FALSE, "hold_end"), State(p, FALSE, "complete")>>)
  /\ mixed' = (mixed \/ ~linkUp)

ButtonLost ==
  /\ LinkLost
  /\ mixed' = (mixed \/ fromDevice # <<>> \/ ~AllIdle)
  /\ UNCHANGED <<fitted, switchInfo, positions, clicks, position, told, input, pressed>>

ButtonNext ==
  \/ InstallButton
  \/ \E p \in Position : Press(p) \/ Release(p) \/ Finish(p) \/ Hold(p) \/ HoldEnd(p)
  \/ fromDevice # <<>> /\ ButtonReport(Head(fromDevice))
  \/ ButtonLost
  \/ LinkReconnect /\ UNCHANGED buttonVars

---------------------------------------------------------------------------

SequenceEnds(r) == "click" \in DOMAIN r /\ r.click = "complete"

\* A sequence that ends is told with the number of its presses, whether they were
\* counted here or by the vdcd, also if it began just before the device was
\* described; unless sequences overlap or were broken, or were further on, or
\* reported, before the device was installed (960-975, 1014-1052).
ClicksCounted ==
  [][\A i \in DOMAIN fromDevice \cap {1} :
       SequenceEnds(fromDevice[i]) /\ fitted /\ ~mixed /\ Report(fromDevice[i]) =>
         told' = Event("MultiPressComplete", 0, fromDevice[i].presses)]_buttonVars

\* Each release is told once, after a press was, and for the position whose press
\* was told last, also when both halves of a rocker are used at once, when the
\* connection breaks in between, and when the device is described and installed in
\* the middle of a sequence (975, 1022, 1029, 1049).
ReleasesPaired ==
  [][\A i \in DOMAIN told' :
       told' # told /\ told'[i].event \in {"ShortRelease", "LongRelease"} =>
         pressed # 0 /\ told'[i].at = pressed]_buttonVars
=============================================================================
