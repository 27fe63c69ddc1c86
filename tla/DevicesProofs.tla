--------------------------- MODULE DevicesProofs ---------------------------
(* Theorems about the devices, for every value of the constants.           *)
EXTENDS ColorControlProofs, WindowCoveringProofs, WellFoundedInduction, FiniteSetTheorems

---------------------------------------------------------------------------
(* The devices.                                                            *)

\* However commands, writes and ticks of the Identify cluster follow each other,
\* its timer runs exactly while IdentifyTime is above 0 (device.cpp 377-402).
THEOREM OneCountdown == Spec => []CountdownMatches
<1>1. Init => CountdownMatches
  BY DEF Init, IdentifyInit, CountdownMatches, Rearm
<1>2. CountdownMatches /\ [Next]_vars => CountdownMatches'
  <2> SUFFICES ASSUME CountdownMatches, [Next]_vars PROVE CountdownMatches'
    OBVIOUS
  <2>1. CASE UNCHANGED identifyVars
    BY <2>1 DEF CountdownMatches, identifyVars, Rearm
  <2>2. CASE IdentifyNext
    <3>1. ASSUME NEW seconds \in 0 .. MaxIdentify, IdentifyCommand(seconds)
          PROVE  CountdownMatches'
      BY <3>1, <2>1 DEF IdentifyCommand, UpdateIdentifyTime, CountdownMatches, identifyVars, Rearm
    <3>2. CASE IdentifyTick
      BY <3>2 DEF IdentifyTick, CountdownMatches, Rearm
    <3>3. ASSUME NEW seconds, DeviceIdentify(seconds) PROVE CountdownMatches'
      BY <3>3 DEF DeviceIdentify, CountdownMatches, Rearm
    <3>4. CASE DeviceIdentifyEnds
      BY <3>4 DEF DeviceIdentifyEnds, CountdownMatches, Rearm
    <3>5. QED BY <2>1, <2>2, <3>1, <3>2, <3>3, <3>4 DEF IdentifyNext
  <2>3. QED
    BY <2>1, <2>2 DEF Next, vars, IdentifySteps, FanSteps, ButtonSteps, InputSteps, CoverSteps,
                      ColorSteps, CCSteps, RoomSteps, MappingSteps, NameSteps
<1>3. QED BY <1>1, <1>2, PTL DEF Spec

---------------------------------------------------------------------------
(* Buttons: a position that is active is the one whose press was told last. *)

ClickTypes == {"progress", "count", "complete", "hold", "hold_end"}

\* Only a press and a hold come with an active position.
ButtonReports ==
  {r \in [at : Position, value : BOOLEAN, click : ClickTypes, presses : 0 .. MaxPresses] :
     r.value => r.click \in {"progress", "hold"}}

ButtonInv ==
  /\ positions \subseteq Position
  /\ input \in [Position -> [phase : {"idle", "down", "held", "up"}, presses : 0 .. MaxPresses]]
  /\ position \in 0 .. 2
  /\ fitted /\ position # 0 => pressed = position
  /\ switchInfo = <<>> \/ \E r \in ButtonReports : switchInfo = <<r>>
  /\ Is("button") => fromDevice \in Seq(ButtonReports)

\* What a report of the vdcd makes of the position at and of the told press.
LEMMA ParsedPosition ==
  ASSUME NEW r \in ButtonReports, NEW c, NEW at \in 0 .. 2, at # 0 => pressed = at,
         ParseButtonState(r, c, at)
  PROVE  position' \in 0 .. 2 /\ (fitted' /\ position' # 0 => pressed' = position')
<1>1. /\ fitted' => pressed' = PressedAfter(Events(r, c, at))
      /\ position' = IF Evaluated(r, at) THEN To(r) ELSE at
  BY DEF ParseButtonState
<1>2. To(r) \in 0 .. 2 /\ (To(r) # 0 => r.click \in {"progress", "hold"})
  BY DEF ButtonReports, Position, To
<1>3. CASE ~Evaluated(r, at)
  <2>1. Events(r, c, at) = <<>> BY <1>3 DEF Events
  <2>2. position' = at /\ (fitted' => pressed' = pressed) BY <1>1, <1>3, <2>1 DEF PressedAfter
  <2>3. QED BY <2>2
<1>4. CASE Evaluated(r, at) /\ To(r) = 0
  BY <1>1, <1>4
<1>5. CASE Evaluated(r, at) /\ To(r) # 0
  <2>1. Events(r, c, at) # <<>> /\ Events(r, c, at)[1].event \in {"InitialPress", "LongPress"}
        /\ Events(r, c, at)[1].at = To(r)
    BY <1>2, <1>5 DEF Events, Event
  <2>2. fitted' => pressed' = To(r) BY <1>1, <2>1 DEF PressedAfter
  <2>3. QED BY <1>1, <1>2, <1>5, <2>2
<1>6. QED BY <1>3, <1>4, <1>5

\* A release that is told is for the active position.
LEMMA ReleaseOfActive ==
  ASSUME NEW r \in ButtonReports, NEW c, NEW at \in 0 .. 2, fitted' /\ at # 0 => pressed = at,
         ParseButtonState(r, c, at), NEW i \in DOMAIN told',
         told'[i].event \in {"ShortRelease", "LongRelease"}
  PROVE  pressed # 0 /\ told'[i].at = pressed
<1>1. told' # <<>> /\ told' = IF fitted' THEN Events(r, c, at) ELSE <<>>
  BY DEF ParseButtonState
<1>2. fitted' /\ told' = Events(r, c, at) BY <1>1
<1>3. To(r) # 0 => r.click \in {"progress", "hold"} BY DEF ButtonReports, To
<1>4. Evaluated(r, at)
  <2>1. SUFFICES ASSUME ~Evaluated(r, at) PROVE FALSE
    OBVIOUS
  <2>2. told' = <<>> BY <1>2, <2>1, Zenon DEF Events
  <2>3. QED BY <1>1, <2>2
<1>5. CASE To(r) # 0
  <2>1. \A j \in DOMAIN Events(r, c, at) :
          Events(r, c, at)[j].event \in {"InitialPress", "MultiPressOngoing", "LongPress"}
    BY <1>3, <1>4, <1>5 DEF Events, Event
  <2>2. QED BY <1>2, <2>1
<1>6. CASE To(r) = 0
  <2>1. r.click # "complete" BY <1>2, <1>4, <1>6 DEF Events, Event
  <2>2. at # 0 BY <1>4, <1>6, <2>1 DEF Evaluated
  <2>3. told'[i].at = at BY <1>2, <1>4, <1>6 DEF Events, Event
  <2>4. QED BY <1>2, <2>2, <2>3
<1>7. QED BY <1>5, <1>6

\* Every step keeps the invariant.
LEMMA ButtonStep ==
  ASSUME ButtonAssumption, ButtonInv, [Next]_vars
  PROVE  ButtonInv'
<1> USE DEF ButtonInv, Is
<1>1. ASSUME kind # "button", UNCHANGED <<kind, buttonVars>> PROVE ButtonInv'
  BY <1>1 DEF buttonVars
<1>2. CASE ButtonSteps
  <2>1. Is("button") /\ kind' = kind /\ fromDevice \in Seq(ButtonReports)
    BY <1>2 DEF ButtonSteps
  <2>2. ASSUME NEW p \in Position, NEW phase \in {"idle", "down", "held", "up"},
               NEW presses \in 0 .. MaxPresses, NEW reports \in Seq(ButtonReports),
               ButtonHappens(p, phase, presses, reports)
        PROVE  ButtonInv'
    <3>1. fromDevice' \in Seq(ButtonReports) BY <2>1, <2>2, PushTyped DEF ButtonHappens, Happens
    <3>2. UNCHANGED <<fitted, switchInfo, positions, position, pressed>> BY <2>2 DEF ButtonHappens
    <3>3. input' \in [Position -> [phase : {"idle", "down", "held", "up"}, presses : 0 .. MaxPresses]]
      BY <2>2 DEF ButtonHappens
    <3>4. QED BY <2>1, <3>1, <3>2, <3>3
  <2>3. \A p \in Position : input[p].presses \in 0 .. MaxPresses
    OBVIOUS
  <2>4. \A p \in Position, click \in ClickTypes :
          /\ State(p, FALSE, click) \in ButtonReports
          /\ click \in {"progress", "hold"} => State(p, TRUE, click) \in ButtonReports
    BY <2>3 DEF State, ButtonReports
  <2>queued. \A r, s \in ButtonReports : <<r>> \in Seq(ButtonReports) /\ <<r, s>> \in Seq(ButtonReports)
    OBVIOUS
  <2>5. ASSUME NEW p \in Position, Press(p) PROVE ButtonInv'
    <3>1. input[p].presses + 1 \in 0 .. MaxPresses
      BY <2>3, <2>5, ButtonAssumption DEF Press
    <3>2. State(p, TRUE, "progress") \in ButtonReports BY <2>4, Zenon DEF ClickTypes
    <3>3. QED BY <2>2, <2>5, <2>queued, <3>1, <3>2 DEF Press
  <2>6. ASSUME NEW p \in Position, Release(p) PROVE ButtonInv'
    <3>1. PICK click \in {"progress", "count"} :
            ButtonHappens(p, "up", input[p].presses, <<State(p, FALSE, click)>>)
      BY <2>6 DEF Release
    <3>2. State(p, FALSE, click) \in ButtonReports BY <2>4, Zenon DEF ClickTypes
    <3>3. QED BY <2>2, <2>3, <2>queued, <3>1, <3>2
  <2>7. ASSUME NEW p \in Position, Finish(p) PROVE ButtonInv'
    <3>1. State(p, FALSE, "count") \in ButtonReports /\ State(p, FALSE, "complete") \in ButtonReports
      BY <2>4, Zenon DEF ClickTypes
    <3>2. <<State(p, FALSE, "count"), State(p, FALSE, "complete")>> \in Seq(ButtonReports)
      BY <3>1, <2>queued
    <3>3. ButtonHappens(p, "idle", 0, <<State(p, FALSE, "count"), State(p, FALSE, "complete")>>)
      BY <2>7 DEF Finish
    <3>4. 0 \in 0 .. MaxPresses BY ButtonAssumption
    <3>5. QED BY <2>2, <3>2, <3>3, <3>4
  <2>8. ASSUME NEW p \in Position, Hold(p) PROVE ButtonInv'
    <3>1. State(p, TRUE, "hold") \in ButtonReports BY <2>4, Zenon DEF ClickTypes
    <3>2. QED BY <2>2, <2>3, <2>8, <2>queued, <3>1 DEF Hold
  <2>9. ASSUME NEW p \in Position, HoldEnd(p) PROVE ButtonInv'
    <3>1. State(p, FALSE, "hold_end") \in ButtonReports /\ State(p, FALSE, "complete") \in ButtonReports
      BY <2>4, Zenon DEF ClickTypes
    <3>2. <<State(p, FALSE, "hold_end"), State(p, FALSE, "complete")>> \in Seq(ButtonReports)
      BY <3>1, <2>queued
    <3>3. ButtonHappens(p, "idle", 0, <<State(p, FALSE, "hold_end"), State(p, FALSE, "complete")>>)
      BY <2>9 DEF HoldEnd
    <3>4. 0 \in 0 .. MaxPresses BY ButtonAssumption
    <3>5. QED BY <2>2, <3>2, <3>3, <3>4
  <2>10. ASSUME ButtonReport(Head(fromDevice)) PROVE ButtonInv'
    <3>1. Head(fromDevice) \in ButtonReports /\ fromDevice' \in Seq(ButtonReports)
      BY <2>1, <2>10, ReportTyped DEF ButtonReport
    <3>2. /\ ParseButtonState(Head(fromDevice), clicks, position)
          /\ UNCHANGED <<fitted, switchInfo, positions, input>>
      BY <2>10 DEF ButtonReport
    <3>3. CASE fitted
      <4>1. position' \in 0 .. 2 /\ (fitted' /\ position' # 0 => pressed' = position')
        BY <3>1, <3>2, <3>3, ParsedPosition
      <4>2. QED BY <3>1, <3>2, <4>1
    <3>4. CASE ~fitted
      <4>1. position' \in 0 .. 2
        BY <3>1, <3>2 DEF ParseButtonState, To, ButtonReports, Position
      <4>2. QED BY <3>1, <3>2, <3>4, <4>1
    <3>5. QED BY <3>3, <3>4
  <2>11. CASE ButtonLost
    BY <2>11 DEF ButtonLost, LinkLost
  <2>12. CASE LinkReconnect /\ UNCHANGED buttonVars
    BY <2>1, <2>12 DEF LinkReconnect, queues, buttonVars
  <2>13. CASE InstallButton
    <3>1. UNCHANGED <<switchInfo, positions, input, fromDevice>>
      BY <2>13 DEF InstallButton, link, queues
    <3>2. CASE position' = 0 BY <2>1, <3>1, <3>2
    <3>3. CASE position' # 0
      <4>1. PICK r \in ButtonReports : switchInfo = <<r>>
        BY <2>13, <3>3 DEF InstallButton
      <4>2. ParseButtonState(r, 0, 0) BY <2>13, <3>3, <4>1 DEF InstallButton
      <4>3. position' \in 0 .. 2 /\ (fitted' /\ position' # 0 => pressed' = position')
        BY <4>2, ParsedPosition
      <4>4. QED BY <2>1, <3>1, <4>3
    <3>4. QED BY <3>2, <3>3
  <2>14. QED
    BY <1>2, <2>5, <2>6, <2>7, <2>8, <2>9, <2>10, <2>11, <2>12, <2>13 DEF ButtonSteps, ButtonNext
<1>3. CASE UNCHANGED vars
  BY <1>3 DEF vars, buttonVars, link, queues
<1>4. QED
  BY <1>1, <1>2, <1>3 DEF Next, IdentifySteps, FanSteps, InputSteps, CoverSteps,
                          ColorSteps, CCSteps, RoomSteps, MappingSteps, NameSteps

\* A description holds what a report says.
LEMMA DescribedState ==
  ASSUME NEW in \in [Position -> Input], NEW state \in Describes(1, in[1])
  PROVE  state = <<>> \/ \E r \in ButtonReports : state = <<r>>
<1>1. in[1] \in Input BY DEF Position
<1>2. in[1].phase \in {"idle", "down", "held", "up"} /\ in[1].presses \in 0 .. MaxPresses
  BY <1>1 DEF Input
<1> DEFINE said(v, click) == [at |-> 1, value |-> v, click |-> click, presses |-> in[1].presses]
<1>3. /\ said(FALSE, "complete") \in ButtonReports /\ said(TRUE, "progress") \in ButtonReports
      /\ said(FALSE, "progress") \in ButtonReports /\ said(FALSE, "count") \in ButtonReports
      /\ said(TRUE, "hold") \in ButtonReports
  BY <1>2 DEF ButtonReports, ClickTypes, Position
<1>4. \/ state = <<>> \/ state = <<said(FALSE, "complete")>> \/ state = <<said(TRUE, "progress")>>
      \/ state = <<said(FALSE, "progress")>> \/ state = <<said(FALSE, "count")>>
      \/ state = <<said(TRUE, "hold")>>
  BY <1>2 DEF Describes
<1>5. QED BY <1>3, <1>4

\* How a button starts.
LEMMA ButtonDescribed ==
  ASSUME ButtonAssumption, Init
  PROVE  /\ LinkInit
         /\ \E ps \in {{1}, {1, 2}}, in \in [Position -> Input] :
              \E state \in Describes(1, in[1]) :
                /\ ButtonInit(ps, in, state)
                /\ Is("button") => in \in ButtonStarts
<1>1. LinkInit /\ ButtonsInit BY DEF Init
<1>2. Idle \in Input BY ButtonAssumption DEF Idle, Input
<1>3. \A ps \in {{1}, {1, 2}} : FirstOf(ps) = 1 BY DEF FirstOf
<1>4. CASE Is("button")
  <2>1. PICK ps \in {{1}, {1, 2}}, in \in ButtonStarts :
          \E state \in Describes(FirstOf(ps), in[FirstOf(ps)]) : ButtonInit(ps, in, state)
    BY <1>1, <1>4 DEF ButtonsInit
  <2>2. in \in [Position -> Input] BY <2>1, ButtonAssumption DEF ButtonAssumption
  <2>3. QED BY <1>1, <1>3, <2>1, <2>2
<1>5. CASE ~Is("button")
  <2> DEFINE in == [p \in Position |-> Idle]
  <2>1. \E state \in Describes(FirstOf({1}), in[FirstOf({1})]) : ButtonInit({1}, in, state)
    BY <1>1, <1>5 DEF ButtonsInit
  <2>2. in \in [Position -> Input] BY <1>2
  <2> HIDE DEF in
  <2>3. QED BY <1>1, <1>3, <1>5, <2>1, <2>2
<1>6. QED BY <1>4, <1>5

\* The invariant of a button that is described.
LEMMA ButtonsStart == ASSUME ButtonAssumption, Init PROVE ButtonInv
<1>1. PICK ps \in {{1}, {1, 2}}, in \in [Position -> Input] :
        \E state \in Describes(1, in[1]) :
          ButtonInit(ps, in, state) /\ (Is("button") => in \in ButtonStarts)
  BY ButtonDescribed
<1>2. PICK state \in Describes(1, in[1]) : ButtonInit(ps, in, state)
  BY <1>1
<1>3. state = <<>> \/ \E r \in ButtonReports : state = <<r>> BY <1>2, DescribedState
<1>4. fromDevice = <<>> BY ButtonDescribed DEF LinkInit
<1>5. ps \subseteq Position BY DEF Position
<1>6. QED BY <1>2, <1>3, <1>4, <1>5 DEF ButtonInit, ButtonInv, Input

\* It holds in every behaviour.
LEMMA ButtonInvariant == Spec => []ButtonInv
<1>1. Init => ButtonInv BY ButtonsStart, ButtonAssumption
<1>2. ButtonInv /\ [Next]_vars => ButtonInv'
  BY ButtonStep, ButtonAssumption
<1>3. QED BY <1>1, <1>2, PTL DEF Spec

\* Each release is told once, after a press was, and for the position whose press
\* was told last, for rockers too, when the connection breaks in between, and when
\* the description tells of a press (p44devices.cpp 975, 1022, 1029, 1049).
THEOREM ReleasesMatchPresses == Spec => ReleasesPaired
<1> DEFINE ReleasesPair ==
      \A i \in DOMAIN told' :
        told' # told /\ told'[i].event \in {"ShortRelease", "LongRelease"} =>
          pressed # 0 /\ told'[i].at = pressed
<1>1. ButtonInv /\ [Next]_vars => [ReleasesPair]_buttonVars
  <2> SUFFICES ASSUME ButtonInv, [Next]_vars
               PROVE  ReleasesPair \/ UNCHANGED buttonVars
    OBVIOUS
  <2>1. CASE told' = told
    BY <2>1
  <2>2. CASE told' # told
    <3>1. ButtonSteps
      BY <2>2 DEF Next, vars, buttonVars, IdentifySteps, FanSteps, InputSteps, CoverSteps,
                  ColorSteps, CCSteps, RoomSteps, MappingSteps, NameSteps
    <3>2. ButtonReport(Head(fromDevice)) \/ InstallButton
      BY <2>2, <3>1 DEF ButtonSteps, ButtonNext, Press, Release, Finish, Hold, HoldEnd,
                        ButtonHappens, ButtonLost, buttonVars
    <3>3. CASE ButtonReport(Head(fromDevice))
      <4>1. /\ Head(fromDevice) \in ButtonReports
            /\ ParseButtonState(Head(fromDevice), clicks, position) /\ fitted' = fitted
        BY <3>1, <3>3, ReportTyped DEF ButtonInv, ButtonSteps, ButtonReport
      <4>2. position \in 0 .. 2 /\ (fitted' /\ position # 0 => pressed = position)
        BY <4>1 DEF ButtonInv
      <4>3. QED BY <4>1, <4>2, ReleaseOfActive
    <3>4. CASE InstallButton
      <4>1. PICK r \in ButtonReports : switchInfo = <<r>>
        BY <2>2, <3>4 DEF InstallButton, ButtonInv
      <4>2. ParseButtonState(r, 0, 0) BY <3>4, <4>1 DEF InstallButton
      <4>3. QED BY <4>2, ReleaseOfActive
    <3>5. QED BY <3>2, <3>3, <3>4
  <2>3. QED BY <2>1, <2>2
<1>2. QED BY <1>1, ButtonInvariant, PTL DEF Spec, ReleasesPaired

---------------------------------------------------------------------------
(* Buttons: each report under way continues the one before it, and the last *)
(* one leads to what the button does now.                                   *)

\* The position and the count that a report leads to, when it continues what
\* came before: position and count s.
After(r) ==
  [position |-> IF r.value THEN r.at ELSE 0,
   clicks |-> IF r.click = "complete" THEN 0
              ELSE IF r.click = "progress" /\ r.value THEN r.presses + 1 ELSE r.presses]

Continues(s, r) ==
  /\ s.clicks = r.presses
  /\ r.click = "complete" \/ (r.click = "progress" /\ r.value) => s.position = 0

\* What comes before and what comes after the reports q.
Before(q, s, k) == IF k = 1 THEN s ELSE After(q[k - 1])
Follows(q, s) == \A k \in 1 .. Len(q) : Continues(Before(q, s, k), q[k])
EndOf(q, s) == Before(q, s, Len(q) + 1)

Reported == [position |-> position, clicks |-> clicks]

\* What the description makes of it when the device is installed.
Replay ==
  IF switchInfo = <<>> THEN [position |-> 0, clicks |-> 0]
  ELSE [position |-> To(switchInfo[1]), clicks |-> ClicksAfter(switchInfo[1], 0, 0)]

Now == IF fitted THEN Reported ELSE Replay

\* What the button p does, as a position and a count; at most one is not idle.
Does(in, p) ==
  [position |-> IF in[p].phase \in {"idle", "up"} THEN 0 ELSE p, clicks |-> in[p].presses]

AloneIn(ps, in, p) == \A q \in ps \ {p} : in[q] = Idle

DoneBy(ps, in, s) ==
  \/ (\A p \in ps : in[p] = Idle) /\ s = [position |-> 0, clicks |-> 0]
  \/ \E p \in ps : in[p].phase # "idle" /\ AloneIn(ps, in, p) /\ s = Does(in, p)

CountInv ==
  Is("button") =>
    /\ \A p \in positions : input[p].phase = "idle" => input[p] = Idle
    /\ ~linkUp => fromDevice = <<>>
    /\ ~mixed => /\ linkUp \/ \A p \in positions : input[p] = Idle
                 /\ Follows(fromDevice, Now)
                 /\ DoneBy(positions, input, EndOf(fromDevice, Now))

\* A report that is pushed, and one that is taken.
LEMMA FollowsOneMore ==
  ASSUME NEW q \in Seq(ButtonReports), NEW s, NEW r \in ButtonReports,
         Follows(q, s), Continues(EndOf(q, s), r)
  PROVE  Follows(Append(q, r), s) /\ EndOf(Append(q, r), s) = After(r)
<1> DEFINE a == Append(q, r)
<1>1. /\ Len(q) \in Nat /\ Len(a) = Len(q) + 1 /\ a[Len(q) + 1] = r
      /\ \A k \in 1 .. Len(q) : a[k] = q[k]
  OBVIOUS
<1> HIDE DEF a
<1>2. EndOf(a, s) = After(r)
  BY <1>1 DEF EndOf, Before
<1>3. ASSUME NEW k \in 1 .. Len(a) PROVE Continues(Before(a, s, k), a[k])
  <2>1. CASE k \in 1 .. Len(q)
    <3>1. k - 1 \in 1 .. Len(q) \/ k = 1 BY <1>1, <2>1
    <3>2. Before(a, s, k) = Before(q, s, k) BY <1>1, <3>1 DEF Before
    <3>3. QED BY <1>1, <2>1, <3>2 DEF Follows
  <2>2. CASE k = Len(q) + 1
    <3>1. k = 1 \/ k - 1 \in 1 .. Len(q) BY <1>1, <2>2
    <3>2. Before(a, s, k) = EndOf(q, s) BY <1>1, <2>2, <3>1 DEF Before, EndOf
    <3>3. QED BY <1>1, <2>2, <3>2
  <2>3. QED BY <1>1, <2>1, <2>2
<1>4. Follows(a, s) BY <1>3 DEF Follows
<1>5. QED BY <1>2, <1>4 DEF a

LEMMA FollowsTheRest ==
  ASSUME NEW q \in Seq(ButtonReports), q # <<>>, NEW s, Follows(q, s)
  PROVE  /\ Continues(s, Head(q))
         /\ Follows(Tail(q), After(Head(q)))
         /\ EndOf(Tail(q), After(Head(q))) = EndOf(q, s)
<1> DEFINE t == Tail(q)
<1>1. /\ Len(q) \in Nat \ {0} /\ Len(t) = Len(q) - 1 /\ Head(q) = q[1]
      /\ \A k \in 1 .. Len(t) : t[k] = q[k + 1]
  OBVIOUS
<1> HIDE DEF t
<1>2. \A k \in 1 .. Len(t) + 1 : Before(t, After(q[1]), k) = Before(q, s, k + 1)
  <2> TAKE k \in 1 .. Len(t) + 1
  <2>1. CASE k = 1 BY <2>1 DEF Before
  <2>2. CASE k # 1
    <3>1. k - 1 \in 1 .. Len(t) BY <1>1, <2>2
    <3>2. t[k - 1] = q[k] BY <1>1, <3>1
    <3>3. k + 1 # 1 /\ (k + 1) - 1 = k BY <1>1
    <3>4. QED BY <2>2, <3>2, <3>3 DEF Before
  <2>3. QED BY <2>1, <2>2
<1>3. ASSUME NEW k \in 1 .. Len(t) PROVE Continues(Before(t, After(q[1]), k), t[k])
  <2>1. k + 1 \in 1 .. Len(q) /\ k \in 1 .. Len(t) + 1 BY <1>1
  <2>2. Continues(Before(q, s, k + 1), q[k + 1]) BY <2>1 DEF Follows
  <2>3. QED BY <1>1, <1>2, <2>1, <2>2
<1>4. Continues(s, q[1])
  <2>1. 1 \in 1 .. Len(q) BY <1>1
  <2>2. Continues(Before(q, s, 1), q[1]) BY <2>1 DEF Follows
  <2>3. QED BY <2>2 DEF Before
<1>5. EndOf(t, After(q[1])) = EndOf(q, s)
  <2>1. Len(t) + 1 \in 1 .. Len(t) + 1 /\ (Len(t) + 1) + 1 = Len(q) + 1 BY <1>1
  <2>2. QED BY <1>2, <2>1 DEF EndOf
<1>6. QED BY <1>1, <1>3, <1>4, <1>5 DEF Follows, t

\* What a report that continues does; a sequence that ends is told with its count.
LEMMA ParsedCount ==
  ASSUME ButtonInv, NEW r \in ButtonReports, fitted',
         ParseButtonState(r, clicks, position), Continues(Reported, r)
  PROVE  /\ Reported' = After(r)
         /\ r.click = "complete" => told' = Event("MultiPressComplete", 0, r.presses)
<1>1. /\ clicks' = ClicksAfter(r, clicks, position) /\ told' = Events(r, clicks, position)
      /\ position' = IF Evaluated(r, position) THEN To(r) ELSE position
  BY DEF ParseButtonState
<1>2. clicks = r.presses /\ r.presses \in Nat
  BY DEF Continues, Reported, ButtonReports
<1>3. r.click = "complete" \/ (r.click = "progress" /\ r.value) => position = 0
  BY DEF Continues, Reported
<1>4. /\ r.click \in ClickTypes /\ (r.value => r.at # 0)
      /\ r.value => r.click \in {"progress", "hold"}
      /\ To(r) = IF r.value THEN r.at ELSE 0
  BY DEF ButtonReports, Position, To
<1>5. position' = To(r)
  BY <1>1 DEF Evaluated
<1>6. clicks' = IF r.click = "complete" THEN 0
                ELSE IF r.click = "progress" /\ r.value THEN r.presses + 1 ELSE r.presses
  BY <1>1, <1>2, <1>3, <1>4 DEF ClicksAfter, Evaluated, ClickTypes
<1>7. Reported' = After(r)
  BY <1>4, <1>5, <1>6 DEF Reported, After
<1>8. ASSUME r.click = "complete" PROVE told' = Event("MultiPressComplete", 0, r.presses)
  <2>1. To(r) = 0 /\ position = 0 BY <1>3, <1>4, <1>8
  <2>2. Events(r, clicks, position) = Event("MultiPressComplete", position, clicks)
    BY <1>8, <2>1 DEF Events, Evaluated
  <2>3. QED BY <1>1, <1>2, <2>1, <2>2
<1>9. QED BY <1>7, <1>8

\* The end of what is under way, for a button that is the only one that acts.
LEMMA EndIsDone ==
  ASSUME NEW ps, NEW in, NEW s, DoneBy(ps, in, s), NEW p \in ps,
         in[p].phase = "idle" => in[p] = Idle,
         AloneIn(ps, in, p) \/ in[p].phase # "idle"
  PROVE  AloneIn(ps, in, p) /\ s = Does(in, p)
<1>1. Idle.phase = "idle" /\ Idle.presses = 0 BY DEF Idle
<1>2. CASE (\A q \in ps : in[q] = Idle) /\ s = [position |-> 0, clicks |-> 0]
  BY <1>1, <1>2 DEF AloneIn, Does
<1>3. ASSUME NEW q \in ps, in[q].phase # "idle", AloneIn(ps, in, q), s = Does(in, q)
      PROVE  AloneIn(ps, in, p) /\ s = Does(in, p)
  <2>1. p = q BY <1>1, <1>3 DEF AloneIn
  <2>2. QED BY <1>3, <2>1
<1>4. QED BY <1>2, <1>3 DEF DoneBy

\* A button that does something keeps the invariant when its reports continue.
LEMMA HappensCounts ==
  ASSUME ButtonInv, CountInv, Is("button"), NEW p \in Position,
         NEW phase \in {"idle", "down", "held", "up"},
         NEW presses \in 0 .. MaxPresses, NEW reports \in Seq(ButtonReports),
         ButtonHappens(p, phase, presses, reports), UNCHANGED kind,
         phase = "idle" => presses = 0,
         ~mixed' => /\ ~mixed /\ linkUp /\ AloneIn(positions, input, p)
                    /\ Follows(fromDevice \o reports, Now)
                    /\ EndOf(fromDevice \o reports, Now)
                       = [position |-> IF phase \in {"idle", "up"} THEN 0 ELSE p, clicks |-> presses]
  PROVE  CountInv'
<1>1. /\ UNCHANGED <<fitted, switchInfo, positions, clicks, position, linkUp>> /\ p \in positions
      /\ input' = [input EXCEPT ![p] = [phase |-> phase, presses |-> presses]]
      /\ fromDevice' = IF linkUp THEN fromDevice \o reports ELSE fromDevice
  BY DEF ButtonHappens, Happens, Push
<1>2. /\ input'[p].phase = phase /\ input'[p].presses = presses
      /\ phase = "idle" => input'[p] = Idle
      /\ \A q \in positions \ {p} : input'[q] = input[q]
  BY <1>1 DEF ButtonInv, Idle
<1>3. \A q \in positions' : input'[q].phase = "idle" => input'[q] = Idle
  BY <1>1, <1>2 DEF CountInv
<1>4. ~linkUp' => fromDevice' = <<>> BY <1>1 DEF CountInv
<1>5. ASSUME ~mixed'
      PROVE  linkUp' /\ Follows(fromDevice', Now') /\ DoneBy(positions', input', EndOf(fromDevice', Now'))
  <2>1. fromDevice' = fromDevice \o reports /\ linkUp' /\ Now' = Now
    BY <1>1, <1>5 DEF Now, Reported, Replay
  <2>2. AloneIn(positions', input', p) BY <1>1, <1>2, <1>5 DEF AloneIn
  <2>3. EndOf(fromDevice', Now')
        = [position |-> IF phase \in {"idle", "up"} THEN 0 ELSE p, clicks |-> presses]
    BY <1>5, <2>1
  <2>4. Follows(fromDevice', Now') BY <1>5, <2>1
  <2>5. CASE phase = "idle"
    <3>1. \A q \in positions' : input'[q] = Idle BY <1>1, <1>2, <2>2, <2>5 DEF AloneIn
    <3>2. QED BY <2>1, <2>3, <2>4, <2>5, <3>1 DEF DoneBy
  <2>6. CASE phase # "idle"
    <3>1. EndOf(fromDevice', Now') = Does(input', p) BY <1>2, <2>3 DEF Does
    <3>2. QED BY <1>1, <1>2, <2>1, <2>2, <2>4, <2>6, <3>1 DEF DoneBy
  <2>7. QED BY <2>5, <2>6
<1>6. QED BY <1>3, <1>4, <1>5 DEF CountInv

\* Every step keeps the invariant.
LEMMA CountStep ==
  ASSUME ButtonAssumption, ButtonInv, CountInv, [Next]_vars
  PROVE  CountInv'
<1>1. ASSUME kind # "button", UNCHANGED kind PROVE CountInv'
  BY <1>1 DEF CountInv, Is
<1>2. CASE ButtonSteps
  <2>1. Is("button") /\ UNCHANGED kind /\ fromDevice \in Seq(ButtonReports)
    BY <1>2 DEF ButtonSteps, ButtonInv
  <2>2. /\ \A q \in positions : input[q].phase = "idle" => input[q] = Idle
        /\ ~linkUp => fromDevice = <<>>
        /\ ~mixed => /\ linkUp \/ \A q \in positions : input[q] = Idle
                     /\ Follows(fromDevice, Now)
                     /\ DoneBy(positions, input, EndOf(fromDevice, Now))
    BY <2>1 DEF CountInv
  <2>3. \A p \in Position : /\ input[p].presses \in 0 .. MaxPresses
                            /\ input[p].phase \in {"idle", "down", "held", "up"}
    BY DEF ButtonInv
  <2>4. \A p \in Position, click \in ClickTypes :
          /\ State(p, FALSE, click) \in ButtonReports
          /\ click \in {"progress", "hold"} => State(p, TRUE, click) \in ButtonReports
    BY <2>3 DEF State, ButtonReports
  <2>5. ASSUME NEW p \in positions, ~mixed, AloneIn(positions, input, p) \/ input[p].phase # "idle"
        PROVE  AloneIn(positions, input, p) /\ EndOf(fromDevice, Now) = Does(input, p)
    BY <2>2, <2>5, EndIsDone
  <2>6. ASSUME NEW p \in Position, NEW phase \in {"idle", "down", "held", "up"},
               NEW presses \in 0 .. MaxPresses, NEW r \in ButtonReports,
               ButtonHappens(p, phase, presses, <<r>>), phase = "idle" => presses = 0,
               ~mixed' => ~mixed /\ linkUp /\ (AloneIn(positions, input, p) \/ input[p].phase # "idle"),
               Continues(Does(input, p), r),
               After(r) = [position |-> IF phase \in {"idle", "up"} THEN 0 ELSE p, clicks |-> presses]
        PROVE  CountInv'
    <3>1. <<r>> \in Seq(ButtonReports) OBVIOUS
    <3>2. p \in positions BY <2>6 DEF ButtonHappens
    <3>3. ASSUME ~mixed'
          PROVE  /\ ~mixed /\ linkUp /\ AloneIn(positions, input, p)
                 /\ Follows(fromDevice \o <<r>>, Now)
                 /\ EndOf(fromDevice \o <<r>>, Now)
                    = [position |-> IF phase \in {"idle", "up"} THEN 0 ELSE p, clicks |-> presses]
      <4>1. ~mixed /\ linkUp /\ (AloneIn(positions, input, p) \/ input[p].phase # "idle")
        BY <2>6, <3>3
      <4>2. AloneIn(positions, input, p) /\ EndOf(fromDevice, Now) = Does(input, p)
        BY <2>5, <3>2, <4>1
      <4>3. Follows(fromDevice, Now) /\ Continues(EndOf(fromDevice, Now), r)
        BY <2>2, <2>6, <4>1, <4>2
      <4>4. Follows(Append(fromDevice, r), Now) /\ EndOf(Append(fromDevice, r), Now) = After(r)
        BY <2>1, <4>3, FollowsOneMore
      <4>5. fromDevice \o <<r>> = Append(fromDevice, r) BY <2>1
      <4>6. QED BY <2>6, <4>1, <4>2, <4>4, <4>5
    <3>4. QED BY <2>1, <2>6, <3>1, <3>3, HappensCounts
  <2>7. ASSUME NEW p \in Position, NEW r \in ButtonReports, NEW e \in ButtonReports,
               ButtonHappens(p, "idle", 0, <<r, e>>),
               ~mixed' => ~mixed /\ linkUp, input[p].phase # "idle",
               Continues(Does(input, p), r), Continues(After(r), e),
               After(e) = [position |-> 0, clicks |-> 0]
        PROVE  CountInv'
    <3>1. <<r, e>> \in Seq(ButtonReports) /\ 0 \in 0 .. MaxPresses BY ButtonAssumption
    <3>2. p \in positions BY <2>7 DEF ButtonHappens
    <3>3. ASSUME ~mixed'
          PROVE  /\ ~mixed /\ linkUp /\ AloneIn(positions, input, p)
                 /\ Follows(fromDevice \o <<r, e>>, Now)
                 /\ EndOf(fromDevice \o <<r, e>>, Now)
                    = [position |-> IF "idle" \in {"idle", "up"} THEN 0 ELSE p, clicks |-> 0]
      <4>1. ~mixed /\ linkUp BY <2>7, <3>3
      <4>2. AloneIn(positions, input, p) /\ EndOf(fromDevice, Now) = Does(input, p)
        BY <2>5, <2>7, <3>2, <4>1
      <4>3. Follows(fromDevice, Now) /\ Continues(EndOf(fromDevice, Now), r)
        BY <2>2, <2>7, <4>1, <4>2
      <4> DEFINE q == Append(fromDevice, r)
      <4>4. Follows(q, Now) /\ EndOf(q, Now) = After(r) /\ q \in Seq(ButtonReports)
        BY <2>1, <4>3, FollowsOneMore
      <4>5. Follows(Append(q, e), Now) /\ EndOf(Append(q, e), Now) = After(e)
        BY <2>7, <4>4, FollowsOneMore
      <4>6. fromDevice \o <<r, e>> = Append(q, e) BY <2>1
      <4>7. QED BY <2>7, <4>1, <4>2, <4>5, <4>6
    <3>4. QED BY <2>1, <2>7, <3>1, <3>3, HappensCounts
  <2>8. ASSUME NEW p \in Position, Press(p) PROVE CountInv'
    <3>1. input[p].presses + 1 \in 0 .. MaxPresses
      BY <2>3, <2>8, ButtonAssumption DEF Press
    <3>2. State(p, TRUE, "progress") \in ButtonReports BY <2>4, Zenon DEF ClickTypes
    <3>3. ~mixed' => ~mixed /\ linkUp /\ AloneIn(positions, input, p)
      BY <2>8 DEF Press, AloneIn
    <3>4. Continues(Does(input, p), State(p, TRUE, "progress"))
      BY <2>8 DEF Press, Continues, Does, State
    <3>5. After(State(p, TRUE, "progress")) = [position |-> p, clicks |-> input[p].presses + 1]
      BY DEF After, State
    <3>6. ButtonHappens(p, "down", input[p].presses + 1, <<State(p, TRUE, "progress")>>)
      BY <2>8 DEF Press
    <3>7. QED BY <2>6, <3>1, <3>2, <3>3, <3>4, <3>5, <3>6
  <2>9. ASSUME NEW p \in Position, Release(p) PROVE CountInv'
    <3>1. PICK click \in {"progress", "count"} :
            ButtonHappens(p, "up", input[p].presses, <<State(p, FALSE, click)>>)
      BY <2>9 DEF Release
    <3>2. State(p, FALSE, click) \in ButtonReports BY <2>4, Zenon DEF ClickTypes
    <3>3. (~mixed' => ~mixed /\ linkUp) /\ input[p].phase = "down"
      BY <2>9 DEF Release
    <3>4. Continues(Does(input, p), State(p, FALSE, click))
      BY DEF Continues, Does, State
    <3>5. After(State(p, FALSE, click)) = [position |-> 0, clicks |-> input[p].presses]
      BY DEF After, State
    <3>6. QED BY <2>3, <2>6, <3>1, <3>2, <3>3, <3>4, <3>5
  <2>10. ASSUME NEW p \in Position, Finish(p) PROVE CountInv'
    <3>1. State(p, FALSE, "count") \in ButtonReports /\ State(p, FALSE, "complete") \in ButtonReports
      BY <2>4, Zenon DEF ClickTypes
    <3>2. (~mixed' => ~mixed /\ linkUp) /\ input[p].phase = "up"
          /\ ButtonHappens(p, "idle", 0, <<State(p, FALSE, "count"), State(p, FALSE, "complete")>>)
      BY <2>10 DEF Finish
    <3>3. /\ Continues(Does(input, p), State(p, FALSE, "count"))
          /\ Continues(After(State(p, FALSE, "count")), State(p, FALSE, "complete"))
          /\ After(State(p, FALSE, "complete")) = [position |-> 0, clicks |-> 0]
      BY <3>2 DEF Continues, Does, State, After
    <3>4. QED BY <2>7, <3>1, <3>2, <3>3
  <2>11. ASSUME NEW p \in Position, Hold(p) PROVE CountInv'
    <3>1. State(p, TRUE, "hold") \in ButtonReports BY <2>4, Zenon DEF ClickTypes
    <3>2. (~mixed' => ~mixed /\ linkUp) /\ input[p].phase = "down"
          /\ ButtonHappens(p, "held", input[p].presses, <<State(p, TRUE, "hold")>>)
      BY <2>11 DEF Hold
    <3>3. Continues(Does(input, p), State(p, TRUE, "hold"))
          /\ After(State(p, TRUE, "hold")) = [position |-> p, clicks |-> input[p].presses]
      BY DEF Continues, Does, State, After
    <3>4. QED BY <2>3, <2>6, <3>1, <3>2, <3>3
  <2>12. ASSUME NEW p \in Position, HoldEnd(p) PROVE CountInv'
    <3>1. State(p, FALSE, "hold_end") \in ButtonReports /\ State(p, FALSE, "complete") \in ButtonReports
      BY <2>4, Zenon DEF ClickTypes
    <3>2. (~mixed' => ~mixed /\ linkUp) /\ input[p].phase = "held"
          /\ ButtonHappens(p, "idle", 0, <<State(p, FALSE, "hold_end"), State(p, FALSE, "complete")>>)
      BY <2>12 DEF HoldEnd
    <3>3. /\ Continues(Does(input, p), State(p, FALSE, "hold_end"))
          /\ Continues(After(State(p, FALSE, "hold_end")), State(p, FALSE, "complete"))
          /\ After(State(p, FALSE, "complete")) = [position |-> 0, clicks |-> 0]
      BY <3>2 DEF Continues, Does, State, After
    <3>4. QED BY <2>7, <3>1, <3>2, <3>3
  <2>13. ASSUME ButtonReport(Head(fromDevice)) PROVE CountInv'
    <3> DEFINE r == Head(fromDevice)
    <3>1. /\ fromDevice # <<>> /\ fromDevice' = Tail(fromDevice)
          /\ ParseButtonState(r, clicks, position)
          /\ mixed' = (fitted => mixed /\ ~(r.click = "complete" /\ AllIdle /\ Len(fromDevice) = 1))
          /\ UNCHANGED <<fitted, linkUp, positions, input>>
      BY <2>13 DEF ButtonReport, Report
    <3>2. r \in ButtonReports BY <2>1, <3>1
    <3>3. linkUp BY <2>2, <3>1
    <3> HIDE DEF r
    <3>4. CASE mixed'
      BY <2>2, <3>1, <3>3, <3>4 DEF CountInv
    <3>5. ASSUME ~mixed' PROVE fitted /\ fitted' /\ Now = Reported /\ Now' = Reported'
      BY <3>1, <3>5 DEF Now
    <3>6. CASE ~mixed /\ ~mixed'
      <4>1. /\ Continues(Reported, r) /\ Follows(Tail(fromDevice), After(r))
            /\ EndOf(Tail(fromDevice), After(r)) = EndOf(fromDevice, Reported)
        BY <2>1, <2>2, <3>1, <3>5, <3>6, FollowsTheRest DEF r
      <4>2. Reported' = After(r) BY <3>1, <3>2, <3>5, <3>6, <4>1, ParsedCount
      <4>3. Follows(fromDevice', Now') /\ DoneBy(positions', input', EndOf(fromDevice', Now'))
        BY <2>2, <3>1, <3>5, <3>6, <4>1, <4>2
      <4>4. QED BY <2>2, <3>1, <3>3, <4>3 DEF CountInv
    <3>7. CASE mixed /\ ~mixed'
      <4>1. r.click = "complete" /\ AllIdle /\ Len(fromDevice) = 1 BY <3>1, <3>7
      <4>2. Len(fromDevice') = 0 BY <2>1, <3>1, <4>1
      <4>3. Now' = [position |-> 0, clicks |-> 0]
        <5>1. To(r) = 0 BY <3>2, <4>1 DEF ButtonReports, To
        <5>2. clicks' = 0 /\ position' = 0
          BY <3>1, <4>1, <5>1 DEF ParseButtonState, Evaluated, ClicksAfter
        <5>3. QED BY <3>5, <3>7, <5>2 DEF Reported
      <4>4. Follows(fromDevice', Now') BY <4>2 DEF Follows
      <4>5. EndOf(fromDevice', Now') = [position |-> 0, clicks |-> 0]
        BY <4>2, <4>3 DEF EndOf, Before
      <4>6. \A p \in positions' : input'[p] = Idle BY <3>1, <4>1 DEF AllIdle
      <4>7. QED BY <3>1, <3>3, <4>4, <4>5, <4>6, <2>2 DEF CountInv, DoneBy
    <3>8. QED BY <3>4, <3>6, <3>7
  <2>14. CASE ButtonLost
    <3>1. /\ fromDevice' = <<>> /\ UNCHANGED <<fitted, switchInfo, positions, input, clicks, position>>
          /\ mixed' = (mixed \/ fromDevice # <<>> \/ ~AllIdle)
      BY <2>14 DEF ButtonLost, LinkLost
    <3>2. CASE mixed' BY <2>2, <3>1, <3>2 DEF CountInv
    <3>3. CASE ~mixed'
      <4>1. ~mixed /\ fromDevice' = fromDevice /\ \A q \in positions : input[q] = Idle
        BY <3>1, <3>3 DEF AllIdle
      <4>2. Now' = Now BY <3>1 DEF Now, Reported, Replay
      <4>3. QED BY <2>2, <3>1, <4>1, <4>2 DEF CountInv
    <3>4. QED BY <3>2, <3>3
  <2>15. CASE LinkReconnect /\ UNCHANGED buttonVars
    <3>1. /\ UNCHANGED <<fromDevice, fitted, switchInfo, positions, input, clicks, position, mixed>>
          /\ linkUp'
      BY <2>15 DEF LinkReconnect, queues, buttonVars
    <3>2. Now' = Now BY <3>1 DEF Now, Reported, Replay
    <3>3. QED BY <2>2, <3>1, <3>2 DEF CountInv
  <2>16. CASE InstallButton
    <3>1. /\ ~fitted /\ fitted' /\ UNCHANGED <<linkUp, fromDevice, positions, input, mixed>>
      BY <2>16 DEF InstallButton, link, queues
    <3>2. Reported' = Replay
      <4>1. CASE switchInfo = <<>> BY <2>16, <4>1 DEF InstallButton, Reported, Replay
      <4>2. CASE switchInfo # <<>>
        <5>1. ParseButtonState(switchInfo[1], 0, 0) BY <2>16, <4>2 DEF InstallButton
        <5>2. clicks' = ClicksAfter(switchInfo[1], 0, 0) /\ position' = To(switchInfo[1])
          BY <5>1 DEF ParseButtonState, Evaluated
        <5>3. QED BY <4>2, <5>2 DEF Reported, Replay
      <4>3. QED BY <4>1, <4>2
    <3>3. Now' = Now BY <3>1, <3>2 DEF Now
    <3>4. QED BY <2>1, <2>2, <3>1, <3>3 DEF CountInv
  <2>17. QED
    BY <1>2, <2>8, <2>9, <2>10, <2>11, <2>12, <2>13, <2>14, <2>15, <2>16 DEF ButtonSteps, ButtonNext
<1>3. CASE UNCHANGED vars
  <2>1. UNCHANGED <<kind, linkUp, fromDevice, fitted, switchInfo, positions, input, clicks, position,
                    mixed>>
    BY <1>3 DEF vars, buttonVars, link, queues
  <2>2. Now' = Now BY <2>1 DEF Now, Reported, Replay
  <2>3. QED BY <2>1, <2>2 DEF CountInv, Is
<1>4. QED
  BY <1>1, <1>2, <1>3 DEF Next, IdentifySteps, FanSteps, InputSteps, CoverSteps, Is,
                          ColorSteps, CCSteps, RoomSteps, MappingSteps, NameSteps

\* A sequence that ends is told with the number of its presses, however many sequences
\* are under way, also if it began just before the device was described; unless
\* sequences overlap or were broken, or were further on, or reported, before the
\* device was installed (p44devices.cpp 960-975, 1014-1052).
THEOREM ClicksAreCounted == Spec => ClicksCounted
<1> DEFINE EndsCounted ==
      \A i \in DOMAIN fromDevice \cap {1} :
        SequenceEnds(fromDevice[i]) /\ fitted /\ ~mixed /\ Report(fromDevice[i]) =>
          told' = Event("MultiPressComplete", 0, fromDevice[i].presses)
<1>1. Init => ButtonInv /\ CountInv
  <2>1. ASSUME Init, Is("button") PROVE CountInv
    <3>1. PICK ps \in {{1}, {1, 2}}, in \in ButtonStarts :
            \E state \in Describes(1, in[1]) : ButtonInit(ps, in, state)
      BY <2>1, ButtonDescribed, ButtonAssumption
    <3>2. PICK state \in Describes(1, in[1]) : ButtonInit(ps, in, state) BY <3>1
    <3>3. linkUp /\ Len(fromDevice) = 0
      BY <2>1, ButtonDescribed, ButtonAssumption DEF LinkInit
    <3>4. /\ positions = ps /\ input = in /\ switchInfo = state /\ ~fitted /\ mixed = ~Plain(ps, in)
      BY <3>2 DEF ButtonInit
    <3>5. /\ in \in [Position -> Input] /\ ps \subseteq Position /\ 1 \in ps
          /\ \A p \in Position : in[p].phase = "idle" <=> in[p].presses = 0
      BY <3>1, ButtonAssumption DEF ButtonAssumption, Position
    <3>6. \A p \in ps : in[p].phase = "idle" => in[p] = Idle
      BY <3>5 DEF Input, Idle
    <3>7. ASSUME ~mixed PROVE DoneBy(positions, input, Now)
      <4>1. PICK doing \in {Idle, [phase |-> "down", presses |-> 1]} :
              \A p \in ps : in[p] = IF p = FirstOf(ps) THEN doing ELSE Idle
        BY <3>4, <3>7 DEF Plain
      <4>2. FirstOf(ps) = 1 /\ in[1] = doing BY <3>5, <4>1 DEF FirstOf
      <4>3. CASE doing = Idle
        <5>1. in[1].phase = "idle" /\ \A p \in ps : in[p] = Idle BY <4>1, <4>2, <4>3 DEF Idle
        <5>2. Replay = [position |-> 0, clicks |-> 0]
          BY <3>2, <3>4, <5>1 DEF Describes, Replay, To, ClicksAfter, Evaluated
        <5>3. QED BY <3>4, <5>1, <5>2 DEF DoneBy, Now
      <4>4. CASE doing # Idle
        <5>1. in[1].phase = "down" /\ in[1].presses = 1 BY <4>1, <4>2, <4>4
        <5>2. switchInfo = <<[at |-> 1, value |-> TRUE, click |-> "progress", presses |-> 1]>>
          BY <3>2, <3>4, <5>1 DEF Describes
        <5>3. Replay = [position |-> 1, clicks |-> 1]
          BY <5>2 DEF Replay, To, ClicksAfter, Evaluated
        <5>4. AloneIn(ps, in, 1) BY <4>1, <4>2 DEF AloneIn
        <5>5. Does(in, 1) = [position |-> 1, clicks |-> 1] BY <5>1 DEF Does
        <5>6. QED BY <3>4, <3>5, <5>1, <5>3, <5>4, <5>5 DEF DoneBy, Now
      <4>5. QED BY <4>3, <4>4
    <3>8. Follows(fromDevice, Now) /\ EndOf(fromDevice, Now) = Now
      BY <3>3 DEF Follows, EndOf, Before
    <3>9. QED BY <3>3, <3>4, <3>6, <3>7, <3>8 DEF CountInv
  <2>2. QED BY <2>1, ButtonsStart, ButtonAssumption DEF CountInv
<1>2. ButtonInv /\ CountInv /\ [Next]_vars => ButtonInv' /\ CountInv'
  BY ButtonStep, CountStep, ButtonAssumption
<1>3. ButtonInv /\ CountInv /\ [Next]_vars => [EndsCounted]_buttonVars
  <2> SUFFICES ASSUME ButtonInv, CountInv, [Next]_vars, ~UNCHANGED buttonVars,
                      NEW i \in DOMAIN fromDevice \cap {1},
                      SequenceEnds(fromDevice[i]), fitted, ~mixed, Report(fromDevice[i])
               PROVE  told' = Event("MultiPressComplete", 0, fromDevice[i].presses)
    OBVIOUS
  <2>1. ButtonSteps
    BY DEF Next, vars, buttonVars, IdentifySteps, FanSteps, InputSteps, CoverSteps,
           ColorSteps, CCSteps, RoomSteps, MappingSteps, NameSteps
  <2>2. Is("button") /\ ButtonNext /\ fromDevice \in Seq(ButtonReports) BY <2>1 DEF ButtonSteps, ButtonInv
  <2>3. /\ fromDevice # <<>> /\ fromDevice' = Tail(fromDevice) /\ heard' = TRUE
        /\ fromDevice[i] = Head(fromDevice)
    BY DEF Report
  <2>4. fromDevice[i] \in ButtonReports BY <2>2, <2>3
  <2>5. Len(fromDevice') = Len(fromDevice) - 1 /\ Len(fromDevice) \in Nat BY <2>2, <2>3
  <2>6. ASSUME NEW p \in Position, Press(p) \/ Release(p) \/ Finish(p) \/ Hold(p) \/ HoldEnd(p)
        PROVE  FALSE
    <3>1. PICK reports \in Seq(ButtonReports) : Push(reports)
      <4>1. \A click \in ClickTypes :
              /\ State(p, FALSE, click) \in ButtonReports
              /\ click \in {"progress", "hold"} => State(p, TRUE, click) \in ButtonReports
        BY DEF State, ButtonReports, ButtonInv
      <4>2. \A r, s \in ButtonReports : <<r>> \in Seq(ButtonReports) /\ <<r, s>> \in Seq(ButtonReports)
        OBVIOUS
      <4>3. \A click \in ClickTypes : State(p, FALSE, click) \in ButtonReports BY <4>1
      <4>4. /\ State(p, TRUE, "progress") \in ButtonReports /\ State(p, TRUE, "hold") \in ButtonReports
        BY <4>1, Zenon DEF ClickTypes
      <4>5. CASE Press(p) BY <4>2, <4>4, <4>5 DEF Press, ButtonHappens, Happens
      <4>6. CASE Release(p)
        <5>1. PICK click \in {"progress", "count"} : Push(<<State(p, FALSE, click)>>)
          BY <4>6 DEF Release, ButtonHappens, Happens
        <5>2. QED BY <4>2, <4>3, <5>1 DEF ClickTypes
      <4>7. CASE Finish(p)
        <5>1. Push(<<State(p, FALSE, "count"), State(p, FALSE, "complete")>>)
          BY <4>7 DEF Finish, ButtonHappens, Happens
        <5>2. State(p, FALSE, "count") \in ButtonReports /\ State(p, FALSE, "complete") \in ButtonReports
          BY <4>3 DEF ClickTypes
        <5>3. QED BY <4>2, <5>1, <5>2
      <4>8. CASE Hold(p) BY <4>2, <4>4, <4>8 DEF Hold, ButtonHappens, Happens
      <4>9. CASE HoldEnd(p)
        <5>1. Push(<<State(p, FALSE, "hold_end"), State(p, FALSE, "complete")>>)
          BY <4>9 DEF HoldEnd, ButtonHappens, Happens
        <5>2. State(p, FALSE, "hold_end") \in ButtonReports /\ State(p, FALSE, "complete") \in ButtonReports
          BY <4>3 DEF ClickTypes
        <5>3. QED BY <4>2, <5>1, <5>2
      <4>10. QED BY <2>6, <4>5, <4>6, <4>7, <4>8, <4>9
    <3>2. Len(fromDevice \o reports) = Len(fromDevice) + Len(reports) /\ Len(reports) \in Nat
      BY <2>2, <3>1
    <3>3. Len(fromDevice') >= Len(fromDevice) BY <2>5, <3>1, <3>2 DEF Push
    <3>4. QED BY <2>5, <3>3
  <2>7. ~ButtonLost /\ ~InstallButton BY <2>3 DEF ButtonLost, LinkLost, InstallButton
  <2>8. ButtonReport(Head(fromDevice)) BY <2>2, <2>6, <2>7 DEF ButtonNext
  <2>9. Continues(Reported, Head(fromDevice))
    BY <2>2, <2>3, FollowsTheRest DEF CountInv, Now
  <2>10. ParseButtonState(Head(fromDevice), clicks, position) /\ fitted'
    BY <2>8 DEF ButtonReport
  <2>11. QED
    BY <2>3, <2>4, <2>9, <2>10, ParsedCount DEF SequenceEnds
<1>4. QED BY <1>1, <1>2, <1>3, PTL DEF Spec, ClicksCounted

---------------------------------------------------------------------------
(* Fans: the setting that counts is under way, as the last notification, or *)
(* the fan runs at it.                                                      *)

Speeds == [speed : 0 .. 200]

FanTyped ==
  /\ percentCurrent \in Percent /\ speed \in 0 .. 200
  /\ Is("fan") => fromDevice \in Seq(Speeds) /\ toDevice \in Seq(Speeds)

FanSettled ==
  fanWanted # NoPercent =>
    /\ Is("fan") /\ linkUp /\ fanWanted \in Percent
    /\ IF toDevice = <<>> THEN FanShows(fanWanted)
       ELSE toDevice[Len(toDevice)].speed = FanFromPercent(fanWanted)

FanInv == FanTyped /\ FanSettled

\* A speed is shown as a percentage, and a percentage is sent as a speed.
LEMMA FanConversions ==
  ASSUME FanAssumption
  PROVE  /\ \A s \in 0 .. 200 : FanToPercent(s) \in Percent
         /\ \A p \in Percent : FanFromPercent(p) \in 0 .. 200
<1>1. \A s \in 0 .. 200 : s \div 2 \in Percent BY DEF Percent
<1>2. \A p \in FanShort : p - 1 \in Percent BY FanAssumption DEF Percent
<1>3. QED BY <1>1, <1>2 DEF FanToPercent, FanFromPercent, Percent

\* What a stage of HandleStep asks for.
LEMMA StageMoves ==
  ASSUME NEW p \in Percent, NEW lowest \in {0, 1}
  PROVE  /\ StagePercent(Stepped(Stage(p) + 1, FALSE, lowest)) >= p
         /\ StagePercent(Stepped(Stage(p) - 1, FALSE, 0)) <= p
         /\ \A wrap \in BOOLEAN, d \in {-1, 1} :
              StagePercent(Stepped(Stage(p) + d, wrap, lowest)) \in Percent
<1>1. Stage(p) \in 0 .. 3 /\ 33 * Stage(p) <= p + 16 /\ p + 16 < 33 * Stage(p) + 33
  BY DEF Stage, Percent
<1>2. QED BY <1>1 DEF Stepped, StagePercent, Percent

\* Every way to set the percentage keeps the invariant.
LEMMA SetPercentKeeps ==
  ASSUME FanAssumption, FanInv, Is("fan"), NEW p \in Percent, Command, SetPercent(p), UNCHANGED kind
  PROVE  FanInv'
<1>1. FanFromPercent(p) \in 0 .. 200 BY FanConversions
<1>2. UNCHANGED <<linkUp, fromDevice, percentCurrent, speed, kind>>
  BY DEF Command, SetPercent
<1>3. CASE UNCHANGED <<toDevice, fanWanted>>
  BY <1>2, <1>3 DEF FanInv, FanTyped, FanSettled, FanShows, Is
<1>4. CASE UpdateFanLevel(p) /\ fanWanted' = Settled(p)
  <2>1. CASE linkUp /\ p # percentCurrent
    <3>1. toDevice' = Append(toDevice, [speed |-> FanFromPercent(p)]) /\ fanWanted' = p
      BY <1>4, <2>1 DEF UpdateFanLevel, Notify, Settled, FanInv, FanTyped
    <3>2. [speed |-> FanFromPercent(p)] \in Speeds BY <1>1 DEF Speeds
    <3>3. /\ toDevice' \in Seq(Speeds) /\ toDevice' # <<>>
          /\ toDevice'[Len(toDevice')].speed = FanFromPercent(p)
      <4>1. toDevice \in Seq(Speeds) BY DEF FanInv, FanTyped
      <4>2. toDevice' \in Seq(Speeds) /\ toDevice' # <<>>
            /\ toDevice'[Len(toDevice')] = [speed |-> FanFromPercent(p)]
        BY ONLY <3>1, <3>2, <4>1
      <4>3. QED BY <4>2
    <3>4. QED BY <1>2, <2>1, <3>1, <3>3 DEF FanInv, FanTyped, FanSettled, Is
  <2>2. CASE ~(linkUp /\ p # percentCurrent)
    <3>1. toDevice' = toDevice
      BY <1>4, <2>2 DEF UpdateFanLevel, Notify, FanInv, FanTyped
    <3>2. fanWanted' # NoPercent => fanWanted' = p /\ linkUp /\ toDevice = <<>> /\ FanShows(p)
      BY <1>4, <2>2 DEF Settled, Quiet
    <3>3. QED BY <1>2, <3>1, <3>2 DEF FanInv, FanTyped, FanSettled, FanShows, Is
  <2>3. QED BY <2>1, <2>2
<1>5. QED BY <1>3, <1>4 DEF SetPercent

\* What the fan reports.
LEMMA RunsTyped == ASSUME NEW s \in 0 .. 200 PROVE Runs(s) \in Seq(Speeds)
<1>1. [speed |-> s] \in Speeds BY DEF Speeds
<1>2. QED BY <1>1 DEF Runs

\* Every step keeps the invariant.
LEMMA FanStep ==
  ASSUME FanAssumption, FanInv, [Next]_vars
  PROVE  FanInv'
<1>1. ASSUME ~Is("fan"), UNCHANGED <<kind, fanVars>> PROVE FanInv'
  BY <1>1 DEF FanInv, FanTyped, FanSettled, fanVars, Is
<1>2. CASE FanSteps
  <2> USE <1>2 DEF FanSteps
  <2>1. ASSUME NEW p \in FanPercents \cup ImpliedLevel, Command, SetPercent(p) PROVE FanInv'
    <3>1. p \in Percent BY FanAssumption DEF ImpliedLevel, Percent
    <3>2. QED BY <2>1, <3>1, SetPercentKeeps
  <2>2. ASSUME NEW d \in {-1, 1}, NEW wrap \in BOOLEAN, NEW lowestOff \in BOOLEAN,
               Step(d, wrap, lowestOff)
        PROVE  FanInv'
    <3> DEFINE p == StagePercent(
                 Stepped(Stage(percentCurrent) + d, wrap, IF lowestOff THEN 0 ELSE 1))
    <3>1. Command /\ SetPercent(p) BY <2>2 DEF Step
    <3>2. p \in Percent BY StageMoves DEF FanInv, FanTyped
    <3>3. QED BY <3>1, <3>2, SetPercentKeeps
  <2>3. ASSUME fromDevice # <<>>, ReportSpeed(Head(fromDevice).speed) PROVE FanInv'
    <3> DEFINE s == Head(fromDevice).speed
    <3>1. Head(fromDevice) \in Speeds /\ fromDevice' \in Seq(Speeds)
      BY <2>3 DEF ReportSpeed, Report, FanInv, FanTyped
    <3>2. percentCurrent' \in Percent
      BY <2>3, <3>1, FanConversions DEF ReportSpeed, Speeds
    <3>3. UNCHANGED <<linkUp, toDevice, speed, fanWanted>> BY <2>3 DEF ReportSpeed, Report
    <3>4. QED BY <3>1, <3>2, <3>3 DEF FanInv, FanTyped, FanSettled, FanShows, Is
  <2>4. ASSUME toDevice # <<>>, FanSet(Head(toDevice).speed) PROVE FanInv'
    <3> DEFINE s == Head(toDevice).speed
    <3>0. toDevice \in Seq(Speeds) BY <2>4 DEF FanInv, FanTyped
    <3>1. s \in 0 .. 200 /\ toDevice' = Tail(toDevice) /\ speed' = s
      <4>1. Head(toDevice) \in Speeds BY <2>4, <3>0
      <4>2. QED BY <2>4, <4>1 DEF FanSet, Deliver, Speeds
    <3>2. Runs(s) \in Seq(Speeds) BY <3>1, RunsTyped
    <3>3. fromDevice' \in Seq(Speeds)
      BY <2>4, <3>2, PushTyped DEF FanSet, Deliver, FanInv, FanTyped
    <3>4. FanTyped' BY <2>4, <3>1, <3>3 DEF FanSet, FanInv, FanTyped, Is
    <3>5. UNCHANGED <<linkUp, fanWanted, percentCurrent>> BY <2>4 DEF FanSet, Deliver
    <3>6. CASE fanWanted # NoPercent
      <4>1. toDevice[Len(toDevice)].speed = FanFromPercent(fanWanted)
        BY <2>4, <3>6 DEF FanInv, FanSettled
      <4>2. CASE toDevice' = <<>>
        <5>1. Len(toDevice) = 1
          <6>1. Len(toDevice) \in Nat /\ Len(toDevice) # 0 BY <2>4, <3>0
          <6>2. Len(toDevice') = Len(toDevice) - 1 BY <2>4, <3>0, <3>1
          <6>3. Len(toDevice') = 0 BY <4>2
          <6>4. QED BY <6>1, <6>2, <6>3
        <5>2. speed' = FanFromPercent(fanWanted) BY <2>4, <3>1, <4>1, <5>1 DEF FanInv, FanTyped
        <5>3. QED BY <3>4, <3>5, <4>2, <5>2 DEF FanInv, FanSettled, FanShows, Is
      <4>3. CASE toDevice' # <<>>
        <5>1. toDevice'[Len(toDevice')] = toDevice[Len(toDevice)]
          BY <2>4, <3>1, <4>3 DEF FanInv, FanTyped
        <5>2. QED BY <3>4, <3>5, <4>1, <4>3, <5>1 DEF FanInv, FanSettled, Is
      <4>4. QED BY <4>2, <4>3
    <3>7. QED BY <3>4, <3>5, <3>6 DEF FanInv, FanSettled
  <2>5. ASSUME NEW s \in FanSpeeds, FanOwn(s) PROVE FanInv'
    <3>1. Runs(s) \in Seq(Speeds) BY FanAssumption, RunsTyped
    <3>2. fromDevice' \in Seq(Speeds)
      BY <2>5, <3>1, PushTyped DEF FanOwn, Happens, FanInv, FanTyped
    <3>3. QED BY <2>5, <3>2, FanAssumption DEF FanOwn, Happens, FanInv, FanTyped, FanSettled, Is
  <2>6. CASE FanLost
    BY <2>6 DEF FanLost, LinkLost, FanInv, FanTyped, FanSettled, Is
  <2>7. CASE LinkReconnect /\ UNCHANGED fanVars
    BY <2>7 DEF LinkReconnect, queues, fanVars, FanInv, FanTyped, FanSettled, FanShows, Is
  <2>8. QED
    BY <2>1, <2>2, <2>3, <2>4, <2>5, <2>6, <2>7 DEF FanNext, WritePercent, WriteFanMode
<1>3. CASE UNCHANGED vars
  BY <1>3 DEF vars, fanVars, link, queues, FanInv, FanTyped, FanSettled, FanShows, Is
<1>4. QED
  BY <1>1, <1>2, <1>3 DEF Next, IdentifySteps, ButtonSteps, InputSteps, CoverSteps,
                          ColorSteps, CCSteps, RoomSteps, MappingSteps, NameSteps, Is

\* It holds of the installed fan.
LEMMA FanStarts == ASSUME FanAssumption, Init PROVE FanInv
<1>1. PICK s \in 0 .. 200 : FanInit(s)
  BY FanAssumption DEF Init, FansInit
<1>2. QED
  BY <1>1 DEF Init, FanInit, LinkInit, FanInv, FanTyped, FanSettled, Percent

\* It holds in every behaviour.
LEMMA FanInvariant == Spec => []FanInv
<1>1. Init => FanInv BY FanStarts, FanAssumption
<1>2. FanInv /\ [Next]_vars => FanInv' BY FanStep, FanAssumption
<1>3. QED BY <1>1, <1>2, PTL DEF Spec

\* Once nothing is on its way a fan runs at the last setting, in every order of
\* reports and commands (devicefancontrol.cpp 99-114).
THEOREM FanRunsAsSet == Spec => []FanObeys
<1>1. FanInv => FanObeys
  BY DEF FanInv, FanSettled, FanObeys, Quiet
<1>2. QED BY <1>1, FanInvariant, PTL

\* A step up that does not wrap never asks for less than the speed shown, and a
\* step down that may switch off never for more (devicefancontrol.cpp 186-203).
THEOREM StepsMoveTheFan == Spec => StepMoves
<1> DEFINE Moves ==
      \A wrap, lowestOff \in BOOLEAN :
        /\ ~wrap /\ Step(1, wrap, lowestOff) => percentSetting' >= percentCurrent
        /\ ~wrap /\ lowestOff /\ Step(-1, wrap, lowestOff) => percentSetting' <= percentCurrent
<1>1. FanInv => Moves
  <2> SUFFICES ASSUME FanInv, NEW lowestOff \in BOOLEAN
               PROVE  /\ Step(1, FALSE, lowestOff) => percentSetting' >= percentCurrent
                      /\ Step(-1, FALSE, TRUE) => percentSetting' <= percentCurrent
    OBVIOUS
  <2> DEFINE lowest == IF lowestOff THEN 0 ELSE 1
  <2>1. percentCurrent \in Percent /\ lowest \in {0, 1} BY DEF FanInv, FanTyped
  <2>2. /\ StagePercent(Stepped(Stage(percentCurrent) + 1, FALSE, lowest)) >= percentCurrent
        /\ StagePercent(Stepped(Stage(percentCurrent) - 1, FALSE, 0)) <= percentCurrent
    BY <2>1, StageMoves
  <2>3. ASSUME Step(1, FALSE, lowestOff) PROVE percentSetting' >= percentCurrent
    BY <2>2, <2>3 DEF Step, SetPercent
  <2>4. ASSUME Step(-1, FALSE, TRUE) PROVE percentSetting' <= percentCurrent
    <3>1. percentSetting' = StagePercent(Stepped(Stage(percentCurrent) + -1, FALSE, 0))
      BY <2>4 DEF Step, SetPercent
    <3>2. Stage(percentCurrent) + -1 = Stage(percentCurrent) - 1
      BY <2>1 DEF Stage, Percent
    <3>3. QED BY <2>2, <3>1, <3>2
  <2>5. QED BY <2>3, <2>4
<1>2. QED BY <1>1, FanInvariant, PTL DEF Spec, StepMoves

---------------------------------------------------------------------------
(* Binary inputs and sensors: the last report under way tells the value.   *)

InputStates == [value : InputValues]

Matched ==
  inputValue # Null =>
    IF sensor THEN Near(inputShown, inputValue, IF inputValue < 0 THEN 14 ELSE 5)
    ELSE inputShown = IF inverted THEN 1 - inputValue ELSE inputValue

InputInv ==
  /\ sensor \in BOOLEAN /\ inverted \in BOOLEAN /\ (sensor => ~inverted)
  /\ inputValue \in InputValues
  /\ ~Is("input") => Matched
  /\ Is("input") =>
       /\ fromDevice \in Seq(InputStates)
       /\ linkUp \/ (~heard /\ fromDevice = <<>>)
       /\ fromDevice # <<>> => fromDevice[Len(fromDevice)].value = inputValue
       /\ fromDevice = <<>> /\ heard => Matched

\* matterValue is near the value.
LEMMA MatterValueNear ==
  ASSUME NEW v \in Int
  PROVE  Near(MatterValue(v), v, IF v < 0 THEN 14 ELSE 5)
<1>1. CASE v + 5 >= 0
  <2>1. MatterValue(v) \in Int /\ 10 * MatterValue(v) <= v + 5 /\ v + 5 < 10 * MatterValue(v) + 10
    BY <1>1 DEF MatterValue
  <2>2. QED BY <1>1, <2>1 DEF Near
<1>2. CASE v + 5 < 0
  <2> DEFINE q == (-(v + 5)) \div 10
  <2>1. q \in Int /\ 10 * q <= -(v + 5) /\ -(v + 5) < 10 * q + 10
    OBVIOUS
  <2>2. MatterValue(v) = -q BY <1>2 DEF MatterValue
  <2>3. QED BY <1>2, <2>1, <2>2 DEF Near
<1>3. QED BY <1>1, <1>2

\* A value that has been parsed is shown right.
LEMMA ShownMatches ==
  ASSUME SensorAssumption, InputInv, inputShown' = ShownValue(sensor, inverted, inputValue, inputShown),
         UNCHANGED <<sensor, inverted, inputValue>>
  PROVE  Matched'
<1>1. CASE inputValue = Null
  BY <1>1 DEF Matched
<1>2. CASE inputValue # Null /\ sensor
  <2>1. inputValue \in Int BY <1>2, SensorAssumption DEF InputInv, InputValues
  <2>2. inputShown' = MatterValue(inputValue) BY <1>2 DEF ShownValue
  <2>3. QED BY <1>2, <2>1, <2>2, MatterValueNear DEF Matched
<1>3. CASE inputValue # Null /\ ~sensor
  BY <1>3 DEF ShownValue, Matched
<1>4. QED BY <1>1, <1>2, <1>3 DEF InputInv

\* Every step keeps the invariant.
LEMMA InputStep ==
  ASSUME SensorAssumption, InputInv, [Next]_vars
  PROVE  InputInv'
<1>1. ASSUME ~Is("input"), UNCHANGED <<kind, inputVars>> PROVE InputInv'
  BY <1>1 DEF InputInv, Matched, inputVars, InputValues, Is
<1>2. CASE InputSteps
  <2>0. Is("input") /\ Is("input")' /\ fromDevice \in Seq(InputStates)
    BY <1>2 DEF InputSteps, InputInv, Is
  <2>1. ASSUME NEW v \in InputValues, InputReport(v) PROVE InputInv'
    <3>1. UNCHANGED <<sensor, inverted, inputValue, linkUp>> /\ fromDevice' = Tail(fromDevice)
          /\ fromDevice # <<>> /\ Head(fromDevice).value = v /\ linkUp
      BY <2>0, <2>1 DEF InputReport, Report, InputInv
    <3>2. InputStates' = InputStates BY <3>1 DEF InputStates, InputValues
    <3>3. fromDevice' \in Seq(InputStates)' BY <2>0, <3>1, <3>2
    <3>4. ASSUME fromDevice' # <<>>
          PROVE  fromDevice'[Len(fromDevice')].value = inputValue
      <4>1. fromDevice'[Len(fromDevice')] = fromDevice[Len(fromDevice)] BY <2>0, <3>1, <3>4
      <4>2. QED BY <2>0, <3>1, <4>1 DEF InputInv
    <3>5. ASSUME fromDevice' = <<>> PROVE Matched'
      <4>1. Len(fromDevice) = 1
        <5>1. Len(fromDevice) \in Nat /\ Len(fromDevice) # 0 BY <2>0, <3>1
        <5>2. Len(fromDevice') = Len(fromDevice) - 1 BY <2>0, <3>1
        <5>3. Len(fromDevice') = 0 BY <3>5
        <5>4. QED BY <5>1, <5>2, <5>3
      <4>2. v = inputValue BY <2>0, <3>1, <4>1 DEF InputInv
      <4>3. QED BY <2>1, <3>1, <4>2, ShownMatches DEF InputReport
    <3>6. QED BY <2>0, <3>1, <3>3, <3>4, <3>5 DEF InputInv, InputValues
  <2>2. ASSUME NEW v \in InputValues, InputChange(v) PROVE InputInv'
    <3>1. UNCHANGED <<sensor, inverted, inputShown, linkUp, heard>> /\ inputValue' = v
          /\ Push(<<[value |-> v]>>)
      BY <2>2 DEF InputChange, Happens
    <3>2. InputStates' = InputStates BY <3>1 DEF InputStates, InputValues
    <3>3. [value |-> v] \in InputStates BY DEF InputStates
    <3>4. CASE linkUp
      <4>1. fromDevice' = Append(fromDevice, [value |-> v])
        BY <2>0, <3>1, <3>4 DEF Push
      <4>2. fromDevice' \in Seq(InputStates)' /\ fromDevice' # <<>>
            /\ fromDevice'[Len(fromDevice')].value = v
        BY <2>0, <3>2, <3>3, <4>1
      <4>3. QED BY <2>0, <3>1, <3>4, <4>2 DEF InputInv, InputValues
    <3>5. CASE ~linkUp
      <4>1. fromDevice' = <<>> /\ ~heard' BY <2>0, <3>1, <3>5 DEF Push, InputInv
      <4>2. QED BY <2>0, <3>1, <4>1 DEF InputInv, InputValues
    <3>6. QED BY <3>4, <3>5
  <2>3. CASE LinkLost /\ UNCHANGED inputVars
    BY <2>0, <2>3 DEF LinkLost, inputVars, InputInv, InputValues
  <2>4. CASE LinkReconnect /\ UNCHANGED inputVars
    <3>1. UNCHANGED <<fromDevice, heard, sensor, inverted, inputShown, inputValue>> /\ linkUp'
      BY <2>4 DEF LinkReconnect, inputVars, queues
    <3>2. QED BY <2>0, <3>1 DEF InputInv, InputStates, InputValues, Matched
  <2>5. QED BY <1>2, <2>1, <2>2, <2>3, <2>4 DEF InputSteps, InputNext
<1>3. CASE UNCHANGED vars
  BY <1>3 DEF vars, inputVars, link, queues, InputInv, InputStates, InputValues, Matched, Is
<1>4. QED
  BY <1>1, <1>2, <1>3 DEF Next, IdentifySteps, FanSteps, ButtonSteps, CoverSteps,
                          ColorSteps, CCSteps, RoomSteps, MappingSteps, NameSteps, Is

\* It holds of the installed input.
LEMMA InputStarts == ASSUME Init PROVE InputInv
<1>1. PICK isSensor \in BOOLEAN, isInverted \in BOOLEAN :
        /\ ~(isSensor /\ isInverted)
        /\ ~Is("input") => ~isSensor /\ ~isInverted
        /\ \E v \in (IF isSensor THEN SensorValues ELSE {0, 1}) \cup {Null} :
             (Is("input") \/ v = 0) /\ InputInit(isSensor, isInverted, v)
  BY DEF Init, InputsInit
<1>2. PICK v \in (IF isSensor THEN SensorValues ELSE {0, 1}) \cup {Null} :
        (Is("input") \/ v = 0) /\ InputInit(isSensor, isInverted, v)
  BY <1>1
<1>3. fromDevice = <<>> /\ ~heard /\ linkUp BY DEF Init, LinkInit
<1>4. ~Is("input") => Matched
  BY <1>1, <1>2 DEF InputInit, ShownValue, Matched, Null
<1>5. QED BY <1>1, <1>2, <1>3, <1>4 DEF InputInit, InputInv, InputValues

\* It holds in every behaviour.
LEMMA InputInvariant == Spec => []InputInv
<1>1. Init => InputInv BY InputStarts
<1>2. InputInv /\ [Next]_vars => InputInv' BY InputStep, SensorAssumption
<1>3. QED BY <1>1, <1>2, PTL DEF Spec

\* Once its last report has arrived, an input with a value is shown with it:
\* rounded, inverted or plain, also after nulls and lost connections
\* (booleaninputdevices.cpp 65-73, sensordevices.cpp 76-83, 159-182).
THEOREM InputsAreShown == Spec => []InputMatches
<1>1. InputInv => InputMatches
  BY DEF InputInv, InputMatches, Matched, Quiet
<1>2. QED BY <1>1, InputInvariant, PTL

---------------------------------------------------------------------------
(* Rooms: a zone has a list unless it is not known or became known with a   *)
(* device that was bridged later, and lists are only wrong about devices     *)
(* that have moved.                                                          *)

Listed(d, z) == d \in lists[z].endpoints

RoomsInv ==
  /\ installed \in BOOLEAN
  /\ zoneOf \in [Member -> Zones \cup {Global}] /\ description \in [Member -> Zones \cup {Global}]
  /\ zoneNames \in [Zones -> ZoneName \cup {Unknown}]
  /\ DOMAIN lists = Zones
  /\ \A z \in Zones : zoneNames[z] = Unknown => lists[z] = NoList
  /\ ~installed => bridged = Initial
  /\ installed =>
       /\ \A z \in Zones : NoEndpoint \notin lists[z].endpoints
       /\ bridged \subseteq Member
       /\ \A d \in Initial \ moved :
            d \in bridged /\ \A z \in Zones : Listed(d, z) <=> zoneOf[d] = z

\* A list that is made again has the devices of its zone.
LEMMA RoomMade ==
  ASSUME RoomsAssumption, installed', bridged' \subseteq Member, NEW z, NEW name
  PROVE  /\ NoEndpoint \notin RoomOf(z, name).endpoints
         /\ \A d \in bridged' : d \in RoomOf(z, name).endpoints <=> zoneOf'[d] = z
BY RoomsAssumption DEF RoomOf, Endpoint

\* The names that are known stay known.
LEMMA NamesKept ==
  ASSUME RoomsAssumption, NEW names \in [Zones -> ZoneName \cup {Unknown}], NEW z \in Zones,
         NEW name \in ZoneName
  PROVE  /\ NameAfter(names, z, name) \in [Zones -> ZoneName \cup {Unknown}]
         /\ NameAfter(names, z, name)[z] # Unknown
         /\ \A y \in Zones : names[y] # Unknown => NameAfter(names, z, name)[y] # Unknown
         /\ \A y \in Zones \ {z} : NameAfter(names, z, name)[y] = names[y]
<1>1. Unknown \notin ZoneName BY RoomsAssumption DEF ZoneName, Unknown, Numbered
<1>2. QED BY <1>1 DEF NameAfter

\* A push keeps the invariant.
LEMMA ZonePushKeeps ==
  ASSUME RoomsAssumption, RoomsInv, NEW d \in Member, NEW z \in Zones \cup {Global},
         NEW name \in ZoneName, ZonePush(d, z, name)
  PROVE  RoomsInv'
<1>1. UNCHANGED <<description, installed, bridged>> /\ zoneOf' = [zoneOf EXCEPT ![d] = z]
  BY DEF ZonePush
<1>2. zoneOf' \in [Member -> Zones \cup {Global}] BY <1>1 DEF RoomsInv
<1>3. installed =>
        \A e \in Initial \ moved' : e \in Initial \ moved /\ zoneOf'[e] = zoneOf[e]
  BY <1>1 DEF ZonePush, RoomsInv, Member
<1>4. CASE zoneNames' = zoneNames
  <2>1. UNCHANGED lists BY <1>4 DEF ZonePush
  <2>2. QED BY <1>1, <1>2, <1>3, <1>4, <2>1 DEF RoomsInv, Listed
<1>5. CASE zoneNames' # zoneNames
  <2>1. z \in Zones /\ zoneNames' = NameAfter(zoneNames, z, name)
        /\ lists' = [lists EXCEPT ![z] = RoomOf(z, name)]
    BY <1>5 DEF ZonePush
  <2>2. /\ zoneNames' \in [Zones -> ZoneName \cup {Unknown}] /\ zoneNames'[z] # Unknown
        /\ \A y \in Zones \ {z} : zoneNames'[y] = zoneNames[y]
    BY <2>1, NamesKept DEF RoomsInv
  <2>3. DOMAIN lists' = Zones /\ lists'[z] = RoomOf(z, name)
        /\ \A y \in Zones \ {z} : lists'[y] = lists[y]
    BY <2>1 DEF RoomsInv
  <2>4. ASSUME installed
        PROVE  /\ \A y \in Zones : NoEndpoint \notin lists'[y].endpoints
               /\ \A e \in Initial \ moved' :
                    e \in bridged' /\ \A y \in Zones : e \in lists'[y].endpoints <=> zoneOf'[e] = y
    <3>1. /\ NoEndpoint \notin RoomOf(z, name).endpoints
          /\ \A e \in bridged' : e \in RoomOf(z, name).endpoints <=> zoneOf'[e] = z
      BY <1>1, <2>4, RoomMade DEF RoomsInv
    <3>2. \A y \in Zones : NoEndpoint \notin lists'[y].endpoints
      BY <2>3, <2>4, <3>1 DEF RoomsInv
    <3>3. ASSUME NEW e \in Initial \ moved', NEW y \in Zones
          PROVE  e \in bridged' /\ (e \in lists'[y].endpoints <=> zoneOf'[e] = y)
      <4>1. e \in bridged' /\ (e \in lists[y].endpoints <=> zoneOf'[e] = y)
        BY <1>1, <1>3, <2>4 DEF RoomsInv, Listed
      <4>2. QED BY <2>3, <3>1, <4>1
    <3>4. ASSUME NEW e \in Initial \ moved' PROVE e \in bridged'
      BY <1>1, <1>3, <2>4 DEF RoomsInv
    <3>5. QED BY <3>2, <3>3, <3>4
  <2>5. \A y \in Zones : zoneNames'[y] = Unknown => lists'[y] = NoList
    BY <2>2, <2>3 DEF RoomsInv
  <2>6. QED BY <1>1, <1>2, <2>2, <2>3, <2>4, <2>5 DEF RoomsInv, Listed
<1>6. QED BY <1>4, <1>5

\* The installation of the initial devices establishes the lists.
LEMMA InstallKeeps ==
  ASSUME RoomsAssumption, RoomsInv, NEW found \in [Zones -> ZoneName \cup {Unknown}],
         InstallInitial(found)
  PROVE  RoomsInv'
<1>1. /\ ~installed /\ installed' = TRUE /\ bridged = Initial
      /\ UNCHANGED <<description, bridged, moved>>
  BY DEF InstallInitial, RoomsInv
<1>2. zoneOf' \in [Member -> Zones \cup {Global}] /\ \A d \in Initial : zoneOf'[d] = description[d]
  BY <1>1 DEF InstallInitial, RoomsInv, Member
<1>3. /\ zoneNames' \in [Zones -> ZoneName \cup {Unknown}]
      /\ \A z \in Zones : found[z] # Unknown => zoneNames'[z] # Unknown
      /\ \A z \in Zones : zoneNames'[z] = Unknown => zoneNames[z] = Unknown
  <2>1. ASSUME NEW z \in Zones
        PROVE  /\ zoneNames'[z] \in ZoneName \cup {Unknown}
               /\ found[z] # Unknown => zoneNames'[z] # Unknown
               /\ zoneNames'[z] = Unknown => zoneNames[z] = Unknown
    <3>1. zoneNames'[z] = IF found[z] = Unknown THEN zoneNames[z]
                          ELSE NameAfter(zoneNames, z, found[z])[z]
      BY DEF InstallInitial, KnownZones
    <3>2. CASE found[z] = Unknown
      BY <3>1, <3>2 DEF RoomsInv
    <3>3. CASE found[z] # Unknown
      <4>1. found[z] \in ZoneName BY <3>3
      <4>2. NameAfter(zoneNames, z, found[z]) \in [Zones -> ZoneName \cup {Unknown}]
            /\ NameAfter(zoneNames, z, found[z])[z] # Unknown
        BY <4>1, NamesKept DEF RoomsInv
      <4>3. QED BY <3>1, <3>3, <4>2
    <3>4. QED BY <3>2, <3>3
  <2>2. zoneNames' = [z \in Zones |-> IF found[z] = Unknown THEN zoneNames[z]
                                      ELSE NameAfter(zoneNames, z, found[z])[z]]
    BY DEF InstallInitial, KnownZones
  <2>3. QED BY <2>1, <2>2
<1>4. DOMAIN lists' = Zones
      /\ \A z \in Zones : lists'[z] = IF zoneNames'[z] = Unknown THEN lists[z]
                                      ELSE RoomOf(z, zoneNames'[z])
  BY DEF InstallInitial
<1>5. \A z \in Zones : zoneNames'[z] = Unknown => lists'[z] = NoList
  BY <1>3, <1>4 DEF RoomsInv
<1>6. bridged' \subseteq Member BY <1>1 DEF Member
<1>7. ASSUME NEW z \in Zones
      PROVE  /\ NoEndpoint \notin lists'[z].endpoints
             /\ \A d \in Initial : d \in lists'[z].endpoints <=> zoneOf'[d] = z
  <2>1. CASE zoneNames'[z] = Unknown
    <3>1. lists'[z].endpoints = {} BY <1>5, <2>1 DEF NoList
    <3>2. \A d \in Initial : description[d] # z
      BY <1>3, <2>1 DEF InstallInitial
    <3>3. QED BY <1>2, <3>1, <3>2
  <2>2. CASE zoneNames'[z] # Unknown
    <3>1. lists'[z] = RoomOf(z, zoneNames'[z]) BY <1>4, <2>2
    <3>2. QED BY <1>1, <1>6, <3>1, RoomMade
  <2>3. QED BY <2>1, <2>2
<1>8. QED BY <1>1, <1>2, <1>3, <1>4, <1>5, <1>6, <1>7 DEF RoomsInv, Listed

\* A device that is bridged later, or vanishes, changes no list.
LEMMA LaterKeeps ==
  ASSUME RoomsAssumption, RoomsInv, NEW d \in Member,
         Vanish(d) \/ (d \in Later /\ \E name \in ZoneName : AddLater(d, name))
  PROVE  RoomsInv'
<1>1. CASE Vanish(d)
  BY <1>1 DEF Vanish, RoomsInv, Listed
<1>2. ASSUME d \in Later, NEW name \in ZoneName, AddLater(d, name) PROVE RoomsInv'
  <2>1. UNCHANGED <<description, installed, lists, moved>> /\ installed
        /\ bridged' = bridged \cup {d} /\ zoneOf' = [zoneOf EXCEPT ![d] = description[d]]
    BY <1>2 DEF AddLater
  <2>2. /\ zoneNames' \in [Zones -> ZoneName \cup {Unknown}]
        /\ \A z \in Zones : zoneNames'[z] = Unknown => zoneNames[z] = Unknown
    <3>1. CASE description[d] = Global
      BY <1>2, <3>1 DEF AddLater, RoomsInv
    <3>2. CASE description[d] # Global
      <4>1. description[d] \in Zones BY <3>2 DEF RoomsInv
      <4>2. zoneNames' = NameAfter(zoneNames, description[d], name) BY <1>2, <3>2 DEF AddLater
      <4>3. QED BY <1>2, <4>1, <4>2, NamesKept DEF RoomsInv
    <3>3. QED BY <3>1, <3>2
  <2>3. \A e \in Initial : zoneOf'[e] = zoneOf[e]
    BY <1>2, <2>1, RoomsAssumption DEF RoomsInv, Member
  <2>4. zoneOf' \in [Member -> Zones \cup {Global}] BY <2>1 DEF RoomsInv
  <2>5. QED BY <2>1, <2>2, <2>3, <2>4 DEF RoomsInv, Listed
<1>3. QED BY <1>1, <1>2

\* Every step keeps the invariant.
LEMMA RoomsStep ==
  ASSUME RoomsAssumption, RoomsInv, [Next]_vars
  PROVE  RoomsInv'
<1>1. CASE UNCHANGED roomVars
  BY <1>1 DEF roomVars, RoomsInv, Listed
<1>2. CASE RoomsNext
  <2>1. \A z \in Zones : InvokeAction(z) \/ CallScene(z) => UNCHANGED roomVars
    BY DEF InvokeAction, CallScene
  <2>2. ASSUME NEW d \in Later, NEW name \in ZoneName, AddLater(d, name) PROVE RoomsInv'
    <3>1. d \in Member BY DEF Member
    <3>2. QED BY <2>2, <3>1, LaterKeeps, RoomsAssumption
  <2>3. ASSUME NEW d \in Member, NEW z \in Zones \cup {Global}, NEW name \in ZoneName,
               ZonePush(d, z, name)
        PROVE  RoomsInv'
    BY <2>3, ZonePushKeeps, RoomsAssumption
  <2>4. ASSUME NEW d \in Member, Vanish(d) PROVE RoomsInv'
    BY <2>4, LaterKeeps, RoomsAssumption
  <2>5. ASSUME NEW found \in [Zones -> ZoneName \cup {Unknown}], InstallInitial(found) PROVE RoomsInv'
    BY <2>5, InstallKeeps, RoomsAssumption
  <2>6. \A d \in Member : ZonePushIgnored(d) => UNCHANGED roomVars
    BY DEF ZonePushIgnored
  <2>7. QED BY <1>1, <1>2, <2>1, <2>2, <2>3, <2>4, <2>5, <2>6 DEF RoomsNext
<1>3. QED
  BY <1>1, <1>2 DEF Next, vars, IdentifySteps, FanSteps, ButtonSteps, InputSteps, CoverSteps,
                    ColorSteps, CCSteps, RoomSteps, MappingSteps, NameSteps

\* It holds before the devices are installed.
LEMMA RoomsStart == ASSUME Init PROVE RoomsInv
<1>1. PICK p \in [Member -> Zones \cup {Global}] : RoomsInit(p)
  BY KindsAssumption DEF Init, PlansInit
<1>2. QED BY <1>1 DEF RoomsInit, RoomsInv

\* It holds in every behaviour.
LEMMA RoomsInvariant == Spec => []RoomsInv
<1>1. Init => RoomsInv BY RoomsStart
<1>2. RoomsInv /\ [Next]_vars => RoomsInv' BY RoomsStep, RoomsAssumption
<1>3. QED BY <1>1, <1>2, PTL DEF Spec

\* An initial device that has stayed is in the list of its own room and in no
\* other, and no list has an endpoint that was not known, whatever zones were
\* renamed and whichever devices came, moved or went (p44bridge.cpp 619-656).
THEOREM RoomsAreListed == Spec => []RoomsListed
<1>1. RoomsInv => RoomsListed
  BY RoomsAssumption DEF RoomsInv, RoomsListed, Listed, Member
<1>2. QED BY <1>1, RoomsInvariant, PTL

---------------------------------------------------------------------------
(* Names: the last report under way tells the name at the other end.  With  *)
(* none under way that name is shown, as soon as every name still being     *)
(* sent is the one it has already.  The name wanted is the last one being   *)
(* sent, or has arrived.                                                    *)

Renames == [name : Name]

NameTyped ==
  /\ adapter \in {"P44", "CC"} /\ named \in BOOLEAN /\ linkUp \in BOOLEAN
  /\ mName \in Name /\ theirName \in Name /\ nodeLabel \in Name \cup {NoName}
  /\ toDevice \in Seq(Renames) /\ fromDevice \in Seq(Renames)
  /\ ~linkUp => toDevice = <<>> /\ fromDevice = <<>> /\ ~heard
  /\ adapter = "CC" => nodeLabel \in {mName, NoName} /\ (named => nodeLabel = mName)
  /\ composed \in BOOLEAN /\ (composed => adapter = "P44")
  /\ ~named => IF composed THEN nodeLabel = NoName ELSE ~nameKept

NamesLanded == \A i \in DOMAIN toDevice : toDevice[i].name = theirName

NameTracked ==
  /\ fromDevice # <<>> => fromDevice[Len(fromDevice)].name = theirName
  /\ linkUp /\ heard /\ ~nameKept /\ fromDevice = <<>> /\ NamesLanded =>
       \/ nodeLabel = theirName
       \/ ~named /\ nodeLabel = NoName /\ mName = theirName

NameHeeded ==
  nameWanted # NoName =>
    /\ linkUp /\ nameWanted \in Name
    /\ IF toDevice = <<>> THEN theirName = nameWanted
       ELSE toDevice[Len(toDevice)].name = nameWanted

NameInv ==
  /\ Is("name") => NameTyped /\ NameTracked /\ NameHeeded
  /\ ~Is("name") => ~named /\ nameWanted = NoName

\* Writing the label.
LEMMA WriteKeepsName ==
  ASSUME NameAssumption, NameTyped, NameTracked, NameHeeded, NEW n \in Name, WriteNodeLabel(n)
  PROVE  NameTyped' /\ NameTracked' /\ NameHeeded'
<1>1. UNCHANGED <<linkUp, fromDevice, heard, adapter, composed, named, theirName>> /\ named
  BY DEF WriteNodeLabel, Command
<1>2. CASE UNCHANGED <<toDevice, nodeLabel, mName, nameKept, nameWanted>>
  BY <1>1, <1>2 DEF NameTyped, NameTracked, NamesLanded, NameHeeded
<1>3. CASE /\ n # nodeLabel /\ nodeLabel' = n /\ ChangeName(n)
           /\ nameKept' = (nameKept \/ ~NameSent(n))
           /\ nameWanted' = IF NameSent(n) \/ (Quiet /\ theirName = n) THEN n ELSE NoName
  <2>1. mName' = n /\ nodeLabel' = n BY <1>3 DEF ChangeName
  <2>2. CASE NameSent(n)
    <3>1. toDevice' = toDevice \o <<[name |-> n]>> /\ linkUp
      BY <1>3, <2>2 DEF ChangeName, Notify, NameSent
    <3>2. toDevice' = Append(toDevice, [name |-> n]) BY <3>1
    <3>3. toDevice \in Seq(Renames) /\ [name |-> n] \in Renames BY DEF NameTyped, Renames
    <3>4. /\ toDevice' \in Seq(Renames) /\ toDevice' # <<>> /\ Len(toDevice') \in DOMAIN toDevice'
          /\ toDevice'[Len(toDevice')] = [name |-> n]
      BY ONLY <3>2, <3>3
    <3>5. NameTyped' BY <1>1, <2>1, <3>1, <3>4 DEF NameTyped
    <3>6. NamesLanded' => n = theirName' BY <3>4 DEF NamesLanded
    <3>7. NameTracked' BY <1>1, <1>3, <2>1, <3>6 DEF NameTracked
    <3>8. NameHeeded' BY <1>1, <1>3, <2>2, <3>1, <3>4 DEF NameHeeded
    <3>9. QED BY <3>5, <3>7, <3>8
  <2>3. CASE ~NameSent(n)
    <3>1. toDevice' = toDevice
      BY <1>3, <2>3 DEF ChangeName, Notify, NameSent, NameTyped
    <3>2. nameKept' = TRUE BY <1>3, <2>3
    <3>3. NameTyped' BY <1>1, <2>1, <3>1 DEF NameTyped
    <3>4. NameTracked' BY <1>1, <3>2 DEF NameTracked
    <3>5. nameWanted' # NoName => Quiet /\ theirName = n /\ nameWanted' = n BY <1>3, <2>3
    <3>6. NameHeeded' BY <1>1, <3>1, <3>5 DEF NameHeeded, Quiet
    <3>7. QED BY <3>3, <3>4, <3>6
  <2>4. QED BY <2>2, <2>3
<1>4. QED BY <1>2, <1>3 DEF WriteNodeLabel

\* A report that is handled.
LEMMA ReportKeepsName ==
  ASSUME NameAssumption, NameTyped, NameTracked, NameHeeded, NEW n, NameReport(n)
  PROVE  NameTyped' /\ NameTracked' /\ NameHeeded'
<1>1. /\ UNCHANGED <<linkUp, toDevice, adapter, composed, named, theirName, nameWanted>>
      /\ nameKept' = (composed /\ n # IF named THEN nodeLabel ELSE mName)
  BY DEF NameReport, Report
<1>2. fromDevice \in Seq(Renames) BY DEF NameTyped
<1>3. /\ [name |-> n] \in Renames /\ fromDevice' \in Seq(Renames)
      /\ fromDevice' # <<>> => fromDevice'[Len(fromDevice')] = fromDevice[Len(fromDevice)]
      /\ fromDevice' = <<>> => [name |-> n] = fromDevice[Len(fromDevice)]
  BY <1>2, LastReported DEF NameReport
<1>4. n \in Name BY <1>3 DEF Renames
<1>5. fromDevice # <<>> BY DEF NameReport, Report
<1>6. linkUp BY <1>5 DEF NameTyped
<1>7. /\ nodeLabel' = IF ~composed /\ (adapter = "P44" \/ n # mName) THEN n ELSE nodeLabel
      /\ mName' = IF adapter = "P44" THEN mName ELSE n
  BY DEF NameReport, NameReported
<1>8. NameTyped' BY <1>1, <1>3, <1>4, <1>6, <1>7 DEF NameTyped
<1>9. ASSUME fromDevice' = <<>> PROVE theirName = n
  BY <1>3, <1>5, <1>9 DEF NameTracked
<1>10. ~nameKept' => nodeLabel' = n \/ (~named /\ nodeLabel' = NoName /\ mName' = n)
  BY <1>1, <1>7 DEF NameTyped
<1>11. NameTracked' BY <1>1, <1>3, <1>5, <1>9, <1>10 DEF NameTracked
<1>12. NameHeeded' BY <1>1 DEF NameHeeded
<1>13. QED BY <1>8, <1>11, <1>12

\* The vdcd gets a name, and pushes it if it is a new one.
LEMMA SetKeepsName ==
  ASSUME NameAssumption, NameTyped, NameTracked, NameHeeded, toDevice # <<>>,
         NameSet(Head(toDevice).name)
  PROVE  NameTyped' /\ NameTracked' /\ NameHeeded'
<1> DEFINE n == Head(toDevice).name
<1>1. toDevice \in Seq(Renames) /\ fromDevice \in Seq(Renames) /\ linkUp BY DEF NameTyped
<1>2. Head(toDevice) \in Renames BY <1>1
<1>3. n \in Name /\ [name |-> n] \in Renames BY <1>2 DEF Renames
<1>4. /\ toDevice' = Tail(toDevice) /\ theirName' = n /\ Push(Renamed(n))
      /\ UNCHANGED <<linkUp, heard, adapter, composed, named, nodeLabel, mName, nameKept, nameWanted>>
  BY DEF NameSet, Deliver
<1>5. toDevice' \in Seq(Renames) BY <1>1, <1>4
<1>6. NameHeeded'
  <2>1. toDevice' # <<>> => toDevice'[Len(toDevice')] = toDevice[Len(toDevice)]
    BY <1>1, <1>4
  <2>2. ASSUME toDevice' = <<>> PROVE toDevice[Len(toDevice)].name = n
    <3>1. Len(toDevice) = 1
      <4>1. Len(toDevice') = 0 BY <2>2
      <4>2. Len(toDevice') = Len(toDevice) - 1 /\ Len(toDevice) \in Nat BY <1>1, <1>4
      <4>3. QED BY <4>1, <4>2
    <3>2. QED BY <3>1
  <2>3. QED BY <1>4, <2>1, <2>2 DEF NameHeeded
<1>7. CASE n = theirName
  <2>1. fromDevice' = fromDevice BY <1>1, <1>4, <1>7 DEF Push, Renamed
  <2>2. NamesLanded' => NamesLanded
    <3> SUFFICES ASSUME NamesLanded', NEW i \in DOMAIN toDevice PROVE toDevice[i].name = theirName
      BY DEF NamesLanded
    <3>1. CASE i = 1 BY <1>7, <3>1
    <3>2. CASE i # 1
      <4>1. i - 1 \in DOMAIN toDevice' /\ toDevice'[i - 1] = toDevice[i] BY <1>1, <1>4, <3>2
      <4>2. QED BY <1>4, <1>7, <4>1 DEF NamesLanded
    <3>3. QED BY <3>1, <3>2
  <2>3. NameTyped' BY <1>1, <1>3, <1>4, <1>5, <2>1 DEF NameTyped
  <2>4. NameTracked' BY <1>4, <1>7, <2>1, <2>2 DEF NameTracked
  <2>5. QED BY <1>6, <2>3, <2>4
<1>8. CASE n # theirName
  <2>1. Push(<<[name |-> n]>>) BY <1>4, <1>8 DEF Renamed
  <2>2. /\ fromDevice' \in Seq(Renames) /\ fromDevice' # <<>>
        /\ fromDevice'[Len(fromDevice')] = [name |-> n]
    BY <1>1, <1>3, <2>1, PushedLast
  <2>3. NameTyped' BY <1>1, <1>3, <1>4, <1>5, <2>2 DEF NameTyped
  <2>4. NameTracked' BY <1>4, <2>2 DEF NameTracked
  <2>5. QED BY <1>6, <2>3, <2>4
<1>9. QED BY <1>7, <1>8

\* Every step of a device with its name.
LEMMA NameStep ==
  ASSUME NameAssumption, NameTyped, NameTracked, NameHeeded, NameNext
  PROVE  NameTyped' /\ NameTracked' /\ NameHeeded'
<1>1. ASSUME InstallName PROVE NameTyped' /\ NameTracked' /\ NameHeeded'
  <2>1. /\ UNCHANGED <<linkUp, toDevice, fromDevice, heard, adapter, composed, mName, theirName,
                       nameWanted>>
        /\ named' = TRUE /\ ~named /\ nodeLabel' = mName
        /\ nameKept' = (nameKept \/ nodeLabel \notin {NoName, mName})
    BY <1>1 DEF InstallName, link, queues
  <2>2. NameTyped' BY <2>1 DEF NameTyped
  <2>3. NameHeeded' BY <2>1 DEF NameHeeded
  <2>4. NameTracked'
    <3>1. ~nameKept' => ~nameKept /\ nodeLabel \in {NoName, mName} BY <2>1
    <3>2. NamesLanded' <=> NamesLanded BY <2>1 DEF NamesLanded
    <3>3. QED BY <2>1, <3>1, <3>2, NameAssumption DEF NameTracked, NameTyped
  <2>5. QED BY <2>2, <2>3, <2>4
<1>2. ASSUME NEW n \in Name, NameOwn(n) PROVE NameTyped' /\ NameTracked' /\ NameHeeded'
  <2>1. /\ UNCHANGED <<linkUp, toDevice, heard, adapter, composed, named, nodeLabel, mName, nameKept>>
        /\ theirName' = n /\ nameWanted' = NoName /\ Push(<<[name |-> n]>>)
    BY <1>2 DEF NameOwn, Happens, Renamed
  <2>2. [name |-> n] \in Renames BY DEF Renames
  <2>3. CASE linkUp
    <3>1. /\ fromDevice' \in Seq(Renames) /\ fromDevice' # <<>>
          /\ fromDevice'[Len(fromDevice')] = [name |-> n]
      BY <2>1, <2>2, <2>3, PushedLast DEF NameTyped
    <3>2. NameTyped' BY <2>1, <2>3, <3>1 DEF NameTyped
    <3>3. NameTracked' BY <2>1, <3>1 DEF NameTracked
    <3>4. NameHeeded' BY <2>1 DEF NameHeeded
    <3>5. QED BY <3>2, <3>3, <3>4
  <2>4. CASE ~linkUp
    <3>1. fromDevice' = fromDevice BY <2>1, <2>4 DEF Push
    <3>2. NameTyped' BY <2>1, <3>1 DEF NameTyped
    <3>3. fromDevice' = <<>> /\ ~linkUp' BY <2>1, <2>4, <3>1 DEF NameTyped
    <3>4. NameTracked' BY <3>3 DEF NameTracked
    <3>5. NameHeeded' BY <2>1 DEF NameHeeded
    <3>6. QED BY <3>2, <3>4, <3>5
  <2>5. QED BY <2>3, <2>4
<1>3. CASE NameLost
  <2>1. /\ UNCHANGED <<adapter, composed, named, nodeLabel, mName, theirName, nameKept>>
        /\ linkUp' = FALSE /\ heard' = FALSE /\ toDevice' = <<>> /\ fromDevice' = <<>>
        /\ nameWanted' = NoName
    BY <1>3 DEF NameLost, LinkLost
  <2>2. <<>> \in Seq(Renames) OBVIOUS
  <2>3. NameTyped' BY <2>1, <2>2 DEF NameTyped
  <2>4. NameTracked' /\ NameHeeded' BY <2>1 DEF NameTracked, NameHeeded
  <2>5. QED BY <2>3, <2>4
<1>4. CASE LinkReconnect /\ UNCHANGED nameVars
  BY <1>4 DEF LinkReconnect, queues, nameVars, NameTyped, NameTracked, NameHeeded
<1>5. QED
  BY <1>1, <1>2, <1>3, <1>4, WriteKeepsName, ReportKeepsName, SetKeepsName DEF NameNext

\* The invariant of devices with a name.
THEOREM NameInvariant == Spec => []NameInv
<1>1. Init => NameInv
  <2> SUFFICES ASSUME Init PROVE NameInv
    OBVIOUS
  <2>1. PICK a \in NameAdapters, c \in BOOLEAN :
          NameInit(a, c, CHOOSE n \in Name : TRUE) /\ (c => a = "P44")
    BY NameAssumption DEF Init, NamesInit
  <2>2. PICK n \in Name : n = CHOOSE n0 \in Name : TRUE BY NameAssumption
  <2>3. /\ a \in {"P44", "CC"} /\ adapter = a /\ composed = c /\ named = FALSE /\ nodeLabel = NoName
        /\ mName = n /\ theirName = n /\ nameKept = FALSE /\ nameWanted = NoName
    BY <2>1, <2>2, NameAssumption DEF NameInit
  <2>4. linkUp = TRUE /\ toDevice = <<>> /\ fromDevice = <<>> /\ heard = FALSE
    BY DEF Init, LinkInit
  <2>5. <<>> \in Seq(Renames) OBVIOUS
  <2>6. NameTyped BY <2>1, <2>2, <2>3, <2>4, <2>5 DEF NameTyped
  <2>7. QED BY <2>3, <2>4, <2>6 DEF NameInv, NameTracked, NameHeeded
<1>2. NameInv /\ [Next]_vars => NameInv'
  <2> SUFFICES ASSUME NameInv, [Next]_vars PROVE NameInv'
    OBVIOUS
  <2>1. ASSUME ~Is("name"), UNCHANGED <<kind, nameVars>> PROVE NameInv'
    BY <2>1 DEF NameInv, nameVars, Is
  <2>2. CASE NameSteps
    <3>1. Is("name") /\ NameNext /\ UNCHANGED kind BY <2>2 DEF NameSteps
    <3>2. QED BY <3>1, NameStep, NameAssumption DEF NameInv, Is
  <2>3. CASE UNCHANGED vars
    <3>1. UNCHANGED <<kind, linkUp, toDevice, fromDevice, heard, nameVars>>
      BY <2>3 DEF vars, link, queues
    <3>2. QED
      BY <3>1 DEF NameInv, NameTyped, NameTracked, NamesLanded, NameHeeded, nameVars, Is
  <2>4. QED
    BY <2>1, <2>2, <2>3 DEF Next, IdentifySteps, FanSteps, ButtonSteps, InputSteps, CoverSteps,
                            ColorSteps, CCSteps, RoomSteps, MappingSteps, Is
<1>3. QED BY <1>1, <1>2, PTL DEF Spec

\* With nothing under way NodeLabel is the name at the other end, in every order
\* of writes, renames, reports, the installation and broken connections; that of a
\* composed device of the vdcd only until another name is pushed, which it ignores
\* (device.cpp 251, p44devices.cpp 78, 215, 245, ccdevices.cpp 84).
THEOREM NamesAreShown == Spec => []NameShown
<1>1. NameInv => NameShown
  BY DEF NameInv, NameTracked, NamesLanded, NameShown, Quiet
<1>2. QED BY <1>1, NameInvariant, PTL

\* With nothing under way the vdcd has the name last sent to it
\* (p44devices.cpp 78-89).
THEOREM NamesGoWhereSent == Spec => []NameObeys
<1>1. NameInv => NameObeys
  BY NameAssumption DEF NameInv, NameHeeded, NameObeys, Quiet
<1>2. QED BY <1>1, NameInvariant, PTL

---------------------------------------------------------------------------
(* What a description becomes: after each input the devices found so far    *)
(* have the buttons at their positions, but for a first half that waits.    *)

\* Induction, over a set.
LEMMA AllNaturals ==
  ASSUME NEW S, 0 \in S, \A n \in Nat : n \in S => n + 1 \in S
  PROVE  Nat \subseteq S
<1> DEFINE Out == Nat \ S
           R == OpToRel(<, Nat)
<1>1. SUFFICES ASSUME Out # {} PROVE FALSE
  OBVIOUS
<1>2. IsWellFoundedOn(R, Nat)
  BY NatLessThanWellFounded
<1>3. PICK n \in Out : \A m \in Out : ~ (<<m, n>> \in R)
  <2> HIDE DEF R
  <2> QED BY <1>1, <1>2, WFMin
<1>4. \A m \in Nat : m < n => <<m, n>> \in R
  <2> TAKE m \in Nat
  <2>1. ASSUME m < n PROVE <<m, n>> \in R
    BY <2>1, Zenon DEF OpToRel
  <2>2. QED BY <2>1
<1> HIDE DEF R
<1>5. n \in Nat /\ n # 0
  OBVIOUS
<1>6. n - 1 \in Nat /\ n - 1 < n /\ (n - 1) + 1 = n
  BY <1>5
<1>7. n - 1 \in S
  BY <1>3, <1>4, <1>6
<1>8. QED BY <1>6, <1>7

\* What is found after some inputs.
LEMMA FoundGoesOn ==
  ASSUME NEW d, Len(InputsOf(d)) \in Nat
  PROVE  /\ Found(d)[0] = [devices |-> OutputDevice(d), dev |-> NoDevice, more |-> FALSE]
         /\ \A n \in 1 .. Len(InputsOf(d)) :
              Found(d)[n] = AddInput(Found(d)[n - 1], InputsOf(d)[n])
<1> DEFINE start == [devices |-> OutputDevice(d), dev |-> NoDevice, more |-> FALSE]
           in == InputsOf(d)
           Goes(f, m) == f = [n \in 0 .. m |-> IF n = 0 THEN start ELSE AddInput(f[n - 1], in[n])]
           S == {m \in Nat : \E f : Goes(f, m)}
<1>1. Found(d) = CHOOSE f : Goes(f, Len(in))
  BY DEF Found
<1> HIDE DEF start, in
<1>2. 0 \in S
  <2>1. Goes([n \in 0 .. 0 |-> start], 0) OBVIOUS
  <2>2. QED BY <2>1
<1>3. ASSUME NEW m \in Nat, m \in S PROVE m + 1 \in S
  <2>1. PICK f : Goes(f, m) BY <1>3
  <2> DEFINE g == [n \in 0 .. m + 1 |-> IF n = m + 1 THEN AddInput(f[m], in[m + 1]) ELSE f[n]]
  <2>2. ASSUME NEW n \in 0 .. m + 1
        PROVE  g[n] = IF n = 0 THEN start ELSE AddInput(g[n - 1], in[n])
    <3>1. CASE n = 0
      <4>1. 0 \in 0 .. m /\ n # m + 1 BY <3>1
      <4>2. f[0] = start BY <2>1, <4>1
      <4>3. QED BY <3>1, <4>1, <4>2
    <3>2. CASE n # 0 /\ n # m + 1
      <4>1. n \in 0 .. m /\ n - 1 \in 0 .. m + 1 /\ n - 1 # m + 1 BY <3>2
      <4>2. f[n] = AddInput(f[n - 1], in[n]) BY <2>1, <3>2, <4>1
      <4>3. QED BY <3>2, <4>1, <4>2
    <3>3. CASE n = m + 1
      <4>1. n # 0 /\ n - 1 = m /\ m \in 0 .. m + 1 /\ m # m + 1 BY <3>3
      <4>2. g[m] = f[m] BY <4>1
      <4>3. QED BY <3>3, <4>1, <4>2
    <3>4. QED BY <3>1, <3>2, <3>3
  <2>3. Goes(g, m + 1)
    <3> DEFINE h == [n \in 0 .. m + 1 |-> IF n = 0 THEN start ELSE AddInput(g[n - 1], in[n])]
    <3>1. \A n \in 0 .. m + 1 : g[n] = h[n] BY <2>2
    <3>2. g = h
      <4>1. DOMAIN g = 0 .. m + 1 /\ DOMAIN h = 0 .. m + 1 OBVIOUS
      <4>2. g = [n \in 0 .. m + 1 |-> g[n]] /\ h = [n \in 0 .. m + 1 |-> h[n]] OBVIOUS
      <4> HIDE DEF g, h
      <4>3. QED BY <3>1, <4>2
    <3>3. QED BY <3>2
  <2>4. \E x : Goes(x, m + 1)
    <3> HIDE DEF g, Goes
    <3>1. QED BY <2>3
  <2>5. m + 1 \in Nat OBVIOUS
  <2>6. QED BY <2>4, <2>5
<1>4. Len(in) \in S
  <2> HIDE DEF S
  <2>1. Nat \subseteq S BY <1>2, <1>3, AllNaturals
  <2>2. QED BY <2>1 DEF in
<1>5. Goes(Found(d), Len(in))
  <2> HIDE DEF Goes
  <2>1. \E f : Goes(f, Len(in)) BY <1>4
  <2>2. QED BY <1>1, <2>1
<1>6. /\ Found(d)[0] = start
      /\ \A n \in 1 .. Len(in) : Found(d)[n] = AddInput(Found(d)[n - 1], in[n])
  <2>1. Len(in) \in Nat BY DEF in
  <2> DEFINE f == Found(d)
  <2>2. Goes(f, Len(in)) BY <1>5
  <2> HIDE DEF f
  <2>3. QED BY <2>1, <2>2 DEF f
<1>7. QED BY <1>6 DEF start, in

\* The items of a sequence have its type.
LEMMA ItemTyped ==
  ASSUME NEW X, NEW q \in Seq(X), NEW i \in 1 .. Len(q)
  PROVE  q[i] \in X
  OBVIOUS

\* Where the items of two sequences are in both together.
LEMMA TwoLists ==
  ASSUME NEW X, NEW q \in Seq(X), NEW r \in Seq(X), NEW t, t = q \o r
  PROVE  /\ t \in Seq(X) /\ Len(t) = Len(q) + Len(r)
         /\ \A n \in 1 .. Len(q) : t[n] = q[n]
         /\ \A i \in 1 .. Len(r) : t[Len(q) + i] = r[i]
<1>1. t \in Seq(X) /\ Len(t) = Len(q) + Len(r) /\ \A n \in 1 .. Len(q) : t[n] = q[n]
  OBVIOUS
<1>2. ASSUME NEW i \in 1 .. Len(r) PROVE t[Len(q) + i] = r[i]
  OBVIOUS
<1>3. QED BY <1>1, <1>2

\* Where the items of three sequences are in all together.
LEMMA ThreeLists ==
  ASSUME NEW X, NEW q \in Seq(X), NEW r \in Seq(X), NEW s \in Seq(X), NEW t, t = q \o r \o s
  PROVE  /\ Len(t) = Len(q) + Len(r) + Len(s)
         /\ \A n \in 1 .. Len(q) + Len(r) : t[n] = IF n <= Len(q) THEN q[n] ELSE r[n - Len(q)]
         /\ \A i \in 1 .. Len(s) : t[Len(q) + Len(r) + i] = s[i]
<1>0. q \o r \in Seq(X) OBVIOUS
<1>1. PICK u \in Seq(X) : u = q \o r BY <1>0, Zenon
<1>2. Len(u) = Len(q) + Len(r) BY <1>1
<1>3. \A n \in 1 .. Len(u) : u[n] = IF n <= Len(q) THEN q[n] ELSE r[n - Len(q)] BY <1>1
<1>4. t = u \o s BY <1>1
<1>5. Len(t) = Len(u) + Len(s) BY <1>4
<1>6. \A n \in 1 .. Len(u) : t[n] = u[n] BY <1>4
<1>7. \A i \in 1 .. Len(s) : t[Len(u) + i] = s[i] BY <1>4
<1>8. QED BY <1>2, <1>3, <1>5, <1>6, <1>7

\* A button as an input.
ButtonAt(b, i) == [is |-> "button", type |-> b[i].type, element |-> b[i].element, input |-> i]

OtherInputs(d) == Len(d.sensors) + Len(d.binaries)

Other == [is : {"sensor", "binary"}, type : STRING]
Last == [is : {"button"}, type : STRING, element : STRING, input : Nat]

\* The inputs are the sensors, then the binary inputs, then the buttons
\* (p44bridge.cpp 350-353).
LEMMA InputLists ==
  ASSUME NEW d, HasInputs(d)
  PROVE  \E s \in Seq(Other), b \in Seq(Other), k \in Seq(Last) :
           /\ InputsOf(d) = s \o b \o k
           /\ Len(s) = Len(d.sensors) /\ Len(b) = Len(d.binaries) /\ Len(k) = Len(d.buttons)
           /\ \A i \in 1 .. Len(k) : k[i] = ButtonAt(d.buttons, i)
<1> DEFINE S == [i \in DOMAIN d.sensors |-> [is |-> "sensor", type |-> d.sensors[i]]]
           B == [i \in DOMAIN d.binaries |-> [is |-> "binary", type |-> d.binaries[i]]]
           K == [i \in DOMAIN d.buttons |-> ButtonAt(d.buttons, i)]
<1>1. S \in Seq(Other) /\ Len(S) = Len(d.sensors)
  <2>1. PICK s \in Seq(STRING) : s = d.sensors BY DEF HasInputs
  <2>2. DOMAIN s = 1 .. Len(s) /\ Len(s) \in Nat OBVIOUS
  <2>3. \A i \in 1 .. Len(s) : [is |-> "sensor", type |-> s[i]] \in Other BY DEF Other
  <2>4. S = [i \in 1 .. Len(s) |-> [is |-> "sensor", type |-> s[i]]] BY <2>1, <2>2
  <2> HIDE DEF S
  <2>5. QED BY <2>1, <2>2, <2>3, <2>4
<1>2. B \in Seq(Other) /\ Len(B) = Len(d.binaries)
  <2>1. PICK s \in Seq(STRING) : s = d.binaries BY DEF HasInputs
  <2>2. DOMAIN s = 1 .. Len(s) /\ Len(s) \in Nat OBVIOUS
  <2>3. \A i \in 1 .. Len(s) : [is |-> "binary", type |-> s[i]] \in Other BY DEF Other
  <2>4. B = [i \in 1 .. Len(s) |-> [is |-> "binary", type |-> s[i]]] BY <2>1, <2>2
  <2> HIDE DEF B
  <2>5. QED BY <2>1, <2>2, <2>3, <2>4
<1>3. /\ K \in Seq(Last) /\ Len(K) = Len(d.buttons)
      /\ \A i \in 1 .. Len(K) : K[i] = ButtonAt(d.buttons, i)
  <2>1. PICK b \in Seq([type : STRING, element : STRING]) : b = d.buttons BY DEF HasInputs
  <2>2. DOMAIN b = 1 .. Len(b) /\ Len(b) \in Nat OBVIOUS
  <2>3. ASSUME NEW i \in 1 .. Len(b) PROVE ButtonAt(b, i) \in Last
    <3>1. PICK x \in [type : STRING, element : STRING] : x = b[i] BY ItemTyped, Zenon
    <3>2. i \in Nat BY <2>2
    <3>3. QED BY <3>1, <3>2 DEF ButtonAt, Last
  <2>4. K = [i \in 1 .. Len(b) |-> ButtonAt(b, i)] BY <2>1, <2>2
  <2> HIDE DEF K
  <2>5. QED BY <2>1, <2>2, <2>3, <2>4
<1>4. InputsOf(d) = S \o B \o K
  BY DEF InputsOf, ButtonAt
<1> HIDE DEF S, B, K
<1>5. QED BY <1>1, <1>2, <1>3, <1>4, Zenon

\* The buttons come behind all other inputs, with their ids.
LEMMA ButtonsComeLast ==
  ASSUME NEW d, HasInputs(d)
  PROVE  /\ OtherInputs(d) \in Nat /\ Len(d.buttons) \in Nat
         /\ Len(InputsOf(d)) = OtherInputs(d) + Len(d.buttons)
         /\ \A n \in 1 .. OtherInputs(d) : InputsOf(d)[n] \in Other
         /\ \A i \in 1 .. Len(d.buttons) : InputsOf(d)[OtherInputs(d) + i] = ButtonAt(d.buttons, i)
<1>1. PICK s \in Seq(Other), b \in Seq(Other), k \in Seq(Last) :
        /\ InputsOf(d) = s \o b \o k
        /\ Len(s) = Len(d.sensors) /\ Len(b) = Len(d.binaries) /\ Len(k) = Len(d.buttons)
        /\ \A i \in 1 .. Len(k) : k[i] = ButtonAt(d.buttons, i)
  BY InputLists
<1>2. /\ s \in Seq(Other \cup Last) /\ b \in Seq(Other \cup Last) /\ k \in Seq(Other \cup Last)
  OBVIOUS
<1>3. PICK t : t = s \o b \o k OBVIOUS
<1>4. /\ Len(t) = Len(s) + Len(b) + Len(k)
      /\ \A n \in 1 .. Len(s) + Len(b) : t[n] = IF n <= Len(s) THEN s[n] ELSE b[n - Len(s)]
      /\ \A i \in 1 .. Len(k) : t[Len(s) + Len(b) + i] = k[i]
  <2>1. PICK X : X = Other \cup Last OBVIOUS
  <2>2. s \in Seq(X) /\ b \in Seq(X) /\ k \in Seq(X) BY <1>2, <2>1
  <2>3. QED BY <1>3, <2>2, ThreeLists
<1>5. Len(s) \in Nat /\ Len(b) \in Nat /\ Len(k) \in Nat OBVIOUS
<1>6. OtherInputs(d) = Len(s) + Len(b) BY <1>1 DEF OtherInputs
<1>7. ASSUME NEW n \in 1 .. Len(s) + Len(b) PROVE t[n] \in Other
  <2>1. n <= Len(s) => s[n] \in Other BY <1>5
  <2>2. ~(n <= Len(s)) => b[n - Len(s)] \in Other BY <1>5
  <2>3. QED BY <1>4, <2>1, <2>2
<1>8. InputsOf(d) = t BY <1>1, <1>3
<1>9. Len(d.buttons) = Len(k) /\ OtherInputs(d) \in Nat
  <2>1. Len(d.buttons) = Len(k) BY <1>1, Zenon
  <2>2. OtherInputs(d) \in Nat BY <1>5, <1>6
  <2>3. QED BY <2>1, <2>2
<1>10. /\ Len(InputsOf(d)) = OtherInputs(d) + Len(d.buttons)
       /\ \A n \in 1 .. OtherInputs(d) : InputsOf(d)[n] \in Other
  BY <1>4, <1>6, <1>7, <1>8, <1>9
<1>11. \A i \in 1 .. Len(d.buttons) : InputsOf(d)[OtherInputs(d) + i] = ButtonAt(d.buttons, i)
  BY <1>1, <1>4, <1>6, <1>8, <1>9
<1>12. QED BY <1>5, <1>9, <1>10, <1>11


Part == [at : 1 .. 2, input : Nat]
Class == {"none", "button", "on/off light", "dimmable light", "temperature light", "color light",
          "on/off plug", "dimmable plug", "window covering", "fan", "temperature", "humidity",
          "illumination", "occupancy", "inverted contact", "contact"}
Made == [class : Class, positions : SUBSET Part]
Collector == [devices : Seq(Made), dev : Made, more : BOOLEAN]

\* No buttons have been found, and nothing waits.
Bare(c) ==
  /\ c \in Collector /\ c.dev = NoDevice /\ ~c.more
  /\ \A k \in DOMAIN c.devices : c.devices[k].positions = {}

\* A device without positions.
LEMMA SingleMade == \A class \in Class : Single(class) \in Made /\ Single(class).positions = {}
  BY DEF Single, Made

\* The loop starts with no button.
LEMMA OutputBare ==
  ASSUME NEW d
  PROVE  Bare([devices |-> OutputDevice(d), dev |-> NoDevice, more |-> FALSE])
<1>1. OutputDevice(d) = <<>> \/ \E class \in Class : OutputDevice(d) = <<Single(class)>>
  <2>1. LightOf(d.output) \in Class BY DEF LightOf, Class
  <2> DEFINE k == CASE LightOutput(d) -> LightOf(d.output)
                    [] ShadowOutput(d) -> "window covering"
                    [] FanOutput(d) -> "fan"
                    [] OTHER -> IF d.output = "switch" THEN "on/off plug" ELSE "dimmable plug"
  <2>2. k \in Class
    <3>1. \A x \in {"window covering", "fan", "on/off plug", "dimmable plug"} : x \in Class BY DEF Class
    <3>2. FanOutput(d) => ~LightOutput(d) /\ ~ShadowOutput(d) BY DEF FanOutput
    <3>3. CASE LightOutput(d) /\ ~ShadowOutput(d) BY <2>1, <3>2, <3>3
    <3>4. CASE ShadowOutput(d) /\ ~LightOutput(d) BY <3>1, <3>2, <3>4
    <3>5. CASE ~LightOutput(d) /\ ~ShadowOutput(d) BY <3>1, <3>5
    <3>6. ~(LightOutput(d) /\ ShadowOutput(d)) BY DEF LightOutput, ShadowOutput
    <3>7. QED BY <3>3, <3>4, <3>5, <3>6
  <2>3. OutputDevice(d) = <<>> \/ OutputDevice(d) = <<Single(k)>>
    BY DEF OutputDevice
  <2> HIDE DEF k
  <2>4. QED BY <2>2, <2>3
<1>2. NoDevice \in Made BY DEF NoDevice, Single, Made, Class
<1>3. OutputDevice(d) \in Seq(Made) /\ \A k \in DOMAIN OutputDevice(d) : OutputDevice(d)[k].positions = {}
  <2>1. CASE OutputDevice(d) = <<>> BY <2>1
  <2>2. CASE \E class \in Class : OutputDevice(d) = <<Single(class)>>
    <3>1. PICK class \in Class : OutputDevice(d) = <<Single(class)>> BY <2>2
    <3>2. PICK s \in Made : s = Single(class) /\ s.positions = {} BY SingleMade
    <3>3. QED BY <3>1, <3>2
  <2>3. QED BY <1>1, <2>1, <2>2
<1>4. QED BY <1>2, <1>3 DEF Bare, Collector

\* Sensors and binary inputs add no button, and none of them waits.
LEMMA OthersKeepBare ==
  ASSUME NEW c, Bare(c), NEW in \in Other
  PROVE  Bare(AddInput(c, in))
<1> DEFINE m == CASE in.is = "sensor" -> SensorDevice(c, in.type)
                  [] in.is = "binary" -> BinaryDevice(c, in.type)
                  [] in.is = "button" -> ButtonDevice(c, in)
<1>1. AddInput(c, in) = PushedBack(m)
  BY DEF AddInput
<1>2. m = c \/ \E class \in Class : m = [c EXCEPT !.dev = Single(class)]
  <2>1. CASE in.is = "sensor"
    BY <2>1 DEF SensorDevice, Class
  <2>2. CASE in.is = "binary"
    <3>1. m = BinaryDevice(c, in.type) BY <2>2
    <3> HIDE DEF m
    <3>2. CASE in.type = "none" BY <3>1, <3>2 DEF BinaryDevice
    <3>3. ASSUME in.type # "none" PROVE \E class \in Class : m = [c EXCEPT !.dev = Single(class)]
      <4> DEFINE k == CASE in.type \in {"presence", "motion"} -> "occupancy"
                        [] in.type = "window handle" -> "inverted contact"
                        [] OTHER -> "contact"
      <4>1. k \in Class BY DEF Class
      <4>2. m = [c EXCEPT !.dev = Single(k)] BY <3>1, <3>3 DEF BinaryDevice
      <4> HIDE DEF k
      <4>3. QED BY <4>1, <4>2
    <3>4. QED BY <3>2, <3>3
  <2>3. QED BY <2>1, <2>2 DEF Other
<1> HIDE DEF m
<1>3. CASE m = c
  BY <1>1, <1>3 DEF PushedBack, Bare
<1>4. CASE \E class \in Class : m = [c EXCEPT !.dev = Single(class)]
  <2>1. PICK class \in Class : m = [c EXCEPT !.dev = Single(class)] BY <1>4
  <2>2. PICK s \in Made : s = Single(class) /\ s.positions = {} BY SingleMade
  <2>3. m \in Collector /\ m.dev = s /\ ~m.more /\ m.devices = c.devices
    BY <2>1, <2>2 DEF Bare, Collector
  <2>4. CASE s = NoDevice
    BY <1>1, <2>3, <2>4 DEF Bare, PushedBack
  <2>5. CASE s # NoDevice
    <3>1. PushedBack(m) = [m EXCEPT !.devices = Append(@, m.dev), !.dev = NoDevice]
      BY <2>3, <2>5, Zenon DEF PushedBack
    <3>2. NoDevice \in Made BY DEF NoDevice, Single, Made, Class
    <3>3. PICK a : a = Append(c.devices, s) OBVIOUS
    <3>4. a \in Seq(Made) /\ \A k \in DOMAIN a : a[k].positions = {}
      BY <2>2, <3>3 DEF Bare, Collector
    <3>5. PushedBack(m) \in Collector /\ PushedBack(m).devices = a /\ PushedBack(m).dev = NoDevice /\ ~PushedBack(m).more
      BY <2>3, <3>1, <3>2, <3>3, <3>4 DEF Collector
    <3>6. QED BY <1>1, <3>4, <3>5 DEF Bare
  <2>6. QED BY <2>4, <2>5
<1>5. QED BY <1>2, <1>3, <1>4

\* So it is before the first button.
LEMMA OthersFound ==
  ASSUME NEW d, HasInputs(d)
  PROVE  Bare(Found(d)[OtherInputs(d)])
<1> DEFINE N == OtherInputs(d)
           S == {n \in Nat : n <= N => Bare(Found(d)[n])}
<1>1. /\ N \in Nat /\ Len(InputsOf(d)) \in Nat /\ N <= Len(InputsOf(d))
      /\ \A n \in 1 .. N : InputsOf(d)[n] \in Other
  BY ButtonsComeLast
<1>2. /\ Found(d)[0] = [devices |-> OutputDevice(d), dev |-> NoDevice, more |-> FALSE]
      /\ \A n \in 1 .. N : Found(d)[n] = AddInput(Found(d)[n - 1], InputsOf(d)[n])
  BY <1>1, FoundGoesOn
<1> HIDE DEF N
<1>3. 0 \in S BY <1>2, OutputBare
<1>4. ASSUME NEW n \in Nat, n \in S PROVE n + 1 \in S
  <2>1. SUFFICES ASSUME n + 1 <= N PROVE Bare(Found(d)[n + 1])
    OBVIOUS
  <2>2. Bare(Found(d)[n]) BY <1>1, <1>4, <2>1
  <2>3. n + 1 \in 1 .. N /\ (n + 1) - 1 = n BY <1>1, <2>1
  <2>4. Found(d)[n + 1] = AddInput(Found(d)[n], InputsOf(d)[n + 1]) BY <1>2, <2>3
  <2>5. InputsOf(d)[n + 1] \in Other BY <1>1, <2>3
  <2>6. QED BY <2>2, <2>4, <2>5, OthersKeepBare
<1>5. N \in S
  <2> HIDE DEF S
  <2>1. QED BY <1>1, <1>3, <1>4, AllNaturals
<1>6. QED BY <1>1, <1>5 DEF N


\* Where the halves of a rocker go.
FirstAt(b, i) == IF b[i].element = "down" THEN 2 ELSE 1
SecondAt(b, i) == IF b[i].element = "up" THEN 1 ELSE 2

\* The position p of the device dv is the place for its button.
Fits(b, dv, p) ==
  IF b[p.input].type = "single" THEN dv.positions = {p}
  ELSE /\ \E q : q # p /\ dv.positions = {p, q}
       /\ b[p.input].element = "up" => p.at = 1
       /\ b[p.input].element = "down" => p.at = 2

\* The first m buttons have their places.
AllPlaced(b, m, devices) ==
  /\ \A k \in DOMAIN devices : \A p \in devices[k].positions : p.input \in 1 .. m /\ Fits(b, devices[k], p)
  /\ \A j \in 1 .. m : \E k \in DOMAIN devices : \E p \in devices[k].positions : p.input = j
  /\ \A k, l \in DOMAIN devices : \A p \in devices[k].positions, q \in devices[l].positions :
       p.input = q.input => k = l /\ p = q

\* After i buttons, the last one may be waiting for its other half.
HalfWay(b, first, i, c) ==
  /\ c \in Collector
  /\ IF i \in first
       THEN /\ c.more /\ AllPlaced(b, i - 1, c.devices)
            /\ c.dev = [class |-> "button", positions |-> {[at |-> FirstAt(b, i), input |-> i]}]
       ELSE ~c.more /\ c.dev = NoDevice /\ AllPlaced(b, i, c.devices)

\* A device that holds the buttons up to n.
LEMMA PlacesGrow ==
  ASSUME NEW b, NEW devices \in Seq(Made), NEW dv \in Made, NEW m \in Nat, NEW n \in Nat, m <= n,
         AllPlaced(b, m, devices),
         \A p \in dv.positions : p.input \in m + 1 .. n /\ Fits(b, dv, p),
         \A j \in m + 1 .. n : \E p \in dv.positions : p.input = j,
         \A p, q \in dv.positions : p.input = q.input => p = q,
         NEW all, all = Append(devices, dv)
  PROVE  AllPlaced(b, n, all)
<1>1. /\ Len(devices) \in Nat /\ DOMAIN devices = 1 .. Len(devices)
      /\ DOMAIN all = 1 .. Len(devices) + 1
      /\ \A k \in 1 .. Len(devices) : all[k] = devices[k]
      /\ all[Len(devices) + 1] = dv
  OBVIOUS
<1> DEFINE L == Len(devices)
<1>2. \A k \in DOMAIN all : k = L + 1 \/ (k \in DOMAIN devices /\ k # L + 1) BY <1>1
<1>3. ASSUME NEW k \in DOMAIN all, NEW p \in all[k].positions
      PROVE  p.input \in 1 .. n /\ Fits(b, all[k], p) /\ (p.input > m <=> k = L + 1)
  <2>1. CASE k = L + 1
    <3>1. p \in dv.positions BY <1>1, <2>1
    <3>2. p.input \in m + 1 .. n /\ Fits(b, dv, p) BY <3>1
    <3>3. QED BY <1>1, <2>1, <3>2
  <2>2. CASE k \in DOMAIN devices /\ k # L + 1
    <3>1. all[k] = devices[k] BY <1>1, <2>2
    <3>2. p.input \in 1 .. m /\ Fits(b, devices[k], p) BY <2>2, <3>1 DEF AllPlaced
    <3>3. QED BY <2>2, <3>1, <3>2
  <2>3. QED BY <1>2, <2>1, <2>2
<1>4. ASSUME NEW j \in 1 .. n PROVE \E k \in DOMAIN all : \E p \in all[k].positions : p.input = j
  <2>1. CASE j \in 1 .. m
    <3>1. PICK k \in DOMAIN devices : \E p \in devices[k].positions : p.input = j
      BY <2>1 DEF AllPlaced
    <3>2. k \in DOMAIN all /\ all[k] = devices[k] BY <1>1
    <3>3. QED BY <3>1, <3>2
  <2>2. CASE j \in m + 1 .. n
    <3>1. PICK p \in dv.positions : p.input = j BY <2>2
    <3>2. L + 1 \in DOMAIN all /\ all[L + 1] = dv BY <1>1
    <3>3. QED BY <3>1, <3>2
  <2>3. QED BY <2>1, <2>2
<1>5. ASSUME NEW k \in DOMAIN all, NEW l \in DOMAIN all,
             NEW p \in all[k].positions, NEW q \in all[l].positions, p.input = q.input
      PROVE  k = l /\ p = q
  <2>1. k = L + 1 <=> l = L + 1 BY <1>3, <1>5
  <2>2. CASE k = L + 1
    <3>1. p \in dv.positions /\ q \in dv.positions BY <1>1, <2>1, <2>2
    <3>2. QED BY <1>5, <2>1, <2>2, <3>1
  <2>3. CASE k # L + 1
    <3>1. k \in DOMAIN devices /\ l \in DOMAIN devices BY <1>2, <2>1, <2>3
    <3>2. all[k] = devices[k] /\ all[l] = devices[l] BY <1>1, <3>1
    <3>3. p \in devices[k].positions /\ q \in devices[l].positions BY <3>2
    <3>4. QED BY <1>5, <3>1, <3>3 DEF AllPlaced
  <2>4. QED BY <2>2, <2>3
<1>6. QED BY <1>3, <1>4, <1>5 DEF AllPlaced

\* Buttons that have their places are kept.
LEMMA EachIsPlaced ==
  ASSUME NEW b, NEW devices \in Seq(Made), NEW N \in Nat, AllPlaced(b, N, devices), NEW i \in 1 .. N
  PROVE  IsPlaced(b, devices, i)
<1>0. PICK k \in DOMAIN devices : \E p \in devices[k].positions : p.input = i
  BY DEF AllPlaced
<1>1. PICK p \in devices[k].positions : p.input = i BY <1>0
<1>2. p \in [at : 1 .. 2, input : {i}]
  <2>1. devices[k] \in Made OBVIOUS
  <2>2. p \in Part BY <2>1 DEF Made
  <2>3. QED BY <1>1, <2>2 DEF Part
<1>3. Places(devices, i) = {<<k, p>>}
  <2>1. <<k, p>> \in Places(devices, i) BY <1>1, <1>2 DEF Places
  <2>2. ASSUME NEW kp \in Places(devices, i) PROVE kp = <<k, p>>
    <3>1. /\ kp \in (DOMAIN devices) \X [at : 1 .. 2, input : {i}]
          /\ kp[2] \in devices[kp[1]].positions
      BY DEF Places
    <3>2. kp[1] \in DOMAIN devices /\ kp[2].input = i /\ kp = <<kp[1], kp[2]>> BY <3>1
    <3>3. kp[1] = k /\ kp[2] = p BY <1>1, <3>1, <3>2 DEF AllPlaced
    <3>4. QED BY <3>2, <3>3
  <2>3. QED BY <2>1, <2>2
<1>4. Cardinality(Places(devices, i)) = 1
  BY <1>3, FS_Singleton
<1>5. Fits(b, devices[k], p) BY DEF AllPlaced
<1>6. b[i].type # "single" => Cardinality(devices[k].positions) = 2
  <2>1. SUFFICES ASSUME b[i].type # "single" PROVE Cardinality(devices[k].positions) = 2
    OBVIOUS
  <2>2. PICK q : q # p /\ devices[k].positions = {p, q} BY <1>1, <1>5, <2>1 DEF Fits
  <2>3. {p, q} = {p} \cup {q} /\ q \notin {p} BY <2>2
  <2>4. IsFiniteSet({p}) /\ Cardinality({p}) = 1 BY FS_Singleton
  <2>5. Cardinality({p} \cup {q}) = 2
    <3>1. PICK S : S = {p} OBVIOUS
    <3>2. IsFiniteSet(S) /\ Cardinality(S) = 1 /\ q \notin S BY <2>3, <2>4, <3>1
    <3>3. Cardinality(S \cup {q}) = IF q \in S THEN Cardinality(S) ELSE Cardinality(S) + 1
      BY <3>2, FS_AddElement
    <3>4. Cardinality(S \cup {q}) = 2 BY <3>2, <3>3
    <3>5. QED BY <3>1, <3>4
  <2>6. QED BY <2>2, <2>3, <2>5
<1>7. ASSUME NEW kp \in Places(devices, i)
      PROVE  IF b[i].type = "single"
               THEN devices[kp[1]].positions = {kp[2]}
               ELSE /\ Cardinality(devices[kp[1]].positions) = 2
                    /\ b[i].element = "up" => kp[2].at = 1
                    /\ b[i].element = "down" => kp[2].at = 2
  <2>1. kp[1] = k /\ kp[2] = p BY <1>3
  <2>2. QED BY <1>1, <1>5, <1>6, <2>1 DEF Fits
<1>8. QED BY <1>4, <1>7 DEF IsPlaced

\* A button that is added.
LEMMA ButtonAdded ==
  ASSUME NEW b, b \in Seq([type : STRING, element : STRING]), NEW first \in SUBSET DOMAIN b,
         PairedBy(b, first), NEW i \in Nat, i + 1 \in 1 .. Len(b), NEW c, HalfWay(b, first, i, c)
  PROVE  HalfWay(b, first, i + 1, AddInput(c, ButtonAt(b, i + 1)))
<1> DEFINE n == i + 1
           in == ButtonAt(b, n)
<1>1. /\ in.is = "button" /\ in.type = b[n].type /\ in.element = b[n].element /\ in.input = n
  BY DEF ButtonAt
<1>2. AddInput(c, in) = PushedBack(ButtonDevice(c, in))
  BY <1>1 DEF AddInput
<1>3. DOMAIN b = 1 .. Len(b) /\ n \in DOMAIN b /\ n \in Nat /\ i = n - 1 /\ i \in 0 .. n
  OBVIOUS
<1>4. c \in Collector /\ c.devices \in Seq(Made) /\ c.dev \in Made
  BY DEF HalfWay, Collector
<1>5. NoDevice \in Made /\ NoDevice.positions = {} /\ NoDevice.class = "none"
  BY DEF NoDevice, Single, Made, Class
<1> HIDE DEF in, n
<1>6. ASSUME NEW m \in Nat, m <= n, NEW P, P \in SUBSET Part, P # {}, AllPlaced(b, m, c.devices),
             NEW x, x = [class |-> "button", positions |-> P],
             NEW y, y = [devices |-> c.devices, dev |-> x, more |-> FALSE],
             AddInput(c, in) = PushedBack(y), n \notin first,
             \A p \in P : p.input \in m + 1 .. n /\ Fits(b, x, p),
             \A j \in m + 1 .. n : \E p \in P : p.input = j,
             \A p, q \in P : p.input = q.input => p = q
      PROVE  HalfWay(b, first, n, AddInput(c, in))
  <2>1. x \in Made /\ x.positions = P /\ x # NoDevice
    <3>1. "button" \in Class BY DEF Class
    <3>2. QED BY <1>5, <1>6, <3>1 DEF Made
  <2>2. y \in Collector /\ y.dev = x /\ ~y.more /\ y.devices = c.devices
    BY <1>4, <1>6, <2>1 DEF Collector
  <2>3. PICK all : all = Append(c.devices, x) OBVIOUS
  <2>4. all \in Seq(Made) BY <1>4, <2>1, <2>3
  <2>5. PushedBack(y) = [devices |-> all, dev |-> NoDevice, more |-> FALSE]
    <3>1. y.dev # NoDevice /\ ~y.more BY <2>1, <2>2
    <3>2. PushedBack(y) = [y EXCEPT !.devices = Append(@, y.dev), !.dev = NoDevice]
      BY <3>1, Zenon DEF PushedBack
    <3>3. QED BY <1>6, <2>2, <2>3, <3>2
  <2>6. AllPlaced(b, n, all)
    <3>1. \A p \in x.positions : p.input \in m + 1 .. n /\ Fits(b, x, p) BY <1>6, <2>1
    <3>2. \A j \in m + 1 .. n : \E p \in x.positions : p.input = j BY <1>6, <2>1
    <3>3. \A p, q \in x.positions : p.input = q.input => p = q BY <1>6, <2>1
    <3>4. QED BY <1>3, <1>4, <1>6, <2>1, <2>3, <3>1, <3>2, <3>3, PlacesGrow
  <2>7. [devices |-> all, dev |-> NoDevice, more |-> FALSE] \in Collector
    BY <1>5, <2>4 DEF Collector
  <2>8. QED BY <1>6, <2>5, <2>6, <2>7 DEF HalfWay
<1>7. CASE i \in first
  <2>1. /\ b[i].type = "2way" /\ n \notin first /\ b[n].type = "2way" /\ Opposite(b[i], b[n])
        /\ i \in Nat /\ i # 0 /\ i \in DOMAIN b
    <3>1. \A k \in first : b[k].type = "2way" /\ k + 1 \in DOMAIN b \ first /\ b[k + 1].type = "2way"
                           /\ Opposite(b[k], b[k + 1])
      BY Zenon DEF PairedBy
    <3>2. b[i].type = "2way" /\ n \in DOMAIN b \ first /\ b[n].type = "2way" /\ Opposite(b[i], b[n])
      BY <1>7, <3>1, Zenon DEF n
    <3>3. i \in DOMAIN b BY <1>7
    <3>4. i \in Nat /\ i # 0 BY <3>3
    <3>5. QED BY <3>2, <3>3, <3>4
  <2>2. /\ c.more /\ AllPlaced(b, i - 1, c.devices)
        /\ c.dev = [class |-> "button", positions |-> {[at |-> FirstAt(b, i), input |-> i]}]
    BY <1>7 DEF HalfWay
  <2> DEFINE p1 == [at |-> FirstAt(b, i), input |-> i]
             p2 == [at |-> SecondAt(b, n), input |-> n]
  <2>3. FirstAt(b, i) # SecondAt(b, n) /\ FirstAt(b, i) \in 1 .. 2 /\ SecondAt(b, n) \in 1 .. 2
    <3>1. PICK e, f : e = b[i].element /\ f = b[n].element OBVIOUS
    <3>2. {e, f} = {"up", "down"} \/ {e, f} = {"center"} BY <2>1, <3>1 DEF Opposite
    <3>3. (e = "up" /\ f = "down") \/ (e = "down" /\ f = "up") \/ (e = "center" /\ f = "center")
          \/ (e = f /\ e \in {"up", "down"})
      BY <3>2
    <3>4. ASSUME e = f, e \in {"up", "down"} PROVE FALSE
      <4>1. e \in {e, f} OBVIOUS
      <4>2. e # "center" BY <3>4
      <4>3. {e, f} = {"up", "down"} BY <3>2, <4>1, <4>2
      <4>4. "up" \in {e, f} /\ "down" \in {e, f} BY <4>3
      <4>5. QED BY <3>4, <4>4
    <3>5. QED BY <3>1, <3>3, <3>4 DEF FirstAt, SecondAt
  <2>4. p1 \in Part /\ p2 \in Part /\ p1.input = i /\ p2.input = n /\ p1 # p2
        /\ p1.at = FirstAt(b, i) /\ p2.at = SecondAt(b, n)
    BY <1>3, <2>3 DEF Part
  <2>5. PICK x : x = [class |-> "button", positions |-> {p1, p2}] OBVIOUS
  <2>6. Place(c.dev, SecondAt(b, n), n) = x
    <3>1. {p \in {p1} : p.at # SecondAt(b, n)} = {p1} BY <2>3, <2>4
    <3>2. c.dev.positions = {p1} BY <2>2
    <3>3. {p \in c.dev.positions : p.at # SecondAt(b, n)} = {p1} BY <3>1, <3>2
    <3>4. Place(c.dev, SecondAt(b, n), n) = [class |-> "button", positions |-> {p1} \cup {p2}]
      BY <3>3 DEF Place
    <3>5. {p1} \cup {p2} = {p1, p2} OBVIOUS
    <3>6. QED BY <2>5, <3>4, <3>5
  <2>7. ButtonDevice(c, in) = Second(c, in) BY <1>1, <2>1, <2>2 DEF ButtonDevice
  <2>8. Second(c, in) = [c EXCEPT !.more = FALSE, !.dev = Place(@, SecondAt(b, n), n)]
    BY <1>1 DEF Second, SecondAt
  <2>9. PICK y : y = [devices |-> c.devices, dev |-> x, more |-> FALSE] OBVIOUS
  <2>10. Second(c, in) = y BY <1>4, <2>6, <2>8, <2>9 DEF Collector
  <2>11. x.positions = {p1, p2} BY <2>5
  <2> HIDE DEF p1, p2
  <2>12. Fits(b, x, p1) /\ Fits(b, x, p2)
    <3>1. b[p1.input].type # "single" /\ b[p2.input].type # "single" BY <2>1, <2>4
    <3>2. b[i].element = "up" => p1.at = 1 BY <2>4 DEF FirstAt
    <3>3. b[i].element = "down" => p1.at = 2 BY <2>4 DEF FirstAt
    <3>4. b[n].element = "up" => p2.at = 1 BY <2>4 DEF SecondAt
    <3>5. b[n].element = "down" => p2.at = 2 BY <2>4 DEF SecondAt
    <3>6. (\E q : q # p1 /\ x.positions = {p1, q}) /\ (\E q : q # p2 /\ x.positions = {p2, q})
      BY <2>4, <2>11
    <3>7. QED BY <2>4, <3>1, <3>2, <3>3, <3>4, <3>5, <3>6 DEF Fits
  <2>13. i - 1 \in Nat /\ i - 1 <= n /\ (i - 1) + 1 = i /\ i .. n = {i, n} BY <1>3, <2>1
  <2>14. \A p \in {p1, p2} : p.input \in (i - 1) + 1 .. n /\ Fits(b, x, p)
    BY <2>4, <2>12, <2>13
  <2>15. \A j \in (i - 1) + 1 .. n : \E p \in {p1, p2} : p.input = j
    BY <2>4, <2>13
  <2>16. \A p, q \in {p1, p2} : p.input = q.input => p = q
    BY <1>3, <2>4
  <2>17. AddInput(c, in) = PushedBack(y) BY <1>2, <2>7, <2>10
  <2>18. {p1, p2} \in SUBSET Part /\ {p1, p2} # {} BY <2>4
  <2>19. PICK P : P = {p1, p2} OBVIOUS
  <2>20. PICK m \in Nat : m = i - 1 BY <2>13
  <2>21. /\ m <= n /\ P \in SUBSET Part /\ P # {} /\ AllPlaced(b, m, c.devices)
         /\ x = [class |-> "button", positions |-> P]
         /\ \A p \in P : p.input \in m + 1 .. n /\ Fits(b, x, p)
         /\ \A j \in m + 1 .. n : \E p \in P : p.input = j
         /\ \A p, q \in P : p.input = q.input => p = q
    BY <2>2, <2>5, <2>13, <2>14, <2>15, <2>16, <2>18, <2>19, <2>20 DEF p1, p2
  <2>22. n \notin first BY <2>1
  <2>23. HalfWay(b, first, n, AddInput(c, in)) BY <1>6, <2>9, <2>17, <2>21, <2>22, Zenon
  <2>24. QED BY <2>23 DEF n, in
<1>8. CASE i \notin first /\ n \in first
  <2>1. b[n].type = "2way" BY <1>8 DEF PairedBy
  <2>2. ~c.more /\ AllPlaced(b, i, c.devices) BY <1>8 DEF HalfWay
  <2> DEFINE p1 == [at |-> FirstAt(b, n), input |-> n]
  <2>3. p1 \in Part BY <1>3 DEF Part, FirstAt
  <2>4. PICK x : x = [class |-> "button", positions |-> {p1}] OBVIOUS
  <2>5. Place(NoDevice, FirstAt(b, n), n) = x
    <3>1. {p \in NoDevice.positions : p.at # FirstAt(b, n)} = {} BY <1>5
    <3>2. {} \cup {p1} = {p1} OBVIOUS
    <3>3. QED BY <2>4, <3>1, <3>2 DEF Place
  <2>6. x \in Made /\ x # NoDevice
    <3>1. "button" \in Class BY DEF Class
    <3>2. QED BY <1>5, <2>3, <2>4, <3>1 DEF Made
  <2>7. ButtonDevice(c, in) = First(c, in) BY <1>1, <2>1, <2>2 DEF ButtonDevice
  <2>8. First(c, in) = [c EXCEPT !.more = TRUE, !.dev = x]
    BY <1>1, <2>5 DEF First, FirstAt
  <2>9. PICK y : y = [c EXCEPT !.more = TRUE, !.dev = x] OBVIOUS
  <2>10. y \in Collector /\ y.more /\ y.dev = x /\ y.devices = c.devices
    BY <1>4, <2>6, <2>9 DEF Collector
  <2>11. PushedBack(y) = y BY <2>10 DEF PushedBack
  <2>12. AddInput(c, in) = y BY <1>2, <2>7, <2>8, <2>9, <2>11
  <2>13. n - 1 = i BY <1>3
  <2>14. QED BY <1>8, <2>2, <2>4, <2>10, <2>12, <2>13 DEF HalfWay, n, in
<1>9. CASE i \notin first /\ n \notin first
  <2>1. b[n].type = "single"
    <3>1. n - 1 = i BY <1>3
    <3>2. QED BY <1>3, <1>9, <3>1 DEF PairedBy
  <2>2. ~c.more /\ AllPlaced(b, i, c.devices) BY <1>9 DEF HalfWay
  <2> DEFINE p1 == [at |-> 1, input |-> n]
  <2>3. p1 \in Part /\ p1.input = n BY <1>3 DEF Part
  <2>4. PICK x : x = [class |-> "button", positions |-> {p1}] OBVIOUS
  <2>5. Place(NoDevice, 1, n) = x
    <3>1. {p \in NoDevice.positions : p.at # 1} = {} BY <1>5
    <3>2. {} \cup {p1} = {p1} OBVIOUS
    <3>3. QED BY <2>4, <3>1, <3>2 DEF Place
  <2>6. ButtonDevice(c, in) = [c EXCEPT !.dev = x]
    BY <1>1, <2>1, <2>5 DEF ButtonDevice
  <2>7. PICK y : y = [devices |-> c.devices, dev |-> x, more |-> FALSE] OBVIOUS
  <2>8. [c EXCEPT !.dev = x] = y
    <3>1. c.more = FALSE BY <1>4, <2>2 DEF Collector
    <3>2. [c EXCEPT !.dev = x] = [devices |-> c.devices, dev |-> x, more |-> c.more]
      BY <1>4 DEF Collector
    <3>3. QED BY <2>7, <3>1, <3>2
  <2>9. AddInput(c, in) = PushedBack(y) BY <1>2, <2>6, <2>8
  <2>10. x.positions = {p1} BY <2>4
  <2> HIDE DEF p1
  <2>11. Fits(b, x, p1) BY <2>1, <2>3, <2>10 DEF Fits
  <2>12. i + 1 .. n = {n} /\ i <= n BY <1>3
  <2>13. \A p \in {p1} : p.input \in i + 1 .. n /\ Fits(b, x, p) BY <2>3, <2>11, <2>12
  <2>14. \A j \in i + 1 .. n : \E p \in {p1} : p.input = j BY <2>3, <2>12
  <2>15. \A p, q \in {p1} : p.input = q.input => p = q OBVIOUS
  <2>16. {p1} \in SUBSET Part /\ {p1} # {} BY <2>3
  <2>17. PICK P : P = {p1} OBVIOUS
  <2>18. /\ i <= n /\ P \in SUBSET Part /\ P # {} /\ AllPlaced(b, i, c.devices)
         /\ x = [class |-> "button", positions |-> P]
         /\ \A p \in P : p.input \in i + 1 .. n /\ Fits(b, x, p)
         /\ \A j \in i + 1 .. n : \E p \in P : p.input = j
         /\ \A p, q \in P : p.input = q.input => p = q
    BY <2>2, <2>4, <2>12, <2>13, <2>14, <2>15, <2>16, <2>17 DEF p1
  <2>19. HalfWay(b, first, n, AddInput(c, in)) BY <1>6, <1>9, <2>7, <2>9, <2>18, Zenon
  <2>20. QED BY <2>19 DEF n, in
<1>10. QED BY <1>7, <1>8, <1>9 DEF n, in

\* When the rockers are complete, all buttons have got their places in the end.
LEMMA ButtonsFound ==
  ASSUME NEW d, HasInputs(d), Complete(d.buttons), NEW i \in DOMAIN d.buttons
  PROVE  IsPlaced(d.buttons, Found(d)[Len(InputsOf(d))].devices, i)
<1>1. PICK b \in Seq([type : STRING, element : STRING]) : b = d.buttons BY DEF HasInputs
<1>2. PICK first \in SUBSET DOMAIN b : PairedBy(b, first) BY <1>1 DEF Complete
<1>3. PICK N \in Nat : N = OtherInputs(d) BY ButtonsComeLast
<1>4. /\ Len(b) \in Nat /\ DOMAIN b = 1 .. Len(b)
      /\ Len(InputsOf(d)) = N + Len(b)
      /\ \A j \in 1 .. Len(b) : InputsOf(d)[N + j] = ButtonAt(b, j)
  BY <1>1, <1>3, ButtonsComeLast
<1>5. \A n \in 1 .. Len(InputsOf(d)) : Found(d)[n] = AddInput(Found(d)[n - 1], InputsOf(d)[n])
  <2>1. Len(InputsOf(d)) \in Nat BY <1>4
  <2>2. QED BY <2>1, FoundGoesOn
<1> DEFINE S == {j \in Nat : j <= Len(b) => HalfWay(b, first, j, Found(d)[N + j])}
<1>6. 0 \in S
  <2>1. PICK c : c = Found(d)[N] OBVIOUS
  <2>2. Bare(c) BY <1>3, <2>1, OthersFound
  <2>3. 0 \notin first BY <1>4
  <2>4. AllPlaced(b, 0, c.devices)
    <3>1. 1 .. 0 = {} OBVIOUS
    <3>2. QED BY <2>2, <3>1 DEF Bare, AllPlaced
  <2>5. HalfWay(b, first, 0, c) BY <2>2, <2>3, <2>4 DEF Bare, HalfWay
  <2>6. N + 0 = N OBVIOUS
  <2>7. QED BY <2>1, <2>5, <2>6
<1>7. ASSUME NEW j \in Nat, j \in S PROVE j + 1 \in S
  <2>1. SUFFICES ASSUME j + 1 <= Len(b) PROVE HalfWay(b, first, j + 1, Found(d)[N + (j + 1)])
    OBVIOUS
  <2>2. j + 1 \in 1 .. Len(b) /\ j <= Len(b) BY <1>4, <2>1
  <2>3. HalfWay(b, first, j, Found(d)[N + j]) BY <1>7, <2>2
  <2>4. N + (j + 1) \in 1 .. Len(InputsOf(d)) /\ (N + (j + 1)) - 1 = N + j BY <1>4, <2>2
  <2>5. Found(d)[N + (j + 1)] = AddInput(Found(d)[N + j], ButtonAt(b, j + 1))
    BY <1>4, <1>5, <2>2, <2>4
  <2>6. HalfWay(b, first, j + 1, AddInput(Found(d)[N + j], ButtonAt(b, j + 1)))
    BY <1>2, <2>2, <2>3, ButtonAdded
  <2>7. QED BY <2>5, <2>6
<1>8. HalfWay(b, first, Len(b), Found(d)[N + Len(b)])
  <2> HIDE DEF S
  <2>1. Nat \subseteq S BY <1>6, <1>7, AllNaturals
  <2>2. Len(b) \in S BY <1>4, <2>1
  <2>3. Len(b) <= Len(b) BY <1>4
  <2>4. QED BY <2>2, <2>3 DEF S
<1>9. Len(b) \notin first
  <2>1. Len(b) + 1 \notin DOMAIN b BY <1>4
  <2>2. QED BY <1>2, <2>1 DEF PairedBy
<1>10. PICK devices \in Seq(Made) : devices = Found(d)[N + Len(b)].devices
  BY <1>8 DEF HalfWay, Collector
<1>11. AllPlaced(b, Len(b), devices) BY <1>8, <1>9, <1>10 DEF HalfWay
<1>12. IsPlaced(b, devices, i) BY <1>1, <1>4, <1>11, EachIsPlaced
<1>13. QED BY <1>1, <1>4, <1>10, <1>12

\* What was queried is a description, and what is installed was made of it.
MappingInv ==
  /\ Is("mapping") => described \in Descriptions
  /\ subdevices # <<>> => Is("mapping") /\ subdevices = SubDevices(described)

\* Every button of a description whose rockers are complete is in one device,
\* at its position, for any number of buttons of both types, sensors and binary
\* inputs (p44bridge.cpp 349-501).
THEOREM ButtonsAlwaysKept == Spec => []ButtonsKept
<1>1. Init => MappingInv
  <2> SUFFICES ASSUME Init PROVE MappingInv
    OBVIOUS
  <2>1. MappingsInit BY DEF Init
  <2>2. subdevices = <<>> BY <2>1 DEF MappingsInit, MappingInit
  <2>3. ASSUME Is("mapping") PROVE described \in Descriptions
    BY <2>1, <2>3 DEF MappingsInit, MappingInit
  <2>4. QED BY <2>2, <2>3 DEF MappingInv
<1>2. MappingInv /\ [Next]_vars => MappingInv'
  <2> SUFFICES ASSUME MappingInv, [Next]_vars PROVE MappingInv'
    OBVIOUS
  <2>1. UNCHANGED kind
    BY DEF Next, vars, IdentifySteps, FanSteps, ButtonSteps, InputSteps, CoverSteps,
           ColorSteps, CCSteps, RoomSteps, MappingSteps, NameSteps
  <2>2. CASE UNCHANGED mappingVars
    BY <2>1, <2>2 DEF MappingInv, mappingVars, Is
  <2>3. CASE MappingSteps
    BY <2>1, <2>3 DEF MappingSteps, BridgedDeviceFromJSON, MappingInv, Is
  <2>4. QED
    BY <2>2, <2>3 DEF Next, vars, IdentifySteps, FanSteps, ButtonSteps, InputSteps, CoverSteps,
                      ColorSteps, CCSteps, RoomSteps, NameSteps
<1>3. MappingInv => ButtonsKept
  <2> SUFFICES ASSUME MappingInv, subdevices # <<>>, described.hint # "no-input",
                      Hinted(described) = <<>>, Complete(described.buttons),
                      NEW i \in DOMAIN described.buttons
               PROVE  IsPlaced(described.buttons, subdevices, i)
    BY DEF ButtonsKept
  <2>1. HasInputs(described) BY DescriptionsAssumption DEF MappingInv
  <2>2. subdevices = Found(described)[Len(InputsOf(described))].devices
    BY DEF MappingInv, SubDevices
  <2>3. QED BY <2>1, <2>2, ButtonsFound
<1>4. QED BY <1>1, <1>2, <1>3, PTL DEF Spec

---------------------------------------------------------------------------
(* Types, of all kinds of devices.                                         *)

\* Whatever a step does with the link keeps its types.
LEMMA LinkKept ==
  ASSUME BoundsAssumption, LinkTypeOK
  PROVE  /\ Command => LinkTypeOK'
         /\ \A r : Report(r) => LinkTypeOK'
         /\ \A n, rs : Deliver(n, rs) => LinkTypeOK'
         /\ \A rs : GoesOn(rs) => LinkTypeOK'
         /\ \A limit, rs : Happens(limit, rs) => LinkTypeOK'
         /\ LinkLost \/ LinkReconnect => LinkTypeOK'
         /\ UNCHANGED link => LinkTypeOK'
<1> USE BoundsAssumption DEF LinkTypeOK
<1>1. Command => LinkTypeOK' BY DEF Command
<1>2. \A r : Report(r) => LinkTypeOK' BY DEF Report
<1>3. \A n, rs : Deliver(n, rs) => LinkTypeOK' BY DEF Deliver
<1>4. \A rs : GoesOn(rs) => LinkTypeOK' BY DEF GoesOn
<1>5. \A limit, rs : Happens(limit, rs) => LinkTypeOK' BY DEF Happens
<1>6. LinkLost \/ LinkReconnect => LinkTypeOK'
  <2>1. ASSUME LinkLost PROVE LinkTypeOK'
    <3>1. losses < MaxLosses /\ losses' = losses + 1 BY <2>1 DEF LinkLost
    <3>2. losses' \in 0 .. MaxLosses BY <3>1
    <3>3. UNCHANGED <<commands, own>> /\ linkUp' = FALSE /\ heard' = FALSE BY <2>1 DEF LinkLost
    <3>4. QED BY <3>2, <3>3
  <2>2. LinkReconnect => LinkTypeOK' BY DEF LinkReconnect, queues
  <2>3. QED BY <2>1, <2>2
<1>7. UNCHANGED link => LinkTypeOK' BY DEF link
<1>8. QED BY <1>1, <1>2, <1>3, <1>4, <1>5, <1>6, <1>7

LEMMA LinkTypes ==
  ASSUME BoundsAssumption, LinkTypeOK, [Next]_vars
  PROVE  LinkTypeOK'
<1> USE LinkKept, BoundsAssumption
<1>1. CASE IdentifyNext
  BY <1>1 DEF IdentifyNext, IdentifyCommand, IdentifyTick, DeviceIdentify, DeviceIdentifyEnds
<1>2. CASE FanNext
  BY <1>2 DEF FanNext, WritePercent, WriteFanMode, Step, ReportSpeed, FanSet, FanOwn, FanLost
<1>3. CASE ButtonNext
  BY <1>3 DEF ButtonNext, ButtonHappens, Press, Release, Finish, Hold, HoldEnd, ButtonReport,
              ButtonLost, InstallButton
<1>4. CASE InputNext
  BY <1>4 DEF InputNext, InputReport, InputChange
<1>5. CASE CoverNext
  BY <1>5 DEF CoverNext, GoTo, SimpleStart, StopMotion, WriteMode, CoverReport, CoverSet, CoverStop,
              CoverOwn, CoverArrives, CoverLost
<1>6. CASE ColorNext
  BY <1>6 DEF ColorNext, MoveToComponent, MoveToBoth, ColorCommand, ColorReport, LampSet, LampOwn,
              ColorLost
<1>7. CASE DimmerNext
  BY <1>7 DEF DimmerNext, MoveToLevel, Dim, ReportLevel, DimmerSet, DimmerDims, DimmerGoesOn,
              DimmerOwn
<1>8. CASE BlindNext
  BY <1>8 DEF BlindNext, GoToBlind, SimpleStartBlind, StopBlind, ReverseBlind, BlindReport, BlindSet,
              BlindStops, BlindMoves, BlindOwn
<1>9. CASE RoomsNext
  BY <1>9 DEF RoomsNext, ZonePush, ZonePushIgnored, InstallInitial, AddLater, Vanish, InvokeAction,
              CallScene
<1>10. CASE NameNext
  BY <1>10 DEF NameNext, InstallName, WriteNodeLabel, NameReport, NameSet, NameOwn, NameLost
<1>11. CASE UNCHANGED link
  BY <1>11
<1>12. QED
  BY <1>1, <1>2, <1>3, <1>4, <1>5, <1>6, <1>7, <1>8, <1>9, <1>10, <1>11
     DEF Next, vars, IdentifySteps, FanSteps, ButtonSteps, InputSteps, CoverSteps, ColorSteps,
         CCSteps, RoomSteps, MappingSteps, NameSteps

LEMMA IdentifyTypes ==
  ASSUME IdentifyAssumption, IdentifyTypeOK, [Next]_vars
  PROVE  IdentifyTypeOK'
<1> USE IdentifyAssumption DEF IdentifyTypeOK, Off
<1>1. CASE UNCHANGED identifyVars
  BY <1>1 DEF identifyVars
<1>2. \A seconds \in 0 .. MaxIdentify : Rearm(seconds) \in {Off} \cup (0 .. MaxIdentify - 1)
  BY DEF Rearm
<1>3. ASSUME NEW seconds \in 0 .. MaxIdentify, IdentifyCommand(seconds) PROVE IdentifyTypeOK'
  BY <1>2, <1>3 DEF IdentifyCommand, UpdateIdentifyTime
<1>4. CASE IdentifyTick
  <2>1. identifyTime' \in 0 .. MaxIdentify /\ tickTimer' = Rearm(identifyTime') /\ UNCHANGED identifies
    BY <1>4 DEF IdentifyTick
  <2>2. QED BY <1>2, <2>1
<1>5. ASSUME NEW seconds, DeviceIdentify(seconds) PROVE IdentifyTypeOK'
  BY <1>5 DEF DeviceIdentify
<1>6. CASE DeviceIdentifyEnds
  BY <1>6 DEF DeviceIdentifyEnds
<1>7. QED
  BY <1>1, <1>3, <1>4, <1>5, <1>6 DEF Next, vars, IdentifySteps, IdentifyNext, FanSteps, ButtonSteps,
    InputSteps, CoverSteps, ColorSteps, CCSteps, RoomSteps, MappingSteps, NameSteps

LEMMA FanTypes ==
  ASSUME FanAssumption, FanInv, FanInv', FanTypeOK, [Next]_vars
  PROVE  FanTypeOK'
<1>1. percentCurrent' \in Percent /\ speed' \in 0 .. 200 /\ fanWanted' \in Percent \cup {NoPercent}
  BY DEF FanInv, FanTyped, FanSettled
<1>2. percentSetting' \in Percent
  <2>0. percentSetting \in Percent BY DEF FanTypeOK
  <2>1. CASE UNCHANGED percentSetting BY <2>0, <2>1
  <2>2. ASSUME NEW p \in FanPercents \cup ImpliedLevel, SetPercent(p) PROVE percentSetting' \in Percent
    BY <2>2, FanAssumption DEF SetPercent, ImpliedLevel, Percent
  <2>3. ASSUME NEW d \in {-1, 1}, NEW wrap \in BOOLEAN, NEW lowestOff \in BOOLEAN,
               Step(d, wrap, lowestOff)
        PROVE  percentSetting' \in Percent
    BY <2>3, StageMoves DEF Step, SetPercent, FanTypeOK
  <2>4. CASE FanNext
    BY <2>1, <2>2, <2>3, <2>4 DEF FanNext, WritePercent, WriteFanMode, ReportSpeed, FanSet, FanOwn,
                                  FanLost, fanVars
  <2>5. QED
    BY <2>1, <2>4 DEF Next, vars, fanVars, IdentifySteps, FanSteps, ButtonSteps, InputSteps,
                      CoverSteps, ColorSteps, CCSteps, RoomSteps, MappingSteps, NameSteps
<1>3. QED BY <1>1, <1>2 DEF FanTypeOK

LEMMA ButtonTypes ==
  ASSUME ButtonAssumption, ButtonInv, ButtonInv', ButtonTypeOK, [Next]_vars
  PROVE  ButtonTypeOK'
<1>1. /\ positions' \in SUBSET Position /\ position' \in 0 .. 2 /\ input' \in [Position -> Input]
  BY DEF ButtonInv, Input
<1>2. fitted' \in BOOLEAN /\ clicks' \in Nat /\ pressed' \in 0 .. 2 /\ mixed' \in BOOLEAN
  <2>0. /\ fitted \in BOOLEAN /\ clicks \in Nat /\ pressed \in 0 .. 2 /\ mixed \in BOOLEAN
        /\ position \in 0 .. 2
    BY DEF ButtonTypeOK
  <2>1. CASE UNCHANGED <<fitted, clicks, pressed, mixed>> BY <2>0, <2>1
  <2>2. ASSUME NEW p \in Position, Press(p) \/ Release(p) \/ Finish(p) \/ Hold(p) \/ HoldEnd(p)
        PROVE  fitted' \in BOOLEAN /\ clicks' \in Nat /\ pressed' \in 0 .. 2 /\ mixed' \in BOOLEAN
    <3>1. UNCHANGED <<fitted, clicks, pressed>>
      BY <2>2 DEF Press, Release, Finish, Hold, HoldEnd, ButtonHappens
    <3>2. mixed' \in BOOLEAN BY <2>2, Zenon DEF Press, Release, Finish, Hold, HoldEnd
    <3>3. QED BY <2>0, <3>1, <3>2
  <2>parsed. ASSUME NEW r \in ButtonReports, NEW c \in Nat, NEW at \in 0 .. 2, ParseButtonState(r, c, at)
             PROVE  clicks' \in Nat /\ pressed' \in 0 .. 2
    <3>1. r.presses \in Nat /\ To(r) \in 0 .. 2 BY DEF ButtonReports, Position, To
    <3>2. /\ clicks' = ClicksAfter(r, c, at) /\ pressed' = PressedAfter(told')
          /\ told' = Events(r, c, at) \/ told' = <<>>
      BY <2>parsed DEF ParseButtonState
    <3>3. clicks' \in Nat BY <3>1, <3>2 DEF ClicksAfter
    <3>4. Events(r, c, at) = <<>> \/ Events(r, c, at)[1].at \in 0 .. 2
      BY <3>1 DEF Events, Event
    <3>5. PICK es : es = told' OBVIOUS
    <3>6. es = <<>> \/ es[1].at \in 0 .. 2 BY <3>2, <3>4, <3>5
    <3>7. PressedAfter(es) \in 0 .. 2 BY <2>0, <3>6 DEF PressedAfter
    <3>8. QED BY <3>2, <3>3, <3>5, <3>7
  <2>3. ASSUME Is("button"), ButtonReport(Head(fromDevice))
        PROVE  fitted' \in BOOLEAN /\ clicks' \in Nat /\ pressed' \in 0 .. 2 /\ mixed' \in BOOLEAN
    <3>1. Head(fromDevice) \in ButtonReports BY <2>3, ReportTyped DEF ButtonReport, ButtonInv
    <3>2. ParseButtonState(Head(fromDevice), clicks, position) /\ fitted' = fitted
      BY <2>3 DEF ButtonReport
    <3>3. mixed' \in BOOLEAN BY <2>3, Zenon DEF ButtonReport
    <3>4. QED BY <2>0, <2>parsed, <3>1, <3>2, <3>3
  <2>4. CASE ButtonLost
    <3>1. UNCHANGED <<fitted, clicks, pressed>> BY <2>4 DEF ButtonLost
    <3>2. mixed' \in BOOLEAN BY <2>4, Zenon DEF ButtonLost
    <3>3. QED BY <2>0, <3>1, <3>2
  <2>5. CASE InstallButton
    <3>1. fitted' = TRUE /\ mixed' = mixed BY <2>5 DEF InstallButton
    <3>2. CASE switchInfo = <<>> BY <2>0, <2>5, <3>1, <3>2 DEF InstallButton
    <3>3. CASE switchInfo # <<>>
      <4>1. PICK r \in ButtonReports : switchInfo = <<r>> BY <3>3 DEF ButtonInv
      <4>2. ParseButtonState(r, 0, 0) BY <2>5, <4>1 DEF InstallButton
      <4>3. QED BY <2>0, <2>parsed, <3>1, <4>2
    <3>4. QED BY <3>2, <3>3
  <2>6. CASE ButtonSteps
    BY <2>1, <2>2, <2>3, <2>4, <2>5, <2>6 DEF ButtonSteps, ButtonNext, buttonVars
  <2>7. QED
    BY <2>1, <2>6 DEF Next, vars, buttonVars, IdentifySteps, FanSteps, InputSteps, CoverSteps,
                      ColorSteps, CCSteps, RoomSteps, MappingSteps, NameSteps
<1>3. QED BY <1>1, <1>2 DEF ButtonTypeOK

LEMMA InputTypes ==
  ASSUME SensorAssumption, InputInv, InputInv', InputTypeOK, [Next]_vars
  PROVE  InputTypeOK'
<1>0. sensor \in BOOLEAN /\ inverted \in BOOLEAN /\ (sensor => ~inverted) BY DEF InputInv
<1>1. sensor' \in BOOLEAN /\ inverted' \in BOOLEAN /\ inputValue' \in InputValues'
  BY DEF InputInv
<1>2. inputShown' \in Int /\ (~sensor' => inputShown' \in {0, 1})
  <2>0. inputShown \in Int /\ (~sensor => inputShown \in {0, 1}) BY DEF InputTypeOK
  <2>1. CASE UNCHANGED <<sensor, inputShown>> BY <2>0, <2>1
  <2>2. ASSUME NEW v \in InputValues, InputReport(v)
        PROVE  inputShown' \in Int /\ (~sensor' => inputShown' \in {0, 1})
    <3>1. inputShown' = ShownValue(sensor, inverted, v, inputShown) /\ sensor' = sensor
      BY <2>2 DEF InputReport
    <3>2. Null \in Int BY DEF Null
    <3>3. CASE sensor
      <4>1. v \in Int BY <3>2, <3>3, SensorAssumption DEF InputValues
      <4>2. MatterValue(v) \in Int BY <4>1 DEF MatterValue
      <4>3. QED BY <3>1, <3>2, <3>3, <4>2 DEF ShownValue
    <3>4. CASE ~sensor
      <4>1. v = Null \/ v \in {0, 1} BY <3>4 DEF InputValues
      <4>2. QED BY <2>0, <3>1, <3>4, <4>1 DEF ShownValue
    <3>5. QED BY <1>0, <3>3, <3>4
  <2>3. CASE InputNext
    BY <2>1, <2>2, <2>3 DEF InputNext, InputChange, inputVars
  <2>4. QED
    BY <2>1, <2>3 DEF Next, vars, inputVars, IdentifySteps, FanSteps, ButtonSteps, InputSteps,
                      CoverSteps, ColorSteps, CCSteps, RoomSteps, MappingSteps, NameSteps
<1>3. QED BY <1>1, <1>2 DEF InputTypeOK

LEMMA CoverTypes ==
  ASSUME CoverInv, CoverInv', CoverTypeOK, [Next]_vars
  PROVE  CoverTypeOK'
<1>1. /\ axes' \subseteq Axis /\ reversed' \in BOOLEAN /\ moving' \in BOOLEAN
      /\ target' \in CoverValues /\ current' \in CoverValues /\ value' \in CoverValues
      /\ staged' \in CoverValues /\ coverWanted' \in CoverValues
  BY DEF CoverInv, CoverTyped
<1>2. obstacle' \in BOOLEAN
  <2>0. obstacle \in BOOLEAN BY DEF CoverTypeOK
  <2>1. CASE UNCHANGED obstacle BY <2>0, <2>1
  <2>2. ASSUME Is("cover"), CoverReport(Head(fromDevice)) PROVE obstacle' \in BOOLEAN
    <3>1. Head(fromDevice) \in CoverReports
      BY <2>2, ReportTyped DEF CoverReport, CoverInv
    <3>2. obstacle' = Head(fromDevice).obstacle BY <2>2 DEF CoverReport, ParseCover
    <3>3. QED BY <3>1, <3>2 DEF CoverReports
  <2>3. CASE CoverSteps
    BY <2>1, <2>2, <2>3 DEF CoverSteps, CoverNext, GoTo, SimpleStart, StopMotion, WriteMode, CoverSet,
                            CoverStop, CoverOwn, CoverArrives, CoverLost, coverVars
  <2>4. QED
    BY <2>1, <2>3 DEF Next, vars, coverVars, IdentifySteps, FanSteps, ButtonSteps, InputSteps,
                      ColorSteps, CCSteps, RoomSteps, MappingSteps, NameSteps
<1>3. QED BY <1>1, <1>2 DEF CoverTypeOK, CoverValues

LEMMA ColorTypes ==
  ASSUME ColorInv', ColorTypeOK, [Next]_vars
  PROVE  ColorTypeOK'
<1>1. UNCHANGED <<ctOnly, lit, executeIfOff>>
  BY DEF Next, vars, colorVars, IdentifySteps, FanSteps, ButtonSteps, InputSteps, CoverSteps, CCSteps,
         RoomSteps, MappingSteps, NameSteps, ColorSteps, ColorNext, MoveToComponent, MoveToBoth,
         ColorCommand, ColorReport, LampSet, LampOwn, LampBecomes, ColorLost
<1>2. PICK c \in [mode : LampMode, val : [Component -> ColorValue], silent : SUBSET Component] : c = color'
  BY DEF ColorInv
<1>3. [mode |-> c.mode, val |-> c.val] \in Shades /\ c.silent \subseteq Component
  BY <1>2 DEF Shades, LampMode
<1>4. seen' \in Shades /\ lamp' \in Shades /\ c.val["ct"] >= CtMin BY <1>2 DEF ColorInv
<1>5. ctOnly' \in BOOLEAN /\ lit' \in BOOLEAN /\ executeIfOff' \in BOOLEAN
  BY <1>1 DEF ColorTypeOK
<1>6. QED BY <1>2, <1>3, <1>4, <1>5 DEF ColorTypeOK

LEMMA CCTypes ==
  ASSUME CCAssumption, DimmerInv', BlindInv, BlindInv', CCTypeOK, [Next]_vars
  PROVE  CCTypeOK'
<1>0. /\ dimLevel \in 0 .. DimMax /\ dimmer \in DimValue /\ dimming \in {-1, 0, 1}
      /\ hasTilt \in BOOLEAN /\ feedback \in BOOLEAN /\ ccReversed \in BOOLEAN
      /\ ccTarget \in BlindValues /\ ccCurrent \in BlindValues /\ blind \in BlindValues
      /\ goal \in BlindValues /\ blindWanted \in BlindValues
      /\ ccFaults \subseteq Fault /\ faults \subseteq Fault
  BY DEF CCTypeOK, BlindValues
<1>1. CASE UNCHANGED ccVars
  BY <1>1 DEF CCTypeOK, ccVars
<1>2. CASE Is("cc_dimmer") /\ DimmerNext /\ UNCHANGED kind
  <2>1. UNCHANGED blindVars
    BY <1>2 DEF DimmerNext, MoveToLevel, Dim, ReportLevel, DimmerSet, DimmerDims, DimmerGoesOn,
                DimmerOwn, Dims
  <2>2. dimmer' \in DimValue /\ dimming' \in {-1, 0, 1} BY <1>2 DEF DimmerInv, Is
  <2>3. dimLevel' \in 0 .. DimMax
    <3>1. ASSUME NEW l \in DimLevel, MoveToLevel(l) PROVE dimLevel' \in 0 .. DimMax
      BY <3>1, CCAssumption DEF MoveToLevel, DimLevel
    <3>2. ASSUME NEW v \in DimValue, ReportLevel(v) PROVE dimLevel' \in 0 .. DimMax
      <4>1. dimLevel' = ToDimLevel(v) BY <3>2 DEF ReportLevel
      <4>2. DimFloor(v) \in 1 .. DimMax BY CCAssumption DEF DimFloor, DimValue
      <4>3. QED BY <4>1, <4>2, CCAssumption DEF ToDimLevel
    <3>3. CASE UNCHANGED dimLevel BY <1>0, <3>3
    <3>4. QED
      BY <1>2, <3>1, <3>2, <3>3 DEF DimmerNext, Dim, DimmerSet, DimmerDims, DimmerGoesOn,
                                    DimmerOwn, Dims
  <2>4. QED BY <1>0, <2>1, <2>2, <2>3 DEF CCTypeOK, BlindValues, blindVars
<1>3. CASE Is("cc_blind") /\ BlindNext /\ UNCHANGED kind
  <2>1. UNCHANGED dimmerVars
    BY <1>3 DEF BlindNext, GoToBlind, SimpleStartBlind, StopBlind, ReverseBlind, BlindReport, BlindSet,
                BlindStops, BlindMoves, BlindOwn
  <2>2. /\ hasTilt' \in BOOLEAN /\ feedback' \in BOOLEAN /\ ccReversed' \in BOOLEAN
        /\ blind' \in BlindValues /\ goal' \in BlindValues /\ faults' \in SUBSET Fault
        /\ ccTarget' \in BlindValues /\ blindWanted' \in BlindValues
    BY <1>3 DEF BlindInv, BlindTyped, Is
  <2>3. ccCurrent' \in BlindValues /\ ccFaults' \subseteq Fault
    <3>1. CASE UNCHANGED <<ccCurrent, ccFaults>> BY <1>0, <3>1
    <3>2. ASSUME BlindReport(Head(fromDevice))
          PROVE  ccCurrent' \in BlindValues /\ ccFaults' \subseteq Fault
      <4>1. PICK r \in BlindReports : r = Head(fromDevice)
        BY <1>3, <3>2, ReportTyped DEF BlindReport, BlindInv, BlindTyped
      <4>2. ccCurrent' = [a \in BlindAxis |-> CurrentOf(r, a)] /\ ccFaults' = r.faults
        BY <3>2, <4>1 DEF BlindReport
      <4>3. r.value \in BlindValues /\ r.faults \in SUBSET Fault BY <4>1 DEF BlindReports
      <4>4. ASSUME NEW a \in BlindAxis PROVE CurrentOf(r, a) \in BlindValue \cup {NoBlind}
        <5>1. r.value[a] \in BlindValue \cup {NoBlind} /\ ccCurrent[a] \in BlindValue \cup {NoBlind}
          BY <1>0, <4>3 DEF BlindValues
        <5>2. CASE r.value[a] = NoBlind \/ (a = "tilt" /\ ~hasTilt)
          BY <5>1, <5>2 DEF CurrentOf
        <5>3. CASE ~(r.value[a] = NoBlind \/ (a = "tilt" /\ ~hasTilt))
          <6>1. r.value[a] \in BlindValue BY <5>1, <5>3
          <6>2. CCBridge2Matter(r.value[a]) \in BlindValue
            BY <6>1, CCAssumption DEF CCBridge2Matter, Seen, BlindValue
          <6>3. QED BY <5>3, <6>2 DEF CurrentOf
        <5>4. QED BY <5>2, <5>3
      <4>5. QED BY <4>2, <4>3, <4>4 DEF BlindValues
    <3>3. QED
      BY <1>3, <3>1, <3>2 DEF BlindNext, GoToBlind, SimpleStartBlind, StopBlind, ReverseBlind, BlindSet,
                              BlindStops, BlindMoves, BlindOwn
  <2>4. QED BY <1>0, <2>1, <2>2, <2>3 DEF CCTypeOK, BlindValues, dimmerVars
<1>4. QED
  BY <1>1, <1>2, <1>3 DEF Next, vars, IdentifySteps, FanSteps, ButtonSteps, InputSteps, CoverSteps,
                          ColorSteps, CCSteps, RoomSteps, MappingSteps, NameSteps

LEMMA NameTypes ==
  ASSUME NameAssumption, NameInv, NameInv', NameTypeOK, [Next]_vars
  PROVE  NameTypeOK'
<1>1. CASE UNCHANGED nameVars
  BY <1>1 DEF NameTypeOK, nameVars
<1>2. CASE Is("name") /\ NameNext /\ UNCHANGED kind
  <2>1. /\ composed' \in BOOLEAN /\ named' \in BOOLEAN /\ mName' \in Name /\ theirName' \in Name
        /\ nodeLabel' \in Name \cup {NoName}
    BY <1>2 DEF NameInv, NameTyped, Is
  <2>2. nameWanted' \in Name \cup {NoName} BY <1>2 DEF NameInv, NameHeeded, Is
  <2>3. UNCHANGED adapter
    BY <1>2 DEF NameNext, InstallName, WriteNodeLabel, NameReport, NameSet, NameOwn, NameLost, nameVars
  <2>4. nameKept' \in BOOLEAN
    <3>0. nameKept \in BOOLEAN BY DEF NameTypeOK
    <3>1. CASE UNCHANGED nameKept BY <3>0, <3>1
    <3>2. CASE InstallName BY <3>2, Zenon DEF InstallName
    <3>3. ASSUME NEW n \in Name, WriteNodeLabel(n) PROVE nameKept' \in BOOLEAN
      BY <3>0, <3>3, Zenon DEF WriteNodeLabel
    <3>4. ASSUME NEW n, NameReport(n) PROVE nameKept' \in BOOLEAN
      BY <3>4, Zenon DEF NameReport
    <3>5. QED
      BY <1>2, <3>1, <3>2, <3>3, <3>4 DEF NameNext, NameSet, NameOwn, NameLost, nameVars
  <2>5. QED BY <2>1, <2>2, <2>3, <2>4 DEF NameTypeOK
<1>3. QED
  BY <1>1, <1>2 DEF Next, vars, IdentifySteps, FanSteps, ButtonSteps, InputSteps, CoverSteps,
                    ColorSteps, CCSteps, RoomSteps, MappingSteps, NameSteps

LEMMA RoomTypes ==
  ASSUME RoomsAssumption, RoomsInv, RoomsInv', RoomsTypeOK, [Next]_vars
  PROVE  RoomsTypeOK'
<1>1. /\ zoneOf' \in [Member -> Zones \cup {Global}] /\ description' \in [Member -> Zones \cup {Global}]
      /\ installed' \in BOOLEAN /\ bridged' \subseteq Member
      /\ zoneNames' \in [Zones -> ZoneName \cup {Unknown}]
  BY DEF RoomsInv, Member
<1> DEFINE Good(l) == l.name \in ZoneName \cup {Unknown} /\ l.endpoints \subseteq Member \cup {NoEndpoint}
           Rest == /\ \A z \in Zones : Good(lists'[z])
                   /\ actions' \subseteq Zones /\ moved' \subseteq Member
<1>2. /\ \A z \in Zones : Good(lists[z])
      /\ actions \subseteq Zones /\ moved \subseteq Member
  BY DEF RoomsTypeOK
<1>3. \A z, name : name \in ZoneName \cup {Unknown} => Good(RoomOf(z, name))
  BY <1>1 DEF RoomOf, Endpoint
<1>4. ASSUME UNCHANGED lists, UNCHANGED actions, UNCHANGED moved PROVE Rest
  BY <1>2, <1>4
<1>5. ASSUME NEW d \in Member, NEW z \in Zones \cup {Global}, NEW name \in ZoneName,
             ZonePush(d, z, name)
      PROVE  Rest
  <2>1. moved' \subseteq Member BY <1>2, <1>5 DEF ZonePush
  <2>2. CASE UNCHANGED <<lists, actions>> BY <1>2, <2>1, <2>2
  <2>3. CASE /\ zoneNames' # zoneNames /\ lists' = [lists EXCEPT ![z] = RoomOf(z, name)]
             /\ actions' = actions \cup {z}
    <3>1. z \in Zones BY <1>5, <2>3 DEF ZonePush
    <3>2. \A y \in Zones : lists'[y] = IF y = z THEN RoomOf(z, name) ELSE lists[y]
      BY <2>3 DEF RoomsInv
    <3>3. \A y \in Zones : Good(lists'[y]) BY <1>2, <1>3, <3>2
    <3>4. QED BY <1>2, <2>1, <2>3, <3>1, <3>3
  <2>4. QED BY <1>5, <2>2, <2>3 DEF ZonePush
<1>6. ASSUME NEW found, InstallInitial(found) PROVE Rest
  <2>1. /\ lists' = [z \in Zones |-> IF zoneNames'[z] = Unknown THEN lists[z]
                                     ELSE RoomOf(z, zoneNames'[z])]
        /\ actions' = actions \cup {z \in Zones : zoneNames'[z] # Unknown} /\ moved' = moved
    BY <1>6 DEF InstallInitial
  <2>2. \A z \in Zones : Good(lists'[z]) BY <1>1, <1>2, <1>3, <2>1
  <2>3. QED BY <1>2, <2>1, <2>2
<1>7. ASSUME NEW d \in Member, Vanish(d) PROVE Rest
  BY <1>2, <1>7 DEF Vanish
<1>8. ASSUME RoomsNext PROVE Rest
  <2>1. ASSUME NEW d \in Later, NEW name \in ZoneName, AddLater(d, name) PROVE Rest
    BY <1>4, <2>1 DEF AddLater
  <2>2. ASSUME NEW z \in Zones, InvokeAction(z) \/ CallScene(z) PROVE Rest
    BY <1>4, <2>2 DEF InvokeAction, CallScene, roomVars
  <2>3. ASSUME NEW d \in Member, ZonePushIgnored(d) PROVE Rest
    BY <1>4, <2>3 DEF ZonePushIgnored, roomVars
  <2>4. Later \subseteq Member BY DEF Member
  <2> HIDE DEF Rest
  <2>5. QED BY <1>5, <1>6, <1>7, <1>8, <2>1, <2>2, <2>3, <2>4 DEF RoomsNext
<1>9. Rest
  <2>1. UNCHANGED roomVars => Rest BY <1>4 DEF roomVars
  <2> HIDE DEF Rest
  <2>2. QED BY <1>8, <2>1 DEF RoomSteps, Next, vars, roomVars, IdentifySteps, FanSteps, ButtonSteps, InputSteps,
                    CoverSteps, ColorSteps, CCSteps, MappingSteps, NameSteps
<1>10. QED BY <1>1, <1>9 DEF RoomsTypeOK

\* The state a device is installed in has the types.
LEMMA InstalledTypes ==
  ASSUME Init, BoundsAssumption, IdentifyAssumption, FanAssumption, ButtonAssumption,
         SensorAssumption, KindsAssumption, CCAssumption, NameAssumption,
         ButtonInv, FanInv, InputInv, CoverInv, ColorInv, BlindInv
  PROVE  TypeOK
<1>1. kind \in Kinds /\ LinkTypeOK
  <2>1. kind \in Kinds /\ LinkInit BY DEF Init
  <2>2. linkUp \in BOOLEAN /\ heard \in BOOLEAN BY <2>1, Zenon DEF LinkInit
  <2>3. commands \in 0 .. MaxCommands /\ own \in Nat /\ losses \in 0 .. MaxLosses
    BY <2>1, BoundsAssumption DEF LinkInit
  <2>4. QED BY <2>1, <2>2, <2>3 DEF LinkTypeOK
<1>2. IdentifyTypeOK
  <2>1. IdentifyInit BY DEF Init
  <2>2. identifyTime = 0 /\ tickTimer = Off BY <2>1 DEF IdentifyInit
  <2>3. identifyTime \in 0 .. MaxIdentify BY <2>2, IdentifyAssumption
  <2>4. identifies \in BOOLEAN BY <2>1, Zenon DEF IdentifyInit
  <2>5. QED BY <2>2, <2>3, <2>4 DEF IdentifyTypeOK
<1>3. FanTypeOK
  <2>1. PICK s \in 0 .. 200 : FanInit(s)
    BY FanAssumption DEF Init, FansInit
  <2>2. QED BY <2>1 DEF FanInit, FanTypeOK, Percent, NoPercent
<1>4. ButtonTypeOK
  <2>1. PICK ps \in {{1}, {1, 2}}, in \in [Position -> Input] :
          \E state \in Describes(1, in[1]) :
            ButtonInit(ps, in, state) /\ (Is("button") => in \in ButtonStarts)
    BY ButtonDescribed, ButtonAssumption
  <2>2. PICK state : ButtonInit(ps, in, state) BY <2>1
  <2>3. ps \subseteq Position BY DEF Position
  <2>4. mixed \in BOOLEAN BY <2>2, Zenon DEF ButtonInit
  <2>5. /\ fitted = FALSE /\ positions = ps /\ clicks = 0 /\ position = 0 /\ pressed = 0
        /\ input = in
    BY <2>2, Zenon DEF ButtonInit
  <2>6. input \in [Position -> Input] BY <2>5
  <2>7. fitted \in BOOLEAN BY <2>5
  <2>8. positions \in SUBSET Position BY <2>3, <2>5
  <2>9. clicks \in Nat /\ position \in 0 .. 2 /\ pressed \in 0 .. 2 BY <2>5
  <2>10. QED BY <2>4, <2>6, <2>7, <2>8, <2>9, Zenon DEF ButtonTypeOK
<1>5. InputTypeOK
  <2>1. PICK isSensor \in BOOLEAN, isInverted \in BOOLEAN :
          \E v \in (IF isSensor THEN SensorValues ELSE {0, 1}) \cup {Null} :
            InputInit(isSensor, isInverted, v)
    BY DEF Init, InputsInit
  <2>2. PICK v \in (IF isSensor THEN SensorValues ELSE {0, 1}) \cup {Null} :
          InputInit(isSensor, isInverted, v)
    BY <2>1
  <2>3. inputShown = ShownValue(sensor, inverted, v, 0) /\ sensor = isSensor
    BY <2>2 DEF InputInit
  <2>4. Null \in Int BY DEF Null
  <2>5. CASE sensor
    <3>1. v \in Int BY <2>3, <2>4, <2>5, SensorAssumption
    <3>2. MatterValue(v) \in Int BY <3>1 DEF MatterValue
    <3>3. QED BY <2>3, <2>4, <2>5, <3>2 DEF ShownValue, InputTypeOK, InputInv
  <2>6. CASE ~sensor
    <3>1. v \in {0, 1, Null} BY <2>3, <2>6
    <3>2. inputShown \in {0, 1} BY <2>3, <2>6, <3>1 DEF ShownValue
    <3>3. QED BY <2>6, <3>2 DEF InputTypeOK, InputInv
  <2>7. QED BY <2>5, <2>6 DEF InputInv
<1>6. CoverTypeOK
  <2>1. PICK c : CoverInit(c.axes, c.values) BY DEF Init, CoversInit
  <2>2. obstacle \in BOOLEAN BY <2>1 DEF CoverInit
  <2>3. QED BY <2>2 DEF CoverTypeOK, CoverInv, CoverTyped, CoverValues
<1>7. ColorTypeOK
  <2>1. PICK isCtOnly \in BOOLEAN, isLit \in BOOLEAN, exec \in BOOLEAN, l \in Lamps :
          ColorInit(isCtOnly, isLit, exec, l)
    BY DEF Init, ColorsInit
  <2>2. ctOnly \in BOOLEAN /\ lit \in BOOLEAN /\ executeIfOff \in BOOLEAN BY <2>1 DEF ColorInit
  <2>3. PICK c \in [mode : LampMode, val : [Component -> ColorValue], silent : SUBSET Component] : c = color
    BY DEF ColorInv
  <2>4. QED BY <2>2, <2>3 DEF ColorTypeOK, ColorInv, Shades, LampMode
<1>8. CCTypeOK
  <2>1. dimLevel \in 0 .. DimMax /\ dimmer = 0 /\ dimming = 0
    BY DEF Init, CCInit, DimmerInit
  <2>2. PICK b \in Blinds : BlindInit(b.venetian, b.awning, b.feedback, 0, {})
    BY DEF Init, CCInit
  <2>3. /\ hasTilt \in BOOLEAN /\ feedback \in BOOLEAN /\ ccReversed \in BOOLEAN
        /\ ccTarget = NoBlinds /\ ccCurrent = NoBlinds /\ blindWanted = NoBlinds
        /\ ccFaults \subseteq Fault /\ faults \subseteq Fault
        /\ blind = [a \in BlindAxis |-> IF a = "tilt" /\ ~b.venetian THEN NoBlind ELSE 0]
        /\ goal = blind
    BY <2>2, KindsAssumption DEF BlindInit, Fault
  <2>4. NoBlinds \in BlindValues /\ blind \in BlindValues
    BY <2>3, BlindRange, CCAssumption DEF BlindValues, NoBlinds
  <2>5. 0 \in DimValue BY CCAssumption DEF DimValue
  <2>6. QED BY <2>1, <2>3, <2>4, <2>5 DEF CCTypeOK, BlindValues
<1>9. RoomsTypeOK
  <2>1. PICK p \in [Member -> Zones \cup {Global}] : RoomsInit(p)
    BY KindsAssumption DEF Init, PlansInit
  <2>2. QED BY <2>1 DEF RoomsInit, RoomsTypeOK, NoList, Member
<1>10. NameTypeOK
  <2>1. PICK a \in NameAdapters, c \in BOOLEAN :
          NameInit(a, c, CHOOSE n \in Name : TRUE) /\ (c => a = "P44")
    BY NameAssumption DEF Init, NamesInit
  <2>2. PICK n \in Name : n = CHOOSE n0 \in Name : TRUE BY NameAssumption
  <2>3. QED BY <2>1, <2>2 DEF NameInit, NameTypeOK
<1>11. QED BY <1>1, <1>2, <1>3, <1>4, <1>5, <1>6, <1>7, <1>8, <1>9, <1>10 DEF TypeOK

\* Whatever kind a device is of, its attributes, what is kept of it, the state of the
\* device itself and the link to it keep their types.
THEOREM DevicesTypeCorrect == Spec => []TypeOK
<1> DEFINE Invs == ButtonInv /\ FanInv /\ InputInv /\ CoverInv /\ ColorInv /\ DimmerInv /\ BlindInv
                   /\ RoomsInv /\ NameInv
<1>1. Init => TypeOK
  BY InstalledTypes, ButtonsStart, FanStarts, InputStarts, CoverStarts, ColorStarts, BlindStarts,
     BoundsAssumption, IdentifyAssumption, FanAssumption, ButtonAssumption,
     SensorAssumption, KindsAssumption, CCAssumption, NameAssumption
<1>2. TypeOK /\ Invs /\ Invs' /\ [Next]_vars => TypeOK'
  <2> SUFFICES ASSUME TypeOK, Invs, Invs', [Next]_vars PROVE TypeOK'
    OBVIOUS
  <2>1. kind' \in Kinds
    BY DEF TypeOK, Next, vars, IdentifySteps, FanSteps, ButtonSteps, InputSteps, CoverSteps,
           ColorSteps, CCSteps, RoomSteps, MappingSteps, NameSteps
  <2>2. LinkTypeOK' /\ IdentifyTypeOK' /\ FanTypeOK' /\ ButtonTypeOK'
    BY LinkTypes, IdentifyTypes, FanTypes, ButtonTypes, BoundsAssumption, IdentifyAssumption,
       FanAssumption, ButtonAssumption DEF TypeOK
  <2>3. InputTypeOK' /\ CoverTypeOK' /\ ColorTypeOK'
    BY InputTypes, CoverTypes, ColorTypes, SensorAssumption DEF TypeOK
  <2>4. CCTypeOK' /\ RoomsTypeOK' /\ NameTypeOK'
    BY CCTypes, RoomTypes, NameTypes, CCAssumption, RoomsAssumption, NameAssumption DEF TypeOK
  <2>5. QED BY <2>1, <2>2, <2>3, <2>4 DEF TypeOK
<1>3. Spec => []Invs
  BY ButtonInvariant, FanInvariant, InputInvariant, CoverInvariant, ColorInvariant, DimmerInvariant,
     BlindInvariant, RoomsInvariant, NameInvariant, PTL
<1>4. QED BY <1>1, <1>2, <1>3, PTL DEF Spec
=============================================================================
