------------------------ MODULE ColorControlProofs ------------------------
(* Theorems about color lights, for every value of the constants.          *)
EXTENDS CCDevicesProofs

LampMode == Mode \cup {"unknown"}
Sends == [channel : Component, value : ColorValue, now : BOOLEAN]

Works ==
  [mode : LampMode, val : [Component -> ColorValue], silent : SUBSET Component,
   sent : Seq(Sends), dirty : SUBSET (Component \cup {"mode"})]

\* Subscribers have a value, or will be told it, or it changed silently.
Told1(w, k) == k \in w.silent \/ k \in w.dirty \/ w.val[k] = seen.val[k]

Tells(w) ==
  /\ w \in Works /\ w.val["ct"] >= CtMin
  /\ "mode" \in w.dirty \/ ReadMode(w.mode) = seen.mode
  /\ \A k \in Component : Told1(w, k)

ColorInv ==
  /\ seen \in Shades /\ lamp \in Shades
  /\ color \in [mode : LampMode, val : [Component -> ColorValue], silent : SUBSET Component]
  /\ color.val["ct"] >= CtMin
  /\ seen.mode = ReadMode(color.mode)
  /\ \A k \in Component \ color.silent : seen.val[k] = color.val[k]
  /\ stagedColor \in [Component -> ColorValue \cup {NoValue}]
  /\ Is("color") => fromDevice \in Seq(Shades) /\ toDevice \in Seq(Sends)

---------------------------------------------------------------------------
(* The updates.                                                            *)

LEMMA ClampedTyped ==
  ASSUME ColorAssumption, NEW k \in Component, NEW v \in ColorValue
  PROVE  Clamped(k, v) \in ColorValue /\ (k = "ct" => Clamped(k, v) >= CtMin)
BY ColorAssumption DEF Clamped, ColorValue

LEMMA TakenTells ==
  ASSUME ColorAssumption, NEW w, Tells(w), NEW k \in Component, NEW v \in ColorValue, NEW flags
  PROVE  Tells(Taken(w, k, v, flags))
<1> DEFINE changes == IF v # w.val[k] THEN {k} ELSE {}
           t == Taken(w, k, v, flags)
<1>1. /\ w \in Works /\ w.val["ct"] >= CtMin /\ (\A j \in Component : Told1(w, j))
      /\ "mode" \in w.dirty \/ ReadMode(w.mode) = seen.mode
  BY DEF Tells
<1>2. Clamped(k, v) \in ColorValue /\ (k = "ct" => Clamped(k, v) >= CtMin)
  BY ClampedTyped, ColorAssumption
<1>3. /\ t.mode = w.mode /\ t.sent = w.sent
      /\ t.val = [w.val EXCEPT ![k] = Clamped(k, v)]
      /\ t.dirty = w.dirty \cup (IF "matter" \in flags THEN changes ELSE {})
      /\ t.silent = IF "matter" \in flags THEN w.silent \ changes ELSE w.silent \cup changes
  BY <1>1 DEF Taken, Works
<1>4. t = [w EXCEPT !.val = t.val, !.dirty = t.dirty, !.silent = t.silent]
  BY <1>1, <1>3 DEF Taken, Works
<1>5. t \in Works
  <2>1. t.val \in [Component -> ColorValue] BY <1>1, <1>2, <1>3 DEF Works
  <2>2. t.dirty \in SUBSET (Component \cup {"mode"}) /\ t.silent \in SUBSET Component
    BY <1>1, <1>3 DEF Works
  <2>3. QED BY <1>1, <1>4, <2>1, <2>2 DEF Works
<1>6. t.val["ct"] >= CtMin BY <1>1, <1>2, <1>3 DEF Works, Component
<1>7. ASSUME NEW j \in Component PROVE Told1(t, j)
  <2>1. CASE j # k
    BY <1>1, <1>3, <2>1 DEF Told1, Works
  <2>2. CASE j = k /\ v # w.val[k]
    BY <1>3, <2>2 DEF Told1
  <2>3. CASE j = k /\ v = w.val[k]
    <3>1. t.val = w.val BY <1>1, <1>3, <2>3 DEF Clamped, Works, ColorValue
    <3>2. QED BY <1>1, <1>3, <2>3, <3>1 DEF Told1
  <2>4. QED BY <2>1, <2>2, <2>3
<1>8. "mode" \in t.dirty \/ ReadMode(t.mode) = seen.mode BY <1>1, <1>3
<1>9. QED BY <1>5, <1>6, <1>7, <1>8 DEF Tells

\* Sending changes nothing that is shown.
LEMMA SendTells ==
  ASSUME NEW w, Tells(w), NEW k \in Component, NEW now \in BOOLEAN
  PROVE  Tells(SendComponent(w, k, now))
<1> DEFINE s == SendComponent(w, k, now)
<1>1. w \in Works /\ w.val[k] \in ColorValue BY DEF Tells, Works
<1>2. [channel |-> k, value |-> w.val[k], now |-> now] \in Sends BY <1>1 DEF Sends
<1>3. s.sent = Append(w.sent, [channel |-> k, value |-> w.val[k], now |-> now])
      /\ s = [w EXCEPT !.sent = s.sent]
  BY <1>1 DEF SendComponent, Works
<1>4. s.sent \in Seq(Sends) BY <1>1, <1>2, <1>3 DEF Works
<1>5. s \in Works BY <1>1, <1>3, <1>4 DEF Works
<1>6. s.mode = w.mode /\ s.val = w.val /\ s.silent = w.silent /\ s.dirty = w.dirty
  BY <1>1, <1>3 DEF Works
<1>7. QED BY <1>5, <1>6 DEF Tells, Told1

LEMMA SendModeTells == ASSUME NEW w, Tells(w) PROVE Tells(SendMode(w))
<1>1. {"hue", "sat", "ct", "x", "y"} \subseteq Component BY DEF Component
<1>2. TRUE \in BOOLEAN /\ FALSE \in BOOLEAN OBVIOUS
<1>3. Tells(SendComponent(SendComponent(w, "hue", FALSE), "sat", TRUE))
  BY <1>1, <1>2, SendTells, Zenon
<1>4. Tells(SendComponent(SendComponent(w, "x", FALSE), "y", TRUE))
  BY <1>1, <1>2, SendTells, Zenon
<1>5. Tells(SendComponent(w, "ct", TRUE))
  BY <1>1, <1>2, SendTells, Zenon
<1>6. QED BY <1>3, <1>4, <1>5 DEF SendMode

\* A mode is told when it changes: a change that derives from a component has
\* the matter flag.
LEMMA UpdateModeTells ==
  ASSUME NEW w, Tells(w), NEW m \in LampMode, NEW flags, "matter" \in flags \/ "noderive" \in flags
  PROVE  Tells(UpdateColorMode(w, m, flags))
<1>1. CASE ~ModeChanges(w, m, flags)
  BY <1>1 DEF UpdateColorMode
<1>2. CASE ModeChanges(w, m, flags)
  <2> DEFINE n == [w EXCEPT !.mode = m,
                            !.dirty = @ \cup (IF "matter" \in flags THEN {"mode"} ELSE {})]
  <2>1. "matter" \in flags BY <1>2 DEF ModeChanges
  <2>2. w \in Works BY DEF Tells
  <2>3. n.mode = m /\ n.dirty = w.dirty \cup {"mode"} /\ n.val = w.val /\ n.silent = w.silent
        /\ n \in Works
    BY <2>1, <2>2 DEF Works
  <2>4. Tells(n) BY <2>3 DEF Tells, Told1
  <2>5. UpdateColorMode(w, m, flags) = IF "bridged" \in flags THEN SendMode(n) ELSE n
    BY <1>2 DEF UpdateColorMode
  <2> HIDE DEF n
  <2>6. QED BY <2>4, <2>5, SendModeTells
<1>3. QED BY <1>1, <1>2

\* updateCurrentHue and the like: subscribers have, or will be told, all that is
\* not silent.
LEMMA UpdateTells ==
  ASSUME ColorAssumption, NEW w, Tells(w), NEW k \in Component, NEW v \in ColorValue, NEW flags,
         "matter" \in flags \/ "noderive" \in flags
  PROVE  Tells(UpdateColor(w, k, v, flags))
<1> DEFINE t == Taken(w, k, v, flags)
           m == UpdateColorMode(t, ModeOf(k), flags)
<1>1. ModeOf(k) \in LampMode BY DEF ModeOf, LampMode, Mode, Component
<1>2. Tells(t) BY TakenTells, ColorAssumption
<1>3. Tells(m)
  <2> HIDE DEF t
  <2>1. QED BY <1>1, <1>2, UpdateModeTells
<1>4. UpdateColor(w, k, v, flags) \in {w, m, SendComponent(m, k, "noapply" \notin flags)}
  BY DEF UpdateColor
<1>5. ("noapply" \notin flags) \in BOOLEAN OBVIOUS
<1>6. Tells(SendComponent(m, k, "noapply" \notin flags))
  <2> HIDE DEF m
  <2>1. QED BY <1>3, <1>5, SendTells
<1>7. QED BY <1>3, <1>4, <1>6

\* The conversion of a value keeps it in its range.
LEMMA ToComponentTyped ==
  ASSUME ColorAssumption, NEW v \in ColorValue
  PROVE  ToComponent(v) \in ColorValue
BY ColorAssumption DEF ToComponent, ColorValue

\* A report is parsed with a flag for each component.
LEMMA ParseTells ==
  ASSUME ColorAssumption, NEW w, Tells(w), NEW r \in Shades
  PROVE  Tells(ParseColor(w, r))
<1>1. ASSUME NEW u, Tells(u), NEW k \in Component PROVE Tells(ParseComponent(u, r, k))
  <2>1. "matter" \in FlagsOf(k, r) \/ "noderive" \in FlagsOf(k, r) BY DEF FlagsOf
  <2>2. ToComponent(r.val[k]) \in ColorValue BY ToComponentTyped, ColorAssumption DEF Shades
  <2>3. QED BY <1>1, <2>1, <2>2, UpdateTells, ColorAssumption DEF ParseComponent
<1>2. {"hue", "sat", "ct", "x", "y"} \subseteq Component BY DEF Component
<1>3. Tells(ParseComponents(w, r))
  <2>1. Tells(ParseComponent(w, r, "ct")) BY <1>1, <1>2
  <2> DEFINE hs == ParseComponent(ParseComponent(ParseComponent(w, r, "ct"), r, "hue"), r, "sat")
  <2>2. Tells(hs) BY <1>1, <1>2, <2>1
  <2>3. Tells(ParseComponent(ParseComponent(hs, r, "x"), r, "y"))
    <3> HIDE DEF hs
    <3>1. QED BY <1>1, <1>2, <2>2
  <2>4. QED BY <2>1, <2>3 DEF ParseComponents
<1>4. r.mode \in LampMode /\ "matter" \in {"matter"} BY DEF Shades, LampMode
<1>5. QED BY <1>3, <1>4, UpdateModeTells DEF ParseColor

---------------------------------------------------------------------------
(* The steps.                                                              *)

LEMMA WorkingTells == ASSUME ColorInv PROVE Tells(Working)
<1>1. Working \in Works BY DEF ColorInv, Working, Works
<1>2. Working.mode = color.mode /\ Working.val = color.val /\ Working.silent = color.silent
  BY DEF Working
<1>3. QED BY <1>1, <1>2 DEF ColorInv, Tells, Told1

\* What is kept and what subscribers have been told after an update.
LEMMA UpdatedSeen ==
  ASSUME NEW w, Tells(w), seen \in Shades, Updated(w), UNCHANGED ctOnly
  PROVE  /\ seen' \in Shades
         /\ color' \in [mode : LampMode, val : [Component -> ColorValue], silent : SUBSET Component]
         /\ color'.val["ct"] >= CtMin
         /\ seen'.mode = ReadMode(color.mode)'
         /\ \A k \in Component \ color'.silent : seen'.val[k] = color'.val[k]
<1>1. w \in Works /\ w.val["ct"] >= CtMin
      /\ ("mode" \in w.dirty \/ ReadMode(w.mode) = seen.mode)
      /\ \A k \in Component : Told1(w, k)
  BY DEF Tells
<1>2. color' = [mode |-> w.mode, val |-> w.val, silent |-> w.silent] BY DEF Updated
<1>3. /\ seen'.mode = IF "mode" \in w.dirty THEN ReadMode(w.mode) ELSE seen.mode
      /\ seen'.val = [k \in Component |-> IF k \in w.dirty THEN w.val[k] ELSE seen.val[k]]
      /\ seen' = [mode |-> seen'.mode, val |-> seen'.val]
  BY DEF Updated
<1>4. ReadMode(w.mode) \in LampMode BY <1>1 DEF ReadMode, Works, LampMode, Mode
<1>5. seen' \in Shades
  <2>1. seen'.mode \in LampMode BY <1>3, <1>4 DEF Shades, LampMode
  <2>2. seen'.val \in [Component -> ColorValue] BY <1>1, <1>3 DEF Works, Shades
  <2>3. QED BY <1>3, <2>1, <2>2 DEF Shades, LampMode
<1>6. ReadMode(color.mode)' = ReadMode(w.mode) BY <1>2 DEF ReadMode
<1>7. color' \in [mode : LampMode, val : [Component -> ColorValue], silent : SUBSET Component]
      /\ color'.val["ct"] >= CtMin
  BY <1>1, <1>2 DEF Works
<1>8. seen'.mode = ReadMode(color.mode)' BY <1>1, <1>3, <1>6
<1>9. ASSUME NEW k \in Component \ color'.silent PROVE seen'.val[k] = color'.val[k]
  BY <1>1, <1>2, <1>3 DEF Told1
<1>10. QED BY <1>5, <1>7, <1>8, <1>9

\* A command keeps the invariant.
LEMMA CommandKeeps ==
  ASSUME ColorInv, Is("color"), UNCHANGED kind, NEW w, Tells(w), NEW goals, ColorCommand(w, goals)
  PROVE  ColorInv'
<1>1. UNCHANGED <<ctOnly, lamp, stagedColor, fromDevice>> /\ Updated(w) /\ Notify(w.sent)
  BY DEF ColorCommand, Command
<1>2. toDevice' \in Seq(Sends)
  BY <1>1 DEF Notify, Tells, Works, ColorInv
<1>3. QED BY <1>1, <1>2, UpdatedSeen DEF ColorInv, Is

\* Every step keeps the invariant.
LEMMA ColorStep ==
  ASSUME ColorAssumption, ColorInv, [Next]_vars
  PROVE  ColorInv'
<1>1. ASSUME ~Is("color"), UNCHANGED <<kind, colorVars>> PROVE ColorInv'
  BY <1>1 DEF ColorInv, colorVars, Is, ReadMode
<1>2. CASE ColorSteps
  <2>0. Is("color") /\ UNCHANGED kind /\ fromDevice \in Seq(Shades) /\ toDevice \in Seq(Sends)
    BY <1>2 DEF ColorSteps, ColorInv
  <2>1. ASSUME NEW k \in Component, NEW v \in ColorValue, MoveToComponent(k, v) PROVE ColorInv'
    <3>1. Tells(UpdateColor(Working, k, v, Bridged))
      BY WorkingTells, UpdateTells, ColorAssumption DEF Bridged
    <3>2. QED BY <2>0, <2>1, <3>1, CommandKeeps DEF MoveToComponent
  <2>2. ASSUME NEW k \in Component, NEW j \in Component, NEW v1 \in ColorValue, NEW v2 \in ColorValue,
               MoveToBoth(k, v1, j, v2)
        PROVE  ColorInv'
    <3> DEFINE u == UpdateColor(Working, k, v1, Bridged \cup {"noapply", "forced"})
    <3>1. Tells(u) BY WorkingTells, UpdateTells, ColorAssumption DEF Bridged
    <3>2. Tells(UpdateColor(u, j, v2, Bridged \cup {"forced"}))
      <4> HIDE DEF u
      <4>1. QED BY <3>1, UpdateTells, ColorAssumption DEF Bridged
    <3>3. QED BY <2>0, <2>2, <3>2, CommandKeeps DEF MoveToBoth
  <2>3. ASSUME fromDevice # <<>>, ColorReport(Head(fromDevice)) PROVE ColorInv'
    <3> DEFINE r == Head(fromDevice)
    <3>1. r \in Shades BY <2>0, <2>3
    <3>2. fromDevice' \in Seq(Shades) /\ UNCHANGED toDevice
      BY <2>0, <2>3 DEF ColorReport, Report
    <3>3. Tells(ParseColor(Working, r)) BY <3>1, WorkingTells, ParseTells, ColorAssumption
    <3>4. QED BY <2>0, <2>3, <3>2, <3>3, UpdatedSeen DEF ColorReport, ColorInv, Is
  <2>4. ASSUME NEW l \in Shades, NEW s \in [Component -> ColorValue \cup {NoValue}],
               NEW n \in Sends, Deliver(n, Told(l)) \/ Deliver(n, <<>>), LampBecomes(l), stagedColor' = s
        PROVE  ColorInv'
    <3>1. PICK reports \in Seq(Shades) : Deliver(n, reports)
      <4>1. Told(l) \in Seq(Shades) /\ <<>> \in Seq(Shades) BY DEF Told
      <4>2. QED BY <2>4, <4>1
    <3>2. fromDevice' \in Seq(Shades) BY <2>0, <3>1 DEF Deliver, Push
    <3>3. toDevice # <<>> /\ toDevice' = Tail(toDevice) BY <3>1 DEF Deliver
    <3>sent. toDevice' \in Seq(Sends) BY <2>0, <3>3
    <3>4. QED BY <2>0, <2>4, <3>2, <3>sent DEF LampBecomes, ColorInv, ReadMode, Is
  <2>5. ASSUME toDevice # <<>>, LampSet(Head(toDevice)) PROVE ColorInv'
    <3> DEFINE n == Head(toDevice)
               m == ModeOf(n.channel)
               l == [mode |-> m, val |-> [k \in Component |->
                       IF k = n.channel THEN n.value
                       ELSE IF ModeOf(k) = m /\ stagedColor[k] # NoValue THEN stagedColor[k]
                       ELSE lamp.val[k]]]
    <3>1. n \in Sends BY <2>0, <2>5
    <3>2. m \in LampMode BY <3>1 DEF Sends, ModeOf, LampMode, Mode, Component
    <3>3. l \in Shades
      <4>1. n.value \in ColorValue BY <3>1 DEF Sends
      <4>2. \A k \in Component : stagedColor[k] # NoValue => stagedColor[k] \in ColorValue
        BY DEF ColorInv
      <4>3. QED BY <3>2, <4>1, <4>2 DEF ColorInv, Shades, LampMode
    <3>4. CASE n.now
      <4>1. Deliver(n, Told(l)) /\ LampBecomes(l) /\ stagedColor' = [k \in Component |-> NoValue]
        BY <2>5, <3>4 DEF LampSet
      <4>2. [k \in Component |-> NoValue] \in [Component -> ColorValue \cup {NoValue}]
        OBVIOUS
      <4> HIDE DEF l, n
      <4>3. QED BY <2>4, <3>1, <3>3, <4>1, <4>2
    <3>5. CASE ~n.now
      <4>1. Deliver(n, <<>>) /\ LampBecomes(lamp)
            /\ stagedColor' = [stagedColor EXCEPT ![n.channel] = n.value]
        BY <2>5, <3>5 DEF LampSet
      <4>2. stagedColor' \in [Component -> ColorValue \cup {NoValue}]
        BY <3>1, <4>1 DEF Sends, ColorInv
      <4> HIDE DEF l, n
      <4>3. lamp \in Shades BY DEF ColorInv
      <4>4. QED BY <2>4, <3>1, <4>1, <4>2, <4>3
    <3>6. QED BY <3>4, <3>5
  <2>6. ASSUME NEW k \in Component, NEW v \in ColorValue, LampOwn(k, v) PROVE ColorInv'
    <3> DEFINE l == [mode |-> ModeOf(k), val |-> [lamp.val EXCEPT ![k] = v]]
    <3>1. l \in Shades BY DEF ColorInv, Shades, ModeOf, Mode, Component
    <3>2. Happens(MaxOwn, <<l>>) /\ LampBecomes(l) /\ UNCHANGED stagedColor BY <2>6 DEF LampOwn
    <3> HIDE DEF l
    <3>3. <<l>> \in Seq(Shades) BY <3>1
    <3>4. fromDevice' \in Seq(Shades) /\ UNCHANGED toDevice
      BY <2>0, <3>2, <3>3 DEF Happens, Push
    <3>5. QED BY <2>0, <3>1, <3>2, <3>4 DEF LampBecomes, ColorInv, ReadMode, Is
  <2>7. CASE ColorLost
    BY <2>0, <2>7 DEF ColorLost, LinkLost, ColorInv, ReadMode, Is
  <2>8. CASE LinkReconnect /\ UNCHANGED colorVars
    BY <2>0, <2>8 DEF LinkReconnect, queues, colorVars, ColorInv, ReadMode, Is
  <2>9. {"hue", "sat", "ct", "x", "y"} \subseteq Component BY DEF Component
  <2>10. QED
    BY <1>2, <2>1, <2>2, <2>3, <2>5, <2>6, <2>7, <2>8, <2>9 DEF ColorSteps, ColorNext
<1>3. CASE UNCHANGED vars
  BY <1>3 DEF vars, colorVars, link, queues, ColorInv, ReadMode, Is
<1>4. QED
  BY <1>1, <1>2, <1>3 DEF Next, IdentifySteps, FanSteps, ButtonSteps, InputSteps, CoverSteps,
                          CCSteps, RoomSteps, MappingSteps, NameSteps, Is

\* It holds of the installed light.
LEMMA ColorStarts ==
  ASSUME Init PROVE ColorInv
<1>1. PICK isCtOnly \in BOOLEAN, isLit \in BOOLEAN, exec \in BOOLEAN, l \in Lamps :
        ColorInit(isCtOnly, isLit, exec, l)
  BY DEF Init, ColorsInit
<1>2. l \in Shades BY KindsAssumption
<1> DEFINE kept == [k \in Component |-> Clamped(k, ToComponent(l.val[k]))]
<1>3. kept \in [Component -> ColorValue] /\ kept["ct"] >= CtMin
  <2>1. \A k \in Component : l.val[k] \in ColorValue BY <1>2 DEF Shades
  <2>2. "ct" \in Component BY DEF Component
  <2>3. \A k \in Component : Clamped(k, ToComponent(l.val[k])) \in ColorValue
    BY <2>1, ToComponentTyped, ClampedTyped, ColorAssumption
  <2>4. Clamped("ct", ToComponent(l.val["ct"])) >= CtMin
    BY <2>1, <2>2, ToComponentTyped, ClampedTyped, ColorAssumption
  <2>5. QED BY <2>2, <2>3, <2>4
<1>4. color = [mode |-> l.mode, val |-> kept, silent |-> {}]
      /\ seen = [mode |-> ReadMode(l.mode), val |-> kept]
  BY <1>1 DEF ColorInit
<1> HIDE DEF kept
<1>5. ReadMode(l.mode) \in LampMode BY <1>2 DEF ReadMode, Shades, LampMode, Mode
<1>6. lamp = l /\ stagedColor = [k \in Component |-> NoValue] BY <1>1 DEF ColorInit
<1>7. fromDevice = <<>> /\ toDevice = <<>> BY DEF Init, LinkInit
<1>8. QED BY <1>2, <1>3, <1>4, <1>5, <1>6, <1>7 DEF ColorInv, Shades, LampMode

\* It holds in every behaviour.
LEMMA ColorInvariant == Spec => []ColorInv
<1>1. Init => ColorInv BY ColorStarts
<1>2. ColorInv /\ [Next]_vars => ColorInv' BY ColorStep, ColorAssumption
<1>3. QED BY <1>1, <1>2, PTL DEF Spec

\* Subscribers have the color mode, and every value of it that has not changed
\* while the lamp was in another mode, in every order of commands and reports
\* (devicecolorcontrol.cpp 119-299, p44devices.cpp 551-604).
THEOREM SubscribersSeeTheColor == Spec => []ColorSeen
<1>1. ColorInv => ColorSeen
  BY DEF ColorInv, ColorSeen, ComponentsOf
<1>2. QED BY <1>1, ColorInvariant, PTL

---------------------------------------------------------------------------
(* What the commands send.                                                 *)

Message(k, v, now) == [channel |-> k, value |-> v, now |-> now]

ModeSends(m, val) ==
  CASE m = "hs" -> Append(Append(<<>>, Message("hue", val["hue"], FALSE)), Message("sat", val["sat"], TRUE))
    [] m = "xy" -> Append(Append(<<>>, Message("x", val["x"], FALSE)), Message("y", val["y"], TRUE))
    [] OTHER -> Append(<<>>, Message("ct", val["ct"], TRUE))

LEMMA SendModeResult ==
  ASSUME NEW w \in Works, w.sent = <<>>
  PROVE  /\ SendMode(w).mode = w.mode /\ SendMode(w).val = w.val
         /\ SendMode(w).sent = ModeSends(w.mode, w.val)
<1>1. ASSUME NEW u \in Works, NEW k \in Component, NEW now \in BOOLEAN
      PROVE  /\ SendComponent(u, k, now) \in Works
             /\ SendComponent(u, k, now).mode = u.mode /\ SendComponent(u, k, now).val = u.val
             /\ SendComponent(u, k, now).sent = Append(u.sent, Message(k, u.val[k], now))
  <2> DEFINE s == SendComponent(u, k, now)
  <2>1. u.val[k] \in ColorValue BY DEF Works
  <2>2. Message(k, u.val[k], now) \in Sends BY <2>1 DEF Message, Sends
  <2>3. s.sent = Append(u.sent, Message(k, u.val[k], now)) /\ s = [u EXCEPT !.sent = s.sent]
    BY DEF SendComponent, Works, Message
  <2>4. s.sent \in Seq(Sends) BY <2>2, <2>3 DEF Works
  <2>5. s \in Works /\ s.mode = u.mode /\ s.val = u.val BY <2>3, <2>4 DEF Works
  <2>6. QED BY <2>3, <2>5
<1>2. {"hue", "sat", "ct", "x", "y"} \subseteq Component BY DEF Component
<1>4. ASSUME NEW j \in Component, NEW k \in Component,
             NEW s, s = SendComponent(SendComponent(w, j, FALSE), k, TRUE)
      PROVE  /\ s.mode = w.mode /\ s.val = w.val
             /\ s.sent = Append(Append(<<>>, Message(j, w.val[j], FALSE)), Message(k, w.val[k], TRUE))
  <2>1. TRUE \in BOOLEAN /\ FALSE \in BOOLEAN OBVIOUS
  <2>2. PICK u : u = SendComponent(w, j, FALSE) OBVIOUS
  <2>3. /\ u \in Works /\ u.mode = w.mode /\ u.val = w.val
        /\ u.sent = Append(w.sent, Message(j, w.val[j], FALSE))
    BY <1>1, <2>1, <2>2, Zenon
  <2>4. s = SendComponent(u, k, TRUE) BY <1>4, <2>2
  <2>5. /\ s.mode = u.mode /\ s.val = u.val
        /\ s.sent = Append(u.sent, Message(k, u.val[k], TRUE))
    BY <1>1, <2>1, <2>3, <2>4, Zenon
  <2>6. s.sent = Append(Append(<<>>, Message(j, w.val[j], FALSE)), Message(k, w.val[k], TRUE))
    BY <2>3, <2>5
  <2>7. QED BY <2>3, <2>5, <2>6
<1>5. CASE w.mode = "hs"
  <2>1. SendMode(w) = SendComponent(SendComponent(w, "hue", FALSE), "sat", TRUE)
        /\ ModeSends(w.mode, w.val) =
             Append(Append(<<>>, Message("hue", w.val["hue"], FALSE)), Message("sat", w.val["sat"], TRUE))
    BY <1>5 DEF SendMode, ModeSends
  <2>2. "hue" \in Component /\ "sat" \in Component BY <1>2
  <2>3. QED BY <1>4, <2>1, <2>2, Zenon
<1>6. CASE w.mode = "xy"
  <2>1. SendMode(w) = SendComponent(SendComponent(w, "x", FALSE), "y", TRUE)
        /\ ModeSends(w.mode, w.val) =
             Append(Append(<<>>, Message("x", w.val["x"], FALSE)), Message("y", w.val["y"], TRUE))
    BY <1>6 DEF SendMode, ModeSends
  <2>2. "x" \in Component /\ "y" \in Component BY <1>2
  <2>3. QED BY <1>4, <2>1, <2>2, Zenon
<1>7. CASE w.mode \notin {"hs", "xy"}
  <2> DEFINE s == SendComponent(w, "ct", TRUE)
  <2>0. "ct" \in Component /\ TRUE \in BOOLEAN BY <1>2
  <2>1. s.mode = w.mode /\ s.val = w.val /\ s.sent = Append(w.sent, Message("ct", w.val["ct"], TRUE))
    BY <1>1, <2>0, Zenon
  <2>2. s.sent = Append(<<>>, Message("ct", w.val["ct"], TRUE)) BY <2>1
  <2>3. SendMode(w) = s /\ ModeSends(w.mode, w.val) = Append(<<>>, Message("ct", w.val["ct"], TRUE))
    BY <1>7 DEF SendMode, ModeSends
  <2> HIDE DEF s
  <2>4. QED BY <2>1, <2>2, <2>3
<1>8. QED BY <1>5, <1>6, <1>7

\* An update of a command: the component takes the value, and is sent alone or
\* with all of the new mode.
Updates(w, k, v, flags, u) ==
  /\ Tells(w) /\ k \in Component /\ v \in ColorValue
  /\ Bridged \subseteq flags /\ "noderive" \notin flags
  /\ v # w.val[k] \/ "forced" \in flags
  /\ w.mode = ModeOf(k) \/ w.sent = <<>>
  /\ u = UpdateColor(w, k, v, flags)

UpdateGives(w, k, v, flags, u) ==
  /\ Tells(u) /\ u.mode = ModeOf(k) /\ u.val = [w.val EXCEPT ![k] = Clamped(k, v)]
  /\ u.sent = IF w.mode = ModeOf(k)
                THEN Append(w.sent, Message(k, Clamped(k, v), "noapply" \notin flags))
                ELSE ModeSends(ModeOf(k), u.val)

LEMMA UpdateResult ==
  ASSUME ColorAssumption, NEW w, NEW k, NEW v, NEW flags, NEW u, Updates(w, k, v, flags, u)
  PROVE  UpdateGives(w, k, v, flags, u)
<1>0. /\ Tells(w) /\ k \in Component /\ v \in ColorValue
      /\ Bridged \subseteq flags /\ "noderive" \notin flags
      /\ v # w.val[k] \/ "forced" \in flags
      /\ w.mode = ModeOf(k) \/ w.sent = <<>>
      /\ u = UpdateColor(w, k, v, flags)
  BY DEF Updates
<1> DEFINE t == Taken(w, k, v, flags)
           n == [t EXCEPT !.mode = ModeOf(k), !.dirty = @ \cup {"mode"}]
           m == UpdateColorMode(t, ModeOf(k), flags)
<1>1. "bridged" \in flags /\ "matter" \in flags BY <1>0 DEF Bridged
<1>2. Tells(u) BY <1>0, <1>1, UpdateTells, ColorAssumption
<1>3. Tells(t) /\ t \in Works BY <1>0, TakenTells, ColorAssumption DEF Tells
<1>4. w \in Works BY <1>0 DEF Tells
<1>5. t.mode = w.mode /\ t.sent = w.sent /\ t.val = [w.val EXCEPT ![k] = Clamped(k, v)]
  BY <1>0, <1>4 DEF Taken, Works
<1>6. ModeOf(k) \in LampMode BY <1>0 DEF ModeOf, LampMode, Mode, Component
<1>7. t.val[k] = Clamped(k, v) BY <1>0, <1>4, <1>5 DEF Works
<1>8. CASE w.mode = ModeOf(k)
  <2>1. ~ModeChanges(t, ModeOf(k), flags) BY <1>5, <1>8 DEF ModeChanges
  <2>2. m = t BY <2>1 DEF UpdateColorMode
  <2>3. u = SendComponent(m, k, "noapply" \notin flags)
    BY <1>0, <1>1, <2>1 DEF UpdateColor
  <2> HIDE DEF t, m
  <2>4. u = [t EXCEPT !.sent = Append(@, Message(k, t.val[k], "noapply" \notin flags))]
    BY <2>2, <2>3 DEF SendComponent, Message
  <2>5. u.mode = t.mode /\ u.val = t.val
        /\ u.sent = Append(t.sent, Message(k, t.val[k], "noapply" \notin flags))
    BY <1>3, <2>4 DEF Works
  <2>6. QED BY <1>2, <1>5, <1>7, <1>8, <2>5 DEF UpdateGives
<1>9. CASE w.mode # ModeOf(k)
  <2>1. ModeChanges(t, ModeOf(k), flags) BY <1>0, <1>5, <1>9 DEF ModeChanges
  <2>2. m = SendMode(n) BY <1>1, <2>1 DEF UpdateColorMode
  <2>3. u = m BY <1>0, <2>1 DEF UpdateColor
  <2> HIDE DEF t, m
  <2>4. n \in Works /\ n.mode = ModeOf(k) /\ n.val = t.val /\ n.sent = <<>>
    BY <1>0, <1>3, <1>5, <1>6, <1>9 DEF Works
  <2> HIDE DEF n
  <2>5. /\ u.mode = ModeOf(k) /\ u.val = t.val
        /\ u.sent = ModeSends(ModeOf(k), t.val)
    BY <2>2, <2>3, <2>4, SendModeResult
  <2>6. QED BY <1>2, <1>5, <1>9, <2>5 DEF UpdateGives
<1>10. QED BY <1>8, <1>9

\* What may be on its way to the lamp.
ProperSends ==
  {n \in Sends : (n.channel = "ct" => n.value >= CtMin) /\ (ctOnly => n.channel = "ct")}

\* A value that waits for the next one is followed by another of its mode that applies.
Paired(q) ==
  \A i \in DOMAIN q :
    ~q[i].now => /\ i < Len(q) /\ q[i + 1].now /\ q[i + 1].channel # q[i].channel
                 /\ ModeOf(q[i + 1].channel) = ModeOf(q[i].channel)

LastSet(q, k, v) ==
  \E i \in DOMAIN q : /\ q[i].channel = k /\ q[i].value = v
                      /\ \A j \in DOMAIN q : j > i => q[j].channel # k

\* Notifications of one mode, which all get applied.
Sending(q, m) ==
  q \in Seq(ProperSends) /\ q # <<>> /\ Paired(q) /\ \A i \in DOMAIN q : ModeOf(q[i].channel) = m

LEMMA ProperMessage ==
  ASSUME NEW k \in Component, NEW v \in ColorValue, NEW now \in BOOLEAN,
         k = "ct" => v >= CtMin, ctOnly => k = "ct"
  PROVE  /\ Message(k, v, now) \in ProperSends /\ Message(k, v, now).channel = k
         /\ Message(k, v, now).value = v /\ Message(k, v, now).now = now
BY DEF Message, Sends, ProperSends

LEMMA OneSent ==
  ASSUME NEW a \in ProperSends, a.now, NEW q, q = Append(<<>>, a)
  PROVE  Sending(q, ModeOf(a.channel)) /\ LastSet(q, a.channel, a.value)
<1>1. q \in Seq(ProperSends) /\ q # <<>> /\ DOMAIN q = {1} /\ Len(q) = 1 /\ q[1] = a
  OBVIOUS
<1>2. QED BY <1>1 DEF Sending, Paired, LastSet

LEMMA TwoSent ==
  ASSUME NEW a \in ProperSends, NEW b \in ProperSends, b.now, a.channel # b.channel,
         ModeOf(a.channel) = ModeOf(b.channel), NEW q, q = Append(Append(<<>>, a), b)
  PROVE  /\ Sending(q, ModeOf(b.channel))
         /\ LastSet(q, a.channel, a.value) /\ LastSet(q, b.channel, b.value)
<1>1. q \in Seq(ProperSends) /\ q # <<>> /\ DOMAIN q = {1, 2} /\ Len(q) = 2 /\ q[1] = a /\ q[2] = b
  OBVIOUS
<1>2. Sending(q, ModeOf(b.channel)) BY <1>1 DEF Sending, Paired
<1>3. LastSet(q, a.channel, a.value) /\ LastSet(q, b.channel, b.value) BY <1>1 DEF LastSet
<1>4. QED BY <1>2, <1>3

LEMMA ThreeSent ==
  ASSUME NEW a \in ProperSends, NEW b \in ProperSends, NEW c \in ProperSends, b.now, c.now,
         a.channel # b.channel, ModeOf(a.channel) = ModeOf(b.channel),
         c.channel \in {a.channel, b.channel}, NEW q, q = Append(Append(Append(<<>>, a), b), c)
  PROVE  /\ Sending(q, ModeOf(c.channel)) /\ LastSet(q, c.channel, c.value)
         /\ c.channel = b.channel => LastSet(q, a.channel, a.value)
         /\ c.channel = a.channel => LastSet(q, b.channel, b.value)
<1>1. /\ q \in Seq(ProperSends) /\ q # <<>> /\ DOMAIN q = {1, 2, 3} /\ Len(q) = 3
      /\ q[1] = a /\ q[2] = b /\ q[3] = c
  <2>1. Append(<<>>, a) \in Seq(ProperSends) /\ Append(Append(<<>>, a), b) \in Seq(ProperSends)
    OBVIOUS
  <2>2. Len(Append(Append(<<>>, a), b)) = 2 OBVIOUS
  <2>3. QED BY <2>1, <2>2
<1>2. Sending(q, ModeOf(c.channel)) BY <1>1 DEF Sending, Paired
<1>3. LastSet(q, c.channel, c.value) BY <1>1 DEF LastSet
<1>4. c.channel = b.channel => LastSet(q, a.channel, a.value) BY <1>1 DEF LastSet
<1>5. c.channel = a.channel => LastSet(q, b.channel, b.value) BY <1>1 DEF LastSet
<1>6. QED BY <1>2, <1>3, <1>4, <1>5

\* What a command does to the values kept, and what it sends: nothing, or all
\* values that it changes or asks for.
Effect(w, aim) ==
  /\ Tells(w)
  /\ w.sent = <<>> => /\ w.mode = color.mode /\ w.val = color.val
                      /\ \A k \in DOMAIN aim : Clamped(k, aim[k]) = aim[k]
  /\ w.sent # <<>> =>
       /\ Sending(w.sent, w.mode)
       /\ \A k \in ComponentsOf(w.mode) :
            LastSet(w.sent, k, w.val[k]) \/ (w.mode = color.mode /\ w.val[k] = color.val[k])
       /\ \A k \in DOMAIN aim : LastSet(w.sent, k, Clamped(k, aim[k]))

\* The values of a new mode.
LEMMA ModeSent ==
  ASSUME NEW m \in Mode, NEW val \in [Component -> ColorValue], val["ct"] >= CtMin,
         ctOnly => m = "ct"
  PROVE  /\ Sending(ModeSends(m, val), m)
         /\ \A k \in ComponentsOf(m) : LastSet(ModeSends(m, val), k, val[k])
<1>1. {"hue", "sat", "ct", "x", "y"} \subseteq Component /\ TRUE \in BOOLEAN /\ FALSE \in BOOLEAN
  BY DEF Component
<1>2. /\ ModeOf("hue") = "hs" /\ ModeOf("sat") = "hs" /\ ModeOf("ct") = "ct"
      /\ ModeOf("x") = "xy" /\ ModeOf("y") = "xy"
  BY DEF ModeOf
<1>3. /\ ComponentsOf("hs") = {"hue", "sat"} /\ ComponentsOf("xy") = {"x", "y"}
      /\ ComponentsOf("ct") = {"ct"}
  BY DEF ComponentsOf, Component, ModeOf
<1>4. ASSUME NEW j \in Component, NEW k \in Component, j # "ct", k # "ct", j # k, ~ctOnly,
             ModeOf(j) = ModeOf(k),
             NEW q, q = Append(Append(<<>>, Message(j, val[j], FALSE)), Message(k, val[k], TRUE))
      PROVE  Sending(q, ModeOf(k)) /\ LastSet(q, j, val[j]) /\ LastSet(q, k, val[k])
  <2> DEFINE a == Message(j, val[j], FALSE)
             b == Message(k, val[k], TRUE)
  <2>0. /\ val[j] \in ColorValue /\ (j = "ct" => val[j] >= CtMin) /\ (ctOnly => j = "ct")
        /\ val[k] \in ColorValue /\ (k = "ct" => val[k] >= CtMin) /\ (ctOnly => k = "ct")
        /\ TRUE \in BOOLEAN /\ FALSE \in BOOLEAN
    BY <1>4
  <2>1. a \in ProperSends /\ a.channel = j /\ a.value = val[j]
    BY <2>0, ProperMessage, Zenon
  <2>2. b \in ProperSends /\ b.channel = k /\ b.value = val[k] /\ b.now
    BY <2>0, ProperMessage, Zenon
  <2>3. q = Append(Append(<<>>, a), b) BY <1>4
  <2> HIDE DEF a, b
  <2>4. QED BY <1>4, <2>1, <2>2, <2>3, TwoSent
<1>5. CASE m = "hs"
  BY <1>1, <1>2, <1>3, <1>4, <1>5 DEF ModeSends
<1>6. CASE m = "xy"
  BY <1>1, <1>2, <1>3, <1>4, <1>6 DEF ModeSends
<1>7. CASE m = "ct"
  <2> DEFINE a == Message("ct", val["ct"], TRUE)
  <2>0. /\ "ct" \in Component /\ val["ct"] \in ColorValue /\ ("ct" = "ct" => val["ct"] >= CtMin)
        /\ (ctOnly => "ct" = "ct") /\ TRUE \in BOOLEAN
    BY <1>1
  <2>1. a \in ProperSends /\ a.channel = "ct" /\ a.value = val["ct"] /\ a.now
    BY <2>0, ProperMessage, Zenon
  <2>2. ModeSends(m, val) = Append(<<>>, a) BY <1>7 DEF ModeSends
  <2> HIDE DEF a
  <2>3. Sending(ModeSends(m, val), ModeOf("ct")) /\ LastSet(ModeSends(m, val), "ct", val["ct"])
    BY <2>1, <2>2, OneSent
  <2>4. QED BY <1>2, <1>3, <1>7, <2>3
<1>8. QED BY <1>5, <1>6, <1>7 DEF Mode

LEMMA SingleEffect ==
  ASSUME ColorAssumption, ColorInv, NEW k \in Component, NEW v \in ColorValue, ctOnly => k = "ct",
         NEW w, w = UpdateColor(Working, k, v, Bridged), NEW aim, aim = [c \in {k} |-> v]
  PROVE  Effect(w, aim)
<1>1. Tells(Working) BY WorkingTells
<1>2. Working.mode = color.mode /\ Working.val = color.val /\ Working.sent = <<>>
  BY DEF Working
<1>3. /\ color.val \in [Component -> ColorValue] /\ color.val["ct"] >= CtMin
      /\ color.mode \in LampMode
  BY DEF ColorInv
<1>4. DOMAIN aim = {k} /\ aim[k] = v OBVIOUS
<1>5. "forced" \notin Bridged /\ "noderive" \notin Bridged /\ "noapply" \notin Bridged
  BY DEF Bridged
<1>6. Clamped(k, v) \in ColorValue /\ (k = "ct" => Clamped(k, v) >= CtMin)
  BY ClampedTyped, ColorAssumption
<1>7. CASE v = color.val[k]
  <2>1. w = Working BY <1>2, <1>5, <1>7 DEF UpdateColor
  <2>2. Clamped(k, v) = v BY <1>3, <1>7, ColorAssumption DEF Clamped, ColorValue
  <2>3. QED BY <1>1, <1>2, <1>4, <2>1, <2>2 DEF Effect
<1>8. CASE v # color.val[k]
  <2>1. /\ Tells(w) /\ w.mode = ModeOf(k) /\ w.val = [color.val EXCEPT ![k] = Clamped(k, v)]
        /\ w.sent = IF color.mode = ModeOf(k)
                      THEN Append(<<>>, Message(k, Clamped(k, v), "noapply" \notin Bridged))
                      ELSE ModeSends(ModeOf(k), w.val)
    <3>1. Updates(Working, k, v, Bridged, w) BY <1>1, <1>2, <1>5, <1>8 DEF Updates
    <3>2. UpdateGives(Working, k, v, Bridged, w) BY <3>1, UpdateResult, ColorAssumption
    <3>3. QED BY <1>2, <3>2 DEF UpdateGives
  <2>2. w.val[k] = Clamped(k, v) /\ w.val \in [Component -> ColorValue] /\ w.val["ct"] >= CtMin
    BY <1>3, <1>6, <2>1 DEF Component
  <2>3. CASE color.mode = ModeOf(k)
    <3> DEFINE a == Message(k, Clamped(k, v), TRUE)
    <3>1. "noapply" \notin Bridged <=> TRUE BY <1>5
    <3>2. TRUE \in BOOLEAN OBVIOUS
    <3>3. a \in ProperSends /\ a.channel = k /\ a.value = Clamped(k, v) /\ a.now
      BY <1>6, <3>2, ProperMessage, Zenon
    <3>4. w.sent = Append(<<>>, a) BY <2>1, <2>3, <3>1
    <3> HIDE DEF a
    <3>5. Sending(w.sent, ModeOf(k)) /\ LastSet(w.sent, k, Clamped(k, v))
      BY <3>3, <3>4, OneSent
    <3>6. ASSUME NEW c \in ComponentsOf(w.mode), c # k
          PROVE  w.mode = color.mode /\ w.val[c] = color.val[c]
      BY <1>3, <2>1, <2>3, <3>6 DEF ComponentsOf
    <3>7. w.sent # <<>> BY <3>5 DEF Sending
    <3>8. QED BY <1>4, <2>1, <2>2, <3>5, <3>6, <3>7 DEF Effect
  <2>4. CASE color.mode # ModeOf(k)
    <3>1. ModeOf(k) \in Mode /\ (ctOnly => ModeOf(k) = "ct") BY DEF ModeOf, Mode, Component
    <3>2. w.sent = ModeSends(ModeOf(k), w.val) BY <2>1, <2>4
    <3>3. /\ Sending(w.sent, ModeOf(k))
          /\ \A c \in ComponentsOf(ModeOf(k)) : LastSet(w.sent, c, w.val[c])
      BY <2>2, <3>1, <3>2, ModeSent
    <3>4. k \in ComponentsOf(ModeOf(k)) BY DEF ComponentsOf
    <3>5. w.sent # <<>> BY <3>3 DEF Sending
    <3>6. QED BY <1>4, <2>1, <2>2, <3>3, <3>4, <3>5 DEF Effect
  <2>5. QED BY <2>3, <2>4
<1>9. QED BY <1>7, <1>8

LEMMA BothEffect ==
  ASSUME ColorAssumption, ColorInv, ~ctOnly, NEW v1 \in ColorValue, NEW v2 \in ColorValue,
         NEW first, NEW second, <<first, second>> \in {<<"sat", "hue">>, <<"x", "y">>},
         NEW u, u = UpdateColor(Working, first, v1, Bridged \cup {"noapply", "forced"}),
         NEW w, w = UpdateColor(u, second, v2, Bridged \cup {"forced"}),
         NEW aim, aim = [c \in {first, second} |-> IF c = first THEN v1 ELSE v2]
  PROVE  Effect(w, aim)
<1> DEFINE m == ModeOf(first)
           flags1 == Bridged \cup {"noapply", "forced"}
           flags2 == Bridged \cup {"forced"}
           c == Message(second, v2, TRUE)
<1>1. Tells(Working) BY WorkingTells
<1>2. Working.mode = color.mode /\ Working.val = color.val /\ Working.sent = <<>>
  BY DEF Working
<1>3. /\ color.val \in [Component -> ColorValue] /\ color.val["ct"] >= CtMin
      /\ color.mode \in LampMode
  BY DEF ColorInv
<1>4. \/ first = "sat" /\ second = "hue"
      \/ first = "x" /\ second = "y"
  OBVIOUS
<1>5. /\ first \in Component /\ second \in Component /\ first # second
      /\ first # "ct" /\ second # "ct"
  BY <1>4 DEF Component
<1>6. ModeOf(second) = m /\ m \in {"hs", "xy"} /\ (m = "hs" <=> first = "sat")
      /\ ComponentsOf(m) = {first, second}
  BY <1>4 DEF ModeOf, ComponentsOf, Component
<1>7. Clamped(first, v1) = v1 /\ Clamped(second, v2) = v2 BY <1>5 DEF Clamped
<1>8. DOMAIN aim = {first, second} /\ aim[first] = v1 /\ aim[second] = v2
  BY <1>5
<1>9. /\ Bridged \subseteq flags1 /\ Bridged \subseteq flags2 /\ "forced" \in flags1
      /\ "forced" \in flags2 /\ "noderive" \notin flags1 /\ "noderive" \notin flags2
      /\ "noapply" \in flags1 /\ "noapply" \notin flags2
  BY DEF Bridged
<1>10. u = UpdateColor(Working, first, v1, flags1) /\ w = UpdateColor(u, second, v2, flags2)
  OBVIOUS
<1> HIDE DEF flags1, flags2
<1>11. /\ Tells(u) /\ u.mode = m /\ u.val = [color.val EXCEPT ![first] = v1]
       /\ u.sent = IF color.mode = m THEN Append(<<>>, Message(first, v1, FALSE))
                   ELSE ModeSends(m, u.val)
  <2>1. /\ Tells(u) /\ u.mode = m /\ u.val = [color.val EXCEPT ![first] = Clamped(first, v1)]
        /\ u.sent = IF color.mode = m
                      THEN Append(<<>>, Message(first, Clamped(first, v1), "noapply" \notin flags1))
                      ELSE ModeSends(m, u.val)
    <3>1. Updates(Working, first, v1, flags1, u) BY <1>1, <1>2, <1>5, <1>9, <1>10 DEF Updates
    <3>2. UpdateGives(Working, first, v1, flags1, u) BY <3>1, UpdateResult, ColorAssumption
    <3>3. QED BY <1>2, <3>2 DEF UpdateGives
  <2>2. "noapply" \notin flags1 <=> FALSE BY <1>9
  <2>3. QED BY <1>7, <2>1, <2>2
<1>12. /\ Tells(w) /\ w.mode = m /\ w.val = [u.val EXCEPT ![second] = v2]
       /\ w.sent = Append(u.sent, c)
  <2>1. /\ Tells(w) /\ w.mode = m /\ w.val = [u.val EXCEPT ![second] = Clamped(second, v2)]
        /\ w.sent = Append(u.sent, Message(second, Clamped(second, v2), "noapply" \notin flags2))
    <3>1. Updates(u, second, v2, flags2, w) BY <1>5, <1>6, <1>9, <1>10, <1>11 DEF Updates
    <3>2. UpdateGives(u, second, v2, flags2, w) BY <3>1, UpdateResult, ColorAssumption
    <3>3. QED BY <1>6, <1>11, <3>2 DEF UpdateGives
  <2>2. "noapply" \notin flags2 <=> TRUE BY <1>9
  <2>3. QED BY <1>7, <2>1, <2>2
<1>13. u.val \in [Component -> ColorValue] /\ u.val[first] = v1 /\ w.val[first] = v1 /\ w.val[second] = v2
  BY <1>3, <1>5, <1>11, <1>12
<1>14. TRUE \in BOOLEAN /\ FALSE \in BOOLEAN OBVIOUS
<1>15. c \in ProperSends /\ c.channel = second /\ c.value = v2 /\ c.now
  BY <1>5, <1>14, ProperMessage, Zenon
<1>16. Sending(w.sent, m) /\ LastSet(w.sent, first, v1) /\ LastSet(w.sent, second, v2)
  <2>1. CASE color.mode = m
    <3> DEFINE a == Message(first, v1, FALSE)
    <3>1. a \in ProperSends /\ a.channel = first /\ a.value = v1
      BY <1>5, <1>14, ProperMessage, Zenon
    <3>2. w.sent = Append(Append(<<>>, a), c) BY <1>11, <1>12, <2>1
    <3> HIDE DEF a, c
    <3>3. QED BY <1>5, <1>6, <1>15, <3>1, <3>2, TwoSent
  <2>2. ASSUME color.mode # m, NEW j \in Component, NEW k \in Component, {j, k} = {first, second}, j # k,
               u.sent = Append(Append(<<>>, Message(j, u.val[j], FALSE)), Message(k, u.val[k], TRUE))
        PROVE  Sending(w.sent, m) /\ LastSet(w.sent, first, v1) /\ LastSet(w.sent, second, v2)
    <3> DEFINE a == Message(j, u.val[j], FALSE)
               b == Message(k, u.val[k], TRUE)
    <3>0. /\ u.val[j] \in ColorValue /\ u.val[k] \in ColorValue /\ j # "ct" /\ k # "ct"
          /\ ModeOf(j) = m /\ ModeOf(k) = m
      BY <1>5, <1>6, <1>13, <2>2
    <3>1. a \in ProperSends /\ a.channel = j /\ a.value = u.val[j]
      BY <1>14, <3>0, ProperMessage, Zenon
    <3>2. b \in ProperSends /\ b.channel = k /\ b.value = u.val[k] /\ b.now
      BY <1>14, <3>0, ProperMessage, Zenon
    <3>3. w.sent = Append(Append(Append(<<>>, a), b), c) BY <1>12, <2>2
    <3> HIDE DEF a, b, c
    <3>c. /\ c.channel \in {a.channel, b.channel} /\ a.channel # b.channel
          /\ ModeOf(a.channel) = ModeOf(b.channel)
      BY <1>15, <2>2, <3>0, <3>1, <3>2
    <3>4. /\ Sending(w.sent, ModeOf(c.channel)) /\ LastSet(w.sent, c.channel, c.value)
          /\ c.channel = b.channel => LastSet(w.sent, a.channel, a.value)
          /\ c.channel = a.channel => LastSet(w.sent, b.channel, b.value)
      BY <1>15, <3>1, <3>2, <3>3, <3>c, ThreeSent, Zenon
    <3>5. CASE j = first /\ k = second
      BY <1>6, <1>13, <1>15, <3>1, <3>2, <3>4, <3>5
    <3>6. CASE j = second /\ k = first
      BY <1>6, <1>13, <1>15, <3>1, <3>2, <3>4, <3>6
    <3>7. QED BY <2>2, <3>5, <3>6
  <2>3. CASE color.mode # m /\ m = "hs"
    <3>1. u.sent = Append(Append(<<>>, Message("hue", u.val["hue"], FALSE)), Message("sat", u.val["sat"], TRUE))
      BY <1>11, <2>3 DEF ModeSends
    <3>2. "hue" \in Component /\ "sat" \in Component /\ {"hue", "sat"} = {first, second} /\ "hue" # "sat"
      BY <1>4, <1>6, <2>3 DEF Component
    <3>3. QED BY <2>2, <2>3, <3>1, <3>2, Zenon
  <2>4. CASE color.mode # m /\ m = "xy"
    <3>1. u.sent = Append(Append(<<>>, Message("x", u.val["x"], FALSE)), Message("y", u.val["y"], TRUE))
      BY <1>11, <2>4 DEF ModeSends
    <3>2. "x" \in Component /\ "y" \in Component /\ {"x", "y"} = {first, second} /\ "x" # "y"
      BY <1>4, <1>6, <2>4 DEF Component
    <3>3. QED BY <2>2, <2>4, <3>1, <3>2, Zenon
  <2>5. QED BY <1>6, <2>1, <2>3, <2>4
<1>17. w.sent # <<>> BY <1>16 DEF Sending
<1>18. ASSUME NEW k \in ComponentsOf(w.mode) PROVE LastSet(w.sent, k, w.val[k])
  <2>1. k = first \/ k = second BY <1>6, <1>12, <1>18
  <2>2. QED BY <1>13, <1>16, <2>1
<1>19. ASSUME NEW k \in DOMAIN aim PROVE LastSet(w.sent, k, Clamped(k, aim[k]))
  <2>1. k = first \/ k = second BY <1>8, <1>19
  <2>2. QED BY <1>7, <1>8, <1>16, <2>1
<1>20. Tells(w) /\ Sending(w.sent, w.mode) BY <1>12, <1>16
<1>21. QED BY <1>17, <1>18, <1>19, <1>20 DEF Effect

---------------------------------------------------------------------------
(* What a report makes of the values kept.                                 *)

\* Colors the lamp reports.
ProperShades ==
  {r \in Shades : /\ r.mode \in Mode /\ (r.mode = "ct" => r.val["ct"] >= CtMin)
                  /\ (ctOnly => r.mode = "ct")}

\* An update that is not from the bridge sends nothing.
LEMMA ParsedComponent ==
  ASSUME ColorAssumption, NEW w, Tells(w), NEW r \in Shades, NEW k \in Component,
         NEW u, u = ParseComponent(w, r, k)
  PROVE  Tells(u) /\ u.val = [w.val EXCEPT ![k] = Clamped(k, ToComponent(r.val[k]))]
<1> DEFINE v == ToComponent(r.val[k])
           flags == FlagsOf(k, r)
           t == Taken(w, k, v, flags)
           m == UpdateColorMode(t, ModeOf(k), flags)
<1>1. "bridged" \notin flags /\ ("matter" \in flags \/ "noderive" \in flags) BY DEF FlagsOf
<1>2. v \in ColorValue BY ToComponentTyped, ColorAssumption DEF Shades
<1>3. w \in Works /\ w.val["ct"] >= CtMin /\ w.val \in [Component -> ColorValue] BY DEF Tells, Works
<1>4. u = UpdateColor(w, k, v, flags) BY DEF ParseComponent
<1> HIDE DEF v, flags
<1>5. Tells(u) BY <1>1, <1>2, <1>4, UpdateTells, ColorAssumption
<1>6. CASE u = w /\ v = w.val[k]
  <2>1. Clamped(k, v) = v BY <1>2, <1>3, <1>6, ColorAssumption DEF Clamped, ColorValue
  <2>2. w.val = [w.val EXCEPT ![k] = Clamped(k, v)] BY <1>3, <1>6, <2>1
  <2>3. QED BY <1>5, <1>6, <2>2 DEF v
<1>7. CASE u = m
  <2>1. Tells(t) BY <1>2, TakenTells, ColorAssumption
  <2>2. t \in Works /\ t.val = [w.val EXCEPT ![k] = Clamped(k, v)]
    BY <1>3, <2>1 DEF Tells, Taken, Works
  <2>3. m.val = t.val
    <3> HIDE DEF t
    <3>1. QED BY <1>1, <2>2 DEF UpdateColorMode, Works
  <2> HIDE DEF t, m
  <2>4. QED BY <1>5, <1>7, <2>2, <2>3 DEF v
<1>8. (u = w /\ v = w.val[k]) \/ u = m BY <1>1, <1>4 DEF UpdateColor
<1>9. QED BY <1>6, <1>7, <1>8

\* The mode of a report, and the values of that mode.
LEMMA ParsedColor ==
  ASSUME ColorAssumption, NEW w, Tells(w), NEW r \in ProperShades, NEW p, p = ParseColor(w, r)
  PROVE  /\ p.mode = r.mode
         /\ \A k \in ComponentsOf(r.mode) : p.val[k] = Clamped(k, ToComponent(r.val[k]))
<1> DEFINE Parsed(k) == Clamped(k, ToComponent(r.val[k]))
           q == ParseComponents(w, r)
<1>1. r \in Shades /\ r.mode \in Mode /\ (ctOnly => r.mode = "ct") BY DEF ProperShades
<1>2. "hue" \in Component /\ "sat" \in Component /\ "ct" \in Component /\ "x" \in Component
      /\ "y" \in Component
  BY DEF Component
<1>3. \A u \in Works : u.val \in [Component -> ColorValue] BY DEF Works
<1>step. ASSUME NEW u, Tells(u), NEW k \in Component, NEW s, s = ParseComponent(u, r, k)
         PROVE  Tells(s) /\ s.val = [u.val EXCEPT ![k] = Parsed(k)]
  BY <1>1, <1>step, ParsedComponent, ColorAssumption
<1>4. Tells(q) /\ \A k \in ComponentsOf(r.mode) : q.val[k] = Parsed(k)
  <2>1. PICK u1 : u1 = ParseComponent(w, r, "ct") OBVIOUS
  <2>2. Tells(u1) /\ u1.val = [w.val EXCEPT !["ct"] = Parsed("ct")]
    BY <1>2, <2>1, <1>step
  <2>3. CASE ctOnly
    <3>1. q = u1 BY <2>1, <2>3 DEF ParseComponents
    <3>2. \A k \in ComponentsOf(r.mode) : k = "ct"
      BY <1>1, <2>3 DEF ComponentsOf, ModeOf
    <3>3. "ct" \in DOMAIN w.val BY <1>2, <1>3 DEF Tells
    <3> HIDE DEF Parsed, q
    <3>4. QED BY <2>2, <3>1, <3>2, <3>3
  <2>4. CASE ~ctOnly
    <3>1. PICK u2 : u2 = ParseComponent(u1, r, "hue") OBVIOUS
    <3>2. PICK u3 : u3 = ParseComponent(u2, r, "sat") OBVIOUS
    <3>3. PICK u4 : u4 = ParseComponent(u3, r, "x") OBVIOUS
    <3>4. PICK u5 : u5 = ParseComponent(u4, r, "y") OBVIOUS
    <3>5. q = u5 BY <2>1, <2>4, <3>1, <3>2, <3>3, <3>4 DEF ParseComponents
    <3>6. Tells(u2) /\ u2.val = [u1.val EXCEPT !["hue"] = Parsed("hue")]
      BY <1>2, <2>2, <3>1, <1>step
    <3>7. Tells(u3) /\ u3.val = [u2.val EXCEPT !["sat"] = Parsed("sat")]
      BY <1>2, <3>6, <3>2, <1>step
    <3>8. Tells(u4) /\ u4.val = [u3.val EXCEPT !["x"] = Parsed("x")]
      BY <1>2, <3>7, <3>3, <1>step
    <3>9. Tells(u5) /\ u5.val = [u4.val EXCEPT !["y"] = Parsed("y")]
      BY <1>2, <3>8, <3>4, <1>step
    <3>10. DOMAIN w.val = Component BY <1>3 DEF Tells
    <3> HIDE DEF Parsed, q
    <3>11. \A k \in Component : u5.val[k] = Parsed(k)
      BY <2>2, <3>6, <3>7, <3>8, <3>9, <3>10 DEF Component
    <3>12. QED BY <3>5, <3>9, <3>11 DEF ComponentsOf
  <2>5. QED BY <2>3, <2>4
<1>5. p = UpdateColorMode(q, r.mode, {"matter"}) BY DEF ParseColor
<1>6. p.mode = r.mode /\ p.val = q.val
  <2>1. q \in Works BY <1>4 DEF Tells
  <2> HIDE DEF q
  <2>2. QED BY <1>5, <2>1 DEF UpdateColorMode, ModeChanges, Works
<1>7. QED BY <1>4, <1>6

\* What is kept is what the lamp has.
Shown ==
  /\ color.mode = lamp.mode
  /\ \A k \in ComponentsOf(color.mode) : LampShows(k, color.val[k])

\* After a report of the color the lamp has.
LEMMA ReportShows ==
  ASSUME ColorAssumption, ColorInv, lamp \in ProperShades, ColorReport(lamp)
  PROVE  Shown'
<1>1. PICK p : p = ParseColor(Working, lamp) OBVIOUS
<1>2. Updated(p) /\ lamp' = lamp BY <1>1 DEF ColorReport
<1>3. color'.mode = p.mode /\ color'.val = p.val BY <1>2 DEF Updated
<1>4. /\ p.mode = lamp.mode
      /\ \A k \in ComponentsOf(lamp.mode) : p.val[k] = Clamped(k, ToComponent(lamp.val[k]))
  BY <1>1, WorkingTells, ParsedColor, ColorAssumption
<1>5. ASSUME NEW k \in ComponentsOf(lamp.mode) PROVE LampShows(k, color.val[k])'
  <2>1. color'.val[k] = Clamped(k, ToComponent(lamp.val[k])) BY <1>3, <1>4
  <2>2. k \in Component /\ ModeOf(k) = lamp.mode BY DEF ComponentsOf
  <2>3. lamp.val[k] \in ColorValue BY <2>2 DEF ProperShades, Shades
  <2>4. k = "ct" => lamp.val[k] >= CtMin BY <2>2 DEF ProperShades, ModeOf
  <2>5. Clamped(k, ToComponent(lamp.val[k])) \in {lamp.val[k], ToComponent(lamp.val[k])}
    BY <2>3, <2>4, ColorAssumption DEF Clamped, ToComponent, ColorValue
  <2>6. QED BY <1>2, <2>1, <2>5 DEF LampShows, ToComponent
<1>6. QED BY <1>2, <1>3, <1>4, <1>5 DEF Shown

---------------------------------------------------------------------------
(* What is kept, and what was asked for, while commands and reports are    *)
(* under way.                                                              *)

Agrees(n) == lamp.mode = ModeOf(n.channel) /\ lamp.val[n.channel] = n.value

\* What is on its way to the lamp leaves it as it is.
Calm ==
  /\ \A i \in DOMAIN toDevice : Agrees(toDevice[i])
  /\ toDevice # <<>> /\ toDevice[1].now =>
       \A k \in ComponentsOf(lamp.mode) \ {toDevice[1].channel} :
         stagedColor[k] \in {NoValue, lamp.val[k]}

\* The last report under way has the color of the lamp; when there is none left,
\* what is kept is shown, or will be changed by what is on its way.
ShownInv ==
  /\ ~linkUp => toDevice = <<>> /\ fromDevice = <<>> /\ ~heard
  /\ toDevice \in Seq(ProperSends) /\ Paired(toDevice)
  /\ fromDevice \in Seq(ProperShades)
  /\ fromDevice # <<>> => fromDevice[Len(fromDevice)] = lamp
  /\ fromDevice = <<>> /\ heard /\ Calm => Shown

\* A value that was asked for is on its way, or waits to be applied, or is there.
Heeded(k, v) ==
  \/ LastSet(toDevice, k, v)
  \/ /\ \A i \in DOMAIN toDevice : toDevice[i].channel # k
     /\ \/ stagedColor[k] = v /\ toDevice[1].now /\ ModeOf(toDevice[1].channel) = ModeOf(k)
        \/ stagedColor[k] \in {NoValue, v} /\ lamp.val[k] = v

Asked == {k \in Component : colorWanted.val[k] # NoValue}

WantedInv ==
  colorWanted # NoColor =>
    /\ linkUp
    /\ colorWanted \in [mode : Mode, val : [Component -> ColorValue \cup {NoValue}]]
    /\ \A k \in Asked : ModeOf(k) = colorWanted.mode
    /\ toDevice = <<>> => /\ lamp.mode = colorWanted.mode
                          /\ \A k \in Asked : LampShows(k, colorWanted.val[k])
    /\ toDevice # <<>> => /\ ModeOf(toDevice[Len(toDevice)].channel) = colorWanted.mode
                          /\ \A k \in Asked : Heeded(k, colorWanted.val[k])

JoinedTo(q, s, m, b) ==
  /\ b \in Seq(ProperSends) /\ b # <<>> /\ Paired(b) /\ ModeOf(b[Len(b)].channel) = m
  /\ q # <<>> => b[1] = q[1]
  /\ \A i \in DOMAIN q : i \in DOMAIN b /\ b[i] = q[i]
  /\ \A i \in DOMAIN s : \E j \in DOMAIN b : b[j] = s[i]
  /\ \A k, v : LastSet(s, k, v) => LastSet(b, k, v)

\* Notifications join those that are on their way.
LEMMA Joined ==
  ASSUME NEW q, q \in Seq(ProperSends), Paired(q), NEW m, NEW s, Sending(s, m), NEW b, b = q \o s
  PROVE  JoinedTo(q, s, m, b)
<1>1. /\ s \in Seq(ProperSends) /\ s # <<>> /\ Paired(s)
      /\ \A i \in DOMAIN s : ModeOf(s[i].channel) = m
  BY DEF Sending
<1>2. /\ b \in Seq(ProperSends) /\ Len(b) = Len(q) + Len(s) /\ Len(s) > 0
      /\ Len(q) \in Nat /\ Len(s) \in Nat
      /\ DOMAIN b = 1 .. Len(b) /\ DOMAIN q = 1 .. Len(q) /\ DOMAIN s = 1 .. Len(s)
  BY <1>1
<1>3. /\ \A i \in 1 .. Len(q) : b[i] = q[i]
      /\ \A i \in 1 .. Len(s) : b[Len(q) + i] = s[i]
  BY <1>1
<1>4. ASSUME NEW i \in DOMAIN b
      PROVE  i \in 1 .. Len(q) \/ \E j \in 1 .. Len(s) : i = Len(q) + j
  <2>1. CASE i \in 1 .. Len(q) BY <2>1
  <2>2. CASE i \notin 1 .. Len(q)
    <3>1. i - Len(q) \in 1 .. Len(s) /\ i = Len(q) + (i - Len(q)) BY <1>2, <2>2
    <3>2. QED BY <3>1
  <2>3. QED BY <2>1, <2>2
<1>5. Paired(b)
  <2> SUFFICES ASSUME NEW i \in DOMAIN b, ~b[i].now
               PROVE  /\ i < Len(b) /\ b[i + 1].now /\ b[i + 1].channel # b[i].channel
                      /\ ModeOf(b[i + 1].channel) = ModeOf(b[i].channel)
    BY DEF Paired
  <2>1. CASE i \in 1 .. Len(q)
    <3>1. /\ i < Len(q) /\ q[i + 1].now /\ q[i + 1].channel # q[i].channel
          /\ ModeOf(q[i + 1].channel) = ModeOf(q[i].channel)
      BY <1>2, <1>3, <2>1 DEF Paired
    <3>2. i + 1 \in 1 .. Len(q) /\ i < Len(b) BY <1>2, <2>1, <3>1
    <3>3. QED BY <1>3, <2>1, <3>1, <3>2
  <2>2. ASSUME NEW j \in 1 .. Len(s), i = Len(q) + j
        PROVE  /\ i < Len(b) /\ b[i + 1].now /\ b[i + 1].channel # b[i].channel
               /\ ModeOf(b[i + 1].channel) = ModeOf(b[i].channel)
    <3>1. b[i] = s[j] BY <1>3, <2>2
    <3>2. /\ j < Len(s) /\ s[j + 1].now /\ s[j + 1].channel # s[j].channel
          /\ ModeOf(s[j + 1].channel) = ModeOf(s[j].channel)
      BY <1>1, <1>2, <3>1 DEF Paired
    <3>3. j + 1 \in 1 .. Len(s) /\ i + 1 = Len(q) + (j + 1) /\ i < Len(b) BY <1>2, <2>2, <3>2
    <3>4. b[i + 1] = s[j + 1] BY <1>3, <3>3
    <3>5. QED BY <3>1, <3>2, <3>3, <3>4
  <2>3. QED BY <1>4, <2>1, <2>2
<1>6. ModeOf(b[Len(b)].channel) = m
  <2>1. Len(s) \in 1 .. Len(s) BY <1>2
  <2>2. b[Len(b)] = s[Len(s)] BY <1>2, <1>3, <2>1
  <2>3. QED BY <1>1, <1>2, <2>1, <2>2
<1>7. ASSUME NEW i \in DOMAIN s PROVE \E j \in DOMAIN b : b[j] = s[i]
  <2>1. Len(q) + i \in DOMAIN b BY <1>2
  <2>2. b[Len(q) + i] = s[i] BY <1>2, <1>3
  <2>3. QED BY <2>1, <2>2
<1>8. ASSUME NEW k, NEW v, LastSet(s, k, v) PROVE LastSet(b, k, v)
  <2>1. PICK i \in DOMAIN s : /\ s[i].channel = k /\ s[i].value = v
                              /\ \A j \in DOMAIN s : j > i => s[j].channel # k
    BY <1>8 DEF LastSet
  <2>2. Len(q) + i \in DOMAIN b /\ b[Len(q) + i] = s[i] BY <1>2, <1>3
  <2>3. ASSUME NEW j \in DOMAIN b, j > Len(q) + i PROVE b[j].channel # k
    <3>1. j \notin 1 .. Len(q) BY <1>2, <2>3
    <3>2. PICK l \in 1 .. Len(s) : j = Len(q) + l BY <1>4, <3>1
    <3>3. l > i BY <1>2, <2>3, <3>2
    <3>4. QED BY <1>2, <1>3, <2>1, <3>2, <3>3
  <2>4. QED BY <2>1, <2>2, <2>3 DEF LastSet
<1>9. b # <<>> /\ (q # <<>> => b[1] = q[1])
  BY <1>2, <1>3
<1>10. \A i \in DOMAIN q : i \in DOMAIN b /\ b[i] = q[i] BY <1>2, <1>3
<1>11. QED BY <1>2, <1>5, <1>6, <1>7, <1>8, <1>9, <1>10 DEF JoinedTo

CountsFor(w, m, S, aim, c) ==
  /\ c = [mode |-> m, val |-> [k \in Component |->
            IF k \in S THEN Clamped(k, aim[k]) ELSE NoValue]]
  /\ w.sent = <<>> => Quiet /\ lamp.mode = m /\ \A k \in S : LampShows(k, aim[k])

\* What counts after a command.
LEMMA Counted ==
  ASSUME NEW w, NEW m, NEW S, S # {}, \A k \in S : ModeOf(k) = m,
         NEW aim, aim \in [S -> ColorValue], linkUp, NEW c, c = Counts(w, aim), c # NoColor
  PROVE  CountsFor(w, m, S, aim, c)
<1>1. DOMAIN aim = S OBVIOUS
<1>2. PICK k0 : k0 = CHOOSE k \in DOMAIN aim : TRUE OBVIOUS
<1>3. k0 \in S BY <1>1, <1>2
<1>4. ModeOf(k0) = m BY <1>3
<1>5. QED BY <1>1, <1>2, <1>4 DEF Counts, CountsFor

\* A command keeps both.
LEMMA CommandColor ==
  ASSUME ColorAssumption, ShownInv, WantedInv, NEW w, NEW m \in Mode,
         NEW S, S \subseteq Component, S # {}, \A k \in S : ModeOf(k) = m,
         NEW aim, aim \in [S -> ColorValue], Effect(w, aim), ColorCommand(w, aim)
  PROVE  ShownInv' /\ WantedInv'
<1>1. /\ UNCHANGED <<linkUp, fromDevice, heard, ctOnly, lamp, stagedColor>>
      /\ color'.mode = w.mode /\ color'.val = w.val
      /\ toDevice' = IF linkUp THEN toDevice \o w.sent ELSE toDevice
      /\ colorWanted' = Counts(w, aim)
  BY DEF ColorCommand, Command, Updated, Notify
<1>2. DOMAIN aim = S OBVIOUS
<1>3. ProperSends' = ProperSends /\ ProperShades' = ProperShades
  BY <1>1 DEF ProperSends, ProperShades
<1>4. \A q : Paired(q)' = Paired(q) BY DEF Paired
<1>5. CASE ~linkUp
  <2>1. colorWanted' = NoColor BY <1>1, <1>5 DEF Counts
  <2>2. WantedInv' BY <2>1 DEF WantedInv
  <2>3. ShownInv' BY <1>1, <1>3, <1>4, <1>5 DEF ShownInv
  <2>4. QED BY <2>2, <2>3
<1>6. CASE linkUp /\ w.sent = <<>>
  <2>1. toDevice' = toDevice BY <1>1, <1>6 DEF ShownInv
  <2>2. color'.mode = color.mode /\ color'.val = color.val BY <1>1, <1>6 DEF Effect
  <2>3. Calm' = Calm /\ Shown' = Shown
    BY <1>1, <2>1, <2>2 DEF Calm, Agrees, Shown, LampShows, ToComponent
  <2>4. ShownInv' BY <1>1, <1>3, <1>4, <2>1, <2>3 DEF ShownInv
  <2>5. ASSUME colorWanted' # NoColor PROVE WantedInv'
    <3>1. /\ colorWanted' = [mode |-> m, val |-> [k \in Component |->
                               IF k \in S THEN Clamped(k, aim[k]) ELSE NoValue]]
          /\ Quiet /\ lamp.mode = m /\ \A k \in S : LampShows(k, aim[k])
      <4>1. linkUp /\ colorWanted' = Counts(w, aim) /\ colorWanted' # NoColor BY <1>1, <1>6, <2>5
      <4>2. CountsFor(w, m, S, aim, colorWanted') BY <4>1, Counted
      <4>3. QED BY <1>6, <4>2 DEF CountsFor
    <3>2. \A k \in S : Clamped(k, aim[k]) = aim[k] /\ aim[k] \in ColorValue
      BY <1>2, <1>6 DEF Effect
    <3>3. colorWanted' \in [mode : Mode, val : [Component -> ColorValue \cup {NoValue}]]
      BY <3>1, <3>2
    <3>4. \A k \in Asked' : k \in S /\ colorWanted'.val[k] = aim[k]
      BY <3>1, <3>2 DEF Asked
    <3>5. toDevice' = <<>> /\ lamp' = lamp BY <1>1, <2>1, <3>1 DEF Quiet
    <3>6. \A k \in Asked' : LampShows(k, colorWanted.val[k])'
      BY <3>1, <3>4, <3>5 DEF LampShows, ToComponent
    <3>7. linkUp' /\ lamp'.mode = colorWanted'.mode /\ colorWanted'.mode = m
      BY <1>1, <1>6, <3>1, <3>5
    <3>8. \A k \in Asked' : ModeOf(k) = colorWanted'.mode BY <3>4, <3>7
    <3>9. QED BY <3>3, <3>5, <3>6, <3>7, <3>8 DEF WantedInv
  <2>6. QED BY <2>4, <2>5 DEF WantedInv
<1>7. CASE linkUp /\ w.sent # <<>>
  <2>1. /\ Sending(w.sent, w.mode)
        /\ \A k \in ComponentsOf(w.mode) :
             LastSet(w.sent, k, w.val[k]) \/ (w.mode = color.mode /\ w.val[k] = color.val[k])
        /\ \A k \in S : LastSet(w.sent, k, Clamped(k, aim[k]))
    BY <1>2, <1>7 DEF Effect
  <2>2. toDevice' = toDevice \o w.sent BY <1>1, <1>7
  <2>3. /\ toDevice' \in Seq(ProperSends) /\ toDevice' # <<>> /\ Paired(toDevice')
        /\ ModeOf(toDevice'[Len(toDevice')].channel) = w.mode
        /\ toDevice # <<>> => toDevice'[1] = toDevice[1]
        /\ \A i \in DOMAIN toDevice : i \in DOMAIN toDevice' /\ toDevice'[i] = toDevice[i]
        /\ \A i \in DOMAIN w.sent : \E j \in DOMAIN toDevice' : toDevice'[j] = w.sent[i]
        /\ \A k, v : LastSet(w.sent, k, v) => LastSet(toDevice', k, v)
    <3>1. toDevice \in Seq(ProperSends) /\ Paired(toDevice) BY DEF ShownInv
    <3>2. JoinedTo(toDevice, w.sent, w.mode, toDevice') BY <2>1, <2>2, <3>1, Joined
    <3>3. QED BY <3>2 DEF JoinedTo
  <2>4. ASSUME fromDevice = <<>>, heard, Calm' PROVE Shown'
    <3>1. \A j \in DOMAIN toDevice' : Agrees(toDevice'[j])
      BY <1>1, <2>4 DEF Calm, Agrees
    <3>2. Calm
      <4>1. \A i \in DOMAIN toDevice : Agrees(toDevice[i]) BY <2>3, <3>1
      <4>2. ASSUME toDevice # <<>>, toDevice[1].now,
                   NEW k \in ComponentsOf(lamp.mode) \ {toDevice[1].channel}
            PROVE  stagedColor[k] \in {NoValue, lamp.val[k]}
        BY <1>1, <2>3, <2>4, <4>2 DEF Calm
      <4>3. QED BY <4>1, <4>2 DEF Calm
    <3>3. Shown BY <2>4, <3>2 DEF ShownInv
    <3>4. \A i \in DOMAIN w.sent : Agrees(w.sent[i]) BY <2>3, <3>1
    <3>5. w.mode = lamp.mode
      <4>1. 1 \in DOMAIN w.sent BY <1>7, <2>1 DEF Sending
      <4>2. QED BY <2>1, <3>4, <4>1 DEF Sending, Agrees
    <3>6. ASSUME NEW k \in ComponentsOf(w.mode) PROVE LampShows(k, w.val[k])
      <4>1. CASE LastSet(w.sent, k, w.val[k])
        BY <3>4, <4>1 DEF LastSet, Agrees, LampShows
      <4>2. CASE w.mode = color.mode /\ w.val[k] = color.val[k]
        BY <3>3, <3>6, <4>2 DEF Shown
      <4>3. QED BY <2>1, <4>1, <4>2
    <3>7. QED BY <1>1, <3>5, <3>6 DEF Shown, LampShows, ToComponent
  <2>5. ShownInv' BY <1>1, <1>3, <1>4, <1>7, <2>3, <2>4 DEF ShownInv
  <2>6. ASSUME colorWanted' # NoColor PROVE WantedInv'
    <3>1. colorWanted' = [mode |-> m, val |-> [k \in Component |->
                            IF k \in S THEN Clamped(k, aim[k]) ELSE NoValue]]
      <4>1. linkUp /\ colorWanted' = Counts(w, aim) /\ colorWanted' # NoColor BY <1>1, <1>7, <2>6
      <4>2. CountsFor(w, m, S, aim, colorWanted') BY <4>1, Counted
      <4>3. QED BY <4>2 DEF CountsFor
    <3>2. ASSUME NEW k \in S PROVE Clamped(k, aim[k]) \in ColorValue
      <4>1. k \in Component /\ aim[k] \in ColorValue OBVIOUS
      <4>2. QED BY <4>1, ClampedTyped, ColorAssumption
    <3>3. colorWanted' \in [mode : Mode, val : [Component -> ColorValue \cup {NoValue}]]
      BY <3>1, <3>2
    <3>4. \A k \in Asked' : k \in S /\ colorWanted'.val[k] = Clamped(k, aim[k])
      BY <3>1, <3>2 DEF Asked
    <3>5. w.mode = m
      <4>1. PICK k \in S : LastSet(w.sent, k, Clamped(k, aim[k])) BY <2>1
      <4>2. QED BY <2>1, <4>1 DEF LastSet, Sending
    <3>6. \A k \in Asked' : LastSet(toDevice', k, colorWanted'.val[k]) BY <2>1, <2>3, <3>4
    <3>7. \A k \in Asked' : Heeded(k, colorWanted.val[k])' BY <3>6 DEF Heeded, LastSet
    <3>8. linkUp' /\ colorWanted'.mode = m BY <1>1, <1>7, <3>1
    <3>9. /\ \A k \in Asked' : ModeOf(k) = colorWanted'.mode
          /\ ModeOf(toDevice'[Len(toDevice')].channel) = colorWanted'.mode
      BY <2>3, <3>4, <3>5, <3>8
    <3>10. QED BY <2>3, <3>3, <3>7, <3>8, <3>9 DEF WantedInv
  <2>7. QED BY <2>5, <2>6 DEF WantedInv
<1>8. QED BY <1>5, <1>6, <1>7

\* A report keeps both; the last one is of the color that the lamp has.
LEMMA ReportColor ==
  ASSUME ColorAssumption, ColorInv, ShownInv, WantedInv, NEW r, ColorReport(r)
  PROVE  ShownInv' /\ WantedInv'
<1>1. /\ Report(r)
      /\ UNCHANGED <<linkUp, toDevice, ctOnly, lamp, stagedColor, colorWanted>>
  BY DEF ColorReport, Report
<1>2. fromDevice \in Seq(ProperShades) BY DEF ShownInv
<1>3. /\ fromDevice # <<>> /\ r \in ProperShades /\ fromDevice' \in Seq(ProperShades) /\ heard'
      /\ fromDevice' # <<>> => fromDevice'[Len(fromDevice')] = fromDevice[Len(fromDevice)]
      /\ fromDevice' = <<>> => r = fromDevice[Len(fromDevice)]
  <2>1. fromDevice # <<>> /\ r = Head(fromDevice) /\ fromDevice' = Tail(fromDevice) /\ heard'
    BY <1>1 DEF Report
  <2>2. r \in ProperShades /\ fromDevice' \in Seq(ProperShades) BY <1>2, <2>1
  <2>3. fromDevice' # <<>> => fromDevice'[Len(fromDevice')] = fromDevice[Len(fromDevice)]
    BY <1>2, <2>1
  <2>4. ASSUME fromDevice' = <<>> PROVE r = fromDevice[Len(fromDevice)]
    <3>1. Len(fromDevice) \in Nat /\ Len(fromDevice) # 0 /\ Len(fromDevice') = Len(fromDevice) - 1
      BY <1>2, <2>1
    <3>2. Len(fromDevice') = 0 BY <2>4
    <3>3. Len(fromDevice) = 1 BY <3>1, <3>2
    <3>4. QED BY <1>2, <2>1, <3>3
  <2>5. QED BY <2>1, <2>2, <2>3, <2>4
<1>4. fromDevice[Len(fromDevice)] = lamp /\ linkUp BY <1>3 DEF ShownInv
<1>5. ProperSends' = ProperSends /\ ProperShades' = ProperShades /\ Paired(toDevice)' = Paired(toDevice)
  BY <1>1 DEF ProperSends, ProperShades, Paired
<1>6. fromDevice' = <<>> => Shown'
  BY <1>3, <1>4, ReportShows, ColorAssumption
<1>7. ShownInv' BY <1>1, <1>3, <1>4, <1>5, <1>6 DEF ShownInv
<1>8. WantedInv'
  BY <1>1 DEF WantedInv, Asked, Heeded, LastSet, LampShows, ToComponent
<1>9. QED BY <1>7, <1>8

TailOf(q, t) ==
  /\ t \in Seq(ProperSends) /\ Paired(t)
  /\ q[1] \in ProperSends
  /\ ~q[1].now => /\ t # <<>> /\ t[1].now /\ t[1].channel # q[1].channel
                  /\ ModeOf(t[1].channel) = ModeOf(q[1].channel)
  /\ t # <<>> => t[Len(t)] = q[Len(q)]
  /\ t = <<>> => q[1] = q[Len(q)]
  /\ \A i \in DOMAIN q : i = 1 \/ \E j \in DOMAIN t : t[j] = q[i]
  /\ \A j \in DOMAIN t : \E i \in DOMAIN q : t[j] = q[i]
  /\ \A k, v : LastSet(q, k, v) =>
       \/ LastSet(t, k, v)
       \/ q[1].channel = k /\ q[1].value = v /\ \A j \in DOMAIN t : t[j].channel # k

\* What is left once the first notification is delivered.
LEMMA Delivered ==
  ASSUME NEW q, q \in Seq(ProperSends), q # <<>>, Paired(q), NEW t, t = Tail(q)
  PROVE  TailOf(q, t)
<1>1. /\ t \in Seq(ProperSends) /\ Len(q) \in Nat \ {0} /\ Len(t) = Len(q) - 1
      /\ DOMAIN q = 1 .. Len(q) /\ DOMAIN t = 1 .. Len(t)
      /\ q[1] \in ProperSends
  OBVIOUS
<1>2. \A j \in DOMAIN t : j + 1 \in DOMAIN q /\ t[j] = q[j + 1] BY <1>1
<1>3. \A i \in DOMAIN q : i = 1 \/ (i - 1 \in DOMAIN t /\ t[i - 1] = q[i]) BY <1>1
<1>4. Paired(t)
  <2> SUFFICES ASSUME NEW j \in DOMAIN t, ~t[j].now
               PROVE  /\ j < Len(t) /\ t[j + 1].now /\ t[j + 1].channel # t[j].channel
                      /\ ModeOf(t[j + 1].channel) = ModeOf(t[j].channel)
    BY DEF Paired
  <2>1. /\ j + 1 < Len(q) /\ q[j + 2].now /\ q[j + 2].channel # q[j + 1].channel
        /\ ModeOf(q[j + 2].channel) = ModeOf(q[j + 1].channel)
    <3>1. PICK i \in DOMAIN q : i = j + 1 /\ ~q[i].now BY <1>2
    <3>2. /\ i < Len(q) /\ q[i + 1].now /\ q[i + 1].channel # q[i].channel
          /\ ModeOf(q[i + 1].channel) = ModeOf(q[i].channel)
      BY <3>1 DEF Paired
    <3>3. i + 1 = j + 2 BY <1>1, <3>1
    <3>4. QED BY <3>1, <3>2, <3>3
  <2>2. j + 1 \in DOMAIN t BY <1>1, <2>1
  <2>3. t[j + 1] = q[j + 2] BY <1>1, <1>2, <2>2
  <2>4. QED BY <1>1, <1>2, <2>1, <2>3
<1>5. ASSUME ~q[1].now
      PROVE  /\ t # <<>> /\ t[1].now /\ t[1].channel # q[1].channel
             /\ ModeOf(t[1].channel) = ModeOf(q[1].channel)
  <2>1. /\ 1 < Len(q) /\ q[2].now /\ q[2].channel # q[1].channel
        /\ ModeOf(q[2].channel) = ModeOf(q[1].channel)
    <3>1. PICK i \in DOMAIN q : i = 1 BY <1>1
    <3>2. /\ i < Len(q) /\ q[i + 1].now /\ q[i + 1].channel # q[i].channel
          /\ ModeOf(q[i + 1].channel) = ModeOf(q[i].channel)
      BY <1>5, <3>1 DEF Paired
    <3>3. i + 1 = 2 BY <3>1
    <3>4. QED BY <3>1, <3>2, <3>3
  <2>2. 1 \in DOMAIN t /\ t[1] = q[2] BY <1>1, <1>2, <2>1
  <2>3. QED BY <1>1, <2>1, <2>2
<1>6. (t # <<>> => t[Len(t)] = q[Len(q)]) /\ (t = <<>> => q[1] = q[Len(q)])
  <2>1. t # <<>> => Len(t) \in DOMAIN t BY <1>1
  <2>2. t = <<>> => Len(q) = 1
    <3>1. t = <<>> => Len(t) = 0 OBVIOUS
    <3>2. QED BY <1>1, <3>1
  <2>3. QED BY <1>1, <1>2, <2>1, <2>2
<1>7. ASSUME NEW k, NEW v, LastSet(q, k, v)
      PROVE  \/ LastSet(t, k, v)
             \/ q[1].channel = k /\ q[1].value = v /\ \A j \in DOMAIN t : t[j].channel # k
  <2>1. PICK i \in DOMAIN q : /\ q[i].channel = k /\ q[i].value = v
                              /\ \A j \in DOMAIN q : j > i => q[j].channel # k
    BY <1>7 DEF LastSet
  <2>2. \A j \in DOMAIN t : j + 1 > i => t[j].channel # k BY <1>2, <2>1
  <2>3. CASE i = 1
    BY <1>1, <2>1, <2>2, <2>3
  <2>4. CASE i # 1
    <3>1. i - 1 \in DOMAIN t /\ t[i - 1] = q[i] BY <1>3, <2>4
    <3>2. \A j \in DOMAIN t : j > i - 1 => t[j].channel # k BY <1>1, <2>2
    <3>3. QED BY <2>1, <3>1, <3>2 DEF LastSet
  <2>5. QED BY <2>3, <2>4
<1>8. \A i \in DOMAIN q : i = 1 \/ \E j \in DOMAIN t : t[j] = q[i] BY <1>3
<1>9. \A j \in DOMAIN t : \E i \in DOMAIN q : t[j] = q[i] BY <1>2
<1>10. QED BY <1>1, <1>4, <1>5, <1>6, <1>7, <1>8, <1>9 DEF TailOf

\* The lamp gets a notification.
LEMMA LampColor ==
  ASSUME ColorAssumption, ColorInv, ShownInv, WantedInv,
         NEW n, toDevice # <<>>, n = Head(toDevice), LampSet(n)
  PROVE  ShownInv' /\ WantedInv'
<1> DEFINE m == ModeOf(n.channel)
           l == [mode |-> m, val |-> [k \in Component |->
                   IF k = n.channel THEN n.value
                   ELSE IF ModeOf(k) = m /\ stagedColor[k] # NoValue THEN stagedColor[k]
                   ELSE lamp.val[k]]]
<1>1. /\ UNCHANGED <<linkUp, heard, ctOnly, color, colorWanted>>
      /\ toDevice' = Tail(toDevice)
      /\ n.now => /\ Push(Told(l)) /\ lamp' = l /\ stagedColor' = [k \in Component |-> NoValue]
      /\ ~n.now => /\ Push(<<>>) /\ lamp' = lamp
                   /\ stagedColor' = [stagedColor EXCEPT ![n.channel] = n.value]
  BY DEF LampSet, Deliver, LampBecomes
<1>2. /\ linkUp /\ toDevice \in Seq(ProperSends) /\ Paired(toDevice)
      /\ fromDevice \in Seq(ProperShades)
  BY DEF ShownInv
<1>3. TailOf(toDevice, toDevice') BY <1>1, <1>2, Delivered
<1>4. n = toDevice[1] /\ 1 \in DOMAIN toDevice BY <1>2
<1>5. n \in ProperSends BY <1>3, <1>4 DEF TailOf
<1>6. n.channel \in Component /\ n.value \in ColorValue /\ m \in Mode
  BY <1>5 DEF ProperSends, Sends, ModeOf, Component, Mode
<1>7. /\ stagedColor \in [Component -> ColorValue \cup {NoValue}]
      /\ lamp.val \in [Component -> ColorValue]
      /\ NoValue \notin ColorValue
  BY ColorAssumption DEF ColorInv, Shades, NoValue, ColorValue
<1>8. ProperSends' = ProperSends /\ ProperShades' = ProperShades /\ Paired(toDevice)' = Paired(toDevice')
  BY <1>1 DEF ProperSends, ProperShades, Paired
<1>behind. \A i \in DOMAIN toDevice : i = 1 \/ \E j \in DOMAIN toDevice' : toDevice'[j] = toDevice[i]
  BY <1>3 DEF TailOf
<1>toDevice. toDevice' \in Seq(ProperSends) /\ Paired(toDevice') BY <1>3 DEF TailOf
<1>9. CASE n.now
  <2>1. /\ l.mode = m /\ l.val \in [Component -> ColorValue] /\ l.val[n.channel] = n.value
        /\ l \in [mode : Mode, val : [Component -> ColorValue]]
    BY <1>6, <1>7
  <2>2. l \in ProperShades
    <3>1. l.mode = "ct" => n.channel = "ct" BY <1>6, <2>1 DEF ModeOf
    <3>2. n.channel = "ct" => m = "ct" BY DEF ModeOf
    <3>3. (n.channel = "ct" => n.value >= CtMin) /\ (ctOnly => n.channel = "ct")
      BY <1>5 DEF ProperSends
    <3>4. l \in Shades BY <2>1 DEF Shades
    <3> HIDE DEF l, m
    <3>5. QED BY <2>1, <3>1, <3>2, <3>3, <3>4 DEF ProperShades
  <2>3. \A k \in Component : k # n.channel =>
           l.val[k] = IF ModeOf(k) = m /\ stagedColor[k] # NoValue THEN stagedColor[k] ELSE lamp.val[k]
    OBVIOUS
  <2>4. lamp' = l /\ stagedColor' = [k \in Component |-> NoValue] /\ Push(Told(l))
    BY <1>1, <1>9
  <2> HIDE DEF l
  <2>5. ASSUME l = lamp PROVE ShownInv'
    <3>1. fromDevice' = fromDevice BY <1>2, <2>4, <2>5 DEF Push, Told
    <3>2. ASSUME Calm' PROVE Calm
      <4>1. \A j \in DOMAIN toDevice' : Agrees(toDevice'[j])
        BY <2>4, <2>5, <3>2 DEF Calm, Agrees
      <4>2. Agrees(n) BY <2>1, <2>5 DEF Agrees
      <4>3. ASSUME NEW i \in DOMAIN toDevice PROVE Agrees(toDevice[i])
        <5>1. CASE i = 1 BY <1>4, <4>2, <5>1
        <5>2. CASE i # 1
          <6>1. PICK j \in DOMAIN toDevice' : toDevice'[j] = toDevice[i] BY <1>behind, <5>2
          <6>2. QED BY <4>1, <6>1
        <5>3. QED BY <5>1, <5>2
      <4>4. ASSUME NEW k \in ComponentsOf(lamp.mode) \ {n.channel}
            PROVE  stagedColor[k] \in {NoValue, lamp.val[k]}
        BY <2>1, <2>3, <2>5 DEF ComponentsOf
      <4>5. QED BY <1>4, <4>3, <4>4 DEF Calm
    <3>3. Shown' = Shown BY <1>1, <2>4, <2>5 DEF Shown, LampShows, ToComponent
    <3>4. fromDevice' # <<>> => fromDevice'[Len(fromDevice')] = lamp'
      BY <2>4, <2>5, <3>1 DEF ShownInv
    <3>5. fromDevice' = <<>> /\ heard' /\ Calm' => Shown' BY <1>1, <3>1, <3>2, <3>3 DEF ShownInv
    <3>6. QED BY <1>1, <1>2, <1>8, <1>toDevice, <3>1, <3>4, <3>5 DEF ShownInv
  <2>6. ASSUME l # lamp PROVE ShownInv'
    <3>1. Push(<<l>>) BY <2>4, <2>6 DEF Told
    <3>2. /\ fromDevice' \in Seq(ProperShades) /\ fromDevice' # <<>>
          /\ fromDevice'[Len(fromDevice')] = l
      BY ONLY <1>2, <2>2, <3>1, PushedLast
    <3>3. QED BY <1>1, <1>2, <1>8, <1>toDevice, <2>4, <3>2 DEF ShownInv
  <2>7. ShownInv' BY <2>5, <2>6
  <2>8. ASSUME colorWanted # NoColor, NEW k \in Asked, NEW v, v = colorWanted.val[k], v # NoValue,
               m = colorWanted.mode \/ toDevice' # <<>>
        PROVE  \/ LastSet(toDevice', k, v)
               \/ l.val[k] = v /\ \A j \in DOMAIN toDevice' : toDevice'[j].channel # k
    <3>1. Heeded(k, v) /\ k \in Component BY <2>8 DEF WantedInv, Asked
    <3>2. CASE LastSet(toDevice, k, v)
      <4>1. \/ LastSet(toDevice', k, v)
            \/ n.channel = k /\ n.value = v /\ \A j \in DOMAIN toDevice' : toDevice'[j].channel # k
        BY <1>3, <1>4, <3>2 DEF TailOf
      <4>2. QED BY <2>1, <4>1
    <3>3. CASE /\ \A i \in DOMAIN toDevice : toDevice[i].channel # k
               /\ \/ stagedColor[k] = v /\ n.now /\ m = ModeOf(k)
                  \/ stagedColor[k] \in {NoValue, v} /\ lamp.val[k] = v
      <4>1. n.channel # k BY <1>4, <3>3
      <4>2. l.val[k] = v BY <2>3, <2>8, <3>1, <3>3, <4>1
      <4>3. \A j \in DOMAIN toDevice' : toDevice'[j].channel # k BY <1>3, <3>3 DEF TailOf
      <4>4. QED BY <4>2, <4>3
    <3>4. QED BY <1>4, <3>1, <3>2, <3>3 DEF Heeded
  <2>9. ASSUME colorWanted # NoColor PROVE WantedInv'
    <3>1. /\ linkUp /\ colorWanted \in [mode : Mode, val : [Component -> ColorValue \cup {NoValue}]]
          /\ \A k \in Asked : ModeOf(k) = colorWanted.mode
          /\ ModeOf(toDevice[Len(toDevice)].channel) = colorWanted.mode
      BY <2>9 DEF WantedInv
    <3>2. Asked' = Asked BY <1>1 DEF Asked
    <3>3. CASE toDevice' = <<>>
      <4>1. m = colorWanted.mode BY <1>3, <1>4, <3>1, <3>3 DEF TailOf
      <4>2. ASSUME NEW k \in Asked PROVE LampShows(k, colorWanted.val[k])'
        <5>1. PICK v : v = colorWanted.val[k] OBVIOUS
        <5>2. v # NoValue BY <5>1 DEF Asked
        <5>3. ~LastSet(toDevice', k, v) BY <3>3 DEF LastSet
        <5>4. l.val[k] = v BY <2>8, <2>9, <4>1, <5>1, <5>2, <5>3
        <5>5. QED BY <1>1, <2>4, <5>1, <5>4 DEF LampShows
      <4>3. lamp'.mode = colorWanted'.mode BY <1>1, <2>1, <2>4, <4>1
      <4>4. \A k \in Asked' : LampShows(k, colorWanted.val[k])' BY <3>2, <4>2
      <4>5. linkUp' /\ colorWanted' = colorWanted /\ \A k \in Asked' : ModeOf(k) = colorWanted'.mode
        BY <1>1, <3>1, <3>2
      <4>6. QED BY <3>1, <3>3, <4>3, <4>4, <4>5 DEF WantedInv
    <3>4. CASE toDevice' # <<>>
      <4>1. ASSUME NEW k \in Asked PROVE Heeded(k, colorWanted.val[k])'
        <5>1. PICK v : v = colorWanted.val[k] OBVIOUS
        <5>2. v # NoValue /\ k \in Component BY <5>1 DEF Asked
        <5>3. \/ LastSet(toDevice', k, v)
              \/ l.val[k] = v /\ \A j \in DOMAIN toDevice' : toDevice'[j].channel # k
          BY <2>8, <2>9, <3>4, <5>1, <5>2
        <5>4. stagedColor'[k] = NoValue BY <2>4, <5>2
        <5>5. LastSet(toDevice, k, v)' = LastSet(toDevice', k, v) BY DEF LastSet
        <5>6. QED BY <1>1, <2>4, <5>1, <5>3, <5>4, <5>5 DEF Heeded, LastSet
      <4>2. toDevice'[Len(toDevice')] = toDevice[Len(toDevice)] BY <1>3, <3>4 DEF TailOf
      <4>3. \A k \in Asked' : Heeded(k, colorWanted.val[k])' BY <3>2, <4>1
      <4>4. linkUp' /\ colorWanted' = colorWanted /\ \A k \in Asked' : ModeOf(k) = colorWanted'.mode
        BY <1>1, <3>1, <3>2
      <4>5. QED BY <3>1, <3>4, <4>2, <4>3, <4>4 DEF WantedInv
    <3>5. QED BY <3>3, <3>4
  <2>10. QED BY <1>1, <2>7, <2>9 DEF WantedInv
<1>10. CASE ~n.now
  <2>1. /\ fromDevice' = fromDevice /\ lamp' = lamp
        /\ stagedColor' = [stagedColor EXCEPT ![n.channel] = n.value]
    BY <1>1, <1>2, <1>10 DEF Push
  <2>2. /\ toDevice' # <<>> /\ toDevice'[1].now /\ toDevice'[1].channel # n.channel
        /\ ModeOf(toDevice'[1].channel) = m /\ 1 \in DOMAIN toDevice'
    BY <1>3, <1>4, <1>10 DEF TailOf
  <2>3. ASSUME Calm' PROVE Calm
    <3>1. \A j \in DOMAIN toDevice' : Agrees(toDevice'[j])
      BY <2>1, <2>3 DEF Calm, Agrees
    <3>2. lamp.mode = m BY <2>2, <3>1 DEF Agrees
    <3>3. n.channel \in ComponentsOf(lamp.mode) \ {toDevice'[1].channel}
      BY <1>6, <2>2, <3>2 DEF ComponentsOf
    <3>4. stagedColor'[n.channel] \in {NoValue, lamp.val[n.channel]}
      BY <2>1, <2>2, <2>3, <3>3 DEF Calm
    <3>5. stagedColor'[n.channel] = n.value BY <1>6, <1>7, <2>1
    <3>6. Agrees(n) BY <1>6, <1>7, <3>2, <3>4, <3>5 DEF Agrees
    <3>7. ASSUME NEW i \in DOMAIN toDevice PROVE Agrees(toDevice[i])
      <4>1. CASE i = 1 BY <1>4, <3>6, <4>1
      <4>2. CASE i # 1
        <5>1. PICK j \in DOMAIN toDevice' : toDevice'[j] = toDevice[i] BY <1>behind, <4>2
        <5>2. QED BY <3>1, <5>1
      <4>3. QED BY <4>1, <4>2
    <3>8. QED BY <1>4, <1>10, <3>7 DEF Calm
  <2>4. Shown' = Shown BY <1>1, <2>1 DEF Shown, LampShows, ToComponent
  <2>5. ShownInv' BY <1>1, <1>2, <1>3, <1>8, <2>1, <2>3, <2>4 DEF ShownInv, TailOf
  <2>6. ASSUME colorWanted # NoColor, NEW k \in Asked PROVE Heeded(k, colorWanted.val[k])'
    <3>1. PICK v : v = colorWanted.val[k] OBVIOUS
    <3>2. Heeded(k, v) /\ k \in Component BY <2>6, <3>1 DEF WantedInv, Asked
    <3>3. CASE LastSet(toDevice, k, v)
      <4>1. \/ LastSet(toDevice', k, v)
            \/ n.channel = k /\ n.value = v /\ \A j \in DOMAIN toDevice' : toDevice'[j].channel # k
        BY <1>3, <1>4, <3>3 DEF TailOf
      <4>2. n.channel = k /\ n.value = v => stagedColor'[k] = v BY <1>6, <1>7, <2>1
      <4>3. QED BY <1>1, <2>2, <3>1, <4>1, <4>2 DEF Heeded, LastSet
    <3>4. CASE /\ \A i \in DOMAIN toDevice : toDevice[i].channel # k
               /\ stagedColor[k] \in {NoValue, v} /\ lamp.val[k] = v
      <4>1. n.channel # k BY <1>4, <3>4
      <4>2. stagedColor'[k] = stagedColor[k] /\ lamp' = lamp BY <1>7, <2>1, <3>2, <4>1
      <4>3. \A j \in DOMAIN toDevice' : toDevice'[j].channel # k BY <1>3, <3>4 DEF TailOf
      <4>4. QED BY <1>1, <3>1, <3>4, <4>2, <4>3 DEF Heeded
    <3>5. QED BY <1>4, <1>10, <3>2, <3>3, <3>4 DEF Heeded
  <2>7. ASSUME colorWanted # NoColor PROVE WantedInv'
    <3>1. /\ linkUp /\ colorWanted \in [mode : Mode, val : [Component -> ColorValue \cup {NoValue}]]
          /\ \A k \in Asked : ModeOf(k) = colorWanted.mode
          /\ ModeOf(toDevice[Len(toDevice)].channel) = colorWanted.mode
      BY <2>7 DEF WantedInv
    <3>2. Asked' = Asked BY <1>1 DEF Asked
    <3>3. toDevice'[Len(toDevice')] = toDevice[Len(toDevice)] BY <1>3, <2>2 DEF TailOf
    <3>4. \A k \in Asked' : Heeded(k, colorWanted.val[k])' BY <2>6, <2>7, <3>2
    <3>5. linkUp' /\ colorWanted' = colorWanted /\ \A k \in Asked' : ModeOf(k) = colorWanted'.mode
      BY <1>1, <3>1, <3>2
    <3>6. QED BY <2>2, <3>1, <3>3, <3>4, <3>5 DEF WantedInv
  <2>8. QED BY <1>1, <2>5, <2>7 DEF WantedInv
<1>11. QED BY <1>9, <1>10

\* Whatever a step of a color light is, it keeps both.
LEMMA ColorsStep ==
  ASSUME ColorAssumption, ColorInv, ShownInv, WantedInv, Is("color"), ColorNext
  PROVE  ShownInv' /\ WantedInv'
<1>1. "hue" \in Component /\ "sat" \in Component /\ "ct" \in Component /\ "x" \in Component
      /\ "y" \in Component
  BY DEF Component
<1>2. ASSUME NEW k \in {"hue", "sat", "ct"}, NEW v \in ColorValue, ctOnly => k = "ct",
             MoveToComponent(k, v)
      PROVE  ShownInv' /\ WantedInv'
  <2>1. PICK w : w = UpdateColor(Working, k, v, Bridged) OBVIOUS
  <2>2. PICK aim : aim = [c \in {k} |-> v] OBVIOUS
  <2>3. ColorCommand(w, aim) BY <1>2, <2>1, <2>2 DEF MoveToComponent
  <2>4. k \in Component BY <1>1
  <2>5. Effect(w, aim) BY <1>2, <2>1, <2>2, <2>4, SingleEffect, ColorAssumption
  <2>6. /\ ModeOf(k) \in Mode /\ {k} \subseteq Component /\ {k} # {}
        /\ \A c \in {k} : ModeOf(c) = ModeOf(k)
        /\ aim \in [{k} -> ColorValue]
    BY <2>2, <2>4 DEF ModeOf, Mode
  <2>7. QED BY <2>3, <2>5, <2>6, CommandColor, ColorAssumption
<1>3. ASSUME NEW k, NEW j, <<k, j>> \in {<<"sat", "hue">>, <<"x", "y">>},
             NEW v1 \in ColorValue, NEW v2 \in ColorValue, ~ctOnly, MoveToBoth(k, v1, j, v2)
      PROVE  ShownInv' /\ WantedInv'
  <2>1. PICK u : u = UpdateColor(Working, k, v1, Bridged \cup {"noapply", "forced"}) OBVIOUS
  <2>2. PICK w : w = UpdateColor(u, j, v2, Bridged \cup {"forced"}) OBVIOUS
  <2>3. PICK aim : aim = [c \in {k, j} |-> IF c = k THEN v1 ELSE v2] OBVIOUS
  <2>4. ColorCommand(w, aim) BY <1>3, <2>1, <2>2, <2>3 DEF MoveToBoth
  <2>5. Effect(w, aim) BY <1>3, <2>1, <2>2, <2>3, BothEffect, ColorAssumption
  <2>6. (k = "sat" /\ j = "hue") \/ (k = "x" /\ j = "y") BY <1>3
  <2>7. /\ ModeOf(k) \in Mode /\ {k, j} \subseteq Component /\ {k, j} # {}
        /\ \A c \in {k, j} : ModeOf(c) = ModeOf(k)
    BY <1>1, <2>6 DEF ModeOf, Mode
  <2>8. aim \in [{k, j} -> ColorValue] BY <2>3
  <2>9. QED BY <2>4, <2>5, <2>7, <2>8, CommandColor, ColorAssumption
<1>4. ASSUME NEW k \in Component, NEW v \in ColorValue, LampOwn(k, v)
      PROVE  ShownInv' /\ WantedInv'
  <2> DEFINE l == [mode |-> ModeOf(k), val |-> [lamp.val EXCEPT ![k] = v]]
  <2>1. /\ UNCHANGED <<linkUp, toDevice, heard, ctOnly>> /\ Push(<<l>>) /\ lamp' = l
        /\ colorWanted' = NoColor /\ (ctOnly => k = "ct") /\ v = Clamped(k, v)
    BY <1>4 DEF LampOwn, Happens, LampBecomes
  <2>2. l \in ProperShades
    <3>1. lamp.val \in [Component -> ColorValue] BY DEF ColorInv, Shades
    <3>2. ModeOf(k) \in Mode /\ (ModeOf(k) = "ct" <=> k = "ct") BY DEF ModeOf, Mode, Component
    <3>3. k = "ct" => v >= CtMin BY <2>1, ClampedTyped, ColorAssumption
    <3>4. l \in Shades /\ l.mode = ModeOf(k) /\ l.val[k] = v BY <3>1, <3>2 DEF Shades
    <3> HIDE DEF l
    <3>5. QED BY <2>1, <3>2, <3>3, <3>4 DEF ProperShades
  <2>3. ProperSends' = ProperSends /\ ProperShades' = ProperShades /\ Paired(toDevice)' = Paired(toDevice)
    BY <2>1 DEF ProperSends, ProperShades, Paired
  <2> HIDE DEF l
  <2>4. CASE linkUp
    <3>1. fromDevice \in Seq(ProperShades) BY DEF ShownInv
    <3>2. /\ fromDevice' \in Seq(ProperShades) /\ fromDevice' # <<>>
          /\ fromDevice'[Len(fromDevice')] = l
      BY ONLY <2>1, <2>2, <2>4, <3>1, PushedLast
    <3>3. ShownInv' BY <2>1, <2>3, <2>4, <3>2 DEF ShownInv
    <3>4. QED BY <2>1, <3>3 DEF WantedInv
  <2>5. CASE ~linkUp
    <3>1. fromDevice' = fromDevice BY <2>1, <2>5 DEF Push
    <3>2. ShownInv' BY <2>1, <2>3, <2>5, <3>1 DEF ShownInv
    <3>3. QED BY <2>1, <3>2 DEF WantedInv
  <2>6. QED BY <2>4, <2>5
<1>5. CASE ColorLost
  <2>1. /\ toDevice' = <<>> /\ fromDevice' = <<>> /\ heard' = FALSE /\ colorWanted' = NoColor
        /\ UNCHANGED <<ctOnly, lamp>>
    BY <1>5 DEF ColorLost, LinkLost
  <2>2. toDevice' \in Seq(ProperSends') /\ fromDevice' \in Seq(ProperShades') /\ Paired(toDevice)'
    BY <2>1 DEF Paired
  <2>3. ShownInv' BY <2>1, <2>2 DEF ShownInv
  <2>4. QED BY <2>1, <2>3 DEF WantedInv
<1>6. CASE LinkReconnect /\ UNCHANGED colorVars
  <2>1. ~linkUp /\ linkUp' /\ UNCHANGED <<toDevice, fromDevice, heard, ctOnly, lamp, colorWanted>>
    BY <1>6 DEF LinkReconnect, queues, colorVars
  <2>2. ~heard /\ colorWanted = NoColor BY <2>1 DEF ShownInv, WantedInv
  <2>3. ProperSends' = ProperSends /\ ProperShades' = ProperShades /\ Paired(toDevice)' = Paired(toDevice)
    BY <2>1 DEF ProperSends, ProperShades, Paired
  <2>4. ShownInv' BY <2>1, <2>2, <2>3 DEF ShownInv
  <2>5. QED BY <2>1, <2>2, <2>4 DEF WantedInv
<1>7. ASSUME fromDevice # <<>>, ColorReport(Head(fromDevice)) PROVE ShownInv' /\ WantedInv'
  BY <1>7, ReportColor, ColorAssumption
<1>8. ASSUME toDevice # <<>>, LampSet(Head(toDevice)) PROVE ShownInv' /\ WantedInv'
  BY <1>8, LampColor, ColorAssumption
<1>9. QED BY <1>2, <1>3, <1>4, <1>5, <1>6, <1>7, <1>8 DEF ColorNext

\* Other kinds have no color that was asked for.
ColorsInv ==
  /\ ColorInv
  /\ Is("color") => ShownInv /\ WantedInv
  /\ ~Is("color") => colorWanted = NoColor

LEMMA ColorsInductive == Spec => []ColorsInv
<1>1. Init => ColorsInv
  <2> SUFFICES ASSUME Init PROVE ColorsInv
    OBVIOUS
  <2>1. ColorInv BY ColorStarts
  <2>2. /\ linkUp = TRUE /\ toDevice = <<>> /\ fromDevice = <<>> /\ heard = FALSE /\ colorWanted = NoColor
    BY DEF Init, LinkInit, ColorsInit, ColorInit
  <2>3. Paired(toDevice) /\ toDevice \in Seq(ProperSends) /\ fromDevice \in Seq(ProperShades)
    BY <2>2 DEF Paired
  <2>4. ShownInv BY <2>2, <2>3 DEF ShownInv
  <2>5. QED BY <2>1, <2>2, <2>4 DEF ColorsInv, WantedInv
<1>2. ColorsInv /\ [Next]_vars => ColorsInv'
  <2> SUFFICES ASSUME ColorsInv, [Next]_vars PROVE ColorsInv'
    OBVIOUS
  <2>1. ColorInv' BY ColorStep, ColorAssumption DEF ColorsInv
  <2>2. ASSUME ~Is("color"), UNCHANGED <<kind, colorVars>> PROVE ColorsInv'
    BY <2>1, <2>2 DEF ColorsInv, colorVars, Is
  <2>3. CASE ColorSteps
    <3>1. Is("color") /\ ColorNext /\ UNCHANGED kind BY <2>3 DEF ColorSteps
    <3>2. ShownInv' /\ WantedInv' BY <3>1, ColorsStep, ColorAssumption DEF ColorsInv
    <3>3. QED BY <2>1, <3>1, <3>2 DEF ColorsInv, Is
  <2>4. CASE UNCHANGED vars
    <3>1. UNCHANGED <<kind, linkUp, toDevice, fromDevice, heard, ctOnly, color, lamp, stagedColor, colorWanted>>
      BY <2>4 DEF vars, link, queues, colorVars
    <3>2. ShownInv => ShownInv'
      BY <3>1 DEF ShownInv, ProperSends, ProperShades, Paired, Calm, Agrees, Shown, LampShows, ToComponent
    <3>3. WantedInv => WantedInv'
      BY <3>1 DEF WantedInv, Asked, Heeded, LastSet, LampShows, ToComponent
    <3>4. QED BY <2>1, <3>1, <3>2, <3>3 DEF ColorsInv, Is
  <2>5. QED
    BY <2>2, <2>3, <2>4 DEF Next, IdentifySteps, FanSteps, ButtonSteps, InputSteps, CoverSteps,
                            CCSteps, RoomSteps, MappingSteps, NameSteps, Is
<1>3. QED BY <1>1, <1>2, PTL DEF Spec

\* Once nothing is on its way, color mode and the values of the mode are those of
\* the lamp, in every order of commands, reports and breaks of the connection
\* (p44devices.cpp 551-604, devicecolorcontrol.cpp 119-299).
THEOREM TheColorIsShown == Spec => []ColorsShown
<1>1. ColorsInv => ColorsShown
  <2> SUFFICES ASSUME ColorsInv, Is("color"), Quiet, heard
               PROVE  /\ color.mode = lamp.mode
                      /\ \A k \in ComponentsOf(color.mode) : LampShows(k, color.val[k])
    BY DEF ColorsShown, ColorShown
  <2>1. Calm BY DEF Quiet, Calm
  <2>2. Shown BY <2>1 DEF ColorsInv, ShownInv, Quiet
  <2>3. QED BY <2>2 DEF Shown
<1>2. QED BY <1>1, ColorsInductive, PTL

\* Once nothing is on its way, the lamp has the mode and the values that were
\* last asked for (devicecolorcontrol.cpp 119-276, 325-369).
THEOREM TheLastColorWins == Spec => []LastColorWins
<1>1. ColorsInv => LastColorWins
  BY DEF ColorsInv, WantedInv, Asked, LastColorWins, Quiet
<1>2. QED BY <1>1, ColorsInductive, PTL
=============================================================================
