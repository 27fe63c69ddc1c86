---------------------------- MODULE ColorControl ----------------------------
(***************************************************************************)
(* A color light: the ColorControl cluster                                 *)
(* (src/src/devices/devicecolorcontrol.cpp) and the color channels of the  *)
(* vdcd (P44_ColorControlImpl in src/src/adapters/p44/p44devices.cpp).     *)
(* Three color modes, each with its components; the lamp has one of them,  *)
(* and keeps values for all.                                               *)
(*                                                                         *)
(* Components have few values, and those in ColorShort come back from the  *)
(* channel one lower, by floating point.                                   *)
(***************************************************************************)
EXTENDS DeviceLink

CONSTANTS
  ColorMax,       \* bound: the highest value of a component
  ColorShort,
  CtMin           \* COLOR_TEMP_PHYSICAL_MIN

VARIABLES
  ctOnly,         \* mCtOnly
  lit,            \* isOn, for the options: fixed here
  executeIfOff,   \* Options attribute: fixed here
  color,          \* mode and values the device object keeps, and silent:
                  \* the components that changed unreported
  seen,           \* the mode and values that subscribers have been told
  lamp,           \* external: mode and values of the lamp
  stagedColor,    \* external: values to apply with the next one
  colorWanted     \* history: mode and values that count, or NoColor

colorVars == <<ctOnly, lit, executeIfOff, color, seen, lamp, stagedColor, colorWanted>>

Component == {"hue", "sat", "ct", "x", "y"}
ModeOf(k) == CASE k \in {"hue", "sat"} -> "hs" [] k = "ct" -> "ct" [] OTHER -> "xy"
Mode == {"hs", "ct", "xy"}
ComponentsOf(m) == {k \in Component : ModeOf(k) = m}
ColorValue == 0 .. ColorMax
NoValue == ColorMax + 1
NoColor == [mode |-> "none", val |-> [k \in Component |-> NoValue]]

ASSUME ColorAssumption ==
  /\ ColorMax \in Nat \ {0} /\ ColorShort \subseteq 1 .. ColorMax /\ CtMin \in ColorValue

Shades == [mode : Mode \cup {"unknown"}, val : [Component -> ColorValue]]

ColorTypeOK ==
  /\ ctOnly \in BOOLEAN /\ lit \in BOOLEAN /\ executeIfOff \in BOOLEAN
  /\ [mode |-> color.mode, val |-> color.val] \in Shades /\ color.silent \subseteq Component
  /\ seen \in Shades /\ lamp \in Shades
  /\ color.val["ct"] >= CtMin

---------------------------------------------------------------------------
(* updateCurrent...: they work on what is kept, with the notifications and *)
(* the attribute reports they make.                                        *)

Working == [mode |-> color.mode, val |-> color.val, silent |-> color.silent,
            sent |-> <<>>, dirty |-> {}]

SendComponent(w, k, now) ==
  [w EXCEPT !.sent = Append(@, [channel |-> k, value |-> w.val[k], now |-> now])]

\* What a new color mode sends: all components of the mode, the last one applies.
SendMode(w) ==
  CASE w.mode = "hs" -> SendComponent(SendComponent(w, "hue", FALSE), "sat", TRUE)
    [] w.mode = "xy" -> SendComponent(SendComponent(w, "x", FALSE), "y", TRUE)
    [] OTHER -> SendComponent(w, "ct", TRUE)

ModeChanges(w, m, flags) == m # w.mode /\ "noderive" \notin flags

BugModeNotTold(w, m, flags) ==   \* reports it for commands only
  LET n == [w EXCEPT !.mode = m,
                     !.dirty = @ \cup (IF {"matter", "bridged"} \subseteq flags THEN {"mode"} ELSE {})]
  IN IF ~ModeChanges(w, m, flags) THEN w ELSE IF "bridged" \in flags THEN SendMode(n) ELSE n

\* updateCurrentColorMode
UpdateColorMode(w, m, flags) ==
  LET n == [w EXCEPT !.mode = m,
                     !.dirty = @ \cup (IF "matter" \in flags THEN {"mode"} ELSE {})]
  IN IF ~ModeChanges(w, m, flags) THEN w ELSE IF "bridged" \in flags THEN SendMode(n) ELSE n

Clamped(k, v) == IF k = "ct" /\ v < CtMin THEN CtMin ELSE v

\* The component takes the value, and is reported when that is a change.
Taken(w, k, v, flags) ==
  LET changes == IF v # w.val[k] THEN {k} ELSE {}
  IN [w EXCEPT !.val[k] = Clamped(k, v),
               !.dirty = @ \cup (IF "matter" \in flags THEN changes ELSE {}),
               !.silent = IF "matter" \in flags THEN @ \ changes ELSE @ \cup changes]

\* updateCurrentHue, updateCurrentSaturation, updateCurrentColortemp,
\* updateCurrentX and updateCurrentY: a new mode sends the component with the
\* other one of the mode.
UpdateColor(w, k, v, flags) ==
  IF v = w.val[k] /\ "forced" \notin flags THEN w
  ELSE LET t == Taken(w, k, v, flags)
           m == UpdateColorMode(t, ModeOf(k), flags)
       IN IF "bridged" \in flags /\ ~ModeChanges(t, ModeOf(k), flags)
            THEN SendComponent(m, k, "noapply" \notin flags)
            ELSE m

\* Subscribers read the attributes reported; an unknown mode is read as the default.
ReadMode(m) == IF m # "unknown" THEN m ELSE IF ctOnly THEN "ct" ELSE "hs"

Updated(w) ==
  /\ color' = [mode |-> w.mode, val |-> w.val, silent |-> w.silent]
  /\ seen' = [mode |-> IF "mode" \in w.dirty THEN ReadMode(w.mode) ELSE seen.mode,
              val |-> [k \in Component |-> IF k \in w.dirty THEN w.val[k] ELSE seen.val[k]]]

---------------------------------------------------------------------------
(* Commands.                                                               *)

ToComponent(v) == IF v \in ColorShort THEN v - 1 ELSE v
LampShows(k, v) == lamp.val[k] = v \/ ToComponent(lamp.val[k]) = v

\* shouldExecuteColorChange, for the bit ExecuteIfOff.
ShouldExecuteColor(mask, override) ==
  lit \/ (executeIfOff /\ ~mask) \/ (override /\ mask)

\* What counts after a command for the components of goal: what it has sent, or
\* what the lamp shows anyhow; an update to the value that is kept is not sent,
\* though the lamp may have another one, or another mode.
Counts(w, goal) ==
  IF ~linkUp THEN NoColor
  ELSE LET m == ModeOf(CHOOSE k \in DOMAIN goal : TRUE)
           c == [mode |-> m, val |-> [k \in Component |->
                   IF k \in DOMAIN goal THEN Clamped(k, goal[k]) ELSE NoValue]]
       IN IF w.sent # <<>> THEN c
          ELSE IF Quiet /\ lamp.mode = m /\ \A k \in DOMAIN goal : LampShows(k, goal[k]) THEN c
          ELSE NoColor

ColorCommand(w, goal) ==
  /\ Command
  /\ \E mask, override \in BOOLEAN : ShouldExecuteColor(mask, override)
  /\ Updated(w)
  /\ Notify(w.sent)
  /\ colorWanted' = Counts(w, goal)
  /\ UNCHANGED <<ctOnly, lit, executeIfOff, lamp, stagedColor>>

Bridged == {"bridged", "matter"}

\* Move to Hue, Move to Saturation, Move to Color Temperature.
MoveToComponent(k, v) ==
  ColorCommand(UpdateColor(Working, k, v, Bridged), [c \in {k} |-> v])

BugMoveToBoth(first, v1, second, v2) ==   \* not forced: an equal second value never applies
  ColorCommand(
    UpdateColor(UpdateColor(Working, first, v1, Bridged \cup {"noapply"}), second, v2, Bridged),
    [c \in {first, second} |-> IF c = first THEN v1 ELSE v2])

\* Move to Hue and Saturation, Move to Color: the second one applies both.
MoveToBoth(first, v1, second, v2) ==
  ColorCommand(
    UpdateColor(UpdateColor(Working, first, v1, Bridged \cup {"noapply", "forced"}),
                second, v2, Bridged \cup {"forced"}),
    [c \in {first, second} |-> IF c = first THEN v1 ELSE v2])

---------------------------------------------------------------------------
(* Reports.                                                                *)

FlagsOf(k, r) == IF k \in ComponentsOf(r.mode) THEN {"matter"} ELSE {"noderive"}

ParseComponent(w, r, k) == UpdateColor(w, k, ToComponent(r.val[k]), FlagsOf(k, r))

ParseComponents(w, r) ==
  IF ctOnly THEN ParseComponent(w, r, "ct")
  ELSE LET hs == ParseComponent(ParseComponent(ParseComponent(w, r, "ct"), r, "hue"), r, "sat")
       IN ParseComponent(ParseComponent(hs, r, "x"), r, "y")

BugParseColor(w, r) == ParseComponents(w, r)   \* a mode comes with a new value

\* P44_ColorControlImpl::parseOutputState: the component of the lamp's mode has
\* an age, and all have values; components of other modes are only kept.
ParseColor(w, r) == UpdateColorMode(ParseComponents(w, r), r.mode, {"matter"})

ColorReport(r) ==
  /\ Report(r)
  /\ Updated(ParseColor(Working, r))
  /\ UNCHANGED <<ctOnly, lit, executeIfOff, lamp, stagedColor, colorWanted>>

---------------------------------------------------------------------------
(* External: the lamp.                                                     *)

LampBecomes(l) ==
  /\ lamp' = l
  /\ UNCHANGED <<ctOnly, lit, executeIfOff, color, seen>>

Told(l) == IF l = lamp THEN <<>> ELSE <<l>>

\* setOutputChannelValue: apply_now takes the waiting values of the same mode.
LampSet(n) ==
  LET m == ModeOf(n.channel)
      l == [mode |-> m, val |-> [k \in Component |->
              IF k = n.channel THEN n.value
              ELSE IF ModeOf(k) = m /\ stagedColor[k] # NoValue THEN stagedColor[k]
              ELSE lamp.val[k]]]
  IN /\ IF n.now
          THEN /\ Deliver(n, Told(l)) /\ LampBecomes(l)
               /\ stagedColor' = [k \in Component |-> NoValue]
          ELSE /\ Deliver(n, <<>>) /\ LampBecomes(lamp)
               /\ stagedColor' = [stagedColor EXCEPT ![n.channel] = n.value]
     /\ UNCHANGED colorWanted

\* Somebody gives the lamp another color.
LampOwn(k, v) ==
  /\ (ctOnly => k = "ct") /\ v = Clamped(k, v)
  /\ LET l == [mode |-> ModeOf(k), val |-> [lamp.val EXCEPT ![k] = v]]
     IN l # lamp /\ Happens(MaxOwn, <<l>>) /\ LampBecomes(l)
  /\ colorWanted' = NoColor
  /\ UNCHANGED stagedColor

ColorLost ==
  /\ LinkLost
  /\ colorWanted' = NoColor
  /\ UNCHANGED <<ctOnly, lit, executeIfOff, color, seen, lamp, stagedColor>>

---------------------------------------------------------------------------

\* The installed light: its mode and values are those of the description, or
\* the mode is not known.
ColorInit(isCtOnly, isLit, exec, l) ==
  /\ ctOnly = isCtOnly /\ lit = isLit /\ executeIfOff = exec
  /\ lamp = l
  /\ LET kept == [k \in Component |-> Clamped(k, ToComponent(l.val[k]))]
     IN /\ color = [mode |-> l.mode, val |-> kept, silent |-> {}]
        /\ seen = [mode |-> ReadMode(l.mode), val |-> kept]
  /\ stagedColor = [k \in Component |-> NoValue]
  /\ colorWanted = NoColor

ColorNext ==
  \/ \E k \in {"hue", "sat", "ct"}, v \in ColorValue :
       (ctOnly => k = "ct") /\ MoveToComponent(k, v)
  \/ \E v1, v2 \in ColorValue :
       ~ctOnly /\ (MoveToBoth("sat", v1, "hue", v2) \/ MoveToBoth("x", v1, "y", v2))
  \/ fromDevice # <<>> /\ ColorReport(Head(fromDevice))
  \/ toDevice # <<>> /\ LampSet(Head(toDevice))
  \/ \E k \in Component, v \in ColorValue : LampOwn(k, v)
  \/ ColorLost
  \/ LinkReconnect /\ UNCHANGED colorVars

---------------------------------------------------------------------------

\* Once nothing is on its way, color mode and the values of the mode are those
\* of the lamp, however commands that change the mode and reports of the former
\* mode crossed each other (551-604).
ColorShown ==
  Quiet /\ heard =>
    /\ color.mode = lamp.mode
    /\ \A k \in ComponentsOf(color.mode) : LampShows(k, color.val[k])

\* Once nothing is on its way the lamp has the mode and the values last asked
\* for, though a change of mode sends values that were not asked for and applies
\* them first, unless something else came between, or the value was the kept one.
LastColorWins ==
  Quiet /\ colorWanted # NoColor =>
    /\ lamp.mode = colorWanted.mode
    /\ \A k \in Component : colorWanted.val[k] # NoValue => LampShows(k, colorWanted.val[k])

\* Subscribers have the color mode, and every value of it that has not changed
\* while the lamp was in another mode: such a change is kept silently, and not
\* made up for when the mode becomes the current one.
ColorSeen ==
  /\ seen.mode = ReadMode(color.mode)
  /\ \A k \in ComponentsOf(color.mode) \ color.silent : seen.val[k] = color.val[k]
=============================================================================
