--------------------------- MODULE DeviceMapping ---------------------------
(***************************************************************************)
(* What a device of the vdcd becomes                                       *)
(* (P44_BridgeImpl::bridgedDeviceFromJSON in                               *)
(* src/src/adapters/p44/p44bridge.cpp): its output and each of its inputs  *)
(* are devices, combined into a composed one when there are several.       *)
(***************************************************************************)
EXTENDS Integers, Sequences, FiniteSets

\* A description: hint is x-p44-bridgeAs; output its function, or "none";
\* behaviour and groups are those of the output; sensors and binaries are the
\* types of these inputs, in the order of their ids; buttons have a type and an
\* element.
Hints == {"none", "on-off", "level-control", "window-covering", "no-output", "no-input"}
Functions == {"none", "switch", "dimmer", "ctdimmer", "colordimmer", "other"}
Behaviours == {"light", "shadow", "ventilation", "output"}
Yellow == 1
Grey == 2
Vent == 10
Groups == {Yellow, Grey, Vent}

\* The inputs of a description.
HasInputs(d) ==
  /\ d.sensors \in Seq(STRING) /\ d.binaries \in Seq(STRING)
  /\ d.buttons \in Seq([type : STRING, element : STRING])

Single(class) == [class |-> class, positions |-> {}]

\* The device of a hint that names one.
Hinted(d) ==
  CASE d.hint = "window-covering" -> <<Single("window covering")>>
    [] d.hint \in {"on-off", "level-control"} /\ Grey \in d.groups -> <<Single("window covering")>>
    [] d.hint = "on-off" /\ (d.behaviour # "light" \/ Yellow \notin d.groups) -> <<Single("on/off plug")>>
    [] d.hint = "on-off" -> <<Single("on/off light")>>
    [] d.hint = "level-control" /\ (d.behaviour # "light" \/ Yellow \notin d.groups) ->
         <<Single("dimmable plug")>>
    [] d.hint = "level-control" -> <<Single("dimmable light")>>
    [] OTHER -> <<>>

LightOf(function) ==
  CASE function = "dimmer" -> "dimmable light"
    [] function = "ctdimmer" -> "temperature light"
    [] function = "colordimmer" -> "color light"
    [] OTHER -> "on/off light"

\* The device of the output.
LightOutput(d) == d.behaviour = "light" /\ Yellow \in d.groups
ShadowOutput(d) == d.behaviour = "shadow" /\ Grey \in d.groups
FanOutput(d) ==
  ~LightOutput(d) /\ ~ShadowOutput(d) /\ (d.behaviour = "ventilation" \/ Vent \in d.groups)

OutputDevice(d) ==
  IF d.output = "none" \/ d.hint = "no-output" THEN <<>>
  ELSE <<Single(CASE LightOutput(d) -> LightOf(d.output)
                  [] ShadowOutput(d) -> "window covering"
                  [] FanOutput(d) -> "fan"
                  [] OTHER -> IF d.output = "switch" THEN "on/off plug" ELSE "dimmable plug")>>

---------------------------------------------------------------------------
(* The loop over the inputs.  c: the devices pushed so far, dev (NoDevice   *)
(* while there is none) and moreInputs, which only buttons set.  A device   *)
(* of buttons has positions, each with its input.                           *)

NoDevice == Single("none")

SensorDevice(c, type) ==
  IF type \in {"temperature", "humidity", "illumination"} THEN [c EXCEPT !.dev = Single(type)] ELSE c

BinaryDevice(c, function) ==
  IF function = "none" THEN c
  ELSE [c EXCEPT !.dev = Single(CASE function \in {"presence", "motion"} -> "occupancy"
                                  [] function = "window handle" -> "inverted contact"
                                  [] OTHER -> "contact")]

\* A position is set, in place of what was there.
Place(dev, at, i) ==
  [class |-> "button",
   positions |-> {p \in dev.positions : p.at # at} \cup {[at |-> at, input |-> i]}]

BugSecond(c, in) ==   \* goes on waiting
  [c EXCEPT !.dev = Place(@, IF in.element = "up" THEN 1 ELSE 2, in.input)]

\* A two-way button is one half of a rocker, and waits for the other one.
Second(c, in) ==
  [c EXCEPT !.more = FALSE, !.dev = Place(@, IF in.element = "up" THEN 1 ELSE 2, in.input)]

First(c, in) ==
  [c EXCEPT !.more = TRUE, !.dev = Place(NoDevice, IF in.element = "down" THEN 2 ELSE 1, in.input)]

ButtonDevice(c, in) ==
  CASE in.type = "single" -> [c EXCEPT !.dev = Place(NoDevice, 1, in.input)]
    [] in.type = "2way" /\ c.more -> Second(c, in)
    [] in.type = "2way" /\ ~c.more -> First(c, in)
    [] OTHER -> c

\* A device that waits for nothing more is pushed.
PushedBack(c) ==
  IF c.dev # NoDevice /\ ~c.more
    THEN [c EXCEPT !.devices = Append(@, c.dev), !.dev = NoDevice]
    ELSE c

AddInput(c, in) ==
  PushedBack(CASE in.is = "sensor" -> SensorDevice(c, in.type)
           [] in.is = "binary" -> BinaryDevice(c, in.type)
           [] in.is = "button" -> ButtonDevice(c, in))

\* The inputs in the order of the loops, buttons with their ids.
InputsOf(d) ==
  [i \in DOMAIN d.sensors |-> [is |-> "sensor", type |-> d.sensors[i]]]
  \o [i \in DOMAIN d.binaries |-> [is |-> "binary", type |-> d.binaries[i]]]
  \o [i \in DOMAIN d.buttons |-> [is |-> "button", type |-> d.buttons[i].type,
                                  element |-> d.buttons[i].element, input |-> i]]

\* What is there after n inputs, behind the device of the output.
Found(d) ==
  LET found[n \in 0 .. Len(InputsOf(d))] ==
        IF n = 0 THEN [devices |-> OutputDevice(d), dev |-> NoDevice, more |-> FALSE]
        ELSE AddInput(found[n - 1], InputsOf(d)[n])
  IN  found

\* The devices found in the description; a composed device is put around them
\* when there is more than one.
SubDevices(d) ==
  IF Hinted(d) # <<>> THEN Hinted(d)
  ELSE IF d.hint = "no-input" THEN OutputDevice(d)
  ELSE Found(d)[Len(InputsOf(d))].devices

---------------------------------------------------------------------------

VARIABLES
  described,      \* the description queried
  subdevices      \* devices: what was made of it

mappingVars == <<described, subdevices>>

MappingInit(d) == described = d /\ subdevices = <<>>

BridgedDeviceFromJSON ==
  /\ subdevices = <<>>
  /\ subdevices' = SubDevices(described)
  /\ subdevices' # <<>>
  /\ UNCHANGED described

---------------------------------------------------------------------------

\* Buttons whose rockers are complete: a first half is followed by the second
\* one, as opposite elements, or both as none.
Opposite(a, b) == {a.element, b.element} \in {{"up", "down"}, {"center"}}

PairedBy(b, first) ==
  /\ \A i \in first : b[i].type = "2way" /\ i + 1 \in DOMAIN b \ first /\ b[i + 1].type = "2way"
                      /\ Opposite(b[i], b[i + 1])
  /\ \A i \in DOMAIN b \ first : b[i].type = "single" \/ (b[i].type = "2way" /\ i - 1 \in first)

Complete(b) == \E first \in SUBSET DOMAIN b : PairedBy(b, first)

\* The devices and positions of the button i, and what they must be.
Places(devices, i) ==
  {kp \in (DOMAIN devices) \X [at : 1 .. 2, input : {i}] : kp[2] \in devices[kp[1]].positions}

IsPlaced(b, devices, i) ==
  /\ Cardinality(Places(devices, i)) = 1
  /\ \A kp \in Places(devices, i) :
       IF b[i].type = "single"
         THEN devices[kp[1]].positions = {kp[2]}
         ELSE /\ Cardinality(devices[kp[1]].positions) = 2
              /\ b[i].element = "up" => kp[2].at = 1
              /\ b[i].element = "down" => kp[2].at = 2

\* Every button input is in exactly one device when the rockers are complete,
\* whatever pushbuttons come before, between and after them; both halves of a
\* rocker are in the same one, "up" at position 1 and "down" at position 2
\* (413-484).
ButtonsKept ==
  subdevices # <<>> /\ described.hint # "no-input" /\ Hinted(described) = <<>>
  /\ Complete(described.buttons) =>
    \A i \in DOMAIN described.buttons : IsPlaced(described.buttons, subdevices, i)
=============================================================================
