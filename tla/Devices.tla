------------------------------ MODULE Devices ------------------------------
(***************************************************************************)
(* The kinds of bridged devices side by side: each behaviour has one kind  *)
(* of device, which works with the link to its bridge as its module says.  *)
(* Lights and plugs without color are in LevelControl.                     *)
(***************************************************************************)
EXTENDS Identify, FanControl, Button, Inputs, WindowCovering, ColorControl, CCDevices, Rooms,
        DeviceMapping, Names

CONSTANTS
  Kinds,          \* the kinds that are explored
  Descriptions,   \* bound: descriptions that are mapped
  Covers,         \* bound: axes and values of the blind when it is installed
  Lamps,          \* bound: colors of the lamp when it is installed
  Blinds,         \* bound: the blinds of the CC adapter's server
  RoomPlans       \* bound: zones of the devices in their descriptions

AllKinds == {"identify", "fan", "button", "input", "cover", "color", "cc_dimmer", "cc_blind",
             "rooms", "mapping", "name"}

ASSUME KindsAssumption ==
  /\ Kinds \subseteq AllKinds
  /\ Lamps \subseteq Shades
  /\ Covers # {}
  /\ Covers \subseteq [axes : SUBSET Axis, values : [Axis -> Position100ths \cup {NoPosition}]]
  /\ Blinds \subseteq [venetian : BOOLEAN, awning : BOOLEAN, feedback : BOOLEAN]
  /\ RoomPlans # {} /\ RoomPlans \subseteq [Member -> Zones \cup {Global}]

ASSUME DescriptionsAssumption == \A d \in Descriptions : HasInputs(d)

VARIABLE kind      \* the kind of device

vars == <<kind, link, identifyVars, fanVars, buttonVars, inputVars, coverVars, colorVars, ccVars,
          roomVars, mappingVars, nameVars>>

---------------------------------------------------------------------------
(* Every component starts in one of its states if it is the kind explored, *)
(* else in a fixed one.                                                    *)

Is(k) == kind = k

FansInit == \E s \in IF Is("fan") THEN FanSpeeds ELSE {0} : FanInit(s)

ButtonsInit ==
  \E ps \in IF Is("button") THEN {{1}, {1, 2}} ELSE {{1}},
     in \in IF Is("button") THEN ButtonStarts ELSE {[p \in Position |-> Idle]} :
    \E state \in Describes(FirstOf(ps), in[FirstOf(ps)]) :
      /\ Is("button") \/ state = <<>>
      /\ ButtonInit(ps, in, state)

InputsInit ==
  \E isSensor, isInverted \in IF Is("input") THEN BOOLEAN ELSE {FALSE} :
    /\ ~(isSensor /\ isInverted)
    /\ \E v \in (IF isSensor THEN SensorValues ELSE {0, 1}) \cup {Null} :
         (Is("input") \/ v = 0) /\ InputInit(isSensor, isInverted, v)

CoversInit ==
  \E c \in IF Is("cover") THEN Covers ELSE {CHOOSE c0 \in Covers : TRUE} :
    CoverInit(c.axes, c.values)

ColorsInit ==
  \E isCtOnly \in IF Is("color") THEN BOOLEAN ELSE {FALSE} :
    \E isLit, exec \in IF isCtOnly THEN BOOLEAN ELSE {TRUE} :
      \E l \in Lamps :
        /\ Is("color") \/ l = CHOOSE l0 \in Lamps : TRUE
        /\ isCtOnly => l.mode \in {"ct", "unknown"}
        /\ ColorInit(isCtOnly, isLit, exec, l)

CCInit ==
  /\ DimmerInit(0)
  /\ Is("cc_dimmer") \/ dimLevel = 0
  /\ \E b \in Blinds : BlindInit(b.venetian, b.awning, b.feedback, 0, {})
  /\ Is("cc_blind") \/ (~hasTilt /\ ~ccReversed /\ ~feedback /\ ccFaults = {})

PlansInit ==
  \E p \in IF Is("rooms") THEN RoomPlans ELSE {CHOOSE q \in RoomPlans : TRUE} : RoomsInit(p)

MappingsInit ==
  \E d \in IF Is("mapping") THEN Descriptions ELSE {CHOOSE e \in Descriptions : TRUE} : MappingInit(d)

NamesInit ==
  \E a \in IF Is("name") THEN NameAdapters ELSE {CHOOSE b \in NameAdapters : TRUE} :
    \E c \in IF Is("name") /\ a = "P44" THEN BOOLEAN ELSE {FALSE} :
      NameInit(a, c, CHOOSE n \in Name : TRUE)

Init ==
  /\ kind \in Kinds
  /\ LinkInit /\ IdentifyInit
  /\ FansInit /\ ButtonsInit /\ InputsInit /\ CoversInit /\ ColorsInit /\ CCInit
  /\ PlansInit /\ MappingsInit /\ NamesInit

---------------------------------------------------------------------------

IdentifySteps ==
  /\ Is("identify") /\ IdentifyNext
  /\ UNCHANGED <<kind, fanVars, buttonVars, inputVars, coverVars, colorVars, ccVars, roomVars,
                 mappingVars, nameVars>>

FanSteps ==
  /\ Is("fan") /\ FanNext
  /\ UNCHANGED <<kind, identifyVars, buttonVars, inputVars, coverVars, colorVars, ccVars, roomVars,
                 mappingVars, nameVars>>

ButtonSteps ==
  /\ Is("button") /\ ButtonNext
  /\ UNCHANGED <<kind, identifyVars, fanVars, inputVars, coverVars, colorVars, ccVars, roomVars,
                 mappingVars, nameVars>>

InputSteps ==
  /\ Is("input") /\ InputNext
  /\ UNCHANGED <<kind, identifyVars, fanVars, buttonVars, coverVars, colorVars, ccVars, roomVars,
                 mappingVars, nameVars>>

CoverSteps ==
  /\ Is("cover") /\ CoverNext
  /\ UNCHANGED <<kind, identifyVars, fanVars, buttonVars, inputVars, colorVars, ccVars, roomVars,
                 mappingVars, nameVars>>

ColorSteps ==
  /\ Is("color") /\ ColorNext
  /\ UNCHANGED <<kind, identifyVars, fanVars, buttonVars, inputVars, coverVars, ccVars, roomVars,
                 mappingVars, nameVars>>

CCSteps ==
  /\ (Is("cc_dimmer") /\ DimmerNext) \/ (Is("cc_blind") /\ BlindNext)
  /\ UNCHANGED <<kind, identifyVars, fanVars, buttonVars, inputVars, coverVars, colorVars, roomVars,
                 mappingVars, nameVars>>

RoomSteps ==
  /\ Is("rooms") /\ RoomsNext
  /\ UNCHANGED <<kind, identifyVars, fanVars, buttonVars, inputVars, coverVars, colorVars, ccVars,
                 mappingVars, nameVars>>

MappingSteps ==
  /\ Is("mapping") /\ BridgedDeviceFromJSON
  /\ UNCHANGED <<kind, link, identifyVars, fanVars, buttonVars, inputVars, coverVars, colorVars,
                 ccVars, roomVars, nameVars>>

NameSteps ==
  /\ Is("name") /\ NameNext
  /\ UNCHANGED <<kind, identifyVars, fanVars, buttonVars, inputVars, coverVars, colorVars, ccVars,
                 roomVars, mappingVars>>

Next ==
  \/ IdentifySteps \/ FanSteps \/ ButtonSteps \/ InputSteps \/ CoverSteps \/ ColorSteps
  \/ CCSteps \/ RoomSteps \/ MappingSteps \/ NameSteps

\* The timer of the identify countdown expires in the end; nothing else is
\* certain to happen.
Spec == Init /\ [][Next]_vars /\ WF_identifyVars(IdentifyTick)

\* ColorShown, DimmerShown and BlindShown, of the devices of their kinds: the fixed
\* state of the others need not have them.
ColorsShown == Is("color") => ColorShown
DimmersShown == Is("cc_dimmer") => DimmerShown
BlindsShown == Is("cc_blind") => BlindShown

TypeOK ==
  /\ kind \in Kinds
  /\ LinkTypeOK /\ IdentifyTypeOK /\ FanTypeOK /\ ButtonTypeOK /\ InputTypeOK /\ CoverTypeOK
  /\ ColorTypeOK /\ CCTypeOK /\ RoomsTypeOK /\ NameTypeOK
=============================================================================
