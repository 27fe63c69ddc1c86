------------------------------- MODULE Inputs -------------------------------
(***************************************************************************)
(* Binary inputs and sensors: contact and occupancy sensors                *)
(* (src/src/devices/booleaninputdevices.cpp), temperature and humidity     *)
(* sensors (src/src/devices/sensordevices.cpp), and the translation of the *)
(* vdcd's inputs to them (P44_BinaryInputImpl, P44_SensorImpl).            *)
(*                                                                         *)
(* A sensor value is in thousandths, its attribute in hundredths.  A       *)
(* binary input has the values 0 and 1.                                    *)
(***************************************************************************)
EXTENDS DeviceLink

CONSTANT SensorValues    \* bound: the values a sensor has, in thousandths

VARIABLES
  sensor,         \* the device is a SensorDevice, else a BinaryInputDevice
  inverted,       \* mInverted: of window handles
  inputShown,     \* MeasuredValue, StateValue or Occupancy attribute
  inputValue      \* external: the value of the input, which may be null

inputVars == <<sensor, inverted, inputShown, inputValue>>

Null == -99999
InputValues == {Null} \cup (IF sensor THEN SensorValues ELSE {0, 1})

ASSUME SensorAssumption == SensorValues \subseteq Int /\ Null \notin SensorValues

InputTypeOK ==
  /\ sensor \in BOOLEAN /\ inverted \in BOOLEAN
  /\ inputShown \in Int /\ (~sensor => inputShown \in {0, 1})
  /\ inputValue \in InputValues

---------------------------------------------------------------------------

\* matterValue of a temperature or a humidity: the cast cuts off towards 0.
MatterValue(v) == IF v + 5 >= 0 THEN (v + 5) \div 10 ELSE -((-(v + 5)) \div 10)

BugShownValue(isSensor, isInverted, v, before) ==   \* forgets the inversion
  IF v # Null THEN IF isSensor THEN MatterValue(v) ELSE v
  ELSE IF isSensor THEN Null ELSE before

\* What parseSensorValue and parseInputValue make of a value: a null clears the
\* measured value, but leaves a binary state as it is.
ShownValue(isSensor, isInverted, v, before) ==
  IF v # Null THEN IF isSensor THEN MatterValue(v) ELSE IF isInverted THEN 1 - v ELSE v
  ELSE IF isSensor THEN Null ELSE before

\* The installed input, with the state of its description.
InputInit(isSensor, isInverted, v) ==
  /\ sensor = isSensor /\ inverted = isInverted
  /\ inputShown = ShownValue(isSensor, isInverted, v, 0)
  /\ inputValue = v

\* handleBridgePushProperties
InputReport(v) ==
  /\ Report([value |-> v])
  /\ inputShown' = ShownValue(sensor, inverted, v, inputShown)
  /\ UNCHANGED <<sensor, inverted, inputValue>>

\* External: the input changes.
InputChange(v) ==
  /\ v # inputValue
  /\ inputValue' = v
  /\ Happens(MaxOwn, <<[value |-> v]>>)
  /\ UNCHANGED <<sensor, inverted, inputShown>>

InputNext ==
  \/ \E v \in InputValues : InputReport(v) \/ InputChange(v)
  \/ (LinkLost \/ LinkReconnect) /\ UNCHANGED inputVars

---------------------------------------------------------------------------

Near(hundredths, thousandths, distance) ==
  10 * hundredths - thousandths \in -distance .. distance

\* Once its last report has arrived, an input with a value is shown with that
\* value: a binary one inverted or not, also after nulls, a sensor rounded to
\* the nearest hundredth, or, for values below 0, less than one and a half above
\* (63, 162).
InputMatches ==
  Quiet /\ heard /\ inputValue # Null =>
    IF sensor THEN Near(inputShown, inputValue, IF inputValue < 0 THEN 14 ELSE 5)
    ELSE inputShown = IF inverted THEN 1 - inputValue ELSE inputValue
=============================================================================
