------------------------- MODULE LevelControlProofs -------------------------
(* The light shows what the device does: proofs about LevelControl for all   *)
(* levels, channel resolutions and numbers of commands and changes.          *)
EXTENDS LevelControl, TLAPS

---------------------------------------------------------------------------
(* Conversions.                                                            *)

\* A quotient of a number up to d * f by f is at most d.
LEMMA DivBound ==
  ASSUME NEW d \in Nat, NEW f \in Nat \ {0}, NEW c \in 0 .. d * f
  PROVE  c \div f \in 0 .. d
<1> DEFINE q == c \div f
<1>1. d * f \in Int
  OBVIOUS
<1>2. q \in Int /\ c = f * q + (c % f) /\ c % f \in 0 .. f - 1
  BY <1>1
<1> HIDE DEF q
<1>3. q >= 0
  <2>1. SUFFICES ASSUME q <= -1 PROVE FALSE
    BY <1>2
  <2>2. f * q <= f * (-1)
    BY <1>2, <2>1
  <2> QED
    BY <1>1, <1>2, <2>2
<1>4. q <= d
  <2>1. SUFFICES ASSUME q >= d + 1 PROVE FALSE
    BY <1>2
  <2>2. f * q >= f * (d + 1)
    BY <1>2, <2>1
  <2>3. f * (d + 1) = d * f + f
    OBVIOUS
  <2> QED
    BY <1>1, <1>2, <2>2, <2>3
<1> QED
  BY <1>2, <1>3, <1>4 DEF q

\* A level sent to the device is a channel value, and zero for the minimum only.
LEMMA FromLevelInRange ==
  ASSUME NEW l \in Level
  PROVE  /\ FromLevel(l) \in Channel
         /\ FromLevel(l) > 0 <=> l > MinLevel
<1> DEFINE n == l - MinLevel  d == MaxLevel - MinLevel
<1>1. n \in 0 .. d /\ d \in Nat /\ Fine \in Nat /\ Fine > 0
  BY LevelsAssumption DEF Level
<1> HIDE DEF n, d
<1>2. n * Fine \in 0 .. d * Fine
  <2>1. n * Fine >= 0 /\ n * Fine \in Int
    BY <1>1
  <2>2. n * Fine <= d * Fine /\ d * Fine \in Int
    BY <1>1
  <2> QED
    BY <2>1, <2>2
<1>3. n * Fine > 0 <=> n > 0
  BY <1>1
<1> QED
  BY <1>1, <1>2, <1>3, LevelsAssumption DEF FromLevel, Channel, ChannelMax, Level, n, d

\* A reported channel value gives a level in the range of the attributes, and
\* the minimum for the value zero.
LEMMA ToLevelInRange ==
  ASSUME NEW c \in Channel
  PROVE  ToLevel(c) \in Level /\ (c = 0 => ToLevel(c) = MinLevel)
<1> DEFINE d == MaxLevel - MinLevel
<1>1. d \in Nat /\ Fine \in Nat \ {0} /\ c \in 0 .. d * Fine
  BY LevelsAssumption DEF Channel, ChannelMax
<1>2. c \div Fine \in 0 .. d
  BY <1>1, DivBound
<1>3. c = 0 => c \div Fine = 0
  BY <1>1
<1>4. Floor(c) \in Level /\ (c = 0 => Floor(c) = MinLevel)
  BY <1>2, <1>3, LevelsAssumption DEF Floor, Level
<1>5. \A l \in Short : l - 1 \in Level /\ l # MinLevel
  BY LevelsAssumption DEF Level
<1> QED
  BY <1>4, <1>5 DEF ToLevel

LEMMA ClipInRange ==
  ASSUME NEW n \in Int
  PROVE  /\ Clip(n) \in Level
         /\ n \in Level => Clip(n) = n
         /\ n <= MinLevel => Clip(n) = MinLevel
BY LevelsAssumption DEF Clip, Level

---------------------------------------------------------------------------
(* Types.                                                                  *)

LEMMA NoneInRange == /\ Level \subseteq 0 .. None /\ None \notin Level
                     /\ MinLevel \in Level
                     /\ 0 \in Channel /\ 0 \in 0 .. None /\ Channel \subseteq Nat
<1>1. FromLevel(MinLevel) \in Channel
  BY FromLevelInRange, LevelsAssumption DEF Level
<1>2. FromLevel(MinLevel) = 0
  BY LevelsAssumption DEF FromLevel
<1> QED
  BY <1>1, <1>2, LevelsAssumption DEF Level, None, Channel

\* updateCurrentLevel keeps the types, and shows a level in the range.
LEMMA UpdateTypes ==
  ASSUME TypeOK, NEW n \in Int, NEW withOnOff \in BOOLEAN, NEW isOn \in BOOLEAN,
         NEW bridged \in BOOLEAN, UpdateCurrentLevel(n, withOnOff, isOn, bridged)
  PROVE  level' \in Level /\ level' = Clip(n) /\ on' \in BOOLEAN /\ toDevice' \in Seq(Notification)
<1>1. Clip(n) \in Level
  BY ClipInRange
<1>2. [set |-> FromLevel(Clip(n))] \in Notification
  BY <1>1, FromLevelInRange DEF Notification
<1>3. toDevice' \in Seq(Notification)
  BY <1>2 DEF UpdateCurrentLevel, TypeOK
<1>4. on' \in BOOLEAN
  <2>1. on' = OnWith(Clip(n), withOnOff, isOn)
    BY DEF UpdateCurrentLevel
  <2>2. (Clip(n) > MinLevel) \in BOOLEAN
    BY <1>1, LevelsAssumption DEF Level
  <2>3. on' = isOn \/ on' = (Clip(n) > MinLevel)
    BY <2>1, Zenon DEF OnWith
  <2> QED
    BY <2>2, <2>3, Zenon
<1> QED
  BY <1>1, <1>3, <1>4 DEF UpdateCurrentLevel

LEMMA CommandedTypes ==
  ASSUME TypeOK, NEW n \in Int, NEW withOnOff \in BOOLEAN, NEW isOn \in BOOLEAN,
         Commanded(n, withOnOff, isOn)
  PROVE  /\ level' \in Level /\ on' \in BOOLEAN /\ toDevice' \in Seq(Notification)
         /\ wanted' \in Level \cup {None} /\ alone' \in BOOLEAN
<1>1. UpdateCurrentLevel(n, withOnOff, isOn, TRUE)
  BY DEF Commanded
<1>2. level' \in Level /\ level' = Clip(n) /\ on' \in BOOLEAN /\ toDevice' \in Seq(Notification)
  BY <1>1, UpdateTypes
<1>3. wanted' = IF Clip(n) # level THEN Clip(n) ELSE wanted
  BY DEF Commanded
<1>4. alone' \in BOOLEAN
  BY Zenon DEF Commanded
<1> QED
  BY <1>2, <1>3, <1>4 DEF TypeOK

\* On sends some level.
LEMMA OnTarget ==
  ASSUME TypeOK, NEW onLevel \in 0 .. None, On(onLevel)
  PROVE  \E n \in Int : Commanded(n, TRUE, TRUE)
<1> DEFINE n == IF onLevel = None THEN level ELSE onLevel
<1>1. n \in Int
  BY LevelsAssumption DEF TypeOK, None
<1>2. Commanded(n, TRUE, TRUE)
  BY DEF On
<1> HIDE DEF n
<1> QED
  BY <1>1, <1>2

LEMMA CommandTypes ==
  ASSUME TypeOK, Command
  PROVE  /\ commands' \in 0 .. MaxCommands /\ installed' \in BOOLEAN
         /\ info' \in Channel \cup {Unknown} /\ fromDevice' \in Seq(Channel)
         /\ channel' \in Channel /\ dimming' \in Direction /\ own' \in 0 .. MaxOwn
BY BoundsAssumption DEF TypeOK, Command, device

\* Parsing an output state keeps the types and sends nothing.
LEMMA ParseTypes ==
  ASSUME TypeOK, NEW c \in Channel, ParseOutputState(c)
  PROVE  /\ level' = ToLevel(c) /\ level' \in Level
         /\ on' = (c > 0) /\ on' \in BOOLEAN
         /\ UNCHANGED toDevice
<1>1. ToLevel(c) \in Level
  BY ToLevelInRange
<1>2. Clip(ToLevel(c)) = ToLevel(c)
  BY <1>1, ClipInRange, LevelsAssumption DEF Level
<1>3. (c > 0) \in BOOLEAN
  BY NoneInRange
<1>4. on' = OnWith(Clip(ToLevel(c)), FALSE, c > 0)
  BY DEF ParseOutputState, UpdateCurrentLevel
<1>5. on' = (c > 0)
  BY <1>4 DEF OnWith
<1>6. level' = Clip(ToLevel(c)) /\ toDevice' = toDevice
  BY DEF ParseOutputState, UpdateCurrentLevel
<1> QED
  BY <1>1, <1>2, <1>3, <1>5, <1>6

LEMMA TypesInductive == TypeOK /\ [Next]_vars => TypeOK'
<1> SUFFICES ASSUME TypeOK, [Next]_vars PROVE TypeOK'
  OBVIOUS
<1>1. CASE Install
  <2>1. CASE info # Unknown
    <3>1. info \in Channel /\ ParseOutputState(info)
      BY <1>1, <2>1 DEF Install, TypeOK
    <3> QED
      BY <1>1, <3>1, ParseTypes, NoneInRange DEF Install, TypeOK, device, history
  <2>2. CASE info = Unknown
    BY <1>1, <2>2 DEF Install, TypeOK, device, history
  <2> QED
    BY <2>1, <2>2
<1>2. CASE LevelCommand
  <2>1. ASSUME NEW withOnOff \in BOOLEAN, NEW mask, NEW override,
               NEW amount \in 0 .. None, NEW direction \in Direction,
               MoveToLevel(amount, direction, withOnOff, mask, override)
        PROVE  TypeOK'
    <3> DEFINE n == IF direction = 0 THEN amount ELSE level + direction * amount
    <3>1. n \in Int
      BY LevelsAssumption DEF TypeOK, Direction, None
    <3>2. Command /\ Commanded(n, withOnOff, on) /\ UNCHANGED <<options, stale>>
      BY <2>1 DEF MoveToLevel
    <3>3. globalScene' \in BOOLEAN
      BY <2>1, Zenon DEF MoveToLevel, TypeOK
    <3>4. on \in BOOLEAN
      BY DEF TypeOK
    <3> HIDE DEF n
    <3> QED
      BY <3>1, <3>2, <3>3, <3>4, CommandedTypes, CommandTypes, NoneInRange DEF TypeOK
  <2>2. ASSUME NEW withOnOff \in BOOLEAN, NEW mask, NEW override,
               NEW direction \in {-1, 1}, NEW fast \in BOOLEAN,
               Move(direction, fast, withOnOff, mask, override)
        PROVE  TypeOK'
    <3>1. Command /\ wanted' = None /\ UNCHANGED <<level, options, globalScene, stale>>
      BY <2>2 DEF Move
    <3>2. toDevice' \in Seq(Notification)
      BY <2>2 DEF Move, Notification, Direction, TypeOK
    <3>3. on' \in BOOLEAN /\ alone' \in BOOLEAN
      BY <2>2, Zenon DEF Move, TypeOK
    <3> QED
      BY <3>1, <3>2, <3>3, CommandTypes DEF TypeOK
  <2>3. ASSUME NEW withOnOff \in BOOLEAN, NEW mask, NEW override,
               Stop(withOnOff, mask, override)
        PROVE  TypeOK'
    <3>1. Command /\ UNCHANGED <<on, level, globalScene, options, wanted, stale, alone>>
      BY <2>3 DEF Stop, shown
    <3>2. toDevice' \in Seq(Notification)
      BY <2>3 DEF Stop, Notification, Direction, TypeOK
    <3> QED
      BY <3>1, <3>2, CommandTypes DEF TypeOK
  <2>4. ASSUME NEW onLevel \in 0 .. None, On(onLevel) PROVE TypeOK'
    <3>1. PICK n \in Int : Commanded(n, TRUE, TRUE)
      BY <2>4, OnTarget
    <3>2. Command /\ UNCHANGED <<options, stale>> /\ globalScene' = TRUE
      BY <2>4 DEF On
    <3> QED
      BY <3>1, <3>2, CommandedTypes, CommandTypes, NoneInRange DEF TypeOK
  <2>5. ASSUME NEW withEffect \in BOOLEAN, Off(withEffect)
        PROVE  TypeOK'
    <3>1. Command /\ Commanded(0, TRUE, on) /\ UNCHANGED <<options, stale>>
      BY <2>5 DEF Off
    <3>2. globalScene' \in BOOLEAN /\ on \in BOOLEAN
      BY <2>5 DEF Off, TypeOK
    <3>3. level' \in Level /\ on' \in BOOLEAN /\ toDevice' \in Seq(Notification)
          /\ wanted' \in Level \cup {None} /\ alone' \in BOOLEAN
      <4>1. 0 \in Int /\ TRUE \in BOOLEAN
        OBVIOUS
      <4> QED
        BY <3>1, <3>2, <4>1, CommandedTypes, Zenon
    <3>4. options' \in SUBSET OptionBit /\ stale' \in BOOLEAN
      BY <3>1 DEF TypeOK
    <3>5. level' \in 0 .. None
      BY <3>3, NoneInRange
    <3>6. Command
      BY <3>1
    <3> QED
      BY <3>2, <3>3, <3>4, <3>5, <3>6, CommandTypes DEF TypeOK
  <2>6. ASSUME NEW withOnOff \in BOOLEAN, NEW mask, NEW override,
               WithOptions(withOnOff, mask, override)
        PROVE  TypeOK'
    BY <2>1, <2>2, <2>3, <2>6 DEF WithOptions
  <2> QED
    BY <1>2, <2>4, <2>5, <2>6 DEF LevelCommand
<1>3. CASE Report
  <2>1. Head(fromDevice) \in Channel /\ fromDevice' \in Seq(Channel)
    BY <1>3 DEF Report, TypeOK
  <2>2. CASE installed
    BY <1>3, <2>1, <2>2, ParseTypes, NoneInRange DEF Report, TypeOK, device
  <2>3. CASE ~installed
    <3>1. on' \in BOOLEAN
      BY <1>3, <2>1, <2>3, NoneInRange DEF Report
    <3> QED
      BY <1>3, <2>1, <2>3, <3>1 DEF Report, TypeOK, device
  <2> QED
    BY <2>2, <2>3
<1>4. CASE Device
  <2>1. ASSUME NEW c \in Channel, Becomes(c)
        PROVE  channel' \in Channel /\ fromDevice' \in Seq(Channel)
    BY <2>1 DEF Becomes, TypeOK
  <2>2. ASSUME NEW c \in Channel, DeviceSet(c)
        PROVE  TypeOK'
    BY <2>1, <2>2 DEF DeviceSet, TypeOK, shown, history, Direction
  <2>3. ASSUME NEW c \in Channel, OwnChange(c)
        PROVE  TypeOK'
    BY <2>1, <2>3, BoundsAssumption DEF OwnChange, TypeOK, shown, Direction
  <2>4. ASSUME NEW direction \in Direction, NEW fast \in BOOLEAN, DeviceDim(direction, fast)
        PROVE  TypeOK'
    BY <2>4 DEF DeviceDim, TypeOK, shown, history, Direction
  <2>5. CASE DeviceDims
    BY <2>1, <2>5 DEF DeviceDims, TypeOK, shown, history, Direction
  <2> QED
    BY <1>4, <2>2, <2>3, <2>4, <2>5 DEF Device
<1>5. CASE UNCHANGED vars
  BY <1>5 DEF vars, shown, device, history, TypeOK
<1> QED
  BY <1>1, <1>2, <1>3, <1>4, <1>5 DEF Next

LEMMA InitTypes == Init => TypeOK
<1> SUFFICES ASSUME Init PROVE TypeOK
  OBVIOUS
<1>1. toDevice \in Seq(Notification) /\ fromDevice \in Seq(Channel)
  BY DEF Init
<1>2. stale \in BOOLEAN /\ alone \in BOOLEAN /\ on \in BOOLEAN /\ globalScene \in BOOLEAN /\ installed \in BOOLEAN
  BY DEF Init
<1>3. /\ level \in 0 .. None /\ info \in Channel \cup {Unknown} /\ dimming \in Direction
      /\ wanted \in Level \cup {None} /\ commands \in 0 .. MaxCommands /\ own \in 0 .. MaxOwn
  BY NoneInRange, BoundsAssumption DEF Init, Direction
<1> QED
  BY <1>1, <1>2, <1>3 DEF Init, TypeOK

\* All variables keep their types, and levels sent to the device stay in the
\* range of the MinLevel and MaxLevel attributes, for every range.
THEOREM TypeCorrect == Spec => []TypeOK
BY InitTypes, TypesInductive, PTL DEF Spec

---------------------------------------------------------------------------
(* On/off and the level shown.                                             *)

\* The device already has every value that is on its way to it.
Landed ==
  \A i \in 1 .. Len(toDevice) : \A c \in Channel : toDevice[i] = [set |-> c] => c = channel

\* The last report on its way tells the value the channel has.
LastReport == fromDevice # <<>> => fromDevice[Len(fromDevice)] = channel

\* Before the installation nothing is sent, and the description is right as
\* long as no report came.
Described ==
  ~installed => toDevice = <<>> /\ (~stale => info # Unknown /\ (fromDevice = <<>> => info = channel))

Matches == Shows(level, channel) /\ (~alone => (on <=> channel > 0))

\* What is shown is right unless a report, or a value that will cause one, is
\* on its way.
Agrees ==
  installed /\ ~stale => level \in Level /\ (fromDevice = <<>> /\ Landed => Matches)

IInv == TypeOK /\ LastReport /\ Described /\ Agrees

\* The two kinds of notifications differ.
LEMMA KindsDiffer ==
  ASSUME NEW direction, NEW fast, NEW c, [dim |-> direction, fast |-> fast] = [set |-> c]
  PROVE  FALSE
<1>1. DOMAIN [dim |-> direction, fast |-> fast] = DOMAIN [set |-> c]
  OBVIOUS
<1>2. "dim" \in DOMAIN [dim |-> direction, fast |-> fast]
  OBVIOUS
<1>3. "dim" \notin DOMAIN [set |-> c]
  OBVIOUS
<1> QED
  BY <1>1, <1>2, <1>3

\* A value that has landed after something was sent had landed before.
LEMMA LandedBeforeAppend ==
  ASSUME TypeOK, NEW m \in Notification, toDevice' = Append(toDevice, m),
         UNCHANGED channel, Landed'
  PROVE  Landed /\ \A c \in Channel : m = [set |-> c] => c = channel
<1> DEFINE q == toDevice  r == toDevice'
<1>1. q \in Seq(Notification)
  BY DEF TypeOK
<1>2. Len(r) = Len(q) + 1 /\ Len(q) \in Nat
  BY <1>1
<1>3. \A i \in 1 .. Len(q) : r[i] = q[i]
  BY <1>1
<1>4. r[Len(q) + 1] = m
  BY <1>1
<1>5. \A i \in 1 .. Len(r) : \A c \in Channel : r[i] = [set |-> c] => c = channel
  BY DEF Landed
<1>6. 1 .. Len(q) \subseteq 1 .. Len(r) /\ Len(q) + 1 \in 1 .. Len(r)
  BY <1>2
<1>7. Landed
  BY <1>3, <1>5, <1>6 DEF Landed
<1>8. \A c \in Channel : r[Len(q) + 1] = [set |-> c] => c = channel
  BY <1>5, <1>6
<1> QED
  BY <1>4, <1>7, <1>8

LEMMA LandedBeforeTail ==
  ASSUME TypeOK, toDevice # <<>>, toDevice' = Tail(toDevice), UNCHANGED channel, Landed',
         \A c \in Channel : Head(toDevice) = [set |-> c] => c = channel
  PROVE  Landed
<1> DEFINE q == toDevice  r == toDevice'
<1>1. q \in Seq(Notification) /\ Len(q) \in Nat /\ Len(q) >= 1
  BY DEF TypeOK
<1>2. Len(r) = Len(q) - 1 /\ Head(q) = q[1]
  BY <1>1
<1>3. \A i \in 1 .. Len(r) : r[i] = q[i + 1]
  BY <1>1
<1>4. \A i \in 1 .. Len(r) : \A c \in Channel : r[i] = [set |-> c] => c = channel
  BY DEF Landed
<1> SUFFICES ASSUME NEW i \in 1 .. Len(q), NEW c \in Channel, q[i] = [set |-> c]
             PROVE  c = channel
  BY DEF Landed
<1>5. CASE i = 1
  BY <1>2, <1>5
<1>6. CASE i > 1
  <2>1. PICK j \in 1 .. Len(r) : j + 1 = i
    BY <1>1, <1>2, <1>6
  <2>2. r[j] = q[i]
    BY <1>3, <2>1
  <2>3. r[j] = [set |-> c]
    BY <2>2
  <2> QED
    BY <1>4, <2>1, <2>3
<1> QED
  BY <1>1, <1>5, <1>6

\* A level sent from Matter is right as soon as it has landed; if none is sent,
\* on/off does not change, or is alone from then on.
LEMMA CommandAgrees ==
  ASSUME TypeOK, Agrees, Command, UNCHANGED stale,
         NEW n \in Int, NEW withOnOff \in BOOLEAN, NEW isOn \in BOOLEAN,
         Commanded(n, withOnOff, isOn), isOn = on \/ (withOnOff /\ isOn)
  PROVE  Agrees'
<1> DEFINE l == Clip(n)
<1>1. l \in Level
  BY ClipInRange
<1>2. level' = l /\ on' = OnWith(l, withOnOff, isOn)
      /\ toDevice' = IF l # level THEN Append(toDevice, [set |-> FromLevel(l)]) ELSE toDevice
  BY DEF Commanded, UpdateCurrentLevel
<1>8. ~alone' => ~alone /\ (l = level => isOn = on)
  BY Zenon DEF Commanded
<1>3. installed /\ UNCHANGED <<installed, fromDevice, channel>>
  BY DEF Command, device
<1> HIDE DEF l
<1> SUFFICES ASSUME ~stale, fromDevice = <<>>, Landed' PROVE Matches'
  BY <1>1, <1>2, <1>3 DEF Agrees
<1>4. level \in Level /\ (Landed => Matches)
  BY <1>3 DEF Agrees
<1>5. on \in BOOLEAN /\ channel \in Channel
  BY DEF TypeOK
<1>6. CASE l = level
  <2>0. UNCHANGED <<toDevice, channel>>
    BY <1>2, <1>3, <1>6
  <2>1. Matches
    BY <2>0, <1>4 DEF Landed
  <2>2. on' = isOn
    BY <1>2, <1>6 DEF OnWith
  <2>3. ~alone' => ~alone /\ on' = on
    BY <1>6, <1>8, <2>2, Zenon
  <2>4. level' = level /\ channel' = channel
    BY <1>2, <1>3, <1>6
  <2> QED
    BY <2>1, <2>3, <2>4 DEF Matches, Shows
<1>7. CASE l # level
  <2>1. FromLevel(l) \in Channel /\ (FromLevel(l) > 0 <=> l > MinLevel)
    BY <1>1, FromLevelInRange
  <2>2. [set |-> FromLevel(l)] \in Notification
    BY <2>1 DEF Notification
  <2>3. toDevice' = Append(toDevice, [set |-> FromLevel(l)])
    BY <1>2, <1>7
  <2>4. Landed /\ FromLevel(l) = channel
    BY <1>3, <2>1, <2>2, <2>3, LandedBeforeAppend
  <2>5. channel > 0 <=> l > MinLevel
    BY <2>1, <2>4
  <2>6. ASSUME ~alone' PROVE on' <=> l > MinLevel
    <3>1. ~alone
      BY <1>8, <2>6, Zenon
    <3>2. on <=> l > MinLevel
      BY <1>4, <2>4, <2>5, <3>1 DEF Matches
    <3> QED
      BY <1>2, <1>5, <1>7, <3>2, Zenon DEF OnWith
  <2>7. Shows(level', channel')
    BY <1>2, <1>3, <2>4 DEF Shows
  <2>8. ~alone' => (on' <=> channel' > 0)
    BY <1>3, <2>5, <2>6
  <2> QED
    BY <2>7, <2>8 DEF Matches, Shows
<1> QED
  BY <1>6, <1>7

LEMMA StepKeepsInvariant == IInv /\ [Next]_vars => IInv'
<1> SUFFICES ASSUME IInv, [Next]_vars PROVE IInv'
  OBVIOUS
<1> USE DEF IInv
<1>0. TypeOK'
  BY TypesInductive
<1>1. CASE Install
  <2>1. ~installed /\ toDevice = <<>> /\ UNCHANGED <<fromDevice, channel, stale, info>> /\ installed'
    BY <1>1 DEF Install, Described, device, history
  <2>2. LastReport' /\ Described'
    BY <2>1 DEF LastReport, Described
  <2>3. ASSUME ~stale PROVE level' \in Level /\ (fromDevice = <<>> => Matches')
    <3>1. info # Unknown /\ (fromDevice = <<>> => info = channel)
      BY <2>1, <2>3 DEF Described
    <3>2. info \in Channel /\ ParseOutputState(info)
      BY <1>1, <3>1 DEF Install, TypeOK
    <3>3. level' = ToLevel(info) /\ level' \in Level /\ on' = (info > 0)
      BY <3>2, ParseTypes
    <3> QED
      BY <2>1, <3>1, <3>3 DEF Matches, Shows
  <2> QED
    BY <1>0, <2>1, <2>2, <2>3 DEF Agrees
<1>2. CASE LevelCommand
  <2>1. Command
    BY <1>2 DEF LevelCommand, WithOptions, MoveToLevel, Move, Stop, On, Off
  <2>2. LastReport' /\ Described'
    BY <2>1 DEF Command, LastReport, Described, device
  <2>3. ASSUME NEW withOnOff \in BOOLEAN, NEW mask, NEW override,
               NEW amount \in 0 .. None, NEW direction \in Direction,
               MoveToLevel(amount, direction, withOnOff, mask, override)
        PROVE  Agrees'
    <3> DEFINE n == IF direction = 0 THEN amount ELSE level + direction * amount
    <3>1. n \in Int
      BY LevelsAssumption DEF TypeOK, Direction, None
    <3>2. Commanded(n, withOnOff, on) /\ UNCHANGED stale
      BY <2>3 DEF MoveToLevel
    <3>3. on \in BOOLEAN
      BY DEF TypeOK
    <3> HIDE DEF n
    <3> QED
      BY <2>1, <3>1, <3>2, <3>3, CommandAgrees
  <2>4. ASSUME NEW direction, NEW fast,
               toDevice' = Append(toDevice, [dim |-> direction, fast |-> fast]),
               [dim |-> direction, fast |-> fast] \in Notification,
               UNCHANGED <<level, stale>>, ~alone' => ~alone /\ on' = on
        PROVE  Agrees'
    <3>1. installed /\ UNCHANGED <<installed, fromDevice, channel>>
      BY <2>1 DEF Command, device
    <3>2. Landed' => Landed
      BY <2>4, <3>1, LandedBeforeAppend
    <3>3. ASSUME ~stale' PROVE level' \in Level /\ (fromDevice' = <<>> /\ Landed' => Matches')
      BY <2>4, <3>1, <3>2, <3>3 DEF Agrees, Matches, Shows
    <3> QED
      BY <3>3 DEF Agrees
  <2>5. ASSUME NEW withOnOff \in BOOLEAN, NEW mask, NEW override,
               NEW direction \in {-1, 1}, NEW fast \in BOOLEAN,
               Move(direction, fast, withOnOff, mask, override)
        PROVE  Agrees'
    <3>1. [dim |-> direction, fast |-> fast] \in Notification
      BY DEF Notification, Direction
    <3>2. /\ toDevice' = Append(toDevice, [dim |-> direction, fast |-> fast])
          /\ UNCHANGED <<level, stale>>
      BY <2>5 DEF Move
    <3>3. ~alone' => ~alone /\ on' = on
      BY <2>5, Zenon DEF Move
    <3> QED
      BY <2>4, <3>1, <3>2, <3>3
  <2>6. ASSUME NEW withOnOff \in BOOLEAN, NEW mask, NEW override,
               Stop(withOnOff, mask, override)
        PROVE  Agrees'
    <3>1. [dim |-> 0, fast |-> FALSE] \in Notification
      BY DEF Notification, Direction
    <3>2. toDevice' = Append(toDevice, [dim |-> 0, fast |-> FALSE])
          /\ UNCHANGED <<level, on, stale, alone>>
      BY <2>6 DEF Stop, shown
    <3> QED
      BY <2>4, <3>1, <3>2
  <2>7. ASSUME NEW onLevel \in 0 .. None, On(onLevel)
        PROVE  Agrees'
    <3>1. PICK n \in Int : Commanded(n, TRUE, TRUE)
      BY <2>7, OnTarget
    <3>2. UNCHANGED stale
      BY <2>7 DEF On
    <3>3. TRUE \in BOOLEAN /\ TRUE = (on \/ (TRUE /\ TRUE))
      OBVIOUS
    <3> QED
      BY <2>1, <3>1, <3>2, <3>3, CommandAgrees
  <2>8. ASSUME NEW withEffect \in BOOLEAN, Off(withEffect)
        PROVE  Agrees'
    <3>1. Commanded(0, TRUE, on) /\ UNCHANGED stale
      BY <2>8 DEF Off
    <3>2. 0 \in Int /\ TRUE \in BOOLEAN
      OBVIOUS
    <3>3. on \in BOOLEAN
      BY DEF TypeOK
    <3>4. TypeOK /\ Agrees
      OBVIOUS
    <3> QED
      BY <2>1, <3>1, <3>2, <3>3, <3>4, CommandAgrees, Zenon
  <2>9. ASSUME NEW withOnOff \in BOOLEAN, NEW mask, NEW override,
               WithOptions(withOnOff, mask, override)
        PROVE  Agrees'
    BY <2>3, <2>5, <2>6, <2>9 DEF WithOptions
  <2> QED
    BY <1>0, <1>2, <2>2, <2>7, <2>8, <2>9 DEF LevelCommand
<1>3. CASE Report
  <2> DEFINE r == fromDevice
  <2>1. r # <<>> /\ r \in Seq(Channel) /\ Head(r) \in Channel /\ r' = Tail(r)
        /\ UNCHANGED <<channel, installed, info>> /\ stale' = ~installed /\ alone' = FALSE
    BY <1>3 DEF Report, TypeOK, device
  <2>2. r' # <<>> => r'[Len(r')] = r[Len(r)]
    <3>1. r' \in Seq(Channel) /\ Len(r) \in Nat /\ Len(r') = Len(r) - 1
          /\ \A i \in 1 .. Len(r') : r'[i] = r[i + 1]
      BY <2>1
    <3>2. SUFFICES ASSUME r' # <<>> PROVE r'[Len(r')] = r[Len(r)]
      OBVIOUS
    <3>3. Len(r') \in 1 .. Len(r')
      BY <3>1, <3>2
    <3> QED
      BY <3>1, <3>3
  <2>3. r' = <<>> => Head(r) = r[Len(r)]
    <3>1. Len(r) \in Nat /\ Len(r') = Len(r) - 1 /\ Head(r) = r[1]
      BY <2>1
    <3>2. r' = <<>> => Len(r') = 0
      OBVIOUS
    <3>3. ASSUME r' = <<>> PROVE Len(r) = 1
      BY ONLY <3>1, <3>2, <3>3
    <3> QED
      BY ONLY <3>1, <3>3
  <2>4. r[Len(r)] = channel
    BY <2>1 DEF LastReport
  <2> HIDE DEF r
  <2>5. LastReport'
    BY <2>1, <2>2, <2>4 DEF LastReport, r
  <2>6. CASE installed
    <3>1. ParseOutputState(Head(r))
      BY <1>3, <2>6 DEF Report, r
    <3>2. level' = ToLevel(Head(r)) /\ level' \in Level /\ on' = (Head(r) > 0)
      BY <2>1, <3>1, ParseTypes
    <3>3. r' = <<>> => Matches'
      BY <2>1, <2>3, <2>4, <3>2 DEF Matches, Shows
    <3> QED
      BY <1>0, <2>1, <2>5, <2>6, <3>2, <3>3 DEF Described, Agrees, r
  <2>7. CASE ~installed
    <3>1. UNCHANGED toDevice
      BY <1>3, <2>7 DEF Report
    <3> QED
      BY <1>0, <2>1, <2>5, <2>7, <3>1 DEF Described, Agrees
  <2> QED
    BY <2>6, <2>7
<1>4. CASE Device
  <2>1. UNCHANGED <<on, level, installed, info, stale, alone>>
    BY <1>4 DEF Device, DeviceSet, OwnChange, DeviceDim, DeviceDims, shown, history
  <2>2. ASSUME NEW c \in Channel, Becomes(c)
        PROVE  LastReport' /\ ((channel' = channel /\ fromDevice' = fromDevice) \/ fromDevice' # <<>>)
    <3>1. CASE c = channel
      BY <2>2, <3>1 DEF Becomes, LastReport
    <3>2. CASE c # channel
      <4>1. fromDevice' = Append(fromDevice, c) /\ channel' = c /\ fromDevice \in Seq(Channel)
        BY <2>2, <3>2 DEF Becomes, TypeOK
      <4>2. fromDevice' # <<>> /\ fromDevice'[Len(fromDevice')] = c
        BY <4>1
      <4> QED
        BY <4>1, <4>2 DEF LastReport
    <3> QED
      BY <3>1, <3>2
  <2>3. ASSUME LastReport',
               (channel' = channel /\ fromDevice' = fromDevice /\ (Landed' => Landed))
                 \/ fromDevice' # <<>>,
               ~installed => UNCHANGED toDevice
        PROVE  IInv'
    <3>1. Described'
      BY <2>1, <2>3 DEF Described
    <3>2. Agrees'
      BY <2>1, <2>3 DEF Agrees, Matches, Shows
    <3> QED
      BY <1>0, <2>3, <3>1, <3>2
  <2>4. ASSUME toDevice # <<>> PROVE installed
    BY <2>4 DEF Described
  <2>5. ASSUME NEW c \in Channel, DeviceSet(c)
        PROVE  IInv'
    <3>1. toDevice # <<>> /\ Head(toDevice) = [set |-> c] /\ toDevice' = Tail(toDevice)
          /\ Becomes(c)
      BY <2>5 DEF DeviceSet
    <3>2. ASSUME channel' = channel, Landed' PROVE Landed
      <4>1. \A d \in Channel : [set |-> c] = [set |-> d] => d = c
        <5> SUFFICES ASSUME NEW d \in Channel, [set |-> c] = [set |-> d] PROVE d = c
          OBVIOUS
        <5>1. [set |-> c].set = [set |-> d].set
          OBVIOUS
        <5> QED
          BY <5>1
      <4>2. c = channel
        BY <3>1, <3>2 DEF Becomes
      <4> QED
        BY <3>1, <3>2, <4>1, <4>2, LandedBeforeTail
    <3> QED
      BY <2>2, <2>3, <2>4, <3>1, <3>2
  <2>6. ASSUME NEW c \in Channel, OwnChange(c)
        PROVE  IInv'
    <3>1. Becomes(c) /\ c # channel /\ UNCHANGED toDevice
      BY <2>6 DEF OwnChange
    <3>2. channel' # channel
      BY <3>1 DEF Becomes
    <3> QED
      BY <2>2, <2>3, <3>1, <3>2
  <2>7. ASSUME NEW direction \in Direction, NEW fast \in BOOLEAN, DeviceDim(direction, fast)
        PROVE  IInv'
    <3>1. toDevice # <<>> /\ Head(toDevice) = [dim |-> direction, fast |-> fast]
          /\ toDevice' = Tail(toDevice) /\ UNCHANGED <<channel, fromDevice>>
      BY <2>7 DEF DeviceDim
    <3>2. \A d \in Channel : Head(toDevice) = [set |-> d] => d = channel
      BY <3>1, KindsDiffer
    <3>3. Landed' => Landed
      BY <3>1, <3>2, LandedBeforeTail
    <3>4. LastReport'
      BY <3>1 DEF LastReport
    <3> QED
      BY <2>3, <2>4, <3>1, <3>3, <3>4
  <2>8. CASE DeviceDims
    <3>1. UNCHANGED toDevice
      BY <2>8 DEF DeviceDims
    <3>2. CASE channel + dimming \in Channel
      <4>1. Becomes(channel + dimming)
        BY <2>8, <3>2 DEF DeviceDims
      <4>2. channel' = channel => (Landed' => Landed)
        BY <3>1 DEF Landed
      <4> QED
        BY <2>2, <2>3, <3>1, <3>2, <4>1, <4>2
    <3>3. CASE channel + dimming \notin Channel
      <4>1. UNCHANGED <<channel, fromDevice>>
        BY <2>8, <3>3 DEF DeviceDims
      <4> QED
        BY <2>3, <3>1, <4>1 DEF Landed, LastReport
    <3> QED
      BY <3>2, <3>3
  <2> QED
    BY <1>4, <2>5, <2>6, <2>7, <2>8 DEF Device
<1>5. CASE UNCHANGED vars
  BY <1>0, <1>5 DEF vars, shown, device, history, LastReport, Described, Agrees, Matches, Shows, Landed
<1> QED
  BY <1>1, <1>2, <1>3, <1>4, <1>5 DEF Next

\* Once nothing is on its way, a light shows its own level, and its own on/off
\* unless that was set without sending a level and the device has not reported
\* since: in every order of commands, reports and changes at the device, for every
\* range of levels, every OnLevel, null and the minimum included, every resolution
\* of the channel and every set of levels that the conversions cut off.
THEOREM ShowsTheDevice == Spec => []Consistent
<1>1. Init => IInv
  <2> SUFFICES ASSUME Init PROVE IInv
    OBVIOUS
  <2>1. LastReport /\ Described /\ Agrees
    BY DEF Init, LastReport, Described, Agrees
  <2> QED
    BY <2>1, InitTypes DEF IInv
<1>2. IInv => Consistent
  <2> SUFFICES ASSUME IInv, Quiet, ~stale
               PROVE  Shows(level, channel) /\ (~alone => on = (channel > 0))
    BY DEF Consistent
  <2>1. Landed
    BY DEF Quiet, Landed
  <2>2. Matches
    BY <2>1 DEF IInv, Agrees, Quiet
  <2>3. on \in BOOLEAN /\ (channel > 0) \in BOOLEAN
    BY NoneInRange DEF IInv, TypeOK
  <2> QED
    BY <2>2, <2>3, Zenon DEF Matches
<1> QED
  BY <1>1, <1>2, StepKeepsInvariant, PTL DEF Spec

---------------------------------------------------------------------------
(* The last command.                                                       *)

StopDimming == [dim |-> 0, fast |-> FALSE]
OnlyStopsFrom(k) == \A j \in k .. Len(toDevice) : toDevice[j] = StopDimming

\* The level last sent is on its way with nothing but stops behind it, or the
\* device has it, and nothing but stops are on their way.
OnItsWay(l) ==
  \E i \in 1 .. Len(toDevice) : toDevice[i] = [set |-> FromLevel(l)] /\ OnlyStopsFrom(i + 1)
Arrived(l) == channel = FromLevel(l) /\ dimming = 0 /\ OnlyStopsFrom(1)

Sent == wanted # None => OnItsWay(wanted) \/ Arrived(wanted)

\* A stop behind it disturbs nothing.
LEMMA StopKeepsSent ==
  ASSUME TypeOK, Sent, toDevice' = Append(toDevice, StopDimming),
         UNCHANGED <<wanted, channel, dimming>>
  PROVE  Sent'
<1> DEFINE q == toDevice  r == toDevice'
<1> SUFFICES ASSUME wanted # None PROVE OnItsWay(wanted)' \/ Arrived(wanted)'
  BY DEF Sent
<1>1. /\ Len(q) \in Nat /\ Len(r) = Len(q) + 1
      /\ \A i \in 1 .. Len(q) : r[i] = q[i]
      /\ r[Len(q) + 1] = StopDimming
  BY DEF TypeOK
<1>2. ASSUME NEW k \in Nat \ {0}, OnlyStopsFrom(k)
      PROVE  \A j \in k .. Len(r) : r[j] = StopDimming
  <2> SUFFICES ASSUME NEW j \in k .. Len(r) PROVE r[j] = StopDimming
    OBVIOUS
  <2>1. CASE j = Len(q) + 1
    BY <1>1, <2>1
  <2>2. CASE j # Len(q) + 1
    <3>1. j \in k .. Len(q) /\ j \in 1 .. Len(q)
      BY <1>1, <2>2
    <3> QED
      BY <1>1, <1>2, <3>1 DEF OnlyStopsFrom
  <2> QED
    BY <2>1, <2>2
<1>3. CASE OnItsWay(wanted)
  <2>1. PICK i \in 1 .. Len(q) : q[i] = [set |-> FromLevel(wanted)] /\ OnlyStopsFrom(i + 1)
    BY <1>3 DEF OnItsWay
  <2>2. i \in 1 .. Len(r) /\ r[i] = [set |-> FromLevel(wanted)] /\ i + 1 \in Nat \ {0}
    BY <1>1, <2>1
  <2>3. \A j \in i + 1 .. Len(r) : r[j] = StopDimming
    BY <1>2, <2>1, <2>2
  <2> QED
    BY <2>2, <2>3 DEF OnItsWay, OnlyStopsFrom, FromLevel
<1>4. CASE Arrived(wanted)
  <2>1. \A j \in 1 .. Len(r) : r[j] = StopDimming
    BY <1>2, <1>4 DEF Arrived
  <2> QED
    BY <1>4, <2>1 DEF Arrived, OnlyStopsFrom, FromLevel
<1> QED
  BY <1>3, <1>4, Zenon DEF Sent

\* A level that is sent is on its way.
LEMMA CommandedKeepsSent ==
  ASSUME TypeOK, Sent, NEW n \in Int, NEW withOnOff, NEW isOn,
         Commanded(n, withOnOff, isOn), UNCHANGED <<channel, dimming>>
  PROVE  Sent'
<1> DEFINE l == Clip(n)  q == toDevice  r == toDevice'
<1>1. l \in Level
  BY ClipInRange
<1>2. wanted' = (IF l # level THEN l ELSE wanted)
      /\ r = IF l # level THEN Append(q, [set |-> FromLevel(l)]) ELSE q
  BY DEF Commanded, UpdateCurrentLevel
<1>3. CASE l = level
  <2>1. wanted' = wanted /\ r = q
    BY <1>2, <1>3
  <2> QED
    BY <2>1 DEF Sent, OnItsWay, Arrived, OnlyStopsFrom, FromLevel
<1>4. CASE l # level
  <2>1. [set |-> FromLevel(l)] \in Notification
    BY <1>1, FromLevelInRange DEF Notification
  <2>2. wanted' = l /\ r = Append(q, [set |-> FromLevel(l)]) /\ q \in Seq(Notification)
    BY <1>2, <1>4 DEF TypeOK
  <2> HIDE DEF l
  <2>3. Len(r) = Len(q) + 1 /\ Len(q) \in Nat /\ r[Len(r)] = [set |-> FromLevel(l)]
    BY <2>1, <2>2
  <2>4. Len(r) \in 1 .. Len(r) /\ \A j \in Len(r) + 1 .. Len(r) : r[j] = StopDimming
    BY <2>3
  <2> QED
    BY <2>2, <2>3, <2>4 DEF Sent, OnItsWay, OnlyStopsFrom, FromLevel
<1> QED
  BY <1>3, <1>4

\* The device takes the first notification: a level, or a direction to dim.
LEMMA DeviceKeepsSent ==
  ASSUME TypeOK, Sent, toDevice # <<>>, toDevice' = Tail(toDevice), UNCHANGED wanted,
         \/ \E c : Head(toDevice) = [set |-> c] /\ channel' = c /\ dimming' = 0
         \/ /\ \E d, f : Head(toDevice) = [dim |-> d, fast |-> f]
            /\ channel' = channel
            /\ Head(toDevice) = StopDimming => dimming' = 0
  PROVE  Sent'
<1> DEFINE q == toDevice  r == toDevice'
<1> SUFFICES ASSUME wanted # None PROVE OnItsWay(wanted)' \/ Arrived(wanted)'
  BY DEF Sent
<1>1. /\ Len(q) \in Nat /\ Len(q) >= 1 /\ Len(r) = Len(q) - 1 /\ Head(q) = q[1]
      /\ \A i \in 1 .. Len(r) : r[i] = q[i + 1]
  BY DEF TypeOK
<1>2. ASSUME NEW k \in Nat \ {0}, OnlyStopsFrom(k + 1)
      PROVE  \A j \in k .. Len(r) : r[j] = StopDimming
  <2> SUFFICES ASSUME NEW j \in k .. Len(r) PROVE r[j] = StopDimming
    OBVIOUS
  <2>1. j \in 1 .. Len(r) /\ j + 1 \in k + 1 .. Len(q)
    BY <1>1
  <2>2. q[j + 1] = StopDimming
    BY <1>2, <2>1 DEF OnlyStopsFrom
  <2> QED
    BY <1>1, <2>1, <2>2
<1>3. CASE OnItsWay(wanted)
  <2>1. PICK i \in 1 .. Len(q) : q[i] = [set |-> FromLevel(wanted)] /\ OnlyStopsFrom(i + 1)
    BY <1>3 DEF OnItsWay
  <2>2. CASE i = 1
    <3>1. Head(q) = [set |-> FromLevel(wanted)]
      BY <1>1, <2>1, <2>2
    <3>2. PICK c : Head(q) = [set |-> c] /\ channel' = c /\ dimming' = 0
      BY <3>1, KindsDiffer
    <3>3. c = FromLevel(wanted)
      <4>1. [set |-> c].set = [set |-> FromLevel(wanted)].set
        BY <3>1, <3>2
      <4> QED
        BY <4>1
    <3>4. OnlyStopsFrom(1 + 1)
      BY <2>1, <2>2
    <3>5. \A j \in 1 .. Len(r) : r[j] = StopDimming
      BY <1>2, <3>4
    <3> QED
      BY <3>2, <3>3, <3>5 DEF Arrived, OnlyStopsFrom, FromLevel
  <2>3. CASE i > 1
    <3>1. PICK j \in 1 .. Len(r) : j + 1 = i /\ j \in Nat \ {0} /\ j + 1 \in Nat \ {0}
      BY <1>1, <2>1, <2>3
    <3>2. r[j] = [set |-> FromLevel(wanted)]
      BY <1>1, <2>1, <3>1
    <3>3. OnlyStopsFrom((j + 1) + 1)
      BY <2>1, <3>1
    <3>4. \A m \in j + 1 .. Len(r) : r[m] = StopDimming
      BY <1>2, <3>1, <3>3
    <3> QED
      BY <3>2, <3>4 DEF OnItsWay, OnlyStopsFrom, FromLevel
  <2> QED
    BY <1>1, <2>1, <2>2, <2>3
<1>4. CASE Arrived(wanted)
  <2>1. q[1] = StopDimming
    BY <1>1, <1>4 DEF Arrived, OnlyStopsFrom
  <2>2. Head(q) = StopDimming
    BY <1>1, <2>1
  <2>3. \A c : Head(q) # [set |-> c]
    BY <2>2, KindsDiffer DEF StopDimming
  <2>4. channel' = channel /\ dimming' = 0
    BY <2>2, <2>3
  <2>5. OnlyStopsFrom(1 + 1)
    BY <1>4 DEF Arrived, OnlyStopsFrom
  <2>6. \A j \in 1 .. Len(r) : r[j] = StopDimming
    <3>1. 1 \in Nat \ {0}
      OBVIOUS
    <3> QED
      BY <1>2, <2>5, <3>1
  <2> QED
    BY <1>4, <2>4, <2>6 DEF Arrived, OnlyStopsFrom, FromLevel
<1> QED
  BY <1>3, <1>4, Zenon DEF Sent

LEMMA SentInductive == TypeOK /\ Sent /\ [Next]_vars => Sent'
<1> SUFFICES ASSUME TypeOK, Sent, [Next]_vars PROVE Sent'
  OBVIOUS
<1>1. ASSUME UNCHANGED <<wanted, toDevice, channel, dimming>>
      PROVE  Sent'
  BY <1>1 DEF Sent, OnItsWay, Arrived, OnlyStopsFrom, FromLevel
<1>2. CASE Install
  <2>1. CASE info # Unknown
    <3>1. info \in Channel /\ ParseOutputState(info)
      BY <1>2, <2>1 DEF Install, TypeOK
    <3>2. UNCHANGED toDevice
      BY <3>1, ParseTypes
    <3> QED
      BY <1>1, <1>2, <3>2 DEF Install, device, history
  <2>2. CASE info = Unknown
    BY <1>1, <1>2, <2>2 DEF Install, device, history
  <2> QED
    BY <2>1, <2>2
<1>3. CASE LevelCommand
  <2>1. UNCHANGED <<channel, dimming>>
    BY <1>3 DEF LevelCommand, WithOptions, MoveToLevel, Move, Stop, On, Off, Command, device
  <2>2. ASSUME NEW n \in Int, NEW withOnOff, NEW isOn, Commanded(n, withOnOff, isOn)
        PROVE  Sent'
    BY <2>1, <2>2, CommandedKeepsSent
  <2>3. ASSUME NEW withOnOff, NEW mask, NEW override,
               WithOptions(withOnOff, mask, override)
        PROVE  Sent'
    <3>1. ASSUME NEW amount \in 0 .. None, NEW direction \in Direction,
                 MoveToLevel(amount, direction, withOnOff, mask, override)
          PROVE  Sent'
      <4> DEFINE n == IF direction = 0 THEN amount ELSE level + direction * amount
      <4>1. n \in Int
        BY LevelsAssumption DEF TypeOK, Direction, None
      <4>2. Commanded(n, withOnOff, on)
        BY <3>1 DEF MoveToLevel
      <4> HIDE DEF n
      <4> QED
        BY <2>2, <4>1, <4>2
    <3>2. ASSUME NEW direction \in {-1, 1}, NEW fast \in BOOLEAN,
                 Move(direction, fast, withOnOff, mask, override)
          PROVE  Sent'
      BY <3>2 DEF Move, Sent
    <3>3. CASE Stop(withOnOff, mask, override)
      BY <2>1, <3>3, StopKeepsSent DEF Stop, StopDimming
    <3> QED
      BY <2>3, <3>1, <3>2, <3>3 DEF WithOptions
  <2>4. ASSUME NEW onLevel \in 0 .. None, On(onLevel)
        PROVE  Sent'
    BY <2>2, <2>4, OnTarget
  <2>5. ASSUME NEW withEffect \in BOOLEAN, Off(withEffect)
        PROVE  Sent'
    <3>1. 0 \in Int
      OBVIOUS
    <3>2. Commanded(0, TRUE, on)
      BY <2>5 DEF Off
    <3> QED
      BY <2>2, <3>1, <3>2, Zenon
  <2> QED
    BY <1>3, <2>3, <2>4, <2>5 DEF LevelCommand
<1>4. CASE Report
  <2>1. UNCHANGED <<wanted, channel, dimming>>
    BY <1>4 DEF Report, device
  <2>2. UNCHANGED toDevice
    <3>1. Head(fromDevice) \in Channel
      BY <1>4 DEF Report, TypeOK
    <3>2. CASE installed
      BY <1>4, <3>1, <3>2, ParseTypes DEF Report
    <3>3. CASE ~installed
      BY <1>4, <3>3 DEF Report
    <3> QED
      BY <3>2, <3>3
  <2> QED
    BY <1>1, <2>1, <2>2
<1>5. CASE Device
  <2>1. ASSUME NEW c \in Channel, DeviceSet(c)
        PROVE  Sent'
    BY <2>1, DeviceKeepsSent DEF DeviceSet, Becomes, history
  <2>2. ASSUME NEW c \in Channel, OwnChange(c)
        PROVE  Sent'
    BY <2>2 DEF OwnChange, Sent
  <2>3. ASSUME NEW direction \in Direction, NEW fast \in BOOLEAN, DeviceDim(direction, fast)
        PROVE  Sent'
    <3>1. toDevice # <<>> /\ Head(toDevice) = [dim |-> direction, fast |-> fast]
          /\ toDevice' = Tail(toDevice) /\ UNCHANGED <<channel, wanted>>
          /\ dimming' = IF fast THEN direction ELSE 0
      BY <2>3 DEF DeviceDim, history
    <3>2. ASSUME Head(toDevice) = StopDimming PROVE dimming' = 0
      <4>1. [dim |-> direction, fast |-> fast].fast = [dim |-> 0, fast |-> FALSE].fast
        BY <3>1, <3>2 DEF StopDimming
      <4>2. ~fast
        BY <4>1
      <4> QED
        BY <3>1, <4>2
    <3> QED
      BY <3>1, <3>2, DeviceKeepsSent
  <2>4. CASE DeviceDims
    <3>1. dimming # 0 /\ UNCHANGED <<wanted, toDevice>>
      BY <2>4 DEF DeviceDims, history
    <3>2. wanted # None => OnItsWay(wanted)
      BY <3>1 DEF Sent, Arrived
    <3> QED
      BY <3>1, <3>2 DEF Sent, OnItsWay, OnlyStopsFrom, FromLevel
  <2> QED
    BY <1>5, <2>1, <2>2, <2>3, <2>4 DEF Device
<1>6. CASE UNCHANGED vars
  BY <1>1, <1>6 DEF vars, device, history
<1> QED
  BY <1>2, <1>3, <1>4, <1>5, <1>6 DEF Next

\* Once nothing is on its way the device has the level that Matter sent last,
\* whatever was reported in between.
THEOREM LastLevelIsReached == Spec => []LastCommandWins
<1>1. Init => TypeOK /\ Sent
  BY InitTypes DEF Init, Sent
<1>2. TypeOK /\ Sent /\ [Next]_vars => (TypeOK /\ Sent)'
  BY TypesInductive, SentInductive
<1>3. TypeOK /\ Sent => LastCommandWins
  BY DEF Sent, LastCommandWins, Quiet, OnItsWay, Arrived
<1> QED
  BY <1>1, <1>2, <1>3, PTL DEF Spec

---------------------------------------------------------------------------

\* Every command that turns a light on by sending it a level ends the state in
\* which OffWithEffect stores no global scene: a command without on/off leaves
\* it off, a move sends no level, and all others store the attribute.
THEOREM LightsOnRearm == Spec => GlobalSceneRearmed
<1> DEFINE Rearmed == commands' # commands /\ Lighting /\ on' /\ ~on /\ wanted' # None
                        => globalScene'
<1>1. TypeOK /\ [Next]_vars => Rearmed
  <2> SUFFICES ASSUME TypeOK, [Next]_vars, commands' # commands, Lighting, on', ~on, wanted' # None
               PROVE  globalScene'
    OBVIOUS
  <2>1. ASSUME NEW amount \in 0 .. None, NEW direction \in Direction, NEW withOnOff \in BOOLEAN,
               NEW mask, NEW override, MoveToLevel(amount, direction, withOnOff, mask, override)
        PROVE  globalScene'
    <3>1. PICK target : UpdateCurrentLevel(target, withOnOff, on, TRUE)
      BY <2>1 DEF MoveToLevel, Commanded
    <3>2. withOnOff BY <3>1 DEF UpdateCurrentLevel, OnWith
    <3>3. QED BY <2>1, <3>2 DEF MoveToLevel
  <2>2. ASSUME NEW withOnOff, NEW mask, NEW override, WithOptions(withOnOff, mask, override),
               withOnOff \in BOOLEAN
        PROVE  globalScene'
    BY <2>1, <2>2 DEF WithOptions, Move, Stop, shown
  <2>3. CASE LevelCommand
    BY <2>2, <2>3 DEF LevelCommand, On, Off
  <2>4. ~Install /\ ~Report /\ ~Device /\ ~UNCHANGED vars
    BY DEF Install, Report, Device, DeviceSet, OwnChange, DeviceDim, DeviceDims, vars
  <2>5. QED BY <2>3, <2>4 DEF Next
<1>2. Spec => [][Next]_vars BY DEF Spec
<1>3. QED BY <1>1, <1>2, TypeCorrect, PTL DEF GlobalSceneRearmed
=============================================================================
