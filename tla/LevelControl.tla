---------------------------- MODULE LevelControl ----------------------------
(***************************************************************************)
(* A dimmable device: the OnOff and LevelControl clusters as p44mbrd       *)
(* implements them (src/src/devices/deviceonoff.cpp and                    *)
(* devicelevelcontrol.cpp) and the translation to and from the default     *)
(* channel of a vdcd device (src/src/adapters/p44/p44devices.cpp).         *)
(*                                                                         *)
(* Level changes from Matter go to the device as notifications, and are    *)
(* shown at once; the device reports each change of its channel, whoever   *)
(* caused it.  Both ways keep their order, but cross each other.           *)
(*                                                                         *)
(* A channel value is a multiple of 1/Fine of a level.  The conversion of  *)
(* a level to the channel and back works with floating point numbers and   *)
(* cuts off, so that it ends one level lower for the levels in Short.      *)
(***************************************************************************)
EXTENDS Integers, Sequences

CONSTANTS
  MinLevel,       \* MinLevel attribute: 1 for lighting, 0 for plug-in units
  MaxLevel,       \* MaxLevel attribute
  Fine,           \* channel values per level
  Short,          \* levels that the conversions turn into the level below
  OptionBit,      \* the bits of the Options attribute
  MaxCommands,    \* bound: commands from Matter
  MaxOwn          \* bound: changes at the device itself

Level == MinLevel .. MaxLevel
ChannelMax == (MaxLevel - MinLevel) * Fine
Channel == 0 .. ChannelMax
None == MaxLevel + 1     \* no level
Unknown == -1            \* no channel value
Lighting == MinLevel > 0

ASSUME LevelsAssumption ==
  /\ MinLevel \in Nat /\ MaxLevel \in Nat /\ MinLevel < MaxLevel
  /\ Fine \in Nat \ {0}
  /\ Short \subseteq Level \ {MinLevel}
ASSUME BoundsAssumption == MaxCommands \in Nat /\ MaxOwn \in Nat

VARIABLES
  on,             \* mOn
  level,          \* mLevel
  globalScene,    \* GlobalSceneControl attribute
  options,        \* Options attribute, the set of its bits; any, and fixed
  installed,      \* the device has its endpoint
  info,           \* mTempDeviceInfo: the channel value in the device description
  toDevice,       \* notifications on their way to the device
  fromDevice,     \* reports on their way back
  channel,        \* external: the value of the default channel
  dimming,        \* external: the direction in which the device dims
  commands,       \* commands so far
  own,            \* changes at the device so far
  wanted,         \* history: the level last sent, until something else changes it
  stale,          \* history: what is shown does not come from the device
  alone           \* history: on/off was set without the device, until it reports

shown == <<on, level, globalScene, options>>
device == <<channel, dimming, own>>
history == <<wanted, stale, alone>>
vars == <<shown, installed, info, toDevice, fromDevice, device, commands, history>>

Direction == {-1, 0, 1}
Notification == [set : Channel] \cup [dim : Direction, fast : BOOLEAN]

TypeOK ==
  /\ on \in BOOLEAN /\ globalScene \in BOOLEAN /\ options \in SUBSET OptionBit
  /\ level \in 0 .. None
  /\ installed \in BOOLEAN /\ info \in Channel \cup {Unknown}
  /\ toDevice \in Seq(Notification) /\ fromDevice \in Seq(Channel)
  /\ channel \in Channel /\ dimming \in Direction
  /\ commands \in 0 .. MaxCommands /\ own \in 0 .. MaxOwn
  /\ wanted \in Level \cup {None}
  /\ stale \in BOOLEAN /\ alone \in BOOLEAN

\* A device created from the vdcd's description; it is not installed yet.
Init ==
  /\ on = FALSE /\ level = 0 /\ globalScene = TRUE /\ options \in SUBSET OptionBit
  /\ installed = FALSE /\ channel \in Channel /\ info \in {channel, Unknown}
  /\ toDevice = <<>> /\ fromDevice = <<>>
  /\ dimming = 0 /\ commands = 0 /\ own = 0
  /\ wanted = None /\ stale = (info = Unknown) /\ alone = FALSE

---------------------------------------------------------------------------
(* Conversions.                                                            *)

\* setLevel's argument and percent2value.
FromLevel(l) == (l - MinLevel) * Fine

\* value2percent and updateLevel's argument.
Floor(c) == MinLevel + c \div Fine
ToLevel(c) ==
  IF Floor(c) \in Short /\ c = FromLevel(Floor(c)) THEN Floor(c) - 1 ELSE Floor(c)

BugClip(n) == IF n < MinLevel THEN MinLevel ELSE n
Clip(n) == IF n > MaxLevel THEN MaxLevel ELSE IF n < MinLevel THEN MinLevel ELSE n

---------------------------------------------------------------------------
(* The clusters.                                                           *)

\* updateOnOff as updateCurrentLevel calls it: on/off follows the level when
\* it leaves or reaches the minimum in a command with on/off.
OnWith(l, withOnOff, isOn) ==
  IF ~withOnOff \/ l = level \/ (level > MinLevel /\ l > MinLevel) THEN isOn
  ELSE l > MinLevel

\* DeviceLevelControl::updateCurrentLevel, when on/off shows isOn.  bridged:
\* the change also goes to the device.
UpdateCurrentLevel(target, withOnOff, isOn, bridged) ==
  LET l == Clip(target)
  IN /\ level' = l
     /\ on' = OnWith(l, withOnOff, isOn)
     /\ toDevice' = IF bridged /\ l # level
                      THEN Append(toDevice, [set |-> FromLevel(l)])
                      ELSE toDevice

\* Only a level that changes is sent: on/off may change without it.
Commanded(target, withOnOff, isOn) ==
  /\ UpdateCurrentLevel(target, withOnOff, isOn, TRUE)
  /\ wanted' = IF Clip(target) # level THEN Clip(target) ELSE wanted
  /\ alone' = (alone \/ (isOn # on /\ Clip(target) = level))

EffectiveOptions(mask, override) == (options \ mask) \cup (override \cap mask)

\* DeviceLevelControl::shouldExecuteLevelChange
ShouldExecute(withOnOff, mask, override) ==
  withOnOff \/ on \/ EffectiveOptions(mask, override) # {}

\* Level commands to an installed device; those with on/off have no options.
Command ==
  /\ installed /\ commands < MaxCommands
  /\ commands' = commands + 1
  /\ UNCHANGED <<installed, info, fromDevice, device>>

\* DeviceLevelControl::moveToLevel, for Move to Level (direction 0), Step, and
\* their variants with on/off.  Scenes are recalled with it, without on/off.
MoveToLevel(amount, direction, withOnOff, mask, override) ==
  /\ Command
  /\ amount <= MaxLevel /\ ShouldExecute(withOnOff, mask, override)
  /\ Commanded(IF direction = 0 THEN amount ELSE level + direction * amount, withOnOff, on)
  /\ globalScene' = (globalScene \/ (withOnOff /\ ~on /\ on' /\ Lighting))
  /\ UNCHANGED <<options, stale>>

\* DeviceLevelControl::move, with rate 0 or another one, and
\* P44_LevelControlImpl::dim.
Move(direction, fast, withOnOff, mask, override) ==
  /\ Command
  /\ fast \/ ShouldExecute(withOnOff, mask, override)
  /\ on' = (on \/ (direction = 1 /\ level = 0))
  /\ toDevice' = Append(toDevice, [dim |-> direction, fast |-> fast])
  /\ wanted' = None
  /\ alone' = (alone \/ on' # on)
  /\ UNCHANGED <<level, options, globalScene, stale>>

\* DeviceLevelControl::stop
Stop(withOnOff, mask, override) ==
  /\ Command
  /\ ShouldExecute(withOnOff, mask, override)
  /\ toDevice' = Append(toDevice, [dim |-> 0, fast |-> FALSE])
  /\ UNCHANGED <<shown, wanted, stale, alone>>

\* External: On when off.  The SDK writes the OnOff attribute
\* (DeviceOnOff::handleWriteAttribute), and changeOnOff_impl does nothing, then
\* calls DeviceLevelControl::effect.  The OnLevel attribute has any value: it is
\* set from a preset of the device, which may be 0%, and clients write it; None
\* (null) stands for the level shown.
On(onLevel) ==
  /\ Command /\ ~on
  /\ Commanded(IF onLevel = None THEN level ELSE onLevel, TRUE, TRUE)
  /\ globalScene' = TRUE
  /\ UNCHANGED <<options, stale>>

\* External: Off when on, with or without effect: the SDK calls effect and
\* leaves the OnOff attribute to it.
Off(withEffect) ==
  /\ Command /\ on
  /\ Commanded(0, TRUE, on)
  /\ globalScene' = (globalScene /\ ~withEffect)
  /\ UNCHANGED <<options, stale>>

WithOptions(withOnOff, mask, override) ==
  \/ \E amount \in 0 .. None, direction \in Direction :
       MoveToLevel(amount, direction, withOnOff, mask, override)
  \/ \E direction \in {-1, 1}, fast \in BOOLEAN :
       Move(direction, fast, withOnOff, mask, override)
  \/ Stop(withOnOff, mask, override)

LevelCommand ==
  \/ WithOptions(TRUE, {}, {})
  \/ \E mask, override \in SUBSET OptionBit : WithOptions(FALSE, mask, override)
  \/ \E onLevel \in 0 .. None : On(onLevel)
  \/ \E withEffect \in BOOLEAN : Off(withEffect)

---------------------------------------------------------------------------
(* What the device tells.                                                  *)

BugParseOutputState(c) ==   \* forgets the base class
  UpdateCurrentLevel(ToLevel(c), FALSE, on, FALSE)

BugParseBack(c) ==   \* sends what it has received
  UpdateCurrentLevel(ToLevel(c), FALSE, c > 0, TRUE)

\* P44_LevelControlImpl::parseOutputState, with P44_OnOffImpl's: first on/off,
\* then the level.
ParseOutputState(c) ==
  UpdateCurrentLevel(ToLevel(c), FALSE, c > 0, FALSE)

\* P44_DeviceImpl::deviceDidGetInstalled: the state in the description that was
\* kept since the query is parsed now.
Install ==
  /\ ~installed
  /\ installed' = TRUE
  /\ IF info # Unknown THEN ParseOutputState(info) ELSE UNCHANGED <<on, level, toDevice>>
  /\ UNCHANGED <<globalScene, options, info, fromDevice, device, commands, history>>

\* P44_OutputImpl::handleBridgePushProperties.  Before the device has its
\* endpoint there are no attributes: the level is computed from variables that
\* were never set.
Report ==
  /\ fromDevice # <<>>
  /\ fromDevice' = Tail(fromDevice)
  /\ IF installed THEN ParseOutputState(Head(fromDevice))
     ELSE /\ on' = (Head(fromDevice) > 0)
          /\ level' \in 0 .. None
          /\ UNCHANGED toDevice
  /\ stale' = ~installed /\ alone' = FALSE
  /\ UNCHANGED <<globalScene, options, installed, info, device, commands, wanted>>

---------------------------------------------------------------------------
(* External: the device.                                                   *)

Becomes(c) ==
  /\ channel' = c
  /\ fromDevice' = IF c = channel THEN fromDevice ELSE Append(fromDevice, c)

DeviceSet(c) ==
  /\ toDevice # <<>> /\ Head(toDevice) = [set |-> c]
  /\ toDevice' = Tail(toDevice)
  /\ Becomes(c)
  /\ dimming' = 0
  /\ UNCHANGED <<shown, installed, info, own, commands, history>>

\* Dimming with rate 0 stands still.
DeviceDim(direction, fast) ==
  /\ toDevice # <<>> /\ Head(toDevice) = [dim |-> direction, fast |-> fast]
  /\ toDevice' = Tail(toDevice)
  /\ dimming' = IF fast THEN direction ELSE 0
  /\ UNCHANGED <<shown, installed, info, fromDevice, channel, own, commands, history>>

\* The channel moves on, or stops at its end.
DeviceDims ==
  /\ dimming # 0
  /\ IF channel + dimming \in Channel
       THEN Becomes(channel + dimming) /\ UNCHANGED dimming
       ELSE dimming' = 0 /\ UNCHANGED <<channel, fromDevice>>
  /\ UNCHANGED <<shown, installed, info, toDevice, own, commands, history>>

\* Somebody uses the device itself, or another system controls it.
OwnChange(c) ==
  /\ own < MaxOwn /\ c # channel
  /\ own' = own + 1
  /\ Becomes(c)
  /\ dimming' = 0
  /\ wanted' = None
  /\ UNCHANGED <<shown, installed, info, toDevice, commands, stale, alone>>

Device ==
  \/ \E c \in Channel : DeviceSet(c) \/ OwnChange(c)
  \/ \E direction \in Direction, fast \in BOOLEAN : DeviceDim(direction, fast)
  \/ DeviceDims

Next == Install \/ LevelCommand \/ Report \/ Device

Spec == Init /\ [][Next]_vars

---------------------------------------------------------------------------

\* Nothing is on its way.
Quiet == installed /\ toDevice = <<>> /\ fromDevice = <<>> /\ dimming = 0

Shows(l, c) == l = ToLevel(c) \/ c = FromLevel(l)

\* However commands, reports and changes at the device cross each other, once
\* nothing is on its way the level shown is that of the device, whatever OnLevel
\* is, unless the last report came before the device was installed, or the vdcd
\* did not know the value.  On/off is that of the device too, unless it was set
\* without sending a level, by an On to the level already shown (97, 384-393) or by
\* a move from level 0 (290), and the device has not reported since.
Consistent ==
  Quiet /\ ~stale => Shows(level, channel) /\ (~alone => on = (channel > 0))

\* Once nothing is on its way the device has the level that Matter sent last,
\* or a later one of its own: reports of former levels that arrive after a
\* command do not undo it.
LastCommandWins ==
  Quiet /\ wanted # None => channel = FromLevel(wanted)

\* Every command that turns a light on by sending it a level ends the state in
\* which OffWithEffect stores no global scene (206-214).
GlobalSceneRearmed ==
  [][commands' # commands /\ Lighting /\ on' /\ ~on /\ wanted' # None => globalScene']_vars
=============================================================================
