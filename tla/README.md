# p44mbrd in TLA+

`p44mbrd` bridges devices of other systems into a Matter fabric. Adapters talk
to those systems (the P44 adapter to a `vdcd`, the CC adapter to a `deviced`
behind a JSON-RPC server), create one device object per bridged device, and the
main application gives each an endpoint in the Matter stack. Everything runs in
one main loop: a handler runs to its end before the next one starts. What makes
the program hard is therefore not threads but the order of events: answers,
notifications, lost connections and postponed calls come in any order, and the
process can die between any two writes to the key-value store.

## The system's parts

| Part | State | Operations | Hard behaviour | Correct when |
|---|---|---|---|---|
| Endpoint assignment (`p44mbrd_main.cpp` 405-575, 641-700) | `mDevices`, `mFirstFreeEndpointId`; KVS: `device_eps/*`, `firstFreeEndpointId`, `devices/*`, `endPointMap` | install a device, add one later, migrate the legacy format | crashes between writes, wrap-around of 16 bit ids, software updates with more fixed endpoints, a full table | ids are unique, and a device keeps its id over every restart |
| Startup protocol and device life (`p44mbrd_main.cpp` 359-397, 612-730; `adapters.cpp`) | `mUnstartedAdapters`, `mChipAppInitialized`, `mDeviceUIDMap`, enabled endpoints | `startupComplete`, `startChip`, register, add, remove, re-enable | two adapters complete, add and remove in any order; `executeNow` postpones the start | the stack starts once, every device given to the bridge has one enabled endpoint |
| P44 adapter (`p44bridge.cpp`, `p44bridgeapi.cpp`) | `mConnectedOnce`, pending calls | initial query, reconnect query, device info, push, vanish | calls and answers lost with the connection, pushes during a query | bridgeable devices are found and follow the vdcd |
| CC adapter (`ccbridge.cpp`) | request in progress | register, subscribe, list, item info, vitals | the whole sequence again after a reconnect, items deleted while queried | existing items are bridged |
| P44 devices (`p44devices.cpp`) | bridgeable, active, channel values, button and sensor states | pushes from the vdcd, changes from Matter | duplicate and stale pushes, composed devices, conversions | the cluster shows what the device does |
| Description of a device (`p44bridge.cpp` 230-529) | none | which device objects a description becomes | halves of rockers are separate inputs | every input is in one device |
| CC devices (`ccdevices.cpp`) | level, position, feedback, tilt | state changes, commands | members that are never initialized, a target and a current position | the cluster shows what the device does, which does what it was told |
| Device, Identify (`device.cpp`) | reachable, node label and the remembered name, identify time and timer | countdown, writes, commands, renames from both ends | timer against new commands, a write crosses a rename | one countdown, which ends; the label is the name at the other end |
| On/off, level control (`deviceonoff.cpp`, `devicelevelcontrol.cpp`) | on, level, transition end, options | move, step, stop, on/off, updates from the device | updates during transitions, options, wake-up level | level in range, on/off coupled |
| Color control (`devicecolorcontrol.cpp`) | mode and hue, saturation, x, y, mireds | commands, updates | a report of one mode crosses a command of another | mode and values of the mode are those of the lamp, and subscribers know them |
| Fan control (`devicefancontrol.cpp`) | percent setting and current percentage | writes, steps, updates | a setting is compared with the current percentage | the fan runs as set |
| Window covering (`devicewindowcovering.cpp`) | target and current position of two axes, mode, safety status | movements, stop, updates | the tilt waits for the lift, positions on the way | a blind at rest is shown where it is |
| Boolean inputs, sensors (`booleaninputdevices.cpp`, `sensordevices.cpp`) | one measured value or state | updates | null values, inversion, rounding | the value is shown |
| Switches (`switchdevices.cpp`, `p44devices.cpp` 960-1065) | active positions, clicks, position | click types | two positions at once, counts from here and from the vdcd | releases match presses, presses are counted |
| Actions and zones (`actions.cpp`, `p44bridge.cpp` 119-127, 619-656) | actions, endpoint lists, zones | add or replace, move a device | pushes before the installation, moves, renamed zones | a device is in one room's list |
| Commissioning and stack start (`p44mbrd_main.cpp` 293-397, 733-784, 1024-1147; the adapters) | window of the SDK; running, commissionable and code at the vdcd and in the CC adapter | start, open and close a window, report to the gateways, request, terminate, clean up | start, windows and connections in every order; a reconnect resets what was told | the gateways know whether the bridge runs, whether it can be commissioned, and the code before it is needed |
| Chip glue, generated cluster code, utilities | none of their own | factory data, certificates | none | not modelled |

The parts call each other as follows. An adapter calls `registerInitialDevice`,
`startupComplete`, `bridgeAdditionalDevice` and `removeDevice` of its base
class, which keeps the map from UIDs to devices and calls `adapterStartupComplete`,
`addAdditionalDevice`, `reEnableDevice` and `disableDevice` of the main
application. The main application calls back `installInitialDevices` at the
start, and `didGetInstalled` and `didBecomeOperational` of the devices. Only
`startChip` is postponed with `executeNow`.

An installed device talks to the device behind it over the connection of its
adapter: commands from Matter leave as notifications, and what the device does
comes back as reports, also of changes nobody asked for. Neither side waits for
the other, so every report may be older than the last command. Devices do not
interact with each other, except that zones (P44) collect their endpoints.

## Modules

| Module | Models |
|---|---|
| `EndpointRegistry` | what endpoint assignment promises: ids given once, kept until a fixed endpoint takes them or the device is installed a second time in one run, never given to another device |
| `EndpointAlloc` | how the main application does it, one step per write to the key-value store |
| `MCEndpointAlloc` | its instance for TLC |
| `EndpointAllocProofs` | its theorems, and that it implements `EndpointRegistry` |
| `BridgeMain` | the main application as the adapters see it, as operators from one bridge state to the next |
| `P44Adapter` | the P44 adapter, its connection and (external) the vdcd |
| `CCAdapter` | the CC adapter, its connection and (external) the JSON-RPC server |
| `Bridge` | the composition: both adapters share the startup protocol and the device table |
| `MCBridge`, `BridgeProofs` | its instances for TLC, its theorems |
| `Commissioning` | what the gateways are told about the running bridge: a superposition on `Bridge` |
| `MCCommissioning`, `CommissioningProofs` | its instance for TLC, its theorems |
| `LevelControl` | a dimmable light: the OnOff and LevelControl clusters, the P44 device behind them and (external) the channel of the vdcd device |
| `MCLevelControl`, `LevelControlProofs` | its instance for TLC, its theorems |
| `DeviceLink` | what all other devices stand on: notifications, reports, lost connections, and the bounds on commands and changes |
| `Identify`, `FanControl`, `Button`, `Inputs`, `WindowCovering`, `ColorControl` | one cluster each, with the P44 device behind it and (external) the vdcd's side |
| `CCDevices` | dimmer and blinds of the CC adapter |
| `Names` | the name of a device, which both ends can change |
| `Rooms` | zones, endpoint lists and deep-off actions |
| `DeviceMapping` | what a device description becomes |
| `Devices` | the composition: `kind` picks the device a behaviour has, all other components keep their state |
| `MCDevices` | its instances for TLC |
| `DevicesProofs`, `ColorControlProofs`, `CCDevicesProofs`, `WindowCoveringProofs` | theorems about `Devices` |

### EndpointAlloc

State: the four kinds of keys in the store, the number of fixed endpoints of the
installed software, and the main application's memory (`phase` is the position
in the running handler). `StartChip`, `ForgetMap` and `Validate` are
`installInitiallyBridgedDevices` up to 557; `NextMain` takes the next device of
the adapters' maps; `LegacyFound`/`MigratePut`/`Lookup`, `Check`,
`ScanStep`/`ScanDone`, `AssignKnown`/`AssignNew` and `NoEndpoint` are
`installSingleBridgedDevice` in the order of the code, one step per write and
per iteration of the collision scan; `InitialInstalled` and
`AdditionalInstalled` end the two handlers. `AddAdditionalDevice` takes any device, also one that is
installed already: two answers with the same device make two objects (`p44bridge.cpp` 525, 884-886), and
the second one finds the stored id in use by the first (472-476), gets a new one and stores that (487-490).
The first object may be destroyed by then, while `mDevices` keeps its pointer: its entry keeps what it held.
`Crash` may come between any two
steps and clears the memory. `Update` installs software with more fixed
endpoints.

Two history variables name the two ways in which uniqueness is really lost:
`torn`, a crash after a device's id was stored (490) and before the next free id
was (561, 674), and `wrapped`, the next free id has gone beyond 0xFFFE. Most
properties are claimed while neither has happened (`Sound`); that they fail
after a torn crash is shown by the run `torn_crash`. A crash between deleting the legacy key (435) and writing the
new one (437) counts as torn too: it loses the id. `KnownNeverCollides` and
`ParentIsMain` hold always.

### Bridge

`bridge` is one record: a handler of an adapter calls several functions of the
main application before it returns, so those functions are operators from a
bridge state to the next, and each adapter action composes the calls of its
handler. `starts` counts the postponed `startChip` calls; `StartChip` runs one.
Where a handler goes through many devices (the list of the vdcd or of `deviced`, the maps at the start),
the operator takes them in one enumeration of the set, `SetToSeq` (the proofs hold for any); `Install` puts as many of them into the table as there is room.
Device objects are numbered in the order they are created; `map` is the
adapter's UID map, `table` is `mDevices`, `on` the endpoints enabled in the
stack. A second object with the same UID (two pushes before the first answer) is
modelled as in the code: it replaces the first in the map and gets an endpoint of
its own. `P44Composed` are the devices that are bridged as a composed one. Their push handler only hands a push on to
the subdevices, which skip bridgeability, so the main device's reachability does not change (`P44Push`); pushes
of `active` are left out. `IsReachable` is an enabled endpoint of a device that is shown as reachable.
Each adapter has a queue of calls to and a queue of messages from its
server; both are lost with the connection. Endpoint numbers are those of
`EndpointAlloc`; here an endpoint is the position in `mDevices`.

### Commissioning

`Commissioning` extends `Bridge` and repeats nothing of it: each of its actions is an action of
`Bridge` together with what the same handler tells the gateways, or a step between them.
`StartStack` is `startChip` with `chipAppInit`, which sets the code first, then lets the
SDK open its window when there is no fabric, then tells that the bridge runs. `WindowChanges`
are the two callbacks of the window, from whatever cause. `ConnectVdc` resets the status at
the first connection, `ReconnectVdc` writes it again as the code does, from the adapter's
devices. `Cleanup` closes the connections before it tells the adapters anything.

`toStatus` are the `setProperty` calls on their way to the vdcd; they are apart
from the queries in `toVdc`, as neither waits for the other's answer. `vdcStatus` is what they
have set there, and what an earlier run may have left (`VdcLeft`). The CC adapter keeps its status
(`ccStatus`), sends it when it changes and answers requests for it (`toGateway`); `gateway` is what
was told last. The QR code and the manual pairing code are always set together and are one flag. Requests to
open a window before the stack runs are left out: what they do is up to the SDK.

### LevelControl

`on`, `level`, `options` and `globalScene` are the attributes; `channel` is the
default channel of the device at the vdcd, finer than a level. Commands change
what is shown at once and are sent to the device (`toDevice`); the device reports
each change of its channel (`fromDevice`), also those that commands caused. So the
two sides run apart and meet again, and everything interesting is in the order
of commands and reports. `UpdateCurrentLevel` is the function of that name (its `forced` flag
is never passed); `MoveToLevel`, `Move`, `Stop` are the command handlers with the
options as sets of bits, `On` and `Off` what the SDK does with `effect`. `Install`
parses the device description that was kept since the query; a report handled
before that uses attributes that do not exist yet, so the level is any value.

The percentages are not modelled as numbers. What matters of them is where they
end: sent as a percentage, stored as a floating point channel value and cut off
on the way back, 29 of the levels 1 to 254 (4, 7, 13, 25, ...) come back one level lower. `Short` is the
set of such levels; the theorems hold for every set.

`OnLevel` is an argument of `On`: null (`None`), the minimum or below, as a preset of 0% or a client may set
it, or any other level.

`wanted` remembers the level last sent until a move or a change at the device
replaces it. `stale` marks what was shown without a report behind it: an
unknown channel value, and a report handled before the installation (the older description
overwrites it). `alone` marks an on/off that was set without a level being sent: by an On to the level already
shown, which shows a light as on that stays off (97, 389), and by a move up from level 0 (290;
only plug-in units have a level 0 besides that before the first report). It ends with the next report.

External: the vdcd handles notifications in order, reports each change of the channel,
and a value that is set ends dimming.

### DeviceLink and Devices

`toDevice` and `fromDevice` are the two directions of the connection. `Notify` is
`P44_DeviceImpl::notify` (nothing is queued while the connection is down), `Report`
takes the next push. `LinkLost` drops both queues; `LinkReconnect` reads no
state again, as `bridgeApiReconnectQueryHandler` only adds unknown devices. What the device
did meanwhile is therefore not shown until its next report: the properties of
what is shown ask for one (`heard`). A component's module is written for its own
variables and the link; `Devices` has one disjunct for each, under `Is(kind)`. Components
share nothing but the link, so a behaviour with two kinds would only interleave them.

### Identify

`identifyTime` and `tickTimer` are `mIdentifyTime` and `mIdentifyTickTimer`; the
timer's callback carries the value it will set. `UpdateIdentifyTime` serves the command and the
written attribute, `IdentifyTick` is `identifyTick`.

### Names

`nodeLabel` is the attribute, `mName` what the adapter's device remembers, `theirName` the
name at the vdcd or at deviced. `WriteNodeLabel` is `updateNodeLabel` from Matter
with the adapter's `changeName`, `NameReport` the notification of a new name. The
adapters are mirror images: the P44 device sends a name and does not remember a
pushed one; the CC device remembers a reported one and does not send any. Both compare with the
name they remember. A composed P44 device (`composed`) sends names, but a pushed one reaches its subdevices only,
which skip it: its label stays as it is.

### FanControl

`percentSetting` and `percentCurrent` are the attributes, `speed` the default
channel in half percents. `SetPercent` is `handleAttributeChange` for a write, for a
mode (`setImpliedLevel`) and for `HandleStep`, whose stages are `Stage` and
`StagePercent`. As in the code a setting is compared with the current percentage, and
not sent when equal; `fanWanted` counts a setting only when it was sent or
not needed. `FanShort` are the percentages that come back one lower, like `Short`.

### Button

`clicks` and `position` are `mClicks` and `mPosition`; `ParseButtonState` is
`parseButtonState` for one position, and the Switch events it emits are `told`. The
vdcd's button behaviours (`Press`, `Release`, `Finish`, `Hold`, `HoldEnd`) are
external: they end each sequence with "complete", and count either with or instead of a release.

A device is described (`ButtonInit`, with inputs in any state of `ButtonStarts`) some time before it is
installed, and `InstallButton` evaluates the described state of the first position (`switchInfo`) with the
counter and position reset, as `updateBridgedInfo` does. Reports handled before that reach the state machine too, but
emit nothing, and what they did is undone. So a described "complete" tells a MultiPressComplete with
count 0, and a device installed later than in the first press of a sequence counts wrong: `ClicksCounted`
excludes these sequences (`mixed`, set unless the description is `Plain`) and covers the others, including one that
began before the description.

### Inputs

`ShownValue` is what `parseSensorValue` and `parseInputValue` make of a value;
values are in thousandths and attributes in hundredths, so that rounding by adding
a half and cutting off is visible. A null clears a sensor, but leaves a contact as it was.

### WindowCovering

`GoTo` is a command of the SDK's cluster server, which stores the target and then calls
`HandleMovement`: the code sends both axes, the tilt first and without `apply_now`
unless there is no lift. `SimpleStart` is the other kind of movement, `CoverReport`
`parseOutputState` for a report that carries both states, as the vdcd makes them. `CoverShort` are positions that come back one step lower.

### ColorControl

`color` is the mode and the five components; `UpdateColorMode` and `UpdateColor`
are the `updateCurrent...` functions on a working state that collects
notifications (`sent`) and reported attributes (`dirty`); their flags have the
code's names. `seen` is what subscribers were told, `color.silent` the
components that changed without it. `MoveToBoth` are the two commands that set two components.

### CCDevices

`MoveToLevel` and `Dim` are the dimmer's commands, with the direction as it is really
sent; `GoToBlind`, `SimpleStartBlind`, `StopBlind` the blind's.
`mHasTilt`, `mInverted` and `mUnresponsive` are not initialized by the code for all
devices, and neither is what the dimmer's level is computed from before it has an
endpoint: `Init` allows every value. `BlindTiny` are values below 1%, which
show as 0. The link does not break: the CC adapter makes its devices anew after it does.

### Rooms

A push is handled as it is made. `zoneNames` is `mZoneMap`; `lists` and `actions`
belong to `ActionsManager`. A list is made again only for a zone that is new or
renamed, and a device bridged later is not listed: both are as in the code.
`NoEndpoint` is the invalid endpoint of a device that is not installed. Composed devices ignore zone pushes
(`ZonePushIgnored`).

### DeviceMapping

`BridgedDeviceFromJSON` maps a description to its devices in one step. `InputsOf` puts the inputs in the
order of the code's loops, buttons last and in the order of their ids. `Found(d)[n]` is what is there after `n`
of them, behind the device of the output: the devices pushed, `dev` and `moreInputs`. `AddInput` is one turn of the loop.

## Runs

| Run | Shows |
|---|---|
| `alloc` | uniqueness, identity, parents, the refinement of `EndpointRegistry` and the end of every handler, additions of devices that are there already included |
| `bridge` | both adapters, one device each, with all interleavings: whenever an adapter is quiet and the stack settled, exactly the right devices are bridged |
| `discovery` | the P44 adapter with a simple and a composed device: what stays bridgeable gets an endpoint in the end, over broken connections; what is reachable when all is quiet |
| `torn_crash` | (violation) one crash is enough for two devices with the same stored id |
| `added_twice` | (violation) a device added a second time in one run gets another id, which is stored |
| `second_start` | (violation) an additional device before the other adapter has completed its startup ends the program |
| `late_initial` | (violation) a connection lost during the initial query leaves devices of the other adapter unbridged |
| `re_enable` | (violation) a removed device that comes back through `bridgeAdditionalDevice` stays disabled |
| `level` | a light with three levels: commands, any OnLevel, reports and changes at the device in every order |
| `devices` | every kind of `Devices` with its link, commands, reports, changes at the device and a lost connection in every order; rooms; all descriptions |
| `status` | what both gateways are told, over starts in every order, windows, lost connections and the end of the program |
| `status_reset` | (violation) a reconnect tells the vdcd that the bridge cannot be commissioned, although its window is open |

### Bounds

`alloc`: a single device and a composed one with a subdevice, three table
entries (with a device added twice the table fills up in the middle of the composed device), ids up
to 7 (with three or four fixed endpoints: wrap-around is reached), one software
update. Legacy data of every shape is among the initial states. All ids and positions are compared only with each other, so larger
numbers add no new case; the theorems confirm that for every value.

`bridge`: one device per adapter, two changes each, one lost connection and one
failed request, two table entries. Two changes are needed for a device that goes
and comes back, two entries for the duplicate endpoint and the full table.
`discovery`: two devices, one of them composed, so that a reconnect query finds a known and an unknown
one, two changes and two lost connections. `re_enable`: the CC adapter alone, since it needs four changes of one item.

`level`: levels 1 to 3 with two channel values each, so that there is a level
that is short, one that is not, and a channel value above zero that shows as the
minimum; three commands and one change at the device, enough for a report that
arrives between two commands.

`devices`: two commands, one change at the device and one lost connection, so that
a report can cross two commands and reports of before and after a break
meet. Each conversion has a value that comes back short and one that does not
(`FanShort`, `CoverShort`, `ColorShort`, `DimShort`, `BlindShort`, `BlindTiny`). A color
component has two values, of which one is below `CtMin`; a blind three positions,
so that it can be between its ends; a dimmer three levels. With two values the runs of the color control are small;
its theorems hold for any. The sensor values
lie on both sides of 0 and of a rounding boundary. A button has six events of its inputs and
two presses in a sequence: two sequences, or one of each position of a rocker; it is described idle, or in one of
five states in the middle of a sequence. Rooms: two initial
devices, of which one is composed, and a later one, two zones besides the global one, one explicit name and the
numbered one, three changes (move a device there and back, and rename). Descriptions: every combination
of hint, behaviour, groups and function of the output, and every sequence of up
to four buttons, which is two rockers. Names: three, so that the one remembered, the one shown and
a new one can all differ, both adapters, and composed devices.

`status`: one device per adapter that neither comes nor goes, as the status depends only on whether the P44
adapter has any; a table of one, so that the other device finds it full; one lost
connection and one failed request; two changes of the window (opened and closed again,
before, between and after the connections), and nothing or everything left by an earlier run. `status_reset`
needs a single change.

Names of bounds in the modules: `MaxFixed`, `MaxDyn`, `InvalidId`,
`MaxP44Changes`, `MaxP44Losses`, `MaxCCChanges`, `MaxCCFailures`, `MaxCommands`, `MaxOwn`,
`MaxLosses`, `MaxIdentify`, `FanPercents`, `FanSpeeds`, `MaxPresses`, `MaxButton`, `ButtonStarts`, `SensorValues`,
`CoverMax`, `ColorMax`, `DimMax`, `BlindMax`, `MaxZoneChanges`, `ZoneNames`, `Name`, `NameAdapters`,
`MaxWindows`, `MaxAnswers`, `VdcLeft`, and the sets that
`MCDevices` gives for initial states (`Covers`, `Lamps`, `Blinds`, `RoomPlans`, `Descriptions`).

`CHECK_DEADLOCK FALSE` in the Bridge, Commissioning, LevelControl and Devices configurations: the bounded
changes are used up, or the program has ended.

### Fairness

`alloc`: weak fairness of the running handler. Handlers are sequential code
without waiting; a crash or an update is never forced. `bridge`, `discovery`: weak
fairness of the postponed start and, for each adapter, of its handlers together with
connecting and its server's answers: the main loop runs whatever is due, both
adapters retry connecting for ever, and a server that is connected answers.
Nothing forces or forbids changes and losses, which are bounded. `devices`: weak
fairness of `IdentifyTick` alone, as `MainLoop` fires a timer that is due; commands that
extend the countdown are bounded, like a client that gives up. `status` states none: its properties are
safety, about states in which everything sent has arrived.

### What the exceptions in the properties mean

`removed` and `early` devices (vanished or deleted while the stack ran, or
before) do not get their endpoint back, or keep it: that is what the code does. A composed device stays reachable.
`Missed` devices were registered as initial ones after the stack had started.
`~HasRoom`: the table is full. The runs `late_initial` and `re_enable` are about two of these exceptions.

In `Devices`, what a property may expect is kept in history variables. `fanWanted`,
`coverWanted`, `colorWanted` and `blindWanted` hold what was last sent; a stop, a change at
the device or a lost connection clears them, and so does a value the code does not
send because it takes it for the current one although the device has another.
`coverKnown` and `blindKnown` are false from a written Mode to the next report, as
positions are not converted again. `mixed` marks sequences of both positions of a
button that overlap, that a lost connection broke, or that were further on than their first press when the device was described: their counts are wrong,
while `ReleasesPaired` holds even then. `moved` devices stay in the list of
their old room. `nameKept` marks a label that
was shown and never sent, or stayed when a composed device was told another name; `nameWanted` is the written name that was sent and counts.

In `Commissioning`, `vdcBehind` is set when a status could not be sent, was lost with the connection, or
was reset by a connection made while the stack runs; `ccBehind` is the same for the CC gateway, until it
asks. `ccReported` is false until the CC adapter's members are set.

## Proofs

`EndpointAllocProofs` proves for every set of devices, every table size, every number of fixed
endpoints and every id width:

- `TypeCorrect`, `EndpointIdsUnique`, `StoredIdsUnique`,
  `ReturningDeviceNeverCollides`, `SubdeviceParents`: the invariants of the run;
- `IdentityIsStable`: its action property;
- `StackMatchesStore`: `OperationalMatchesStore`. `Published` says on the way that the stack has exactly
  the endpoints of the devices before those of the running handler. Of several entries of one device the newest
  has the stored id.

It also proves `StoreImplementsRegistry`, the refinement that is the run's
`Registry`: the step that assigns a new id is `Assign`, an update is `RaiseFloor`, the step that
makes the state unsound is `Spoiled`, and every other step leaves the ids and the abstract
counter alone. The abstract counter is defined over the whole store, legacy map included; the proof
finds it as the least element of a set of naturals.

Assumptions: `DevicesAssumption` (a subdevice belongs to one composed device and
UIDs are distinct) and `IdsAssumption` (all table entries and fixed endpoints fit
into the id space, legacy indices too), both evaluated by TLC in the run `alloc`.

None of the invariants is inductive. The inductive one is
`IInv == Base /\ (Sound => SoundInv)`. `Base` holds always: the types; where the
collision scan stands and what it has already excluded (`ScanInv`); which
subdevices the running `installDevice` still has to install and which composed
device they belong to (`Ownership`). `SoundInv` holds until a torn crash or a wrap-around: stored and
legacy ids are distinct over both key formats (`Injective`), all lie below the
next free id, in memory or as the next start will compute it (`Bounded`), the
newest entry of each installed device has its stored id (`TableStored`), and the id in hand
belongs to the device being installed (`InHand`). `Sound` never comes back
(`SoundBefore`), which makes the implication inductive.

`BridgeProofs` proves, for every set of devices of both adapters, every table size and every number of
changes, losses and failures, all of the run `bridge`:

- `TypeCorrect`: `TypeOK`, of the table, the maps and both connections;
- `HandedAlwaysEnabled`: `HandedIsEnabled`, and `TableAlwaysGrows`: `TableOnlyGrows`. Both follow from
  `MainAlways`, the invariant of the main application;
- `P44AlwaysConsistent`: `P44Consistent`, and `CCAlwaysConsistent`: `CCConsistent`;
- `StartupAlwaysFirst`: until an adapter has completed its startup, each item's info comes after the list of
  all items, so that no device of `deviced` is added to the bridge before `startupComplete()`.

`MainInv(b)` is about a single state `b` of the bridge, not about the variable: a handler composes
several operators, and the states between them have no name in a behaviour. One lemma for each operator
says that it keeps `MainInv` and what else it changes (`RegisterKeeps`, `RemoveKeeps`, `ChipKeeps`, ...);
a handler's lemma puts them together. `HandedIsEnabled` alone is not inductive: whether
a device gets its endpoint depends on who is in the map (`MapsFit`), on objects and table referring
to each other (`EndpointsFit`), on an empty table before the start, and on removed devices as the only ones
whose endpoint may be off (`DisabledRemoved`). `Install` takes a sequence of any length; what it
does to each device is found by index, so no induction over the devices is needed.

`P44Consistent` speaks of quiet states only. What holds on the way is `P44Inv`: for every device, the last message
under way that concerns it says what the vdcd has (`LastToldHolds`, where the answer to a
query under way will say it, too), the initial answer comes before all others (`InitialFirst`), and with
nothing under way the adapter knows it. `CCInv` is the same with the order of the setup in it:
register, subscribe and list come one after the other and the list before any item's info (`SetupFirst`); an item
that exists is listed, asked for, brought or in the map, or a message will bring it (`ItemsCome`); one
that is gone has a deletion under way behind whatever would bring it (`BroughtIsDeleted`, `KeptIsDeleted`).
A step of one adapter leaves the devices of the other alone (`Frame`, `FrameOfP44`, `FrameOfCC`), which is
why the two invariants go together in `Bridge`. That a composed device counts as bridgeable as long as it has not
vanished (`ComposedKept`) is kept by both, too. All of them were checked by TLC on the instance of the run `bridge`
before they were proved.

`CommissioningProofs` proves the run `status`, for every number of windows, answers and devices and
whatever is left at the vdcd: `VdcAlwaysInformed` (`VdcKnows`), `GatewayAlwaysKnows` (`GatewayKnows`) and
`CodeAlwaysFirst` (`CodeComesFirst`). Its invariant `StatusInv` takes `MainInv` along for the steps of `Bridge`.
`VdcTold` says what each property is going to be once every call under way has arrived (`WillBe`: the last call for it, or what
the vdcd has when there is none); a reset appends calls that say "not commissionable", a
start and a window append what is true. `NotYet`: before the stack is up no call says "commissionable".
`CodeIsFirst`: before each call that does, there is a code, among the calls or at the vdcd already; this one holds after the
end of the program too, while the last calls arrive. `GatewayTells` has the last message to the gateway.

The assumptions are those of the modules, evaluated by TLC in the runs `bridge`, `discovery` and `status`: the sets of devices
are finite and the table's size a natural number (`MainAssumption`; a configuration is finite, the size
is `CHIP_DEVICE_CONFIG_DYNAMIC_ENDPOINT_COUNT`), each adapter has devices of its own
(`P44Assumption`, `CCAssumption`, `UidAssumption`: an item of `deviced` has the UID `cc_id_<n>`, a device of the vdcd one that begins with its dSUID), there are no
adapters but the two that the main program creates (`AdaptersAssumption`), and what is left at the vdcd are properties
(`StatusAssumption`).

`LevelControlProofs` proves, for every range of levels, resolution of the channel
and number of commands and changes, from `LevelsAssumption` and `BoundsAssumption`
(both evaluated by TLC in the run `level`):

- `TypeCorrect`, from lemmas about the conversions (`DivBound`, `ToLevelInRange`,
  `FromLevelInRange`);
- `ShowsTheDevice`: `Consistent`. It speaks of quiet states only and is not inductive;
  `IInv` says what holds on the way: the last report under way tells the
  channel's value, and with no report under way what is shown is right as soon as
  every value still being sent is the one the channel already has (`Landed`). A value
  that differs will cause a report;
- `LastLevelIsReached`: `LastCommandWins`. The level last sent is under way with
  nothing but stops behind it, or it has arrived (`Sent`);
- `LightsOnRearm`: `GlobalSceneRearmed`, an action property that each step fulfils by itself. No run checks it.

Nothing is assumed of OnLevel. On and off agree with the channel unless `alone`, which is part of the invariant
(`Matches`); `CommandAgrees` shows that a command that sends no level and changes on/off sets it.

`DevicesProofs`, `ColorControlProofs`, `CCDevicesProofs` and `WindowCoveringProofs` prove invariants and
action properties of `Devices`, for every bound and every set of values that
come back short. In each proof the steps of all other kinds leave the variables
alone; what remains is one lemma for each action of the component.

- `OneCountdown`: `CountdownMatches`, which is inductive. No run checks it, the types and
  `IdentifyEnds` are what the run says of the countdown.
- `FanRunsAsSet`: `FanObeys`. `FanInv` says where the wanted speed is on its way: the
  last notification under way carries it, or there is none and the fan
  shows it. A setting that is not sent equals what is shown, and is wanted only
  if the fan really runs at it.
- `StepsMoveTheFan`: `StepMoves`, an action property that no run checks either, from the lemma
  `StageMoves` about the stages around every percentage.
- `ReleasesMatchPresses`: `ReleasesPaired`. `ButtonInv`: while a position is active
  its press is the last one told, and reports under way are of positions the button has.
- `ClicksAreCounted`: `ClicksCounted`. `CountInv`: each report under way continues the one before it (`Follows`),
  from the position and the count shown now to what the button does now (`DoneBy`), and unless two positions
  have been pressed at once (`mixed`) at most one of them is not idle. Before the installation it says the same of the
  state that will be evaluated then (`Now`, `Replay`). The end of a sequence then arrives with the presses
  that it was sent with.
- `InputsAreShown`: `InputMatches`. `InputInv`: the last report under way tells
  the input's value. The proof gives the exact error of rounding: 5
  thousandths, but up to 14 below 0.
- `RoomsAreListed`: `RoomsListed`. `RoomsInv` says besides that until the
  installation only the initial devices are bridged, that an unknown zone has no
  list, and that a known one lists all devices that stayed in it.
- `SubscribersSeeTheColor`: `ColorSeen`. It is no invariant of the single `updateCurrent...`
  calls of a handler; the lemma `Tells` states what each call keeps of the working state, whatever its
  flags, and is applied along the calls.
- `TheColorIsShown`, `TheLastColorWins`: `ColorsShown` and `LastColorWins`. `Effect` says what a command
  keeps and sends: nothing, or one notification for each value that it changes or was asked for, where one
  that waits is followed by another of its mode that applies (`Paired`). `ShownInv`: the last report under
  way has the lamp's color; with none, the color is shown, unless what is on its way to the lamp, or staged
  there, will change the lamp (`Calm`), which makes another report. `WantedInv`: a value asked for is the last
  one under way for its component, or staged with the next notification about to apply it, or the lamp has it
  and nothing under way will change it (`Heeded`).
- `DimmersAreShown`, `BlindsAreShown`: the last report under way tells the
  device's values and faults (`DimmerInv`, `BlindTracked`). With none under way they
  are shown; a dimmer's level is, as soon as every value still being sent is
  the one it already has (`DimLanded`).
- `BlindsGoWhereSent`: `BlindObeys`. The value wanted is under way with nothing
  for its axis behind it, or the blind has it as its goal (`BlindHeeded`).
- `NamesAreShown`, `NamesGoWhereSent`: `NameShown` and `NameObeys`. `NameInv`: the last report under way tells
  the name; with none, the label is right once every name still being sent is the
  one already set (`NamesLanded`); the name wanted is the last one sent, or set (`NameHeeded`).
- `CoversAreShown`, `CoversGoWhereSent`: `CoveringShown` and `CoveringObeys`. `CoverInv`: the
  last report under way tells positions and movement; with none, they are shown, unless a
  notification that will make the blind move is pending. The value wanted is
  the newest one under way with something that applies it behind it, or is staged at the
  blind with such a notification pending, or is reached with no other value staged.

- `ButtonsAlwaysKept`: `ButtonsKept`, for any number of inputs in any order. The induction over the inputs is stated of a
  set of natural numbers and follows from its complement having no least member (`AllNaturals`). Sensors and binary
  inputs add no button and leave nothing waiting (`Bare`). After each button `HalfWay` holds: every button up to it has its
  place and is alone there or with its other half (`AllPlaced`), but for a first half, which waits in `dev`. The last
  button is no first half when the rockers are complete.
- `DevicesTypeCorrect`: `TypeOK` of all kinds together. It is not inductive: what a report shows has a type because
  of what was put under way, which the invariants above say of each kind, so the proof takes all of them as known
  before and after the step, and has one lemma per component.

`CCDevicesProofs` begins with the lemmas about what is appended to and taken from a queue (`PushedLast`,
`LastReported`) on which these proofs stand. `ColorControlProofs` and `WindowCoveringProofs` extend it, and
`DevicesProofs` extends both.

Assumptions: `BoundsAssumption`, `IdentifyAssumption`, `ButtonAssumption`, `FanAssumption`,
`SensorAssumption`, `CoverAssumption`, `ColorAssumption`, `CCAssumption`, `RoomsAssumption`, `NameAssumption`,
`KindsAssumption`, `DescriptionsAssumption`, all evaluated by TLC in the run `devices`: bounds are naturals,
descriptions list the types of their inputs, values that come back short are values, and the names that stand for nothing are none of the
constants.

Only model-checked: `HandlerEnds`, `P44Discovered` and `IdentifyEnds`, which are liveness and out of the prover's
reach. Every other property of a passing run is stated by a theorem.

## Plan

1. done: endpoint assignment, its abstract registry, and its proofs.
2. done: startup protocol, P44 and CC adapters, their composition.
3. done: level control with on/off, and its proofs.
4. done: color control, without scenes, which are not compiled.
5. done: identify countdown, fan control and the button event sequence.
6. done: zones, endpoint lists and actions.
7. done: window coverings, sensors, boolean inputs, CC devices, what a description becomes.
8. done: names of devices; what the gateways are told of the bridge.
9. done: proofs of the registry refinement and of what the devices show and do, window coverings and names
   included.
10. left: transition times of level and color, the on/off-only device, the illuminance sensor and the
    limits of measured values.
11. done: proofs of `Bridge` and of `Commissioning`.
12. done: proofs of `TypeOK`, `ClicksCounted` and `ButtonsKept` of `Devices`.

## What the code does besides

Seen while modelling, built into the modules as the code does it, and without a run of its own:

- A composed P44 device takes over neither reachability nor name nor zone from a push, so one that stops being
  bridgeable stays reachable (`p44devices.cpp` 245;
  `P44Push`, `NameReported`, `ZonePushIgnored`).
- An item deleted before the stack has started gets an enabled endpoint at the start: disabling it has no effect
  before it has one (`p44mbrd_main.cpp` 713; `early`).
- A Move with a rate other than 0 does not ask the options: it dims a device that is off, and the Stop without on/off
  that should end it is refused (`devicelevelcontrol.cpp` 287; `Move`).
- Every bit of the effective options counts as ExecuteIfOff (`devicelevelcontrol.cpp` 181; `ShouldExecute`).
- After an On that sent nothing, because the light was at OnLevel already, Off sends nothing at the minimum either
  (`devicelevelcontrol.cpp` 97, 396; `Commanded`).
- A press whose state changes to a hold at the same position tells no LongPress, as the position is the one shown
  (`p44devices.cpp` 1002; `Evaluated`).
- Of several button states in one message only that of the first position is evaluated (`p44devices.cpp` 1058).
- A P44 device does not remember the name it was given at the vdcd: a client that then writes the
  former name back has it accepted but not sent (`p44devices.cpp` 80, 215).
- A CC dimmer told to dim down, or to stop dimming, is sent a value that does not tell the direction:
  down dims up, and stop dims down (`ccdevices.cpp` 217; `Dim`).
- A CC blind that is stopped keeps a target it has not reached, though 447-450 say
  that the target is set first when movement stops (`ccdevices.cpp` 467).
- A reconnect during the startup tells the vdcd that the bridge runs when the adapter has
  devices (`p44bridge.cpp` 743; `ReconnectVdc`).
- At the end the connections are closed (`p44mbrd_main.cpp` 258) before the adapters are told that the
  stack stops (1136), so the vdcd never knows (`Cleanup`).
- A commissioned bridge answers the CC gateway's request for the status from a member that was never
  set (`ccbridge.h` 52, `ccbridge.cpp` 470), until a window opens; hence `ccReported`.
- A fan's current percentage stays 0 from the installation to the first report, so
  switching off a fan that runs by then is dropped (`devicefancontrol.cpp` 99).
- Two steps of a fan before its report ask for the same stage.
- MultiPressComplete reports position 0, as the position has been released by then.
- A tilt command sends the lift's target again, which may be older than a movement
  at the blind itself.
- What a device did while the connection was down is not read when it is back.
- `MaxMeasuredValue` is computed from the minimum (`sensordevices.cpp` 71).
- A device that is bridged later is in no room's list until its zone is
  renamed, and one that moves stays in its old one.

## Not modelled

More than 26,000 of the implementation's 42,000 lines are the generated D-Bus
interface of BlueZ in `src/xcode-include`, and several thousand more are
generated by ZAP: they are not the program's own logic, and nothing in them is
worth a model. Of the code of the program itself these are left out:

- Scenes of the color control: `MATTER_DM_PLUGIN_SCENES` is not defined. Its Move,
  Step and Stop commands are not implemented. The auto mode of a fan needs a
  delegate nobody sets.
- The initialization of the SDK, attestation, the command line, factory data, certificates, logging,
  attribute strings: they hold no state that other parts depend on, or are calls
  into the Matter SDK.
- Vendor and product information: copied once, at the installation.
- The on/off-only output, and the CC on/off devices: one attribute that follows one value.

The SDK, the vdcd and the JSON-RPC server are modelled only as far as the code depends on
them; those definitions are marked external in `PROJECT.json`.
