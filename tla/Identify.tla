------------------------------ MODULE Identify ------------------------------
(***************************************************************************)
(* The Identify cluster of every bridged device                            *)
(* (IdentifiableDevice in src/src/devices/device.cpp): a countdown in      *)
(* p44mbrd beside the one of the device.                                   *)
(***************************************************************************)
EXTENDS DeviceLink

CONSTANT MaxIdentify    \* bound: seconds a client asks for

ASSUME IdentifyAssumption == MaxIdentify \in Nat

VARIABLES
  identifyTime,   \* mIdentifyTime
  tickTimer,      \* mIdentifyTickTimer: the seconds its callback will set, or Off
  identifies      \* external: the device blinks or beeps

identifyVars == <<identifyTime, tickTimer, identifies>>

Off == -1

IdentifyTypeOK ==
  /\ identifyTime \in 0 .. MaxIdentify
  /\ tickTimer \in {Off} \cup (0 .. MaxIdentify - 1)
  /\ identifies \in BOOLEAN

IdentifyInit == identifyTime = 0 /\ tickTimer = Off /\ identifies = FALSE

BugRearm(seconds) == IF seconds > 0 THEN seconds ELSE Off   \* the same second again

\* identifyTick's end: the timer for the second after this one.
Rearm(seconds) == IF seconds > 0 THEN seconds - 1 ELSE Off

BugStartTicker(seconds) ==   \* a running timer is cancelled, not started again
  IF seconds = identifyTime THEN UNCHANGED <<identifyTime, tickTimer, toDevice>>
  ELSE /\ identifyTime' = seconds
       /\ tickTimer' = IF identifyTime = 0 THEN Rearm(seconds) ELSE Off
       /\ Notify(<<[identify |-> IF seconds = 0 THEN Off ELSE seconds]>>)

\* updateIdentifyTime with the bridged flag, for the Identify command and for a
\* written IdentifyTime; P44_IdentifiableImpl::identify sends it to the device,
\* or to the bridge itself when the device cannot identify.
UpdateIdentifyTime(seconds) ==
  IF seconds = identifyTime THEN UNCHANGED <<identifyTime, tickTimer, toDevice>>
  ELSE /\ identifyTime' = seconds
       /\ tickTimer' = Rearm(seconds)
       /\ Notify(<<[identify |-> IF seconds = 0 THEN Off ELSE seconds]>>)

IdentifyCommand(seconds) ==
  /\ Command
  /\ UpdateIdentifyTime(seconds)
  /\ UNCHANGED identifies

\* identifyTick, from the timer.
IdentifyTick ==
  /\ tickTimer # Off
  /\ identifyTime' = IF tickTimer < identifyTime THEN tickTimer ELSE identifyTime
  /\ tickTimer' = Rearm(identifyTime')
  /\ UNCHANGED <<identifies, link>>

\* External: the device starts, or stops on a duration below 0.
DeviceIdentify(seconds) ==
  /\ Deliver([identify |-> seconds], <<>>)
  /\ identifies' = (seconds > 0)
  /\ UNCHANGED <<identifyTime, tickTimer>>

\* External: the device's own time is over.
DeviceIdentifyEnds ==
  /\ identifies /\ identifies' = FALSE
  /\ UNCHANGED <<identifyTime, tickTimer, link>>

IdentifyNext ==
  \/ \E seconds \in 0 .. MaxIdentify : IdentifyCommand(seconds)
  \/ IdentifyTick
  \/ \E seconds \in {Off} \cup (1 .. MaxIdentify) : DeviceIdentify(seconds)
  \/ DeviceIdentifyEnds
  \/ (LinkLost \/ LinkReconnect) /\ UNCHANGED identifyVars

---------------------------------------------------------------------------

\* However commands, writes and ticks follow each other there is one countdown:
\* the timer runs exactly while IdentifyTime is above 0, and will set the
\* second below it (377-402).
CountdownMatches == tickTimer = Rearm(identifyTime)

\* Identifying ends again, even when commands extend it.
IdentifyEnds == []<>(identifyTime = 0)
=============================================================================
