----------------------------- MODULE MCDevices -----------------------------
(* Small instances of Devices. *)
EXTENDS Devices

CONSTANTS d1, z1, z2

MCFanSpeeds == {0, 58, 101, 200}

MCSensorValues == {-14, -5, 1234, 1235}

\* Idle, or the first half in any phase, or the second one in the middle of a
\* sequence.
MCButtonStarts ==
  LET doing(phase, n) == [phase |-> phase, presses |-> n]
  IN {[p \in Position |-> IF p = 1 THEN at ELSE Idle] :
        at \in {Idle, doing("down", 1), doing("down", 2), doing("up", 1), doing("held", 1)}}
     \cup {[p \in Position |-> IF p = 2 THEN doing("down", 2) ELSE Idle]}

\* The vdcd need not know the value of an axis.
MCCovers ==
  {[axes |-> {"lift"}, values |-> [Nothing EXCEPT !["lift"] = 1]],
   [axes |-> Axis, values |-> [Nothing EXCEPT !["tilt"] = 1]]}

MCLamps ==
  {[mode |-> "unknown", val |-> [k \in Component |-> IF k \in {"hue", "x"} THEN 1 ELSE 0]]}

MCBlinds ==
  {[venetian |-> v, awning |-> a, feedback |-> v] : v, a \in BOOLEAN} \ [venetian : {TRUE}, awning : {TRUE}, feedback : {TRUE}]

MCRoomPlans ==
  {[d \in Initial \cup Later |-> IF d = d1 THEN z1 ELSE z2],
   [d \in Initial \cup Later |-> IF d = d1 THEN z1 ELSE IF d \in Initial THEN Global ELSE z2]}

\* Outputs with few inputs, and buttons in any sequence.
Described(h, b, gs, f, ss, bs) ==
  [hint |-> h, behaviour |-> b, groups |-> gs, output |-> f, sensors |-> ss,
   binaries |-> <<"window handle", "motion">>, buttons |-> bs]

ButtonTypes == [type : {"single"}, element : {"center"}]
               \cup [type : {"2way"}, element : {"up", "down", "center"}]

MCDescriptions ==
  {Described(h, b, gs, f, <<"temperature">>, <<>>) :
     h \in Hints, b \in Behaviours, gs \in {{}, {Yellow}, {Grey}, {Vent}, {Yellow, Grey}}, f \in Functions}
  \cup {Described("none", "output", {}, "none", <<>>, bs) :
          bs \in UNION {[1 .. n -> ButtonTypes] : n \in 0 .. 4}}
=============================================================================
