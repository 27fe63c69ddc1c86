------------------------- MODULE WindowCoveringProofs -------------------------
(* The blinds of the vdcd go where they are sent and are shown where they  *)
(* are, for every number of steps, commands and changes.                   *)
EXTENDS CCDevicesProofs

---------------------------------------------------------------------------
(* Notifications on their way.                                             *)

CoverValues == [Axis -> Position100ths \cup {NoPosition}]
CoverSends == [channel : Axis, value : Position100ths, now : BOOLEAN] \cup [scene : {"stop"}]
CoverReports == [value : CoverValues, moving : BOOLEAN, obstacle : BOOLEAN, transitional : CoverValues]

IsValue(n) == "channel" \in DOMAIN n
Concerns(n, a) == ~IsValue(n) \/ n.channel = a
Applies(n) == IsValue(n) /\ n.now
Carries(n, a, v) == IsValue(n) /\ n.channel = a /\ n.value = v

\* No notification of q is for axis a; some notification makes the blind move.
Silent(q, a) == \A j \in 1 .. Len(q) : ~Concerns(q[j], a)
Pending(q) == \E j \in 1 .. Len(q) : Applies(q[j])

\* The last notification for axis a carries v, and is applied from the queue.
Newest(q, a, v, i) ==
  i \in 1 .. Len(q) /\ Carries(q[i], a, v) /\ \A j \in i + 1 .. Len(q) : ~Concerns(q[j], a)
UnderWay(q, a, v) ==
  \E i \in 1 .. Len(q) : Newest(q, a, v, i) /\ \E k \in i .. Len(q) : Applies(q[k])

---------------------------------------------------------------------------
(* The invariant.                                                          *)

\* The value is staged until another one is applied, or applied.
Landed(q, a, v, st, val) ==
  /\ Silent(q, a)
  /\ \/ st[a] = v /\ Pending(q)
     \/ val[a] = v /\ st[a] \in {NoPosition, v}

CoverHeeded(a) ==
  coverWanted[a] # NoPosition =>
    /\ linkUp /\ (a = "tilt" => "tilt" \in axes)
    /\ UnderWay(toDevice, a, coverWanted[a]) \/ Landed(toDevice, a, coverWanted[a], staged, value)

ShowsCover ==
  \A a \in axes : value[a] # NoPosition =>
    current[a] = Bridge2Matter(value[a]) /\ target[a] = Bridge2Matter(value[a])

\* The last report under way tells values and movement; without one the blind
\* at rest is shown where it is unless it is about to move.
CoverTracked ==
  /\ ~linkUp => fromDevice = <<>> /\ ~heard
  /\ fromDevice # <<>> => /\ fromDevice[Len(fromDevice)].value = value
                          /\ fromDevice[Len(fromDevice)].moving = moving
  /\ fromDevice = <<>> /\ heard /\ coverKnown /\ ~moving => ShowsCover \/ Pending(toDevice)

CoverTyped ==
  /\ axes \subseteq Axis /\ reversed \in BOOLEAN /\ moving \in BOOLEAN
  /\ target \in CoverValues /\ current \in CoverValues
  /\ value \in CoverValues /\ staged \in CoverValues /\ coverWanted \in CoverValues

CoverInv ==
  /\ CoverTyped
  /\ Is("cover") => /\ linkUp \in BOOLEAN
                    /\ toDevice \in Seq(CoverSends) /\ fromDevice \in Seq(CoverReports)
                    /\ CoverTracked /\ \A a \in Axis : CoverHeeded(a)
  /\ ~Is("cover") => coverWanted = Nothing /\ ShowsCover

---------------------------------------------------------------------------
(* Lemmas about the notifications on their way.                            *)

\* A notification is added.
LEMMA Appends ==
  ASSUME NEW q \in Seq(CoverSends), NEW n \in CoverSends, NEW a, NEW v
  PROVE  /\ Append(q, n) \in Seq(CoverSends)
         /\ Pending(q) => Pending(Append(q, n))
         /\ Applies(n) => Pending(Append(q, n))
         /\ Silent(q, a) /\ ~Concerns(n, a) => Silent(Append(q, n), a)
         /\ UnderWay(q, a, v) /\ ~Concerns(n, a) => UnderWay(Append(q, n), a, v)
         /\ \A i : Newest(q, a, v, i) /\ ~Concerns(n, a) /\ Applies(n) => UnderWay(Append(q, n), a, v)
         /\ Carries(n, a, v) => Newest(Append(q, n), a, v, Len(q) + 1)
         /\ Carries(n, a, v) /\ Applies(n) => UnderWay(Append(q, n), a, v)
<1> DEFINE p == Append(q, n)
<1>1. /\ p \in Seq(CoverSends) /\ Len(q) \in Nat /\ Len(p) = Len(q) + 1 /\ p[Len(q) + 1] = n
      /\ \A j \in 1 .. Len(q) : p[j] = q[j]
  OBVIOUS
<1> HIDE DEF p
<1>2. /\ \A j \in 1 .. Len(q) : j \in 1 .. Len(p)
      /\ Len(q) + 1 \in 1 .. Len(p)
      /\ \A j \in 1 .. Len(p) : j \in 1 .. Len(q) \/ j = Len(q) + 1
  BY <1>1
<1>3. (Pending(q) => Pending(p)) /\ (Applies(n) => Pending(p))
  BY <1>1, <1>2 DEF Pending
<1>4. Silent(q, a) /\ ~Concerns(n, a) => Silent(p, a)
  BY <1>1, <1>2 DEF Silent
<1>5. ASSUME NEW i, Newest(q, a, v, i), ~Concerns(n, a) PROVE Newest(p, a, v, i)
  <2>1. i \in 1 .. Len(q) /\ Carries(q[i], a, v) /\ \A j \in i + 1 .. Len(q) : ~Concerns(q[j], a)
    BY <1>5 DEF Newest
  <2>2. ASSUME NEW j \in i + 1 .. Len(p) PROVE ~Concerns(p[j], a)
    <3>1. CASE j = Len(q) + 1 BY <1>1, <1>5, <3>1
    <3>2. CASE j # Len(q) + 1
      <4>1. j \in i + 1 .. Len(q) /\ j \in 1 .. Len(q) BY <1>1, <2>1, <3>2
      <4>2. QED BY <1>1, <2>1, <4>1
    <3>3. QED BY <3>1, <3>2
  <2>3. QED BY <1>1, <1>2, <2>1, <2>2 DEF Newest
<1>6. ASSUME UnderWay(q, a, v), ~Concerns(n, a) PROVE UnderWay(p, a, v)
  <2>1. PICK i \in 1 .. Len(q) : Newest(q, a, v, i) /\ \E k \in i .. Len(q) : Applies(q[k])
    BY <1>6 DEF UnderWay
  <2>2. PICK k \in i .. Len(q) : Applies(q[k]) BY <2>1
  <2>3. k \in i .. Len(p) /\ k \in 1 .. Len(q) BY <1>1
  <2>4. Applies(p[k]) BY <1>1, <2>2, <2>3
  <2>5. QED BY <1>2, <1>5, <1>6, <2>1, <2>3, <2>4 DEF UnderWay
<1>7. ASSUME NEW i, Newest(q, a, v, i), ~Concerns(n, a), Applies(n) PROVE UnderWay(p, a, v)
  <2>1. i \in 1 .. Len(q) BY <1>7 DEF Newest
  <2>2. Len(q) + 1 \in i .. Len(p) BY <1>1, <2>1
  <2>3. QED BY <1>1, <1>2, <1>5, <1>7, <2>1, <2>2 DEF UnderWay
<1>8. ASSUME Carries(n, a, v) PROVE Newest(p, a, v, Len(q) + 1)
  <2>1. (Len(q) + 1) + 1 .. Len(p) = {} BY <1>1
  <2>2. QED BY <1>1, <1>2, <1>8, <2>1 DEF Newest
<1>9. ASSUME Carries(n, a, v), Applies(n) PROVE UnderWay(p, a, v)
  <2>1. Len(q) + 1 \in Len(q) + 1 .. Len(p) BY <1>1
  <2>2. QED BY <1>1, <1>2, <1>8, <1>9, <2>1 DEF UnderWay
<1>10. QED BY <1>1, <1>3, <1>4, <1>6, <1>7, <1>8, <1>9 DEF p

\* The first notification is taken.
LEMMA Takes ==
  ASSUME NEW q \in Seq(CoverSends), q # <<>>, NEW a, NEW v
  PROVE  /\ Head(q) \in CoverSends /\ Tail(q) \in Seq(CoverSends)
         /\ Pending(q) => Applies(Head(q)) \/ Pending(Tail(q))
         /\ Silent(q, a) => ~Concerns(Head(q), a) /\ Silent(Tail(q), a)
         /\ UnderWay(q, a, v) =>
              \/ UnderWay(Tail(q), a, v)
              \/ /\ Carries(Head(q), a, v) /\ Silent(Tail(q), a)
                 /\ Applies(Head(q)) \/ Pending(Tail(q))
<1> DEFINE p == Tail(q)
<1>1. /\ Head(q) \in CoverSends /\ p \in Seq(CoverSends) /\ Head(q) = q[1] /\ Len(q) \in Nat \ {0}
      /\ Len(p) = Len(q) - 1 /\ \A j \in 1 .. Len(p) : p[j] = q[j + 1]
  OBVIOUS
<1> HIDE DEF p
<1>2. /\ 1 \in 1 .. Len(q)
      /\ \A j \in 1 .. Len(q) : j # 1 => j - 1 \in 1 .. Len(p) /\ p[j - 1] = q[j]
      /\ \A j \in 1 .. Len(p) : j + 1 \in 1 .. Len(q)
  <2>1. ASSUME NEW j \in 1 .. Len(q), j # 1 PROVE j - 1 \in 1 .. Len(p) /\ p[j - 1] = q[j]
    <3>1. j - 1 \in 1 .. Len(p) /\ (j - 1) + 1 = j BY <1>1, <2>1
    <3>2. QED BY <1>1, <3>1
  <2>2. QED BY <1>1, <2>1
<1>3. Pending(q) => Applies(Head(q)) \/ Pending(p)
  BY <1>1, <1>2 DEF Pending
<1>4. Silent(q, a) => ~Concerns(Head(q), a) /\ Silent(p, a)
  BY <1>1, <1>2 DEF Silent
<1>5. ASSUME UnderWay(q, a, v)
      PROVE  \/ UnderWay(p, a, v)
             \/ Carries(Head(q), a, v) /\ Silent(p, a) /\ (Applies(Head(q)) \/ Pending(p))
  <2>1. PICK i \in 1 .. Len(q) : Newest(q, a, v, i) /\ \E k \in i .. Len(q) : Applies(q[k])
    BY <1>5 DEF UnderWay
  <2>2. PICK k \in i .. Len(q) : Applies(q[k]) BY <2>1
  <2>3. Carries(q[i], a, v) /\ \A j \in i + 1 .. Len(q) : ~Concerns(q[j], a)
    BY <2>1 DEF Newest
  <2>4. CASE i = 1
    <3>1. ASSUME NEW j \in 1 .. Len(p) PROVE ~Concerns(p[j], a)
      <4>1. j + 1 \in i + 1 .. Len(q) BY <1>1, <2>4
      <4>2. QED BY <1>1, <2>3, <4>1
    <3>2. k \in 1 .. Len(q) BY <1>1, <2>4
    <3>3. Pending(q) BY <2>2, <3>2 DEF Pending
    <3>4. QED BY <1>1, <1>3, <2>3, <2>4, <3>1, <3>3 DEF Silent
  <2>5. CASE i # 1
    <3>1. i - 1 \in 1 .. Len(p) /\ p[i - 1] = q[i] BY <1>2, <2>5
    <3>2. ASSUME NEW j \in (i - 1) + 1 .. Len(p) PROVE ~Concerns(p[j], a)
      <4>1. j + 1 \in i + 1 .. Len(q) /\ j \in 1 .. Len(p) BY <1>1
      <4>2. QED BY <1>1, <2>3, <4>1
    <3>3. k \in 1 .. Len(q) /\ k # 1 /\ k - 1 \in i - 1 .. Len(p) BY <1>1, <2>5
    <3>4. Applies(p[k - 1]) BY <1>2, <2>2, <3>3
    <3>5. Newest(p, a, v, i - 1) BY <2>3, <3>1, <3>2 DEF Newest
    <3>6. QED BY <3>1, <3>3, <3>4, <3>5 DEF UnderWay
  <2>6. QED BY <2>4, <2>5
<1>6. QED BY <1>1, <1>3, <1>4, <1>5 DEF p

---------------------------------------------------------------------------
(* What a command sends.                                                   *)

LEMMA CoverRange ==
  ASSUME CoverAssumption
  PROVE  /\ NoPosition \notin Position100ths /\ 0 \in Position100ths /\ CoverMax \in Position100ths
         /\ Nothing \in CoverValues /\ \A a \in Axis : Nothing[a] = NoPosition
         /\ \A v \in Position100ths :
              /\ Matter2Bridge(v) \in Position100ths /\ Bridge2Matter(v) \in Position100ths
              /\ v \in {Matter2Bridge(Bridge2Matter(v)), Matter2Bridge(Bridge2Matter(v) + 1)}
<1>1. NoPosition \notin Position100ths /\ 0 \in Position100ths /\ CoverMax \in Position100ths
  BY CoverAssumption DEF NoPosition, Position100ths
<1>2. Nothing \in CoverValues /\ \A a \in Axis : Nothing[a] = NoPosition
  BY DEF Nothing, CoverValues
<1>3. ASSUME NEW v \in Position100ths
      PROVE  /\ Matter2Bridge(v) \in Position100ths /\ Bridge2Matter(v) \in Position100ths
             /\ v \in {Matter2Bridge(Bridge2Matter(v)), Matter2Bridge(Bridge2Matter(v) + 1)}
  <2>1. Turned(v) \in Position100ths /\ Matter2Bridge(v) \in Position100ths
        /\ Matter2Bridge(Turned(v)) = v
    BY CoverAssumption DEF Turned, Matter2Bridge, Position100ths
  <2>2. \A s \in CoverShort : s - 1 \in Position100ths /\ (s - 1) + 1 = s
    BY CoverAssumption DEF Position100ths
  <2>3. QED BY <2>1, <2>2 DEF Bridge2Matter
<1>4. QED BY <1>1, <1>2, <1>3

\* A movement sends the value of every axis that has one, and makes the blind
\* move.
LEMMA MovementSends ==
  ASSUME CoverAssumption, linkUp, toDevice \in Seq(CoverSends), NEW dest \in CoverValues,
         NEW a \in Axis, a \in axes, dest[a] # NoPosition, StartMovement(dest)
  PROVE  /\ toDevice' \in Seq(CoverSends) /\ Pending(toDevice')
         /\ \A b \in Axis : dest[b] # NoPosition /\ (b = "tilt" => "tilt" \in axes) =>
              UnderWay(toDevice', b, Matter2Bridge(dest[b]))
<1> DEFINE tilt == dest["tilt"] # NoPosition /\ "tilt" \in axes
           lift == dest["lift"] # NoPosition
           t == [channel |-> "tilt", value |-> Matter2Bridge(dest["tilt"]), now |-> ~lift]
           l == [channel |-> "lift", value |-> Matter2Bridge(dest["lift"]), now |-> TRUE]
           q == IF tilt THEN Append(toDevice, t) ELSE toDevice
<1>1. tilt \/ lift BY DEF Axis
<1>2. \A b \in Axis : dest[b] # NoPosition => Matter2Bridge(dest[b]) \in Position100ths
  BY CoverRange DEF CoverValues
<1>3. (tilt => t \in CoverSends) /\ (lift => l \in CoverSends)
  BY <1>2 DEF CoverSends, Axis
<1>4. toDevice' = IF lift THEN Append(q, l) ELSE q
  <2>1. toDevice' = toDevice \o ((IF tilt THEN <<t>> ELSE <<>>) \o (IF lift THEN <<l>> ELSE <<>>))
    <3>1. "tilt" \in axes => TiltFirst(dest) = IF tilt THEN <<t>> ELSE <<>>
      BY DEF TiltFirst, ToChannel
    <3>2. LiftThen(dest) = IF lift THEN <<l>> ELSE <<>> BY DEF LiftThen, ToChannel
    <3> HIDE DEF t, l
    <3>3. QED BY <3>1, <3>2 DEF StartMovement, Notify
  <2> HIDE DEF t, l, tilt, lift
  <2>2. CASE tilt /\ lift
    <3>1. toDevice' = toDevice \o (<<t>> \o <<l>>) BY <2>1, <2>2
    <3>2. toDevice \o (<<t>> \o <<l>>) = Append(Append(toDevice, t), l) BY <1>3, <2>2
    <3>3. QED BY <2>2, <3>1, <3>2 DEF q
  <2>3. CASE tilt /\ ~lift
    <3>1. toDevice' = toDevice \o (<<t>> \o <<>>) BY <2>1, <2>3
    <3>2. toDevice \o (<<t>> \o <<>>) = Append(toDevice, t) BY <1>3, <2>3
    <3>3. QED BY <2>3, <3>1, <3>2 DEF q
  <2>4. CASE ~tilt /\ lift
    <3>1. toDevice' = toDevice \o (<<>> \o <<l>>) BY <2>1, <2>4
    <3>2. toDevice \o (<<>> \o <<l>>) = Append(toDevice, l) BY <1>3, <2>4
    <3>3. QED BY <2>4, <3>1, <3>2 DEF q
  <2>5. QED BY <1>1, <2>2, <2>3, <2>4
<1>5. q \in Seq(CoverSends) BY <1>3
<1>6. /\ lift => Applies(l) /\ Carries(l, "lift", Matter2Bridge(dest["lift"])) /\ ~Concerns(l, "tilt")
      /\ tilt => Carries(t, "tilt", Matter2Bridge(dest["tilt"]))
      /\ tilt /\ ~lift => Applies(t)
  BY DEF Applies, Carries, Concerns, IsValue
<1> HIDE DEF t, l
<1>7. CASE lift
  <2>1. toDevice' = Append(q, l) BY <1>4, <1>7
  <2>2. Append(q, l) \in Seq(CoverSends) /\ Pending(Append(q, l))
    BY <1>3, <1>5, <1>6, <1>7, Appends
  <2>3. UnderWay(Append(q, l), "lift", Matter2Bridge(dest["lift"]))
    BY <1>3, <1>5, <1>6, <1>7, Appends
  <2>4. ASSUME tilt PROVE UnderWay(Append(q, l), "tilt", Matter2Bridge(dest["tilt"]))
    <3>1. Newest(q, "tilt", Matter2Bridge(dest["tilt"]), Len(toDevice) + 1)
      BY <1>3, <1>6, <2>4, Appends
    <3> HIDE DEF q
    <3>2. QED BY <1>3, <1>5, <1>6, <1>7, <3>1, Appends
  <2>5. QED BY <1>7, <2>1, <2>2, <2>3, <2>4 DEF Axis
<1>8. CASE ~lift
  <2>1. tilt /\ toDevice' = Append(toDevice, t) BY <1>1, <1>4, <1>8
  <2>2. /\ Append(toDevice, t) \in Seq(CoverSends) /\ Pending(Append(toDevice, t))
        /\ UnderWay(Append(toDevice, t), "tilt", Matter2Bridge(dest["tilt"]))
    BY <1>3, <1>6, <1>8, <2>1, Appends
  <2>3. QED BY <1>8, <2>1, <2>2 DEF Axis
<1>9. QED BY <1>7, <1>8

---------------------------------------------------------------------------
(* Every step of the blind keeps the invariant.                            *)

\* What does not report, and keeps what is shown or makes the blind move.
LEMMA StaysTracked ==
  ASSUME CoverTracked, UNCHANGED <<linkUp, fromDevice, heard, value, moving>>,
         coverKnown' => coverKnown, Pending(toDevice) => Pending(toDevice'),
         heard /\ coverKnown' =>
           UNCHANGED <<axes, reversed, current, target>> \/ Pending(toDevice')
  PROVE  CoverTracked'
BY DEF CoverTracked, ShowsCover, Bridge2Matter, Turned

\* What the blind does, and reports.
LEMMA PushTracked ==
  ASSUME CoverTracked, linkUp \in BOOLEAN, fromDevice \in Seq(CoverReports),
         UNCHANGED <<linkUp, heard>>, NEW r \in CoverReports, Push(<<r>>),
         r.value = value', r.moving = moving'
  PROVE  CoverTracked' /\ fromDevice' \in Seq(CoverReports)
<1>1. CASE linkUp
  <2>1. /\ fromDevice' \in Seq(CoverReports) /\ fromDevice' # <<>>
        /\ fromDevice'[Len(fromDevice')] = r
    BY <1>1, PushedLast
  <2>2. QED BY <1>1, <2>1 DEF CoverTracked
<1>2. CASE ~linkUp
  BY <1>2 DEF CoverTracked, Push
<1>3. QED BY <1>1, <1>2

\* A report of the state it is in.
LEMMA CoverReportTyped ==
  ASSUME CoverAssumption, NEW vs \in CoverValues, NEW m \in BOOLEAN, NEW o \in BOOLEAN,
         NEW t \in Position100ths \cup {NoPosition}
  PROVE  \E r \in CoverReports : Pushed(vs, m, o, t) = <<r>> /\ r.value = vs /\ r.moving = m
<1>1. [Nothing EXCEPT !["lift"] = t] \in CoverValues
  BY CoverRange DEF CoverValues
<1>2. [value |-> vs, moving |-> m, obstacle |-> o, transitional |-> [Nothing EXCEPT !["lift"] = t]]
        \in CoverReports
  BY <1>1 DEF CoverReports
<1>3. QED BY <1>2 DEF Pushed

\* One notification for axis a that is applied at once.
LEMMA SimpleHeeded ==
  ASSUME CoverTyped, toDevice \in Seq(CoverSends), linkUp, NEW a \in Axis, a \in axes,
         NEW v \in Position100ths, Notify(ToChannel(a, v, TRUE)), \A b \in Axis : CoverHeeded(b),
         coverWanted' = [coverWanted EXCEPT ![a] = v], UNCHANGED <<linkUp, axes, staged, value>>
  PROVE  /\ toDevice' \in Seq(CoverSends) /\ Pending(toDevice')
         /\ \A b \in Axis : CoverHeeded(b)'
<1> DEFINE n == [channel |-> a, value |-> v, now |-> TRUE]
<1>1. n \in CoverSends BY DEF CoverSends
<1>2. Applies(n) /\ Carries(n, a, v) /\ \A b \in Axis \ {a} : ~Concerns(n, b)
  BY DEF Applies, Carries, Concerns, IsValue
<1>3. toDevice' = toDevice \o <<n>> BY DEF Notify, ToChannel
<1> HIDE DEF n
<1>4. toDevice' = Append(toDevice, n) BY <1>1, <1>3
<1>5. toDevice' \in Seq(CoverSends) /\ Pending(toDevice') BY <1>1, <1>2, <1>4, Appends
<1>6. coverWanted'[a] = v /\ \A b \in Axis \ {a} : coverWanted'[b] = coverWanted[b]
  BY DEF CoverTyped, CoverValues
<1>7. ASSUME NEW b \in Axis, coverWanted'[b] # NoPosition
      PROVE  /\ b = "tilt" => "tilt" \in axes
             /\ \/ UnderWay(toDevice', b, coverWanted'[b])
                \/ Landed(toDevice', b, coverWanted'[b], staged, value)
  <2>1. CASE b = a
    <3>1. UnderWay(toDevice', a, v) BY <1>1, <1>2, <1>4, Appends
    <3>2. QED BY <1>6, <2>1, <3>1
  <2>2. CASE b # a
    <3>1. /\ b = "tilt" => "tilt" \in axes
          /\ \/ UnderWay(toDevice, b, coverWanted'[b])
             \/ Landed(toDevice, b, coverWanted'[b], staged, value)
      BY <1>6, <1>7, <2>2 DEF CoverHeeded
    <3>2. ~Concerns(n, b) BY <1>2, <2>2
    <3>3. UnderWay(toDevice, b, coverWanted'[b]) => UnderWay(toDevice', b, coverWanted'[b])
      BY <1>1, <1>4, <3>2, Appends
    <3>4. Silent(toDevice, b) => Silent(toDevice', b)
      BY <1>1, <1>4, <3>2, Appends
    <3>5. QED BY <1>5, <3>1, <3>3, <3>4 DEF Landed
  <2>3. QED BY <2>1, <2>2
<1>8. QED BY <1>5, <1>7 DEF CoverHeeded

\* The blind takes a value, and applies it with those staged, or stages it.
LEMMA TakenHeeded ==
  ASSUME CoverAssumption, CoverTyped, toDevice \in Seq(CoverSends), toDevice # <<>>,
         toDevice' = Tail(toDevice), IsValue(Head(toDevice)), NEW b \in Axis, CoverHeeded(b),
         IF Head(toDevice).now
           THEN value' = Applied(Head(toDevice).channel, Head(toDevice).value) /\ staged' = Nothing
           ELSE /\ staged' = [staged EXCEPT ![Head(toDevice).channel] = Head(toDevice).value]
                /\ UNCHANGED value,
         UNCHANGED <<linkUp, axes, coverWanted>>
  PROVE  CoverHeeded(b)'
<1>0. PICK n : n = Head(toDevice) OBVIOUS
<1> DEFINE v == coverWanted[b]
<1>1. SUFFICES ASSUME v # NoPosition
               PROVE  UnderWay(toDevice', b, v) \/ Landed(toDevice', b, v, staged', value')
  BY DEF CoverHeeded
<1>2. linkUp /\ (UnderWay(toDevice, b, v) \/ Landed(toDevice, b, v, staged, value))
  BY <1>1 DEF CoverHeeded
<1>3. n \in CoverSends /\ n.channel \in Axis /\ n.value \in Position100ths /\ n.now \in BOOLEAN
  BY <1>0 DEF CoverSends, IsValue
<1>4. /\ n.now => /\ staged' = Nothing
                  /\ value'[b] = IF b = n.channel THEN n.value
                                 ELSE IF staged[b] # NoPosition THEN staged[b] ELSE value[b]
      /\ ~n.now => /\ value' = value
                   /\ staged'[b] = IF b = n.channel THEN n.value ELSE staged[b]
  BY <1>0, <1>3 DEF Applied, CoverTyped, CoverValues
<1>5. Applies(n) <=> n.now BY <1>0 DEF Applies
<1>6. CASE Landed(toDevice, b, v, staged, value)
  <2>1. ~Concerns(n, b) /\ Silent(toDevice', b) BY <1>0, <1>6, Takes DEF Landed
  <2>2. b # n.channel BY <2>1 DEF Concerns
  <2>3. Pending(toDevice) => n.now \/ Pending(toDevice') BY <1>0, <1>5, Takes
  <2>4. Nothing[b] = NoPosition BY CoverRange
  <2>5. CASE n.now
    <3>1. value'[b] = v BY <1>1, <1>4, <1>6, <2>2, <2>5 DEF Landed
    <3>2. QED BY <1>4, <2>1, <2>4, <2>5, <3>1 DEF Landed
  <2>6. CASE ~n.now
    BY <1>4, <1>6, <2>1, <2>2, <2>3, <2>6 DEF Landed
  <2>7. QED BY <2>5, <2>6
<1>7. CASE UnderWay(toDevice, b, v) /\ ~UnderWay(toDevice', b, v)
  <2>1. Carries(n, b, v) /\ Silent(toDevice', b) /\ (n.now \/ Pending(toDevice'))
    BY <1>0, <1>5, <1>7, Takes
  <2>2. b = n.channel /\ n.value = v BY <2>1 DEF Carries
  <2>3. Nothing[b] = NoPosition BY CoverRange
  <2>4. CASE n.now
    <3>1. value'[b] = v BY <1>4, <2>2, <2>4
    <3>2. QED BY <1>4, <2>1, <2>3, <2>4, <3>1 DEF Landed
  <2>5. CASE ~n.now
    <3>1. staged'[b] = v BY <1>4, <2>2, <2>5
    <3>2. QED BY <2>1, <2>5, <3>1 DEF Landed
  <2>6. QED BY <2>4, <2>5
<1>8. QED BY <1>2, <1>6, <1>7

LEMMA CoverStep ==
  ASSUME CoverAssumption, CoverInv, Is("cover"), UNCHANGED kind, CoverNext
  PROVE  CoverInv'
<1>0. /\ CoverTyped /\ linkUp \in BOOLEAN /\ toDevice \in Seq(CoverSends)
      /\ fromDevice \in Seq(CoverReports) /\ CoverTracked /\ (\A a \in Axis : CoverHeeded(a))
      /\ Is("cover")'
  BY DEF CoverInv, Is
<1> SUFFICES /\ CoverTyped' /\ linkUp' \in BOOLEAN /\ toDevice' \in Seq(CoverSends)
             /\ fromDevice' \in Seq(CoverReports) /\ CoverTracked'
             /\ \A a \in Axis : CoverHeeded(a)'
  BY <1>0 DEF CoverInv
<1>h. ASSUME UNCHANGED <<linkUp, toDevice, axes, staged, value, coverWanted>>
      PROVE  \A a \in Axis : CoverHeeded(a)'
  BY <1>0, <1>h DEF CoverHeeded
<1>n. ASSUME coverWanted' = Nothing
      PROVE  coverWanted' \in CoverValues /\ \A a \in Axis : CoverHeeded(a)'
  BY <1>n, CoverRange DEF CoverHeeded
<1>1. ASSUME NEW a \in Axis, NEW p \in Position100ths, GoTo(a, p)
      PROVE  /\ CoverTyped' /\ linkUp' \in BOOLEAN /\ toDevice' \in Seq(CoverSends)
             /\ fromDevice' \in Seq(CoverReports) /\ CoverTracked'
             /\ \A b \in Axis : CoverHeeded(b)'
  <2>1. /\ a \in axes /\ target' = [target EXCEPT ![a] = p] /\ coverWanted' = WantedAfter(a, p)
        /\ UNCHANGED <<linkUp, fromDevice, heard, axes, reversed, current, value, staged, moving,
                       coverKnown>>
    BY <1>1 DEF GoTo, Command
  <2>2. /\ target' \in CoverValues /\ target'[a] = p /\ target'[a] # NoPosition
        /\ \A b \in Axis \ {a} : target'[b] = target[b]
    BY <1>0, <2>1, CoverRange DEF CoverTyped, CoverValues
  <2>3. \A b \in Axis :
          /\ coverWanted'[b] \in Position100ths \cup {NoPosition}
          /\ coverWanted'[b] # NoPosition =>
               /\ linkUp /\ target'[b] # NoPosition
               /\ coverWanted'[b] = Matter2Bridge(target'[b])
               /\ b # a => coverWanted[b] # NoPosition
    <3> SUFFICES ASSUME NEW b \in Axis
                 PROVE  /\ coverWanted'[b] \in Position100ths \cup {NoPosition}
                        /\ coverWanted'[b] # NoPosition =>
                             /\ linkUp /\ target'[b] # NoPosition
                             /\ coverWanted'[b] = Matter2Bridge(target'[b])
                             /\ b # a => coverWanted[b] # NoPosition
      OBVIOUS
    <3>1. CASE b = a
      BY <2>1, <2>2, <3>1, CoverRange DEF WantedAfter
    <3>2. CASE b # a
      BY <1>0, <2>1, <2>2, <3>2 DEF WantedAfter, CoverTyped, CoverValues
    <3>3. QED BY <3>1, <3>2
  <2>4. coverWanted' \in CoverValues
    BY <2>1, <2>3 DEF WantedAfter, CoverValues
  <2>5. CoverTyped' BY <1>0, <2>1, <2>2, <2>4 DEF CoverTyped
  <2>6. CASE linkUp
    <3>1. StartMovement(target') BY <1>1 DEF GoTo
    <3>2. /\ toDevice' \in Seq(CoverSends) /\ Pending(toDevice')
          /\ \A b \in Axis : target'[b] # NoPosition /\ (b = "tilt" => "tilt" \in axes) =>
               UnderWay(toDevice', b, Matter2Bridge(target'[b]))
      BY <1>0, <2>1, <2>2, <2>6, <3>1, MovementSends
    <3>3. CoverTracked' BY <1>0, <2>1, <3>2, StaysTracked
    <3>4. ASSUME NEW b \in Axis, coverWanted'[b] # NoPosition
          PROVE  /\ b = "tilt" => "tilt" \in axes
                 /\ UnderWay(toDevice', b, coverWanted'[b])
      <4>1. b = "tilt" => "tilt" \in axes
        BY <1>0, <2>1, <2>3, <3>4 DEF CoverHeeded
      <4>2. QED BY <2>3, <3>2, <3>4, <4>1
    <3>5. \A b \in Axis : CoverHeeded(b)' BY <2>1, <2>6, <3>4 DEF CoverHeeded
    <3>6. QED BY <1>0, <2>1, <2>5, <3>2, <3>3, <3>5
  <2>7. CASE ~linkUp
    <3>1. toDevice' = toDevice /\ ~heard
      BY <1>0, <1>1, <2>7 DEF GoTo, StartMovement, Notify, CoverTracked
    <3>2. CoverTracked' BY <1>0, <2>1, <3>1, StaysTracked
    <3>3. \A b \in Axis : CoverHeeded(b)' BY <2>3, <2>7 DEF CoverHeeded
    <3>4. QED BY <1>0, <2>1, <2>5, <3>1, <3>2, <3>3
  <2>8. QED BY <2>6, <2>7
<1>2. ASSUME NEW a \in Axis, NEW up \in BOOLEAN, SimpleStart(a, up)
      PROVE  /\ CoverTyped' /\ linkUp' \in BOOLEAN /\ toDevice' \in Seq(CoverSends)
             /\ fromDevice' \in Seq(CoverReports) /\ CoverTracked'
             /\ \A b \in Axis : CoverHeeded(b)'
  <2> DEFINE v == Matter2Bridge(IF up THEN 0 ELSE CoverMax)
  <2>1. v \in Position100ths BY CoverRange
  <2>2. /\ a \in axes /\ Notify(ToChannel(a, v, TRUE))
        /\ coverWanted' = [coverWanted EXCEPT ![a] = IF linkUp THEN v ELSE NoPosition]
        /\ UNCHANGED <<linkUp, fromDevice, heard, axes, reversed, target, current, value, staged,
                       moving, coverKnown>>
    BY <1>2 DEF SimpleStart, Command
  <2> HIDE DEF v
  <2>3. coverWanted' \in CoverValues BY <1>0, <2>1, <2>2 DEF CoverTyped, CoverValues
  <2>4. CoverTyped' BY <1>0, <2>2, <2>3 DEF CoverTyped
  <2>5. CASE linkUp
    <3>1. coverWanted' = [coverWanted EXCEPT ![a] = v] BY <2>2, <2>5
    <3>2. /\ toDevice' \in Seq(CoverSends) /\ Pending(toDevice')
          /\ \A b \in Axis : CoverHeeded(b)'
      BY <1>0, <2>1, <2>2, <2>5, <3>1, SimpleHeeded
    <3>3. CoverTracked' BY <1>0, <2>2, <3>2, StaysTracked
    <3>4. QED BY <1>0, <2>2, <2>4, <3>2, <3>3
  <2>6. CASE ~linkUp
    <3>1. toDevice' = toDevice BY <2>2, <2>6 DEF Notify
    <3>2. CoverTracked' BY <1>0, <2>2, <3>1, StaysTracked
    <3>3. \A b \in Axis : coverWanted'[b] = NoPosition
      BY <1>0, <2>2, <2>6 DEF CoverHeeded, CoverTyped, CoverValues
    <3>4. QED BY <1>0, <2>2, <2>4, <3>1, <3>2, <3>3 DEF CoverHeeded
  <2>7. QED BY <2>5, <2>6
<1>3. CASE StopMotion
  <2>1. /\ coverWanted' = Nothing /\ Notify(<<[scene |-> "stop"]>>)
        /\ UNCHANGED <<linkUp, fromDevice, heard, axes, reversed, target, current, value, staged,
                       moving, coverKnown>>
    BY <1>3 DEF StopMotion, Command
  <2> DEFINE n == [scene |-> "stop"]
  <2>2. n \in CoverSends BY DEF CoverSends
  <2> HIDE DEF n
  <2>3. toDevice' = toDevice \/ toDevice' = Append(toDevice, n)
    BY <1>0, <2>1, <2>2 DEF Notify, n
  <2>4. toDevice' \in Seq(CoverSends) /\ (Pending(toDevice) => Pending(toDevice'))
    BY <1>0, <2>2, <2>3, Appends
  <2>5. CoverTracked' BY <1>0, <2>1, <2>4, StaysTracked
  <2>6. CoverTyped' BY <1>0, <1>n, <2>1 DEF CoverTyped
  <2>7. QED BY <1>0, <1>n, <2>1, <2>4, <2>5, <2>6
<1>4. CASE WriteMode
  <2>1. /\ reversed' = ~reversed /\ ~coverKnown'
        /\ UNCHANGED <<linkUp, fromDevice, heard, toDevice, axes, target, current, value, staged,
                       moving, coverWanted>>
    BY <1>4 DEF WriteMode, Command
  <2>2. CoverTracked' BY <1>0, <2>1, StaysTracked
  <2>3. CoverTyped' BY <1>0, <2>1 DEF CoverTyped
  <2>4. QED BY <1>0, <1>h, <2>1, <2>2, <2>3
<1>5. ASSUME fromDevice # <<>>, CoverReport(Head(fromDevice))
      PROVE  /\ CoverTyped' /\ linkUp' \in BOOLEAN /\ toDevice' \in Seq(CoverSends)
             /\ fromDevice' \in Seq(CoverReports) /\ CoverTracked'
             /\ \A b \in Axis : CoverHeeded(b)'
  <2>1. PICK got : got = Head(fromDevice) OBVIOUS
  <2>2. /\ Report(got) /\ ParseCover(got)
        /\ UNCHANGED <<linkUp, toDevice, axes, reversed, value, staged, moving, coverWanted>>
    BY <1>5, <2>1 DEF CoverReport, Report
  <2>3. /\ got \in CoverReports /\ fromDevice' \in Seq(CoverReports)
        /\ fromDevice' # <<>> => fromDevice'[Len(fromDevice')] = fromDevice[Len(fromDevice)]
        /\ fromDevice' = <<>> => got = fromDevice[Len(fromDevice)]
    <3>1. fromDevice \in Seq(CoverReports) BY <1>0
    <3>2. Report(got) BY <2>2
    <3>3. Len(fromDevice) \in Nat /\ Len(fromDevice) # 0 /\ got = fromDevice[1]
          /\ Len(fromDevice') = Len(fromDevice) - 1
      BY <1>5, <2>1, <3>1, <3>2 DEF Report
    <3>4. fromDevice' = <<>> => Len(fromDevice) = 1
      <4>1. fromDevice' = <<>> => Len(fromDevice') = 0 BY ONLY <3>1
      <4>2. QED BY ONLY <3>3, <4>1
    <3>5. fromDevice' = <<>> => got = fromDevice[Len(fromDevice)] BY ONLY <3>3, <3>4
    <3>6. QED BY ONLY <3>1, <3>2, <3>5, LastReported
  <2>4. /\ got.value \in CoverValues /\ got.transitional \in CoverValues
        /\ target' = [a \in Axis |-> IF got.value[a] # NoPosition THEN Bridge2Matter(got.value[a])
                                     ELSE target[a]]
        /\ current' = [a \in Axis |-> CurrentAfter(got, a)]
    BY <2>2, <2>3 DEF ParseCover, CoverReports
  <2>5. target' \in CoverValues
    BY <1>0, <2>4, CoverRange DEF CoverTyped, CoverValues
  <2>6. current' \in CoverValues
    <3>1. ASSUME NEW a \in Axis PROVE CurrentAfter(got, a) \in Position100ths \cup {NoPosition}
      BY <1>0, <2>4, CoverRange DEF CurrentAfter, CoverTyped, CoverValues
    <3>2. QED BY <2>4, <3>1 DEF CoverValues
  <2>7. CoverTyped' BY <1>0, <2>2, <2>5, <2>6 DEF CoverTyped
  <2>8. linkUp /\ fromDevice[Len(fromDevice)].value = value
        /\ fromDevice[Len(fromDevice)].moving = moving
    BY <1>0, <1>5 DEF CoverTracked
  <2>9. ASSUME fromDevice' = <<>>, ~moving PROVE ShowsCover'
    <3>1. got.value = value /\ ~got.moving BY <2>3, <2>8, <2>9
    <3>2. ASSUME NEW a \in axes, value[a] # NoPosition
          PROVE  current'[a] = Bridge2Matter(value[a]) /\ target'[a] = Bridge2Matter(value[a])
      <4>1. a \in Axis BY <1>0 DEF CoverTyped
      <4>2. CurrentAfter(got, a) = Bridge2Matter(value[a]) BY <3>1, <3>2 DEF CurrentAfter
      <4>3. QED BY <2>4, <3>1, <3>2, <4>1, <4>2
    <3>3. QED BY <2>2, <3>2 DEF ShowsCover, Bridge2Matter, Turned
  <2>10. CoverTracked' BY <2>2, <2>3, <2>8, <2>9 DEF CoverTracked
  <2>11. QED BY <1>0, <1>h, <2>2, <2>3, <2>7, <2>10
<1>6. ASSUME toDevice # <<>>, "channel" \in DOMAIN Head(toDevice), CoverSet(Head(toDevice))
      PROVE  /\ CoverTyped' /\ linkUp' \in BOOLEAN /\ toDevice' \in Seq(CoverSends)
             /\ fromDevice' \in Seq(CoverReports) /\ CoverTracked'
             /\ \A b \in Axis : CoverHeeded(b)'
  <2>1. PICK n : n = Head(toDevice) OBVIOUS
  <2>2. /\ n \in CoverSends /\ IsValue(n) /\ toDevice' \in Seq(CoverSends)
        /\ Pending(toDevice) => Applies(n) \/ Pending(toDevice')
        /\ toDevice' = Tail(toDevice)
        /\ UNCHANGED <<linkUp, heard, axes, reversed, target, current, coverKnown, coverWanted>>
    <3>1. toDevice' = Tail(toDevice)
          /\ UNCHANGED <<linkUp, heard, axes, reversed, target, current, coverKnown, coverWanted>>
      BY <1>6 DEF CoverSet, Deliver
    <3>2. QED BY <1>0, <1>6, <2>1, <3>1, Takes DEF IsValue
  <2>3. n.channel \in Axis /\ n.value \in Position100ths /\ n.now \in BOOLEAN
    BY <2>2 DEF CoverSends, IsValue
  <2>4. CASE n.now
    <3>1. PICK t \in {NoPosition, value["lift"]} :
            Deliver(n, Pushed(Applied(n.channel, n.value), TRUE, FALSE, t))
      BY <1>6, <2>1, <2>4 DEF CoverSet
    <3>2. value' = Applied(n.channel, n.value) /\ staged' = Nothing /\ moving' = TRUE
      BY <1>6, <2>1, <2>4 DEF CoverSet
    <3>3. value' \in CoverValues
      BY <1>0, <2>3, <3>2 DEF Applied, CoverTyped, CoverValues
    <3>4. t \in Position100ths \cup {NoPosition} BY <1>0 DEF CoverTyped, CoverValues, Axis
    <3>5. Push(Pushed(value', TRUE, FALSE, t)) BY <3>1, <3>2 DEF Deliver
    <3>6. PICK r \in CoverReports :
            Pushed(value', TRUE, FALSE, t) = <<r>> /\ r.value = value' /\ r.moving = TRUE
      BY <3>3, <3>4, CoverReportTyped
    <3>7. CoverTracked' /\ fromDevice' \in Seq(CoverReports)
      BY <1>0, <2>2, <3>2, <3>5, <3>6, PushTracked
    <3>8. CoverTyped' BY <1>0, <2>2, <3>2, <3>3, CoverRange DEF CoverTyped
    <3>9. \A b \in Axis : CoverHeeded(b)'
      BY <1>0, <1>6, <2>1, <2>2, <2>4, <3>2, TakenHeeded
    <3>10. QED BY <1>0, <2>2, <3>7, <3>8, <3>9
  <2>5. CASE ~n.now
    <3>1. /\ staged' = [staged EXCEPT ![n.channel] = n.value] /\ UNCHANGED <<value, moving>>
          /\ Push(<<>>)
      BY <1>6, <2>1, <2>5 DEF CoverSet, Deliver
    <3>2. fromDevice' = fromDevice BY <1>0, <3>1 DEF Push
    <3>3. Pending(toDevice) => Pending(toDevice') BY <2>2, <2>5 DEF Applies
    <3>4. CoverTracked' BY <1>0, <2>2, <3>1, <3>2, <3>3, StaysTracked
    <3>5. staged' \in CoverValues BY <1>0, <2>3, <3>1 DEF CoverTyped, CoverValues
    <3>6. CoverTyped' BY <1>0, <2>2, <3>1, <3>5 DEF CoverTyped
    <3>7. \A b \in Axis : CoverHeeded(b)'
      BY <1>0, <1>6, <2>1, <2>2, <2>5, <3>1, TakenHeeded
    <3>8. QED BY <1>0, <2>2, <3>2, <3>4, <3>6, <3>7
  <2>6. QED BY <2>3, <2>4, <2>5
<1>7. ASSUME NEW v \in Position100ths, CoverStop(v)
      PROVE  /\ CoverTyped' /\ linkUp' \in BOOLEAN /\ toDevice' \in Seq(CoverSends)
             /\ fromDevice' \in Seq(CoverReports) /\ CoverTracked'
             /\ \A b \in Axis : CoverHeeded(b)'
  <2> DEFINE n == [scene |-> "stop"]
  <2>1. /\ moving \/ v = value["lift"]
        /\ Deliver(n, IF moving THEN Pushed(Rests(v), FALSE, FALSE, NoPosition) ELSE <<>>)
        /\ value' = Rests(v) /\ moving' = FALSE
        /\ UNCHANGED <<axes, reversed, target, current, staged, coverKnown, coverWanted>>
    BY <1>7 DEF CoverStop
  <2>2. toDevice # <<>> /\ Head(toDevice) = n /\ toDevice' = Tail(toDevice)
        /\ UNCHANGED <<linkUp, heard>>
    BY <2>1 DEF Deliver
  <2>3. ~IsValue(n) BY DEF IsValue
  <2>4. ~Applies(n) /\ (\A b \in Axis : Concerns(n, b) /\ \A w : ~Carries(n, b, w))
    BY <2>3 DEF Applies, Concerns, Carries
  <2>5. value' \in CoverValues BY <1>0, <2>1 DEF Rests, CoverTyped, CoverValues
  <2>6. CoverTyped' BY <1>0, <2>1, <2>5 DEF CoverTyped
  <2> HIDE DEF n
  <2>7. toDevice' \in Seq(CoverSends) /\ (Pending(toDevice) => Pending(toDevice'))
    BY <1>0, <2>2, <2>4, Takes
  <2>8. ASSUME NEW b \in Axis PROVE CoverHeeded(b)'
    <3>1. ~Silent(toDevice, b) BY <1>0, <2>2, <2>4, Takes
    <3>2. UnderWay(toDevice, b, coverWanted[b]) => UnderWay(toDevice', b, coverWanted[b])
      BY <1>0, <2>2, <2>4, Takes
    <3>3. QED BY <1>0, <2>1, <2>2, <3>1, <3>2 DEF CoverHeeded, Landed
  <2>9. CASE moving
    <3>1. Push(Pushed(value', FALSE, FALSE, NoPosition)) BY <2>1, <2>9 DEF Deliver
    <3>2. PICK r \in CoverReports : Pushed(value', FALSE, FALSE, NoPosition) = <<r>>
                                    /\ r.value = value' /\ r.moving = FALSE
      BY <2>5, CoverReportTyped
    <3>3. CoverTracked' /\ fromDevice' \in Seq(CoverReports)
      BY <1>0, <2>1, <2>2, <3>1, <3>2, PushTracked
    <3>4. QED BY <1>0, <2>2, <2>6, <2>7, <2>8, <3>3
  <2>10. CASE ~moving
    <3>1. Push(<<>>) BY <2>1, <2>10 DEF Deliver
    <3>2. fromDevice' = fromDevice BY <1>0, <3>1 DEF Push
    <3>3. value' = value /\ moving' = moving
      BY <1>0, <2>1, <2>10 DEF Rests, CoverTyped, CoverValues
    <3>4. CoverTracked' BY <1>0, <2>1, <2>2, <2>7, <3>2, <3>3, StaysTracked
    <3>5. QED BY <1>0, <2>2, <2>6, <2>7, <2>8, <3>2, <3>4
  <2>11. QED BY <2>9, <2>10
<1>8. CASE CoverArrives
  <2>1. /\ moving' = FALSE /\ Push(Pushed(value', FALSE, FALSE, NoPosition))
        /\ UNCHANGED <<linkUp, toDevice, heard, axes, reversed, target, current, value, staged,
                       coverKnown, coverWanted>>
    BY <1>8 DEF CoverArrives, GoesOn
  <2>2. CoverTyped' /\ value' \in CoverValues BY <1>0, <2>1 DEF CoverTyped
  <2>3. PICK r \in CoverReports : Pushed(value', FALSE, FALSE, NoPosition) = <<r>>
                                  /\ r.value = value' /\ r.moving = FALSE
    BY <2>2, CoverReportTyped
  <2>4. CoverTracked' /\ fromDevice' \in Seq(CoverReports)
    BY <1>0, <2>1, <2>3, PushTracked
  <2>5. QED BY <1>0, <1>h, <2>1, <2>2, <2>4
<1>9. ASSUME NEW v \in Position100ths, CoverOwn(v)
      PROVE  /\ CoverTyped' /\ linkUp' \in BOOLEAN /\ toDevice' \in Seq(CoverSends)
             /\ fromDevice' \in Seq(CoverReports) /\ CoverTracked'
             /\ \A b \in Axis : CoverHeeded(b)'
  <2>1. /\ value' = Rests(v) /\ coverWanted' = Nothing /\ moving' \in BOOLEAN
        /\ \E o \in BOOLEAN : Push(Pushed(value', moving', o, NoPosition))
        /\ UNCHANGED <<linkUp, toDevice, heard, axes, reversed, target, current, staged, coverKnown>>
    BY <1>9 DEF CoverOwn, Happens
  <2>2. value' \in CoverValues BY <1>0, <2>1 DEF Rests, CoverTyped, CoverValues
  <2>3. CoverTyped' BY <1>0, <1>n, <2>1, <2>2 DEF CoverTyped
  <2>4. PICK o \in BOOLEAN : Push(Pushed(value', moving', o, NoPosition)) BY <2>1
  <2>5. PICK r \in CoverReports : Pushed(value', moving', o, NoPosition) = <<r>>
                                  /\ r.value = value' /\ r.moving = moving'
    BY <2>1, <2>2, CoverReportTyped
  <2>6. CoverTracked' /\ fromDevice' \in Seq(CoverReports)
    BY <1>0, <2>1, <2>4, <2>5, PushTracked
  <2>7. QED BY <1>0, <1>n, <2>1, <2>3, <2>6
<1>10. CASE CoverLost
  <2>1. /\ coverWanted' = Nothing /\ linkUp' = FALSE /\ heard' = FALSE
        /\ toDevice' = <<>> /\ fromDevice' = <<>>
        /\ UNCHANGED <<axes, reversed, target, current, value, staged, moving, coverKnown>>
    BY <1>10 DEF CoverLost, LinkLost
  <2>2. CoverTyped' BY <1>0, <1>n, <2>1 DEF CoverTyped
  <2>3. toDevice' \in Seq(CoverSends) /\ fromDevice' \in Seq(CoverReports) BY <2>1
  <2>4. QED BY <1>n, <2>1, <2>2, <2>3 DEF CoverTracked
<1>11. CASE LinkReconnect /\ UNCHANGED coverVars
  <2>1. /\ ~linkUp /\ linkUp' = TRUE
        /\ UNCHANGED <<toDevice, fromDevice, heard, axes, reversed, target, current, value, staged,
                       moving, coverKnown, coverWanted>>
    BY <1>11 DEF LinkReconnect, coverVars, queues
  <2>2. CoverTyped' BY <1>0, <2>1 DEF CoverTyped
  <2>3. CoverTracked' BY <1>0, <2>1 DEF CoverTracked
  <2>4. \A b \in Axis : CoverHeeded(b)' BY <1>0, <2>1 DEF CoverHeeded
  <2>5. QED BY <1>0, <2>1, <2>2, <2>3, <2>4
<1>12. QED
  BY <1>1, <1>2, <1>3, <1>4, <1>5, <1>6, <1>7, <1>8, <1>9, <1>10, <1>11 DEF CoverNext

\* It holds of the installed blind.
LEMMA CoverStarts == ASSUME Init PROVE CoverInv
<1>1. PICK c \in Covers : CoverInit(c.axes, c.values)
  BY KindsAssumption DEF Init, CoversInit
<1>2. c.axes \subseteq Axis /\ c.values \in CoverValues
  BY KindsAssumption DEF CoverValues
<1>3. /\ axes = c.axes /\ value = c.values /\ ~reversed /\ ~moving /\ staged = Nothing
      /\ coverWanted = Nothing /\ current = target
      /\ target = [a \in Axis |-> IF value[a] = NoPosition THEN NoPosition
                                  ELSE Bridge2Matter(value[a])]
      /\ reversed \in BOOLEAN /\ moving \in BOOLEAN
  BY <1>1 DEF CoverInit
<1>4. target \in CoverValues
  BY <1>2, <1>3, CoverRange, CoverAssumption DEF CoverValues
<1>5. CoverTyped BY <1>2, <1>3, <1>4, CoverRange, CoverAssumption DEF CoverTyped
<1>6. ShowsCover BY <1>2, <1>3 DEF ShowsCover
<1>7. fromDevice = <<>> /\ toDevice = <<>> /\ linkUp /\ linkUp \in BOOLEAN /\ ~heard
  BY DEF Init, LinkInit
<1>8. \A a \in Axis : CoverHeeded(a)
  BY <1>3, CoverRange, CoverAssumption DEF CoverHeeded
<1>9. QED BY <1>3, <1>5, <1>6, <1>7, <1>8 DEF CoverInv, CoverTracked

\* The invariant of the blind holds in every behaviour.
LEMMA CoverInvariant == Spec => []CoverInv
<1>1. Init => CoverInv BY CoverStarts
<1>2. CoverInv /\ [Next]_vars => CoverInv'
  <2> SUFFICES ASSUME CoverInv, [Next]_vars PROVE CoverInv'
    OBVIOUS
  <2>1. ASSUME ~Is("cover"), UNCHANGED kind, UNCHANGED coverVars PROVE CoverInv'
    BY <2>1 DEF CoverInv, CoverTyped, ShowsCover, Bridge2Matter, Turned, coverVars, Is
  <2>2. ASSUME Is("cover"), CoverSteps PROVE CoverInv'
    <3>1. CoverNext /\ UNCHANGED kind BY <2>2 DEF CoverSteps
    <3>2. QED BY <2>2, <3>1, CoverStep, CoverAssumption
  <2>3. CASE UNCHANGED vars
    <3>1. UNCHANGED <<kind, linkUp, toDevice, fromDevice, heard, coverVars>>
      BY <2>3 DEF vars, link, queues
    <3>2. CoverTyped => CoverTyped' BY <3>1 DEF CoverTyped, coverVars
    <3>3. CoverTracked => CoverTracked'
      BY <3>1 DEF CoverTracked, ShowsCover, Bridge2Matter, Turned, coverVars
    <3>4. \A a \in Axis : CoverHeeded(a) => CoverHeeded(a)' BY <3>1 DEF CoverHeeded, coverVars
    <3>5. ShowsCover => ShowsCover' BY <3>1 DEF ShowsCover, Bridge2Matter, Turned, coverVars
    <3>6. UNCHANGED <<kind, linkUp, toDevice, fromDevice, coverWanted>> BY <3>1 DEF coverVars
    <3>7. QED BY <3>2, <3>3, <3>4, <3>5, <3>6 DEF CoverInv, Is
  <2>4. CASE Next
    <3>1. UNCHANGED kind
      BY <2>4 DEF Next, IdentifySteps, FanSteps, ButtonSteps, InputSteps, CoverSteps, ColorSteps,
                  CCSteps, RoomSteps, MappingSteps, NameSteps
    <3>2. CASE CoverSteps BY <2>2, <3>2 DEF CoverSteps
    <3>3. CASE ~CoverSteps
      <4>1. UNCHANGED coverVars /\ ~Is("cover")
        BY <2>4, <3>3 DEF Next, IdentifySteps, FanSteps, ButtonSteps, InputSteps, ColorSteps,
                          CCSteps, RoomSteps, MappingSteps, NameSteps, Is
      <4>2. QED BY <2>1, <3>1, <4>1
    <3>4. QED BY <3>2, <3>3
  <2>5. QED BY <2>3, <2>4
<1>3. QED BY <1>1, <1>2, PTL DEF Spec

\* Once nothing is on its way a blind at rest that has reported is shown where
\* it is, with nothing left to do, in every order of commands, stops, reports and
\* movements of its own (p44devices.cpp 719-826).
THEOREM CoversAreShown == Spec => []CoveringShown
<1>1. CoverInv => CoveringShown
  <2> SUFFICES ASSUME CoverInv, Quiet, ~moving, heard, coverKnown, NEW a \in axes,
                      value[a] # NoPosition
               PROVE  /\ current[a] = target[a]
                      /\ value[a] \in {Matter2Bridge(current[a]), Matter2Bridge(current[a] + 1)}
    BY DEF CoveringShown
  <2>1. ~Pending(toDevice)
    <3>1. Len(toDevice) = 0 BY DEF Quiet
    <3>2. QED BY <3>1 DEF Pending
  <2>2. ShowsCover BY <2>1 DEF CoverInv, CoverTracked, Quiet
  <2>3. current[a] = Bridge2Matter(value[a]) /\ target[a] = Bridge2Matter(value[a])
    BY <2>2 DEF ShowsCover
  <2>4. value[a] \in Position100ths BY DEF CoverInv, CoverTyped, CoverValues
  <2>5. QED BY <2>3, <2>4, CoverRange, CoverAssumption
<1>2. QED BY <1>1, CoverInvariant, PTL

\* Once nothing is on its way each axis of a blind at rest has the value last
\* sent for it, in every order (p44devices.cpp 657-683).
THEOREM CoversGoWhereSent == Spec => []CoveringObeys
<1>1. CoverInv => CoveringObeys
  <2> SUFFICES ASSUME CoverInv, Quiet, NEW a \in axes, coverWanted[a] # NoPosition
               PROVE  value[a] = coverWanted[a]
    BY DEF CoveringObeys
  <2>1. a \in Axis BY DEF CoverInv, CoverTyped
  <2>2. Is("cover") BY <2>1, CoverRange, CoverAssumption DEF CoverInv
  <2>3. /\ UnderWay(toDevice, a, coverWanted[a])
           \/ Landed(toDevice, a, coverWanted[a], staged, value)
    BY <2>1, <2>2 DEF CoverInv, CoverHeeded
  <2>4. ~Pending(toDevice) /\ ~UnderWay(toDevice, a, coverWanted[a])
    <3>1. Len(toDevice) = 0 BY DEF Quiet
    <3>2. QED BY <3>1 DEF Pending, UnderWay
  <2>5. QED BY <2>3, <2>4 DEF Landed
<1>2. QED BY <1>1, CoverInvariant, PTL
=============================================================================
