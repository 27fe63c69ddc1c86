-------------------------- MODULE CCDevicesProofs --------------------------
(* Theorems about the devices of the CC adapter, for every value of the    *)
(* constants.                                                              *)
EXTENDS Devices, TLAPS

---------------------------------------------------------------------------
(* Reports under way, for all kinds of devices.                            *)

\* The last report under way, if there is one, and a report that is handled.
LEMMA LastReported ==
  ASSUME NEW R, fromDevice \in Seq(R), NEW r, Report(r)
  PROVE  /\ r \in R /\ fromDevice' \in Seq(R) /\ heard' = TRUE
         /\ fromDevice' # <<>> => fromDevice'[Len(fromDevice')] = fromDevice[Len(fromDevice)]
         /\ fromDevice' = <<>> => r = fromDevice[Len(fromDevice)]
<1>1. fromDevice # <<>> /\ r = Head(fromDevice) /\ fromDevice' = Tail(fromDevice) /\ heard' = TRUE
  BY DEF Report
<1>2. r \in R /\ fromDevice' \in Seq(R) BY <1>1
<1>3. fromDevice' # <<>> => fromDevice'[Len(fromDevice')] = fromDevice[Len(fromDevice)]
  BY <1>1
<1>4. ASSUME fromDevice' = <<>> PROVE r = fromDevice[Len(fromDevice)]
  <2>1. Len(fromDevice) \in Nat /\ Len(fromDevice) # 0 BY <1>1
  <2>2. Len(fromDevice') = Len(fromDevice) - 1 BY <1>1
  <2>3. Len(fromDevice') = 0 BY <1>4
  <2>4. Len(fromDevice) = 1 BY <2>1, <2>2, <2>3
  <2>5. QED BY <1>1, <2>4
<1>5. QED BY <1>1, <1>2, <1>3, <1>4

\* A report that is pushed becomes the last one under way.
LEMMA PushedLast ==
  ASSUME NEW R, fromDevice \in Seq(R), NEW r \in R, linkUp, Push(<<r>>)
  PROVE  /\ fromDevice' \in Seq(R) /\ fromDevice' # <<>>
         /\ fromDevice'[Len(fromDevice')] = r
<1>1. fromDevice' = fromDevice \o <<r>> BY DEF Push
<1>2. fromDevice' = Append(fromDevice, r) BY <1>1
<1>3. QED BY <1>2

\* Pushing reports keeps the queue well formed.
LEMMA PushTyped ==
  ASSUME NEW R, fromDevice \in Seq(R), NEW reports \in Seq(R), Push(reports)
  PROVE  fromDevice' \in Seq(R)
BY DEF Push

\* The head of the queue is a report, and its tail a queue again.
LEMMA ReportTyped ==
  ASSUME NEW R, fromDevice \in Seq(R), NEW r, Report(r)
  PROVE  r \in R /\ fromDevice' \in Seq(R)
BY DEF Report

---------------------------------------------------------------------------
(* The dimmer: the last report under way tells its value, and without a    *)
(* report the level shown is right unless a value under way will make one.  *)

DimReports == [level : DimValue]
DimSends == [dimto : DimValue] \cup [dim : {-1, 1}]

ShowsDimmer == dimLevel = ToDimLevel(dimmer) \/ dimmer = FromDimLevel(dimLevel)

Sets(n, v) == "dimto" \in DOMAIN n => n.dimto = v

DimLanded == \A i \in 1 .. Len(toDevice) : Sets(toDevice[i], dimmer)

DimmerInv ==
  Is("cc_dimmer") =>
    /\ dimmer \in DimValue /\ dimming \in {-1, 0, 1}
    /\ fromDevice \in Seq(DimReports) /\ toDevice \in Seq(DimSends) /\ linkUp
    /\ fromDevice # <<>> => fromDevice[Len(fromDevice)].level = dimmer
    /\ fromDevice = <<>> /\ heard /\ DimLanded => ShowsDimmer

\* A command adds a value to those under way, or nothing, or a direction.
LEMMA DimmerCommandKeeps ==
  ASSUME DimmerInv, Is("cc_dimmer"), UNCHANGED <<kind, dimmer, dimming>>, Command,
         NEW notifications \in Seq(DimSends), Notify(notifications),
         DimLanded' => dimLevel' = dimLevel \/ dimmer = FromDimLevel(dimLevel')
  PROVE  DimmerInv'
<1>1. UNCHANGED <<fromDevice, linkUp, heard>> BY DEF Command
<1>2. toDevice' = toDevice \o notifications BY DEF Notify, DimmerInv
<1>3. toDevice' \in Seq(DimSends) BY <1>2 DEF DimmerInv
<1>4. DimLanded' => DimLanded
  <2> SUFFICES ASSUME DimLanded', NEW i \in 1 .. Len(toDevice) PROVE Sets(toDevice[i], dimmer)
    BY DEF DimLanded
  <2>1. i \in 1 .. Len(toDevice') /\ toDevice'[i] = toDevice[i] BY <1>2 DEF DimmerInv
  <2>2. QED BY <2>1 DEF DimLanded, Sets
<1>5. ASSUME fromDevice' = <<>>, heard', DimLanded' PROVE ShowsDimmer'
  <2>1. ShowsDimmer BY <1>1, <1>4, <1>5 DEF DimmerInv
  <2>2. CASE dimLevel' = dimLevel
    BY <2>1, <2>2 DEF ShowsDimmer
  <2>3. CASE dimmer = FromDimLevel(dimLevel')
    BY <2>3 DEF ShowsDimmer
  <2>4. QED BY <1>5, <2>2, <2>3
<1>6. QED BY <1>1, <1>3, <1>5 DEF DimmerInv, Is

\* The dimmer takes another value, and reports it, or keeps its value.
LEMMA DimmerBecomes ==
  ASSUME DimmerInv, Is("cc_dimmer"), UNCHANGED <<kind, linkUp, heard>>, NEW v \in DimValue,
         NEW d \in {-1, 0, 1}, Push(NewValue(v)), Dims(v, d), toDevice' \in Seq(DimSends),
         v = dimmer => (DimLanded' => DimLanded)
  PROVE  DimmerInv'
<1>1. dimmer' = v /\ dimming' = d /\ UNCHANGED dimLevel BY DEF Dims
<1>2. CASE v = dimmer
  <2>1. fromDevice' = fromDevice BY <1>2 DEF Push, NewValue, DimmerInv
  <2>2. QED BY <1>1, <1>2, <2>1 DEF DimmerInv, ShowsDimmer, Is
<1>3. CASE v # dimmer
  <2>1. fromDevice' = Append(fromDevice, [level |-> v])
    BY <1>3 DEF Push, NewValue, DimmerInv
  <2>2. [level |-> v] \in DimReports BY DEF DimReports
  <2>3. fromDevice' \in Seq(DimReports) /\ fromDevice' # <<>>
        /\ fromDevice'[Len(fromDevice')].level = v
    BY <2>1, <2>2 DEF DimmerInv
  <2>4. QED BY <1>1, <2>3 DEF DimmerInv, Is
<1>4. QED BY <1>2, <1>3

\* Every step of a dimmer keeps the invariant.
LEMMA DimmerStep ==
  ASSUME CCAssumption, DimmerInv, Is("cc_dimmer"), UNCHANGED kind, DimmerNext
  PROVE  DimmerInv'
<1>0. /\ fromDevice \in Seq(DimReports) /\ toDevice \in Seq(DimSends) /\ linkUp
      /\ dimmer \in DimValue /\ dimming \in {-1, 0, 1}
  BY DEF DimmerInv
<1>1. ASSUME NEW l \in DimLevel, MoveToLevel(l) PROVE DimmerInv'
  <2> DEFINE n == [dimto |-> FromDimLevel(l)]
  <2>1. n \in DimSends
    <3>1. FromDimLevel(l) \in DimValue BY CCAssumption DEF FromDimLevel, DimLevel, DimValue
    <3>2. QED BY <3>1 DEF DimSends
  <2>2. Command /\ dimLevel' = l /\ UNCHANGED <<dimmer, dimming>> BY <1>1 DEF MoveToLevel
  <2>3. CASE l = dimLevel
    <3>1. Notify(<<>>) /\ <<>> \in Seq(DimSends) BY <1>1, <2>3 DEF MoveToLevel
    <3>2. QED BY <2>2, <2>3, <3>1, DimmerCommandKeeps
  <2>4. CASE l # dimLevel
    <3>1. Notify(<<n>>) BY <1>1, <2>4 DEF MoveToLevel
    <3>2. n.dimto = FromDimLevel(l) /\ "dimto" \in DOMAIN n OBVIOUS
    <3> HIDE DEF n
    <3>3. <<n>> \in Seq(DimSends) BY <2>1
    <3>4. toDevice' = Append(toDevice, n) BY <1>0, <3>1, <3>3 DEF Notify
    <3>5. Len(toDevice') \in 1 .. Len(toDevice') /\ toDevice'[Len(toDevice')] = n
      BY <1>0, <2>1, <3>4
    <3>6. DimLanded' => dimmer = FromDimLevel(dimLevel')
      BY <2>2, <3>2, <3>5 DEF DimLanded, Sets
    <3>7. QED BY <2>2, <3>1, <3>3, <3>6, DimmerCommandKeeps
  <2>5. QED BY <2>3, <2>4
<1>2. ASSUME NEW d \in {-1, 0, 1}, Dim(d) PROVE DimmerInv'
  <2> DEFINE n == [dim |-> IF d # 0 THEN 1 ELSE -1]
  <2>1. n \in DimSends BY DEF DimSends
  <2>2. Command /\ Notify(<<n>>) /\ UNCHANGED <<dimLevel, dimmer, dimming>> BY <1>2 DEF Dim
  <2> HIDE DEF n
  <2>3. <<n>> \in Seq(DimSends) BY <2>1
  <2>4. QED BY <2>2, <2>3, DimmerCommandKeeps
<1>3. ASSUME NEW v \in DimValue, ReportLevel(v) PROVE DimmerInv'
  <2>1. Report([level |-> v]) /\ dimLevel' = ToDimLevel(v)
        /\ UNCHANGED <<dimmer, dimming, toDevice, linkUp>>
    BY <1>3 DEF ReportLevel, Report
  <2>2. /\ fromDevice' \in Seq(DimReports)
        /\ fromDevice' # <<>> => fromDevice'[Len(fromDevice')] = fromDevice[Len(fromDevice)]
        /\ fromDevice' = <<>> => [level |-> v] = fromDevice[Len(fromDevice)]
    BY <1>0, <2>1, LastReported
  <2>3. fromDevice # <<>> BY <2>1 DEF Report
  <2>4. fromDevice' = <<>> => ShowsDimmer' BY <2>1, <2>2, <2>3 DEF DimmerInv, ShowsDimmer
  <2>5. QED BY <1>0, <2>1, <2>2, <2>3, <2>4 DEF DimmerInv, Is
<1>4. ASSUME NEW v \in DimValue, DimmerSet(v) PROVE DimmerInv'
  <2>1. /\ toDevice # <<>> /\ Head(toDevice) = [dimto |-> v] /\ toDevice' = Tail(toDevice)
        /\ Push(NewValue(v)) /\ UNCHANGED <<linkUp, heard>> /\ Dims(v, 0)
    BY <1>4 DEF DimmerSet, Deliver
  <2>2. toDevice' \in Seq(DimSends) BY <1>0, <2>1
  <2>3. ASSUME v = dimmer, DimLanded' PROVE DimLanded
    <3> SUFFICES ASSUME NEW i \in 1 .. Len(toDevice) PROVE Sets(toDevice[i], dimmer)
      BY DEF DimLanded
    <3>1. CASE i = 1
      BY <2>1, <2>3, <3>1 DEF Sets
    <3>2. CASE i # 1
      <4>1. i - 1 \in 1 .. Len(toDevice') /\ toDevice'[i - 1] = toDevice[i] BY <1>0, <2>1, <3>2
      <4>2. Sets(toDevice[i], dimmer') BY <2>3, <4>1 DEF DimLanded
      <4>3. QED BY <2>1, <2>3, <4>2 DEF Dims
    <3>3. QED BY <3>1, <3>2
  <2>4. QED BY <2>1, <2>2, <2>3, DimmerBecomes
<1>5. ASSUME NEW d \in {-1, 0, 1}, DimmerDims(d) PROVE DimmerInv'
  <2>1. /\ toDevice # <<>> /\ Head(toDevice) = [dim |-> d] /\ toDevice' = Tail(toDevice)
        /\ Push(<<>>) /\ UNCHANGED <<linkUp, heard>> /\ Dims(dimmer, d)
    BY <1>5 DEF DimmerDims, Deliver
  <2>2. toDevice' \in Seq(DimSends) BY <1>0, <2>1
  <2>3. ASSUME DimLanded' PROVE DimLanded
    <3> SUFFICES ASSUME NEW i \in 1 .. Len(toDevice) PROVE Sets(toDevice[i], dimmer)
      BY DEF DimLanded
    <3>1. CASE i = 1
      BY <2>1, <3>1 DEF Sets
    <3>2. CASE i # 1
      <4>1. i - 1 \in 1 .. Len(toDevice') /\ toDevice'[i - 1] = toDevice[i] BY <1>0, <2>1, <3>2
      <4>2. Sets(toDevice[i], dimmer') BY <2>3, <4>1 DEF DimLanded
      <4>3. QED BY <2>1, <4>2 DEF Dims
    <3>3. QED BY <3>1, <3>2
  <2>4. NewValue(dimmer) = <<>> BY DEF NewValue
  <2>5. QED BY <1>0, <2>1, <2>2, <2>3, <2>4, DimmerBecomes
<1>6. CASE DimmerGoesOn
  <2> DEFINE v == dimmer + dimming
  <2>1. CASE v \in DimValue
    <3>1. GoesOn(NewValue(v)) /\ Dims(v, dimming) BY <1>6, <2>1 DEF DimmerGoesOn
    <3>2. v # dimmer BY <1>0, <1>6 DEF DimmerGoesOn, DimValue
    <3> HIDE DEF v
    <3>3. QED BY <1>0, <2>1, <3>1, <3>2, DimmerBecomes DEF GoesOn
  <2>2. CASE v \notin DimValue
    <3>1. GoesOn(<<>>) /\ Dims(dimmer, 0) BY <1>6, <2>2 DEF DimmerGoesOn
    <3>2. NewValue(dimmer) = <<>> BY DEF NewValue
    <3>3. DimLanded' => DimLanded BY <3>1 DEF GoesOn, Dims, DimLanded, Sets
    <3>4. QED BY <1>0, <3>1, <3>2, <3>3, DimmerBecomes DEF GoesOn
  <2>3. QED BY <2>1, <2>2
<1>7. ASSUME NEW v \in DimValue, DimmerOwn(v) PROVE DimmerInv'
  BY <1>0, <1>7, DimmerBecomes DEF DimmerOwn, Happens
<1>8. QED BY <1>1, <1>2, <1>3, <1>4, <1>5, <1>6, <1>7 DEF DimmerNext

\* It holds in every behaviour.
LEMMA DimmerInvariant == Spec => []DimmerInv
<1>1. Init => DimmerInv
  <2> SUFFICES ASSUME Init PROVE DimmerInv
    OBVIOUS
  <2>1. dimmer = 0 /\ dimming = 0 BY DEF Init, CCInit, DimmerInit
  <2>2. fromDevice = <<>> /\ toDevice = <<>> /\ linkUp /\ ~heard BY DEF Init, LinkInit
  <2>3. 0 \in DimValue BY CCAssumption DEF DimValue
  <2>4. QED BY <2>1, <2>2, <2>3 DEF DimmerInv
<1>2. DimmerInv /\ [Next]_vars => DimmerInv'
  <2> SUFFICES ASSUME DimmerInv, [Next]_vars PROVE DimmerInv'
    OBVIOUS
  <2>1. ASSUME ~Is("cc_dimmer"), UNCHANGED kind PROVE DimmerInv'
    BY <2>1 DEF DimmerInv, Is
  <2>2. ASSUME Is("cc_dimmer"), CCSteps PROVE DimmerInv'
    BY <2>2, DimmerStep, CCAssumption DEF CCSteps, Is
  <2>3. CASE UNCHANGED vars
    BY <2>3 DEF vars, ccVars, link, queues, DimmerInv, ShowsDimmer, DimLanded, Sets, Is
  <2>4. QED
    BY <2>1, <2>2, <2>3 DEF Next, IdentifySteps, FanSteps, ButtonSteps, InputSteps, CoverSteps,
                            ColorSteps, CCSteps, RoomSteps, MappingSteps, NameSteps, Is
<1>3. QED BY <1>1, <1>2, PTL DEF Spec

\* Once nothing is on its way a dimmer at rest is shown with its level, in every
\* order of reports and commands (ccdevices.cpp 201-209, 242-251).
THEOREM DimmersAreShown == Spec => []DimmersShown
<1>1. DimmerInv => DimmersShown
  <2> SUFFICES ASSUME DimmerInv, Is("cc_dimmer"), Quiet, heard PROVE ShowsDimmer
    BY DEF DimmersShown, DimmerShown, ShowsDimmer
  <2>1. DimLanded BY DEF Quiet, DimLanded
  <2>2. QED BY <2>1 DEF DimmerInv, Quiet
<1>2. QED BY <1>1, DimmerInvariant, PTL

---------------------------------------------------------------------------
(* The blind: the last report under way tells its values and faults; the   *)
(* value that counts for an axis is under way with nothing else for the    *)
(* axis behind it, or the blind moves to it.                               *)

BlindValues == [BlindAxis -> BlindValue \cup {NoBlind}]
BlindReports == [value : BlindValues, faults : SUBSET Fault]
BlindSends == [axis : BlindAxis, value : BlindValue] \cup [move : {0}]

ShowsBlind ==
  /\ ccFaults = faults
  /\ blindKnown => \A a \in BlindAxis :
       blind[a] # NoBlind /\ (a = "tilt" => hasTilt) => ccCurrent[a] = CCBridge2Matter(blind[a])

BlindConcerns(n, a) == "move" \in DOMAIN n \/ n.axis = a

BlindUnderWay(a) ==
  \E i \in 1 .. Len(toDevice) :
    /\ toDevice[i] = [axis |-> a, value |-> blindWanted[a]]
    /\ \A j \in i + 1 .. Len(toDevice) : ~BlindConcerns(toDevice[j], a)

BlindArrived(a) ==
  /\ goal[a] = blindWanted[a]
  /\ \A j \in 1 .. Len(toDevice) : ~BlindConcerns(toDevice[j], a)

BlindHeeded(a) == blindWanted[a] # NoBlind /\ blind[a] # NoBlind => BlindUnderWay(a) \/ BlindArrived(a)

BlindTyped ==
  /\ hasTilt \in BOOLEAN /\ feedback \in BOOLEAN /\ ccReversed \in BOOLEAN
  /\ blind \in BlindValues /\ goal \in BlindValues /\ faults \in SUBSET Fault
  /\ \A a \in BlindAxis : blind[a] = NoBlind <=> goal[a] = NoBlind
  /\ blind["lift"] # NoBlind
  /\ ccTarget \in BlindValues /\ blindWanted \in BlindValues
  /\ linkUp /\ fromDevice \in Seq(BlindReports) /\ toDevice \in Seq(BlindSends)

BlindTracked ==
  /\ fromDevice # <<>> => fromDevice[Len(fromDevice)] = [value |-> blind, faults |-> faults]
  /\ fromDevice = <<>> /\ heard => ShowsBlind

BlindInv ==
  /\ Is("cc_blind") => BlindTyped /\ BlindTracked /\ \A a \in BlindAxis : BlindHeeded(a)
  /\ ~Is("cc_blind") => blindWanted = NoBlinds

LEMMA BlindRange ==
  ASSUME CCAssumption
  PROVE  /\ NoBlind \notin BlindValue /\ 0 \in BlindValue /\ BlindMax \in BlindValue
         /\ \A p \in BlindValue : CCMatter2Bridge(p) \in BlindValue /\ Ends(p) \in BlindValue
<1>1. NoBlind \notin BlindValue /\ 0 \in BlindValue /\ BlindMax \in BlindValue
  BY CCAssumption DEF BlindValue, NoBlind
<1>2. \A p \in BlindValue : CCMatter2Bridge(p) \in BlindValue
  BY CCAssumption DEF BlindValue, CCMatter2Bridge
<1>3. \A p \in BlindValue : Ends(p) \in BlindValue BY <1>1 DEF Ends
<1>4. QED BY <1>1, <1>2, <1>3

\* A value that is sent for an axis counts for it, and leaves the other one.
LEMMA SentCounts ==
  ASSUME BlindTyped, \A b \in BlindAxis : BlindHeeded(b), NEW a \in BlindAxis, NEW v \in BlindValue,
         Command, Notify(<<[axis |-> a, value |-> v]>>),
         blindWanted' = [blindWanted EXCEPT ![a] = v], UNCHANGED <<blind, goal>>
  PROVE  toDevice' \in Seq(BlindSends) /\ blindWanted' \in BlindValues
         /\ \A b \in BlindAxis : BlindHeeded(b)'
<1> DEFINE n == [axis |-> a, value |-> v]
<1>1. n \in BlindSends BY DEF BlindSends
<1>2. "move" \notin DOMAIN n /\ n.axis = a OBVIOUS
<1>3. toDevice' = toDevice \o <<n>> BY DEF Notify, BlindTyped
<1> HIDE DEF n
<1>4. toDevice' = Append(toDevice, n) BY <1>1, <1>3 DEF BlindTyped
<1>5. /\ toDevice' \in Seq(BlindSends) /\ Len(toDevice') = Len(toDevice) + 1
      /\ Len(toDevice) \in Nat
      /\ toDevice'[Len(toDevice')] = n
      /\ \A i \in 1 .. Len(toDevice) : toDevice'[i] = toDevice[i]
  BY <1>1, <1>4 DEF BlindTyped
<1>6. blindWanted' \in BlindValues /\ blindWanted'[a] = v
      /\ \A b \in BlindAxis \ {a} : blindWanted'[b] = blindWanted[b]
  BY DEF BlindTyped, BlindValues
<1>7. ASSUME NEW b \in BlindAxis PROVE BlindHeeded(b)'
  <2>1. CASE b = a
    <3>1. toDevice'[Len(toDevice')] = [axis |-> a, value |-> blindWanted'[a]]
      BY <1>5, <1>6 DEF n
    <3>2. Len(toDevice') \in 1 .. Len(toDevice')
          /\ \A j \in Len(toDevice') + 1 .. Len(toDevice') : FALSE
      BY <1>5
    <3>3. BlindUnderWay(a)' BY <3>1, <3>2 DEF BlindUnderWay
    <3>4. QED BY <2>1, <3>3 DEF BlindHeeded
  <2>2. CASE b # a /\ BlindUnderWay(b)
    <3>1. PICK i \in 1 .. Len(toDevice) :
            /\ toDevice[i] = [axis |-> b, value |-> blindWanted[b]]
            /\ \A j \in i + 1 .. Len(toDevice) : ~BlindConcerns(toDevice[j], b)
      BY <2>2 DEF BlindUnderWay
    <3>2. i \in 1 .. Len(toDevice') /\ toDevice'[i] = [axis |-> b, value |-> blindWanted'[b]]
      BY <1>5, <1>6, <2>2, <3>1
    <3>3. ASSUME NEW j \in i + 1 .. Len(toDevice') PROVE ~BlindConcerns(toDevice'[j], b)
      <4>1. CASE j = Len(toDevice')
        BY <1>2, <1>5, <2>2, <4>1 DEF BlindConcerns
      <4>2. CASE j # Len(toDevice')
        <5>1. i \in Nat /\ i >= 1 BY <1>5
        <5>2. Len(toDevice) \in Nat /\ Len(toDevice') = Len(toDevice) + 1 BY <1>5
        <5>3. j \in i + 1 .. Len(toDevice) /\ j \in 1 .. Len(toDevice)
          BY ONLY <3>3, <4>2, <5>1, <5>2
        <5>4. QED BY <1>5, <3>1, <5>3
      <4>3. QED BY <4>1, <4>2
    <3>4. BlindUnderWay(b)' BY <3>2, <3>3 DEF BlindUnderWay, BlindConcerns
    <3>5. QED BY <3>4 DEF BlindHeeded
  <2>3. CASE b # a /\ BlindArrived(b)
    <3>1. ASSUME NEW j \in 1 .. Len(toDevice') PROVE ~BlindConcerns(toDevice'[j], b)
      <4>1. CASE j = Len(toDevice')
        BY <1>2, <1>5, <2>3, <4>1 DEF BlindConcerns
      <4>2. CASE j # Len(toDevice')
        <5>1. j \in 1 .. Len(toDevice) BY <1>5, <4>2
        <5>2. QED BY <1>5, <2>3, <5>1 DEF BlindArrived
      <4>3. QED BY <4>1, <4>2
    <3>2. goal'[b] = blindWanted'[b] BY <1>6, <2>3 DEF BlindArrived
    <3>3. BlindArrived(b)' BY <3>1, <3>2 DEF BlindArrived, BlindConcerns
    <3>4. QED BY <3>3 DEF BlindHeeded
  <2>4. CASE b # a /\ ~BlindUnderWay(b) /\ ~BlindArrived(b)
    BY <1>6, <2>4 DEF BlindHeeded
  <2>5. QED BY <2>1, <2>2, <2>3, <2>4
<1>8. QED BY <1>5, <1>6, <1>7

\* The blind handles a notification: a value for the axis, or a stop.
LEMMA DeliveredCounts ==
  ASSUME BlindTyped, \A b \in BlindAxis : BlindHeeded(b), NEW n, Deliver(n, <<>>),
         \/ \E a \in BlindAxis, v \in BlindValue :
              /\ n = [axis |-> a, value |-> v]
              /\ goal' = IF blind[a] = NoBlind THEN goal ELSE [goal EXCEPT ![a] = v]
         \/ n = [move |-> 0] /\ goal' = blind,
         UNCHANGED <<blind, blindWanted>>
  PROVE  toDevice' \in Seq(BlindSends) /\ \A b \in BlindAxis : BlindHeeded(b)'
<1>1. /\ toDevice # <<>> /\ toDevice[1] = n /\ toDevice' = Tail(toDevice)
      /\ toDevice \in Seq(BlindSends)
  BY DEF Deliver, BlindTyped
<1>2. /\ toDevice' \in Seq(BlindSends) /\ Len(toDevice') = Len(toDevice) - 1
      /\ Len(toDevice) \in Nat
      /\ \A i \in 1 .. Len(toDevice') : toDevice'[i] = toDevice[i + 1]
  BY <1>1
<1>3. ASSUME NEW b \in BlindAxis, blindWanted[b] # NoBlind, blind[b] # NoBlind
      PROVE  BlindUnderWay(b)' \/ BlindArrived(b)'
  <2>1. CASE BlindArrived(b)
    <3>1. ~BlindConcerns(n, b) BY <1>1, <1>2, <2>1 DEF BlindArrived
    <3>2. PICK a \in BlindAxis, v \in BlindValue :
            /\ n = [axis |-> a, value |-> v]
            /\ goal' = IF blind[a] = NoBlind THEN goal ELSE [goal EXCEPT ![a] = v]
      BY <3>1 DEF BlindConcerns
    <3>3. a # b BY <3>1, <3>2 DEF BlindConcerns
    <3>4. goal'[b] = goal[b] BY <3>2, <3>3 DEF BlindTyped, BlindValues
    <3>5. \A j \in 1 .. Len(toDevice') : ~BlindConcerns(toDevice'[j], b)
      <4> SUFFICES ASSUME NEW j \in 1 .. Len(toDevice') PROVE ~BlindConcerns(toDevice'[j], b)
        OBVIOUS
      <4>1. j + 1 \in 1 .. Len(toDevice) BY <1>2
      <4>2. QED BY <1>2, <2>1, <4>1 DEF BlindArrived
    <3>6. QED BY <2>1, <3>4, <3>5 DEF BlindArrived, BlindConcerns
  <2>2. CASE BlindUnderWay(b)
    <3>1. PICK i \in 1 .. Len(toDevice) :
            /\ toDevice[i] = [axis |-> b, value |-> blindWanted[b]]
            /\ \A j \in i + 1 .. Len(toDevice) : ~BlindConcerns(toDevice[j], b)
      BY <2>2 DEF BlindUnderWay
    <3>2. CASE i = 1
      <4>1. n = [axis |-> b, value |-> blindWanted[b]] BY <1>1, <3>1, <3>2
      <4>2. goal' = [goal EXCEPT ![b] = blindWanted[b]] BY <1>3, <4>1
      <4>3. goal'[b] = blindWanted'[b] BY <4>2 DEF BlindTyped, BlindValues
      <4>4. \A j \in 1 .. Len(toDevice') : ~BlindConcerns(toDevice'[j], b)
        <5> SUFFICES ASSUME NEW j \in 1 .. Len(toDevice') PROVE ~BlindConcerns(toDevice'[j], b)
          OBVIOUS
        <5>1. j + 1 \in i + 1 .. Len(toDevice) BY <1>2, <3>2
        <5>2. QED BY <1>2, <3>1, <5>1
      <4>5. QED BY <4>3, <4>4 DEF BlindArrived, BlindConcerns
    <3>3. CASE i # 1
      <4>1. i - 1 \in 1 .. Len(toDevice') BY <1>2, <3>3
      <4>2. toDevice'[i - 1] = [axis |-> b, value |-> blindWanted'[b]] BY <1>2, <3>1, <4>1
      <4>3. \A j \in (i - 1) + 1 .. Len(toDevice') : ~BlindConcerns(toDevice'[j], b)
        <5> SUFFICES ASSUME NEW j \in (i - 1) + 1 .. Len(toDevice') PROVE ~BlindConcerns(toDevice'[j], b)
          OBVIOUS
        <5>1. j + 1 \in i + 1 .. Len(toDevice) /\ j \in 1 .. Len(toDevice') BY <1>2
        <5>2. QED BY <1>2, <3>1, <5>1
      <4>4. QED BY <4>1, <4>2, <4>3 DEF BlindUnderWay, BlindConcerns
    <3>4. QED BY <3>2, <3>3
  <2>3. QED BY <1>3, <2>1, <2>2 DEF BlindHeeded
<1>4. ASSUME NEW b \in BlindAxis PROVE BlindHeeded(b)' BY <1>3 DEF BlindHeeded
<1>5. QED BY <1>2, <1>4

\* What does not touch what is under way from the blind keeps it tracked.
LEMMA BlindStaysTracked ==
  ASSUME BlindTracked, UNCHANGED <<fromDevice, heard, blind, faults, ccFaults, ccCurrent, hasTilt>>,
         blindKnown' => blindKnown /\ UNCHANGED ccReversed
  PROVE  BlindTracked'
BY DEF BlindTracked, ShowsBlind, CCBridge2Matter

\* A blind that changes reports it.
LEMMA BlindReportTracked ==
  ASSUME BlindTyped, blind' \in BlindValues, faults' \in SUBSET Fault, Push(BlindState(blind', faults'))
  PROVE  BlindTracked' /\ fromDevice' \in Seq(BlindReports)
<1> DEFINE r == [value |-> blind', faults |-> faults']
<1>1. r \in BlindReports BY DEF BlindReports
<1>2. fromDevice' = fromDevice \o <<r>> BY DEF Push, BlindState, BlindTyped
<1> HIDE DEF r
<1>3. fromDevice' = Append(fromDevice, r) BY <1>1, <1>2 DEF BlindTyped
<1>4. fromDevice' \in Seq(BlindReports) /\ fromDevice' # <<>> /\ fromDevice'[Len(fromDevice')] = r
  BY <1>1, <1>3 DEF BlindTyped
<1>5. QED BY <1>4 DEF BlindTracked, r

\* A command for an axis sends the value that counts, or nothing.
LEMMA GoToSends ==
  ASSUME CCAssumption, BlindTyped, NEW a \in BlindAxis, NEW p \in BlindValue, GoToBlind(a, p)
  PROVE  /\ ccTarget' \in BlindValues
         /\ \/ UNCHANGED <<toDevice, blindWanted>>
            \/ \E v \in BlindValue : /\ Notify(<<[axis |-> a, value |-> v]>>)
                                     /\ blindWanted' = [blindWanted EXCEPT ![a] = v]
<1>1. ccTarget' = [ccTarget EXCEPT ![a] = p] /\ StartBlind(a) /\ blindWanted' = WantsBlind(a)
      /\ UNCHANGED <<feedback, ccReversed, hasTilt>>
  BY DEF GoToBlind
<1>2. ccTarget' \in BlindValues /\ ccTarget'[a] = p BY <1>1 DEF BlindTyped, BlindValues
<1>3. CCMatter2Bridge(p) \in BlindValue /\ Ends(p) \in BlindValue BY BlindRange, CCAssumption
<1>4. CASE a = "lift"
  <2> DEFINE v == IF feedback THEN CCMatter2Bridge(p) ELSE Ends(p)
  <2>1. v \in BlindValue BY <1>3
  <2>2. Notify(<<[axis |-> a, value |-> v]>>) BY <1>1, <1>2, <1>4 DEF StartBlind
  <2>3. WantsBlind(a) = Counting(a, IF feedback THEN CCMatter2Bridge(ccTarget'[a]) ELSE Ends(ccTarget'[a]))
    BY <1>4 DEF WantsBlind
  <2>4. (IF feedback THEN CCMatter2Bridge(ccTarget'[a]) ELSE Ends(ccTarget'[a])) = v BY <1>2
  <2>5. blindWanted' = [blindWanted EXCEPT ![a] = v]
    BY <1>1, <2>3, <2>4 DEF Counting
  <2>6. QED BY <1>2, <2>1, <2>2, <2>5
<1>5. CASE a = "tilt" /\ hasTilt
  <2> DEFINE v == CCMatter2Bridge(p)
  <2>1. v \in BlindValue BY <1>3
  <2>2. Notify(<<[axis |-> a, value |-> v]>>) BY <1>1, <1>2, <1>5 DEF StartBlind
  <2>3. CCMatter2Bridge(ccTarget'[a]) = v BY <1>2
  <2>4. a # "lift" BY <1>5
  <2>5. WantsBlind(a) = Counting(a, CCMatter2Bridge(ccTarget'[a]))
    BY <1>5, <2>4 DEF WantsBlind
  <2>6. blindWanted' = [blindWanted EXCEPT ![a] = v]
    BY <1>1, <2>3, <2>5 DEF Counting
  <2>7. QED BY <1>2, <2>1, <2>2, <2>6
<1>6. CASE a = "tilt" /\ ~hasTilt
  <2>1. Notify(<<>>) BY <1>1, <1>6 DEF StartBlind
  <2>2. toDevice' = toDevice BY <2>1 DEF Notify, BlindTyped
  <2>3. blindWanted' = blindWanted BY <1>1, <1>6 DEF WantsBlind
  <2>4. QED BY <1>2, <2>2, <2>3
<1>7. QED BY <1>4, <1>5, <1>6 DEF BlindAxis

\* Every step of a blind keeps the invariant.
LEMMA BlindStep ==
  ASSUME CCAssumption, BlindInv, Is("cc_blind"), UNCHANGED kind, BlindNext
  PROVE  BlindInv'
<1>0. /\ BlindTyped /\ BlindTracked /\ (\A a \in BlindAxis : BlindHeeded(a)) /\ Is("cc_blind")'
  BY DEF BlindInv, Is
<1>h. ASSUME UNCHANGED <<toDevice, blindWanted, blind, goal>> PROVE \A b \in BlindAxis : BlindHeeded(b)'
  BY <1>0, <1>h DEF BlindHeeded, BlindUnderWay, BlindArrived, BlindConcerns
<1>s. ASSUME NEW a \in BlindAxis, NEW v \in BlindValue, Command, ccTarget' \in BlindValues,
             Notify(<<[axis |-> a, value |-> v]>>), blindWanted' = [blindWanted EXCEPT ![a] = v],
             UNCHANGED <<hasTilt, feedback, ccReversed, ccCurrent, ccFaults, blind, goal, faults,
                         blindKnown>>
      PROVE  BlindInv'
  <2>1. UNCHANGED <<linkUp, fromDevice, heard>> BY <1>s DEF Command
  <2>2. toDevice' \in Seq(BlindSends) /\ blindWanted' \in BlindValues
        /\ \A b \in BlindAxis : BlindHeeded(b)'
    BY <1>0, <1>s, SentCounts
  <2>3. BlindTracked' BY <1>0, <1>s, <2>1, BlindStaysTracked
  <2>4. BlindTyped' BY <1>0, <1>s, <2>1, <2>2 DEF BlindTyped
  <2>5. QED BY <1>0, <2>2, <2>3, <2>4 DEF BlindInv
<1>1. ASSUME NEW a \in BlindAxis, NEW p \in BlindValue, GoToBlind(a, p) PROVE BlindInv'
  <2>1. Command /\ UNCHANGED <<hasTilt, feedback, ccReversed, ccCurrent, ccFaults, blind, goal,
                               faults, blindKnown>>
    BY <1>1 DEF GoToBlind
  <2>2. ccTarget' \in BlindValues BY <1>0, <1>1, GoToSends, CCAssumption
  <2>3. CASE UNCHANGED <<toDevice, blindWanted>>
    <3>1. UNCHANGED <<linkUp, fromDevice, heard>> BY <2>1 DEF Command
    <3>2. \A b \in BlindAxis : BlindHeeded(b)' BY <1>h, <2>1, <2>3
    <3>3. BlindTracked' BY <1>0, <2>1, <3>1, BlindStaysTracked
    <3>4. BlindTyped' BY <1>0, <2>1, <2>2, <2>3, <3>1 DEF BlindTyped
    <3>5. QED BY <1>0, <3>2, <3>3, <3>4 DEF BlindInv
  <2>4. ASSUME NEW v \in BlindValue, Notify(<<[axis |-> a, value |-> v]>>),
               blindWanted' = [blindWanted EXCEPT ![a] = v]
        PROVE  BlindInv'
    BY <1>s, <2>1, <2>2, <2>4
  <2>5. QED BY <1>0, <1>1, <2>3, <2>4, GoToSends, CCAssumption
<1>2. ASSUME NEW a \in BlindAxis, NEW up \in BOOLEAN, SimpleStartBlind(a, up) PROVE BlindInv'
  <2> DEFINE v == CCMatter2Bridge(IF up THEN 0 ELSE BlindMax)
  <2>1. v \in BlindValue BY BlindRange, CCAssumption
  <2>2. /\ Command /\ Notify(<<[axis |-> a, value |-> v]>>)
        /\ blindWanted' = [blindWanted EXCEPT ![a] = v]
        /\ UNCHANGED <<hasTilt, feedback, ccReversed, ccTarget, ccCurrent, ccFaults, blind, goal,
                       faults, blindKnown>>
    BY <1>2 DEF SimpleStartBlind, Counting
  <2> HIDE DEF v
  <2>3. ccTarget' \in BlindValues BY <1>0, <2>2 DEF BlindTyped
  <2>4. QED BY <1>s, <2>1, <2>2, <2>3
<1>3. CASE StopBlind
  <2>1. /\ UNCHANGED <<linkUp, fromDevice, heard, hasTilt, feedback, ccReversed, ccTarget, ccCurrent,
                       ccFaults, blind, goal, faults, blindKnown>>
        /\ Notify(<<[move |-> 0]>>) /\ blindWanted' = NoBlinds
    BY <1>3 DEF StopBlind, Command
  <2>2. [move |-> 0] \in BlindSends BY DEF BlindSends
  <2>3. toDevice' \in Seq(BlindSends) BY <1>0, <2>1, <2>2 DEF Notify, BlindTyped
  <2>4. blindWanted' \in BlindValues /\ \A b \in BlindAxis : BlindHeeded(b)'
    BY <2>1 DEF NoBlinds, BlindValues, BlindHeeded
  <2>5. BlindTracked' BY <1>0, <2>1, BlindStaysTracked
  <2>6. BlindTyped' BY <1>0, <2>1, <2>3, <2>4 DEF BlindTyped
  <2>7. QED BY <1>0, <2>4, <2>5, <2>6 DEF BlindInv
<1>4. CASE ReverseBlind
  <2>1. /\ UNCHANGED <<linkUp, fromDevice, heard, toDevice, hasTilt, feedback, ccTarget, ccCurrent,
                       ccFaults, blind, goal, faults, blindWanted>>
        /\ ccReversed' = ~ccReversed /\ ~blindKnown'
    BY <1>4 DEF ReverseBlind, Command
  <2>2. BlindTracked' BY <1>0, <2>1, BlindStaysTracked
  <2>3. BlindTyped' BY <1>0, <2>1 DEF BlindTyped
  <2>4. QED BY <1>0, <1>h, <2>1, <2>2, <2>3 DEF BlindInv
<1>5. ASSUME fromDevice # <<>>, BlindReport(Head(fromDevice)) PROVE BlindInv'
  <2>got. PICK got : got = Head(fromDevice) OBVIOUS
  <2>1. /\ Report(got) /\ ccFaults' = got.faults /\ ccCurrent' = [a \in BlindAxis |-> CurrentOf(got, a)]
        /\ UNCHANGED <<linkUp, toDevice, hasTilt, feedback, ccReversed, ccTarget, blind, goal, faults,
                       blindWanted>>
    BY <1>5, <2>got DEF BlindReport, Report
  <2>0. fromDevice \in Seq(BlindReports) BY <1>0 DEF BlindTyped
  <2>2. /\ fromDevice' \in Seq(BlindReports)
        /\ fromDevice' # <<>> => fromDevice'[Len(fromDevice')] = fromDevice[Len(fromDevice)]
        /\ fromDevice' = <<>> => got = fromDevice[Len(fromDevice)]
    <3>1. Report(got) BY <2>1
    <3>2. Len(fromDevice) \in Nat /\ Len(fromDevice) # 0 BY <1>5, <2>0
    <3>3. Len(fromDevice') = Len(fromDevice) - 1 BY <1>5, <2>0, <3>1 DEF Report
    <3>4. fromDevice' = <<>> => Len(fromDevice) = 1 BY <3>2, <3>3
    <3>5. got = fromDevice[1] BY <1>5, <2>0, <2>got
    <3>6. fromDevice' = <<>> => got = fromDevice[Len(fromDevice)] BY <3>4, <3>5
    <3>7. QED BY ONLY <2>0, <3>1, <3>6, LastReported
  <2>3. fromDevice[Len(fromDevice)] = [value |-> blind, faults |-> faults]
    BY <1>0, <1>5 DEF BlindTracked
  <2>4. ASSUME got = [value |-> blind, faults |-> faults] PROVE ShowsBlind'
    <3>1. got.value = blind /\ got.faults = faults BY <2>4
    <3>2. ASSUME NEW a \in BlindAxis, blind[a] # NoBlind, a = "tilt" => hasTilt
          PROVE  ccCurrent'[a] = CCBridge2Matter(blind[a])
      BY <2>1, <3>1, <3>2 DEF CurrentOf
    <3>3. UNCHANGED ccReversed BY <2>1
    <3>4. QED BY <2>1, <3>1, <3>2, <3>3 DEF ShowsBlind, CCBridge2Matter
  <2>5. BlindTracked' BY <2>1, <2>2, <2>3, <2>4 DEF BlindTracked
  <2>6. BlindTyped' BY <1>0, <2>1, <2>2 DEF BlindTyped
  <2>7. QED BY <1>0, <1>h, <2>1, <2>5, <2>6 DEF BlindInv
<1>6. ASSUME NEW a \in BlindAxis, NEW v \in BlindValue, BlindSet(a, v) PROVE BlindInv'
  <2> DEFINE n == [axis |-> a, value |-> v]
  <2>1. /\ Deliver(n, <<>>)
        /\ goal' = IF blind[a] = NoBlind THEN goal ELSE [goal EXCEPT ![a] = v]
        /\ UNCHANGED <<hasTilt, feedback, ccReversed, ccTarget, ccCurrent, ccFaults, blind, faults,
                       blindKnown, blindWanted>>
    BY <1>6 DEF BlindSet
  <2>2. toDevice' \in Seq(BlindSends) /\ \A b \in BlindAxis : BlindHeeded(b)'
    BY <1>0, <2>1, DeliveredCounts
  <2>3. UNCHANGED <<linkUp, heard>> /\ fromDevice' = fromDevice
    BY <1>0, <2>1 DEF Deliver, Push, BlindTyped
  <2>4. goal' \in BlindValues /\ \A b \in BlindAxis : blind[b] = NoBlind <=> goal'[b] = NoBlind
    BY <1>0, <2>1, BlindRange, CCAssumption DEF BlindTyped, BlindValues
  <2>5. BlindTracked' BY <1>0, <2>1, <2>3, BlindStaysTracked
  <2>6. BlindTyped' BY <1>0, <2>1, <2>2, <2>3, <2>4 DEF BlindTyped
  <2>7. QED BY <1>0, <2>2, <2>5, <2>6 DEF BlindInv
<1>7. CASE BlindStops
  <2>1. /\ Deliver([move |-> 0], <<>>) /\ goal' = blind
        /\ UNCHANGED <<hasTilt, feedback, ccReversed, ccTarget, ccCurrent, ccFaults, blind, faults,
                       blindKnown, blindWanted>>
    BY <1>7 DEF BlindStops
  <2>2. toDevice' \in Seq(BlindSends) /\ \A b \in BlindAxis : BlindHeeded(b)'
    BY <1>0, <2>1, DeliveredCounts
  <2>3. UNCHANGED <<linkUp, heard>> /\ fromDevice' = fromDevice
    BY <1>0, <2>1 DEF Deliver, Push, BlindTyped
  <2>4. BlindTracked' BY <1>0, <2>1, <2>3, BlindStaysTracked
  <2>5. BlindTyped' BY <1>0, <2>1, <2>2, <2>3 DEF BlindTyped
  <2>6. QED BY <1>0, <2>2, <2>4, <2>5 DEF BlindInv
<1>8. ASSUME NEW a \in BlindAxis, BlindMoves(a) PROVE BlindInv'
  <2>1. /\ blind[a] # goal[a] /\ blind' = [blind EXCEPT ![a] = Nearer(blind[a], goal[a])]
        /\ Push(BlindState(blind', faults'))
        /\ UNCHANGED <<linkUp, toDevice, heard, hasTilt, feedback, ccReversed, ccTarget, ccCurrent,
                       ccFaults, goal, faults, blindKnown, blindWanted>>
    BY <1>8 DEF BlindMoves, GoesOn
  <2>2. blind[a] \in BlindValue /\ goal[a] \in BlindValue
    BY <1>0, <2>1 DEF BlindTyped, BlindValues
  <2>3. Nearer(blind[a], goal[a]) \in BlindValue
    BY <2>1, <2>2, CCAssumption DEF Nearer, BlindValue
  <2>4. /\ blind' \in BlindValues
        /\ \A b \in BlindAxis : /\ blind'[b] = NoBlind <=> blind[b] = NoBlind
                                /\ blind'[b] = NoBlind <=> goal[b] = NoBlind
    BY <1>0, <2>1, <2>2, <2>3, BlindRange, CCAssumption DEF BlindTyped, BlindValues
  <2>5. BlindTracked' /\ fromDevice' \in Seq(BlindReports)
    BY <1>0, <2>1, <2>4, BlindReportTracked DEF BlindTyped
  <2>6. \A b \in BlindAxis : BlindHeeded(b)'
    BY <1>0, <2>1, <2>4 DEF BlindHeeded, BlindUnderWay, BlindArrived, BlindConcerns
  <2>7. BlindTyped' BY <1>0, <2>1, <2>4, <2>5 DEF BlindTyped
  <2>8. QED BY <1>0, <2>5, <2>6, <2>7 DEF BlindInv
<1>9. ASSUME NEW v \in BlindValue, NEW fs \in {{}, {"blocked"}, {"unresponsive"}}, BlindOwn(v, fs)
      PROVE  BlindInv'
  <2>1. /\ faults' = fs /\ blindWanted' = NoBlinds
        /\ UNCHANGED <<linkUp, toDevice, heard, hasTilt, feedback, ccReversed, ccTarget, ccCurrent,
                       ccFaults, blind, blindKnown>>
    BY <1>9 DEF BlindOwn, Happens
  <2>2. fs \in SUBSET Fault BY DEF Fault
  <2>3. blindWanted' \in BlindValues /\ \A b \in BlindAxis : BlindHeeded(b)'
    BY <2>1 DEF NoBlinds, BlindValues, BlindHeeded
  <2>4. CASE fs = faults
    <3>1. goal' = [blind EXCEPT !["lift"] = v] /\ Push(<<>>)
      BY <1>9, <2>4 DEF BlindOwn, Happens
    <3>2. fromDevice' = fromDevice BY <1>0, <3>1 DEF Push, BlindTyped
    <3>3. BlindTracked' BY <1>0, <2>1, <2>4, <3>2, BlindStaysTracked
    <3>4. goal' \in BlindValues BY <1>0, <3>1 DEF BlindTyped, BlindValues
    <3>5. \A b \in BlindAxis : blind[b] = NoBlind <=> goal'[b] = NoBlind
      BY <1>0, <3>1, BlindRange, CCAssumption DEF BlindTyped, BlindValues, BlindAxis
    <3>6. BlindTyped' BY <1>0, <2>1, <2>2, <2>3, <3>2, <3>4, <3>5 DEF BlindTyped
    <3>7. QED BY <1>0, <2>3, <3>3, <3>6 DEF BlindInv
  <2>5. CASE fs # faults
    <3>1. goal' = blind /\ Push(BlindState(blind', faults'))
      BY <1>9, <2>1, <2>5 DEF BlindOwn, Happens
    <3>2. BlindTracked' /\ fromDevice' \in Seq(BlindReports)
      BY <1>0, <2>1, <2>2, <3>1, BlindReportTracked DEF BlindTyped
    <3>3. BlindTyped' BY <1>0, <2>1, <2>2, <2>3, <3>1, <3>2 DEF BlindTyped
    <3>4. QED BY <1>0, <2>3, <3>2, <3>3 DEF BlindInv
  <2>6. QED BY <2>4, <2>5
<1>10. QED
  BY <1>1, <1>2, <1>3, <1>4, <1>5, <1>6, <1>7, <1>8, <1>9 DEF BlindNext

\* It holds of the installed blind.
LEMMA BlindStarts == ASSUME Init PROVE BlindInv
<1>1. PICK b \in Blinds : BlindInit(b.venetian, b.awning, b.feedback, 0, {})
  BY DEF Init, CCInit
<1>2. blindWanted = NoBlinds BY <1>1 DEF BlindInit
<1>3. b.venetian \in BOOLEAN /\ b.feedback \in BOOLEAN BY KindsAssumption
<1>4. fromDevice = <<>> /\ toDevice = <<>> /\ linkUp /\ ~heard BY DEF Init, LinkInit
<1>5. /\ blind = [a \in BlindAxis |-> IF a = "tilt" /\ ~b.venetian THEN NoBlind ELSE 0]
      /\ goal = blind
  BY <1>1 DEF BlindInit
<1>6. /\ blind \in BlindValues /\ goal \in BlindValues /\ blind["lift"] # NoBlind
      /\ \A a \in BlindAxis : blind[a] = NoBlind <=> goal[a] = NoBlind
  BY <1>5, BlindRange, CCAssumption DEF BlindValues, BlindAxis
<1>7. ccTarget \in BlindValues /\ blindWanted \in BlindValues
  BY <1>1 DEF BlindInit, NoBlinds, BlindValues
<1>8. hasTilt \in BOOLEAN /\ feedback \in BOOLEAN /\ ccReversed \in BOOLEAN /\ faults \in SUBSET Fault
  BY <1>1, <1>3 DEF BlindInit
<1>9. BlindTyped BY <1>4, <1>6, <1>7, <1>8 DEF BlindTyped
<1>10. \A a \in BlindAxis : BlindHeeded(a) BY <1>2 DEF BlindHeeded, NoBlinds
<1>11. QED BY <1>2, <1>4, <1>9, <1>10 DEF BlindInv, BlindTracked

\* The invariant of the blind holds in every behaviour.
LEMMA BlindInvariant == Spec => []BlindInv
<1>1. Init => BlindInv BY BlindStarts
<1>2. BlindInv /\ [Next]_vars => BlindInv'
  <2> SUFFICES ASSUME BlindInv, [Next]_vars PROVE BlindInv'
    OBVIOUS
  <2>1. ASSUME ~Is("cc_blind"), UNCHANGED kind, UNCHANGED blindWanted PROVE BlindInv'
    BY <2>1 DEF BlindInv, Is
  <2>2. ASSUME Is("cc_dimmer"), CCSteps PROVE BlindInv'
    <3>1. DimmerNext /\ UNCHANGED kind BY <2>2 DEF CCSteps, Is
    <3>2. UNCHANGED blindWanted
      BY <3>1 DEF DimmerNext, MoveToLevel, Dim, ReportLevel, DimmerSet, DimmerDims, DimmerGoesOn,
                  DimmerOwn, Dims, blindVars
    <3>3. ~Is("cc_blind") BY <2>2 DEF Is
    <3>4. QED BY <2>1, <3>1, <3>2, <3>3
  <2>3. ASSUME Is("cc_blind"), CCSteps PROVE BlindInv'
    <3>1. BlindNext /\ UNCHANGED kind BY <2>3 DEF CCSteps, Is
    <3>2. QED BY <2>3, <3>1, BlindStep, CCAssumption
  <2>4. CASE UNCHANGED vars
    <3>1. UNCHANGED <<kind, linkUp, toDevice, fromDevice, heard, blindVars>>
      BY <2>4 DEF vars, ccVars, link, queues, blindVars
    <3>2. BlindTracked => BlindTracked'
      BY <3>1, BlindStaysTracked DEF blindVars
    <3>3. BlindTyped => BlindTyped' BY <3>1 DEF BlindTyped, blindVars
    <3>4. (\A a \in BlindAxis : BlindHeeded(a)) => (\A a \in BlindAxis : BlindHeeded(a)')
      BY <3>1 DEF BlindHeeded, BlindUnderWay, BlindArrived, BlindConcerns, blindVars
    <3>5. UNCHANGED blindWanted BY <3>1 DEF blindVars
    <3>6. QED BY <3>1, <3>2, <3>3, <3>4, <3>5 DEF BlindInv, Is
  <2>5. CASE Next
    <3>1. UNCHANGED kind
      BY <2>5 DEF Next, IdentifySteps, FanSteps, ButtonSteps, InputSteps, CoverSteps, ColorSteps,
                  CCSteps, RoomSteps, MappingSteps, NameSteps
    <3>2. CASE CCSteps BY <2>2, <2>3, <3>2 DEF CCSteps
    <3>3. CASE ~CCSteps
      <4>1. UNCHANGED blindWanted /\ ~Is("cc_blind")
        BY <2>5, <3>3 DEF Next, IdentifySteps, FanSteps, ButtonSteps, InputSteps, CoverSteps,
                          ColorSteps, RoomSteps, MappingSteps, NameSteps, ccVars, Is
      <4>2. QED BY <2>1, <3>1, <4>1
    <3>4. QED BY <3>2, <3>3
  <2>6. QED BY <2>4, <2>5
<1>3. QED BY <1>1, <1>2, PTL DEF Spec

\* Once nothing is on its way a blind at rest is shown where it is, with its
\* faults, in every order of reports, commands and movements (ccdevices.cpp 441-509).
THEOREM BlindsAreShown == Spec => []BlindsShown
<1>1. BlindInv => BlindsShown
  BY DEF BlindInv, BlindsShown, BlindShown, BlindTracked, ShowsBlind, Quiet
<1>2. QED BY <1>1, BlindInvariant, PTL

\* Once nothing is on its way each axis of a blind at rest is where the last
\* command for it sent it, in every order (ccdevices.cpp 335-407).
THEOREM BlindsGoWhereSent == Spec => []BlindObeys
<1>1. BlindInv => BlindObeys
  <2> SUFFICES ASSUME BlindInv, Quiet, BlindRests, NEW a \in BlindAxis,
                      blindWanted[a] # NoBlind, blind[a] # NoBlind
               PROVE  blind[a] = blindWanted[a]
    BY DEF BlindObeys
  <2>1. Is("cc_blind") BY DEF BlindInv, NoBlinds
  <2>2. BlindUnderWay(a) \/ BlindArrived(a) BY <2>1 DEF BlindInv, BlindHeeded
  <2>3. ~BlindUnderWay(a)
    <3>1. toDevice = <<>> /\ Len(toDevice) = 0 BY DEF Quiet
    <3>2. QED BY <3>1 DEF BlindUnderWay
  <2>4. QED BY <2>2, <2>3 DEF BlindArrived, BlindRests
<1>2. QED BY <1>1, BlindInvariant, PTL
=============================================================================
