------------------------- MODULE CommissioningProofs -------------------------
(***************************************************************************)
(* Proofs about Commissioning: what the vdcd and the gateway know, for     *)
(* every number of windows, connections, answers and devices, and whatever *)
(* an earlier run has left.                                                *)
(***************************************************************************)
EXTENDS Commissioning, BridgeProofs

---------------------------------------------------------------------------
(* The inductive invariant.                                                *)

\* The types that the steps of the status need.
VdcTypes == toStatus \in Seq(Property \X BOOLEAN) /\ vdcStatus \in VdcStatus /\ vdcBehind \in BOOLEAN

GatewayTypes ==
  /\ window \in BOOLEAN /\ ccReported \in BOOLEAN /\ ccBehind \in BOOLEAN
  /\ toGateway \in Seq(CCStatus) /\ ccStatus \in CCStatus

\* What a property is going to be when all of q has arrived.
LastSays(q, p, is) == \E k \in DOMAIN q : q[k] = <<p, is>> /\ \A j \in DOMAIN q : j > k => q[j][1] # p
WillBe(q, s, p, is) == LastSays(q, p, is) \/ ((\A k \in DOMAIN q : q[k][1] # p) /\ s[p] = is)

\* The code that the vdcd has, when it gets the n-th of q, is a code.
CodeBefore(q, s, n) ==
  \/ \E k \in 1 .. n - 1 : q[k] = Code(TRUE) /\ \A j \in k + 1 .. n - 1 : q[j][1] # "code"
  \/ (\A j \in 1 .. n - 1 : q[j][1] # "code") /\ s.code

\* While the program runs ...
VdcConnection == (p44Connected => p44Once) /\ (~p44Connected => fromVdc = <<>>)

\* ... with the stack, the vdcd is told the truth; before, that it is not commissionable,
VdcTold ==
  ~vdcBehind =>
    IF bridge.up THEN /\ WillBe(toStatus, vdcStatus, "started", TRUE)
                      /\ WillBe(toStatus, vdcStatus, "commissionable", window)
                      /\ WillBe(toStatus, vdcStatus, "code", TRUE)
    ELSE p44Once => WillBe(toStatus, vdcStatus, "commissionable", FALSE)
NotYet == ~bridge.up => ~window /\ \A k \in DOMAIN toStatus : toStatus[k] # Commissionable(TRUE)

\* ... and the gateway, from the first report on.
GatewayTells ==
  /\ bridge.up => ccStatus.code
  /\ ccReported => bridge.up /\ ccStatus.commissionable = window
  /\ ccReported /\ ~ccBehind =>
       IF toGateway = <<>> THEN gateway # <<>> => gateway = <<[commissionable |-> window, code |-> window]>>
       ELSE toGateway[Len(toGateway)] = [commissionable |-> window, code |-> window]

\* To the end, the code is under way before the news that it can be used.
CodeIsFirst ==
  ~vdcBehind => \A n \in DOMAIN toStatus : toStatus[n] = Commissionable(TRUE) => CodeBefore(toStatus, vdcStatus, n)

VdcInv == VdcTypes /\ CodeIsFirst /\ (~bridge.exited => MainInv(bridge) /\ VdcConnection /\ VdcTold /\ NotYet)
GatewayInv == GatewayTypes /\ (~bridge.exited => GatewayTells)

StatusInv == bridge \in Bridge /\ VdcInv /\ GatewayInv

---------------------------------------------------------------------------
(* What is on its way, with more calls added and with the first one done.  *)

Joined(q, r, t) ==
  /\ DOMAIN q = 1 .. Len(q) /\ Len(q) \in Nat /\ DOMAIN r = 1 .. Len(r) /\ Len(r) \in Nat
  /\ DOMAIN t = 1 .. Len(t) /\ Len(t) = Len(q) + Len(r)
  /\ \A k \in DOMAIN q : k \in DOMAIN t /\ t[k] = q[k]
  /\ \A k \in DOMAIN r : Len(q) + k \in DOMAIN t /\ t[Len(q) + k] = r[k]
  /\ \A k \in DOMAIN t : k \in DOMAIN q \/ (k - Len(q) \in DOMAIN r /\ t[k] = r[k - Len(q)] /\ k > Len(q))

LEMMA JoinedConcat ==
  ASSUME NEW S, NEW q \in Seq(S), NEW r \in Seq(S), NEW t, t = q \o r
  PROVE  Joined(q, r, t) /\ t \in Seq(S)
<1>1. /\ DOMAIN q = 1 .. Len(q) /\ Len(q) \in Nat /\ DOMAIN r = 1 .. Len(r) /\ Len(r) \in Nat
      /\ DOMAIN t = 1 .. Len(t) /\ Len(t) = Len(q) + Len(r) /\ t \in Seq(S)
  OBVIOUS
<1>2. \A k \in 1 .. Len(q) : t[k] = q[k]
  OBVIOUS
<1>3. \A k \in DOMAIN t : k > Len(q) => t[k] = r[k - Len(q)]
  OBVIOUS
<1>4. \A k \in DOMAIN r : Len(q) + k \in DOMAIN t /\ t[Len(q) + k] = r[k]
  <2> SUFFICES ASSUME NEW k \in DOMAIN r PROVE Len(q) + k \in DOMAIN t /\ t[Len(q) + k] = r[k]
    OBVIOUS
  <2>1. Len(q) + k \in DOMAIN t /\ Len(q) + k > Len(q) /\ (Len(q) + k) - Len(q) = k
    BY <1>1
  <2>2. QED
    BY <1>3, <2>1
<1>5. \A k \in DOMAIN t : k \in DOMAIN q \/ (k - Len(q) \in DOMAIN r /\ t[k] = r[k - Len(q)] /\ k > Len(q))
  BY <1>1, <1>3
<1>6. QED
  BY <1>1, <1>2, <1>4, <1>5 DEF Joined

LEMMA WillBeSaid ==
  ASSUME NEW q, NEW r, NEW t, Joined(q, r, t), NEW s, NEW p, NEW is, LastSays(r, p, is)
  PROVE  WillBe(t, s, p, is)
<1>1. PICK k \in DOMAIN r : r[k] = <<p, is>> /\ \A j \in DOMAIN r : j > k => r[j][1] # p
  BY DEF LastSays
<1>2. PICK n \in DOMAIN t : n = Len(q) + k /\ t[n] = <<p, is>>
  BY <1>1 DEF Joined
<1>3. \A j \in DOMAIN t : j > n => t[j][1] # p
  <2> SUFFICES ASSUME NEW j \in DOMAIN t, j > n PROVE t[j][1] # p
    OBVIOUS
  <2>1. j - Len(q) \in DOMAIN r /\ t[j] = r[j - Len(q)] /\ j - Len(q) > k
    BY <1>2 DEF Joined
  <2>2. QED
    BY <1>1, <2>1
<1>4. QED
  BY <1>2, <1>3 DEF WillBe, LastSays

LEMMA WillBeStill ==
  ASSUME NEW q, NEW r, NEW t, Joined(q, r, t), NEW s, NEW p, NEW is, WillBe(q, s, p, is),
         \A k \in DOMAIN r : r[k][1] # p
  PROVE  WillBe(t, s, p, is)
<1>1. \A k \in DOMAIN t : k \notin DOMAIN q => t[k][1] # p
  BY DEF Joined
<1>2. CASE LastSays(q, p, is)
  <2>1. PICK k \in DOMAIN q : q[k] = <<p, is>> /\ \A j \in DOMAIN q : j > k => q[j][1] # p
    BY <1>2 DEF LastSays
  <2>2. k \in DOMAIN t /\ t[k] = <<p, is>> /\ \A j \in DOMAIN t : j > k => t[j][1] # p
    BY <1>1, <2>1 DEF Joined
  <2>3. QED
    BY <2>2 DEF WillBe, LastSays
<1>3. CASE (\A k \in DOMAIN q : q[k][1] # p) /\ s[p] = is
  <2>1. \A k \in DOMAIN t : t[k][1] # p
    BY <1>1, <1>3 DEF Joined
  <2>2. QED
    BY <1>3, <2>1 DEF WillBe
<1>4. QED
  BY <1>2, <1>3 DEF WillBe

\* The vdcd sets the first property.
Set(s, c) == [s EXCEPT ![c[1]] = c[2]]

LEMMA SetGives ==
  ASSUME NEW s \in VdcStatus, NEW c \in Property \X BOOLEAN
  PROVE  /\ Set(s, c) \in VdcStatus /\ Set(s, c)[c[1]] = c[2]
         /\ \A p \in Property : p # c[1] => Set(s, c)[p] = s[p]
<1>1. s = [p \in Property |-> s[p]] /\ \A p \in Property : s[p] \in BOOLEAN
  BY DEF VdcStatus, Property
<1>2. PICK p \in Property, is \in BOOLEAN : c = <<p, is>>
  OBVIOUS
<1>3. PICK z : z = [s EXCEPT ![p] = is]
  OBVIOUS
<1>4. z = [x \in Property |-> IF x = p THEN is ELSE s[x]]
  BY <1>1, <1>3
<1>5. z = [started |-> z["started"], commissionable |-> z["commissionable"], code |-> z["code"]]
  BY <1>4 DEF Property
<1>6. z \in VdcStatus
  BY <1>1, <1>4, <1>5 DEF VdcStatus, Property
<1>7. QED
  BY <1>2, <1>3, <1>4, <1>6 DEF Set

LEMMA WillBeSet ==
  ASSUME NEW q \in Seq(Property \X BOOLEAN), q # <<>>, NEW s \in VdcStatus,
         NEW t, t = Tail(q), NEW z, z = Set(s, Head(q)), NEW p \in Property, NEW is, WillBe(q, s, p, is)
  PROVE  WillBe(t, z, p, is)
<1>1. Shorter(q, t) /\ Head(q) = q[1] /\ 1 \in DOMAIN q
  BY ShorterTail
<1>2. PICK c \in Property \X BOOLEAN : c = q[1]
  BY <1>1
<1>3. z[c[1]] = c[2] /\ (p # c[1] => z[p] = s[p])
  BY <1>1, <1>2, SetGives
<1>4. \A k \in DOMAIN t : k + 1 \in DOMAIN q /\ t[k] = q[k + 1]
  BY <1>1 DEF Shorter
<1>5. ASSUME NEW k \in DOMAIN q, q[k] = <<p, is>>, \A j \in DOMAIN q : j > k => q[j][1] # p
      PROVE  WillBe(t, z, p, is)
  <2>1. CASE k = 1
    <3>1. \A j \in DOMAIN t : t[j][1] # p
      <4>1. \A j \in DOMAIN t : j + 1 > 1
        BY <1>1 DEF Shorter
      <4>2. QED
        BY <1>4, <1>5, <2>1, <4>1
    <3>2. z[p] = is
      <4>1. c = <<p, is>>
        BY <1>2, <1>5, <2>1
      <4>2. c[1] = p /\ c[2] = is
        BY <4>1
      <4>3. QED
        BY <1>3, <4>2
    <3>3. QED
      BY <3>1, <3>2 DEF WillBe
  <2>2. CASE k # 1
    <3>1. PICK i \in DOMAIN t : i = k - 1 /\ t[i] = q[k]
      BY <1>1, <2>2 DEF Shorter
    <3>2. \A j \in DOMAIN t : j > i => j + 1 > k
      BY <1>1, <3>1 DEF Shorter
    <3>3. \A j \in DOMAIN t : j > i => t[j][1] # p
      BY <1>4, <1>5, <3>2
    <3>4. QED
      BY <1>5, <3>1, <3>3 DEF WillBe, LastSays
  <2>3. QED
    BY <2>1, <2>2
<1>6. CASE (\A k \in DOMAIN q : q[k][1] # p) /\ s[p] = is
  <2>1. z[p] = is /\ \A k \in DOMAIN t : t[k][1] # p
    BY <1>1, <1>2, <1>3, <1>4, <1>6
  <2>2. QED
    BY <2>1 DEF WillBe
<1>7. QED
  BY <1>5, <1>6 DEF WillBe, LastSays

\* What is in the first of two sequences has the same code before it.
LEMMA CodeStays ==
  ASSUME NEW q, NEW r, NEW t, Joined(q, r, t), NEW s, NEW n \in DOMAIN q, CodeBefore(q, s, n)
  PROVE  CodeBefore(t, s, n)
<1>1. n \in Nat /\ \A k \in 1 .. n - 1 : t[k] = q[k]
  BY DEF Joined
<1>2. \A k \in 1 .. n - 1 : \A j \in k + 1 .. n - 1 : j \in 1 .. n - 1
  BY <1>1
<1>3. CASE \E k \in 1 .. n - 1 : q[k] = Code(TRUE) /\ \A j \in k + 1 .. n - 1 : q[j][1] # "code"
  <2>1. PICK k \in 1 .. n - 1 : q[k] = Code(TRUE) /\ \A j \in k + 1 .. n - 1 : q[j][1] # "code"
    BY <1>3
  <2>2. t[k] = Code(TRUE)
    BY <1>1, <2>1
  <2>3. \A j \in k + 1 .. n - 1 : t[j][1] # "code"
    BY <1>1, <1>2, <2>1
  <2>4. QED
    BY <2>2, <2>3 DEF CodeBefore
<1>4. CASE (\A j \in 1 .. n - 1 : q[j][1] # "code") /\ s.code
  BY <1>1, <1>4 DEF CodeBefore
<1>5. QED
  BY <1>3, <1>4 DEF CodeBefore

\* What comes next has the code before it that is going to be there.
LEMMA CodeNext ==
  ASSUME NEW q, NEW r, NEW t, Joined(q, r, t), NEW s, WillBe(q, s, "code", TRUE),
         \A k \in DOMAIN q : q[k] \in Property \X BOOLEAN,
         s.code = s["code"],
         1 \in DOMAIN r
  PROVE  CodeBefore(t, s, Len(q) + 1)
<1>1. /\ Len(q) \in Nat /\ (Len(q) + 1) - 1 = Len(q) /\ DOMAIN q = 1 .. Len(q)
      /\ \A k \in DOMAIN q : t[k] = q[k]
  BY DEF Joined
<1>2. CASE LastSays(q, "code", TRUE)
  <2>1. PICK k \in DOMAIN q : q[k] = <<"code", TRUE>> /\ \A j \in DOMAIN q : j > k => q[j][1] # "code"
    BY <1>2 DEF LastSays
  <2>2. \A j \in k + 1 .. Len(q) : j \in DOMAIN q /\ j > k
    BY <1>1, <2>1
  <2>3. k \in 1 .. Len(q) /\ t[k] = Code(TRUE) /\ \A j \in k + 1 .. Len(q) : t[j][1] # "code"
    BY <1>1, <2>1, <2>2 DEF Code
  <2>4. QED
    BY <1>1, <2>3 DEF CodeBefore
<1>3. CASE (\A k \in DOMAIN q : q[k][1] # "code") /\ s["code"] = TRUE
  BY <1>1, <1>3 DEF CodeBefore
<1>4. QED
  BY <1>2, <1>3 DEF WillBe

\* A code that comes together with the news comes before it.
LEMMA CodeWith ==
  ASSUME NEW q, NEW r, NEW t, Joined(q, r, t), NEW s, NEW n \in DOMAIN r, NEW k \in 1 .. n - 1,
         r[k] = Code(TRUE), \A j \in k + 1 .. n - 1 : r[j][1] # "code"
  PROVE  CodeBefore(t, s, Len(q) + n)
<1>1. /\ Len(q) \in Nat /\ n \in Nat /\ DOMAIN r = 1 .. Len(r) /\ Len(r) \in Nat /\ k \in DOMAIN r
      /\ \A j \in DOMAIN r : t[Len(q) + j] = r[j]
  BY DEF Joined
<1>2. Len(q) + k \in 1 .. (Len(q) + n) - 1 /\ t[Len(q) + k] = Code(TRUE)
  <2>1. k \in Nat /\ k >= 1 /\ k <= n - 1
    BY <1>1
  <2>2. Len(q) + k \in 1 .. (Len(q) + n) - 1
    BY <1>1, <2>1
  <2>3. QED
    BY <1>1, <2>2
<1>3. ASSUME NEW i \in (Len(q) + k) + 1 .. (Len(q) + n) - 1
      PROVE  t[i][1] # "code"
  <2>1. PICK j \in k + 1 .. n - 1 : i = Len(q) + j
    <3>1. k \in Nat /\ i \in Int /\ i >= (Len(q) + k) + 1 /\ i <= (Len(q) + n) - 1
      BY <1>1, <1>3
    <3>2. i - Len(q) \in k + 1 .. n - 1 /\ i = Len(q) + (i - Len(q))
      BY <1>1, <3>1
    <3>3. QED
      BY <3>2
  <2>2. j \in DOMAIN r
    BY <1>1
  <2>3. QED
    BY <1>1, <2>1, <2>2
<1>4. QED
  BY <1>2, <1>3 DEF CodeBefore

\* The first property is set.
LEMMA CodeSet ==
  ASSUME NEW q \in Seq(Property \X BOOLEAN), q # <<>>, NEW s \in VdcStatus,
         NEW t, t = Tail(q), NEW z, z = Set(s, Head(q)), NEW n \in DOMAIN t, CodeBefore(q, s, n + 1)
  PROVE  CodeBefore(t, z, n)
<1>1. Shorter(q, t) /\ Head(q) = q[1] /\ 1 \in DOMAIN q
  BY ShorterTail
<1>2. PICK c \in Property \X BOOLEAN : c = q[1]
  BY <1>1
<1>3. z[c[1]] = c[2] /\ ("code" # c[1] => z["code"] = s["code"])
  <2>1. "code" \in Property /\ z = Set(s, c)
    BY <1>1, <1>2 DEF Property
  <2>2. Set(s, c)[c[1]] = c[2] /\ \A p \in Property : p # c[1] => Set(s, c)[p] = s[p]
    BY SetGives
  <2>3. QED
    BY <2>1, <2>2
<1>4. /\ n \in Nat /\ n >= 1 /\ (n + 1) - 1 = n
      /\ \A k \in 1 .. n - 1 : t[k] = q[k + 1] /\ k + 1 \in 1 .. n
  BY <1>1 DEF Shorter
<1>5. ASSUME NEW k \in 1 .. n, q[k] = Code(TRUE), \A j \in k + 1 .. n : q[j][1] # "code"
      PROVE  CodeBefore(t, z, n)
  <2>1. CASE k = 1
    <3>1. \A j \in 1 .. n - 1 : t[j][1] # "code"
      <4>1. \A j \in 1 .. n - 1 : j + 1 \in k + 1 .. n
        BY <1>4, <2>1
      <4>2. QED
        BY <1>4, <1>5, <4>1
    <3>2. z["code"] = TRUE
      <4>1. c = <<"code", TRUE>>
        BY <1>2, <1>5, <2>1 DEF Code
      <4>2. c[1] = "code" /\ c[2] = TRUE
        BY <4>1
      <4>3. QED
        BY <1>3, <4>2
    <3>3. QED
      BY <3>1, <3>2 DEF CodeBefore
  <2>2. CASE k # 1
    <3>1. PICK i \in 1 .. n - 1 : k = i + 1
      <4>1. k - 1 \in 1 .. n - 1 /\ k = (k - 1) + 1
        BY <1>4, <2>2
      <4>2. QED
        BY <4>1
    <3>2. \A j \in i + 1 .. n - 1 : j \in 1 .. n - 1 /\ j + 1 \in k + 1 .. n
      BY <1>4, <3>1
    <3>3. t[i] = Code(TRUE) /\ \A j \in i + 1 .. n - 1 : t[j][1] # "code"
      BY <1>4, <1>5, <3>1, <3>2
    <3>4. QED
      BY <3>1, <3>3 DEF CodeBefore
  <2>3. QED
    BY <2>1, <2>2
<1>6. CASE (\A j \in 1 .. n : q[j][1] # "code") /\ s.code
  <2>1. 1 \in 1 .. n /\ \A j \in 1 .. n - 1 : t[j][1] # "code"
    BY <1>4, <1>6
  <2>2. z["code"]
    BY <1>2, <1>3, <1>6, <2>1
  <2>3. QED
    BY <2>1, <2>2 DEF CodeBefore
<1>7. QED
  BY <1>4, <1>5, <1>6 DEF CodeBefore

---------------------------------------------------------------------------
(* The calls.                                                              *)

LEMMA TwoCalls ==
  ASSUME NEW S, NEW a \in S, NEW b \in S, NEW r, r = <<a, b>>
  PROVE  DOMAIN r = 1 .. 2 /\ r[1] = a /\ r[2] = b /\ r \in Seq(S)
OBVIOUS

LEMMA ThreeCalls ==
  ASSUME NEW S, NEW a \in S, NEW b \in S, NEW c \in S, NEW r, r = <<a, b, c>>
  PROVE  DOMAIN r = 1 .. 3 /\ r[1] = a /\ r[2] = b /\ r[3] = c /\ r \in Seq(S)
OBVIOUS

LEMMA FourCalls ==
  ASSUME NEW S, NEW a \in S, NEW b \in S, NEW c \in S, NEW d \in S, NEW r, r = <<a, b, c, d>>
  PROVE  DOMAIN r = 1 .. 4 /\ r[1] = a /\ r[2] = b /\ r[3] = c /\ r[4] = d /\ r \in Seq(S)
OBVIOUS

\* A call says one property.
LEMMA CallSays ==
  ASSUME NEW is \in BOOLEAN
  PROVE  /\ Code(is) \in Property \X BOOLEAN /\ Code(is)[1] = "code" /\ Code(is)[2] = is
         /\ Started(is) \in Property \X BOOLEAN /\ Started(is)[1] = "started" /\ Started(is)[2] = is
         /\ Commissionable(is) \in Property \X BOOLEAN
         /\ Commissionable(is)[1] = "commissionable" /\ Commissionable(is)[2] = is
BY DEF Code, Started, Commissionable, Property

LEMMA StartCallsSay ==
  ASSUME NEW is \in BOOLEAN, NEW r, r = StartCalls(is)
  PROVE  /\ r \in Seq(Property \X BOOLEAN)
         /\ LastSays(r, "started", TRUE) /\ LastSays(r, "code", TRUE)
         /\ is => LastSays(r, "commissionable", TRUE)
         /\ ~is => \A k \in DOMAIN r : r[k][1] # "commissionable"
         /\ \A n \in DOMAIN r : r[n] = Commissionable(TRUE) =>
              \E k \in 1 .. n - 1 : r[k] = Code(TRUE) /\ \A j \in k + 1 .. n - 1 : r[j][1] # "code"
<1>0. PICK a \in Property \X BOOLEAN, b \in Property \X BOOLEAN, c \in Property \X BOOLEAN :
        /\ a = Code(TRUE) /\ b = Started(TRUE) /\ c = Commissionable(TRUE)
        /\ a[1] = "code" /\ b[1] = "started" /\ c[1] = "commissionable"
        /\ a = <<"code", TRUE>> /\ b = <<"started", TRUE>> /\ c = <<"commissionable", TRUE>>
  BY CallSays DEF Code, Started, Commissionable
<1>1. CASE is
  <2>1. r = <<a, c, b, c>>
    BY <1>0, <1>1 DEF StartCalls
  <2>2. DOMAIN r = 1 .. 4 /\ r[1] = a /\ r[2] = c /\ r[3] = b /\ r[4] = c /\ r \in Seq(Property \X BOOLEAN)
    BY <2>1, FourCalls
  <2>3. r[1][1] = "code" /\ r[2][1] = "commissionable" /\ r[3][1] = "started" /\ r[4][1] = "commissionable"
    BY <1>0, <2>2
  <2>4. \A k \in DOMAIN r : k = 1 \/ k = 2 \/ k = 3 \/ k = 4
    BY <2>2
  <2>6. LastSays(r, "started", TRUE)
    <3>1. 3 \in DOMAIN r /\ \A j \in DOMAIN r : j > 3 => j = 4
      BY <2>2, <2>4
    <3>2. \A j \in DOMAIN r : j > 3 => r[j][1] # "started"
      BY <2>3, <3>1
    <3>3. QED
      BY <1>0, <2>2, <3>1, <3>2 DEF LastSays
  <2>7. \A j \in DOMAIN r : j > 1 => r[j][1] # "code"
    BY <2>3, <2>4
  <2>8. LastSays(r, "code", TRUE)
    <3>1. 1 \in DOMAIN r
      BY <2>2
    <3>2. QED
      BY <1>0, <2>2, <2>7, <3>1 DEF LastSays
  <2>9. LastSays(r, "commissionable", TRUE)
    <3>1. 4 \in DOMAIN r /\ \A j \in DOMAIN r : ~(j > 4)
      BY <2>2, <2>4
    <3>2. QED
      BY <1>0, <2>2, <3>1 DEF LastSays
  <2>10. ASSUME NEW n \in DOMAIN r, r[n] = Commissionable(TRUE)
         PROVE  \E k \in 1 .. n - 1 : r[k] = Code(TRUE) /\ \A j \in k + 1 .. n - 1 : r[j][1] # "code"
    <3>1. r[n][1] = "commissionable"
      BY <1>0, <2>10
    <3>2. n # 1 /\ n \in 1 .. 4
      BY <2>2, <2>3, <3>1
    <3>3. 1 \in 1 .. n - 1 /\ \A j \in 1 + 1 .. n - 1 : j \in DOMAIN r /\ j > 1
      BY <2>2, <3>2
    <3>4. r[1] = Code(TRUE) /\ \A j \in 1 + 1 .. n - 1 : r[j][1] # "code"
      BY <1>0, <2>2, <2>7, <3>3
    <3>5. QED
      BY <3>3, <3>4
  <2>11. QED
    BY <1>1, <2>2, <2>6, <2>8, <2>9, <2>10
<1>2. CASE ~is
  <2>1. r = <<a, b>>
    BY <1>0, <1>2 DEF StartCalls
  <2>2. DOMAIN r = 1 .. 2 /\ r[1] = a /\ r[2] = b /\ r \in Seq(Property \X BOOLEAN)
    BY <2>1, TwoCalls
  <2>3. r[1][1] = "code" /\ r[2][1] = "started"
    BY <1>0, <2>2
  <2>4. \A k \in DOMAIN r : k = 1 \/ k = 2
    BY <2>2
  <2>5. r \in Seq(Property \X BOOLEAN)
    <3>1. "code" \in Property /\ "started" \in Property
      BY DEF Property
    <3>2. QED
      BY <2>1, <3>1
  <2>6. LastSays(r, "started", TRUE)
    <3>1. 2 \in DOMAIN r /\ \A j \in DOMAIN r : ~(j > 2)
      BY <2>2, <2>4
    <3>2. QED
      BY <1>0, <2>2, <3>1 DEF LastSays
  <2>7. LastSays(r, "code", TRUE)
    <3>1. 1 \in DOMAIN r /\ \A j \in DOMAIN r : j > 1 => r[j][1] # "code"
      BY <2>2, <2>3, <2>4
    <3>2. QED
      BY <1>0, <2>2, <3>1 DEF LastSays
  <2>8. \A k \in DOMAIN r : r[k][1] # "commissionable"
    BY <2>3, <2>4
  <2>9. \A k \in DOMAIN r : r[k] # Commissionable(TRUE)
    BY <1>0, <2>8
  <2>10. QED
    BY <1>2, <2>2, <2>6, <2>7, <2>8, <2>9
<1>3. QED
  BY <1>1, <1>2

\* The calls of updateBridgeStatus.
ResetCalls(is) == <<Code(FALSE), Started(is), Commissionable(FALSE)>>

LEMMA ResetCallsSay ==
  ASSUME NEW is \in BOOLEAN, NEW r, r = ResetCalls(is)
  PROVE  /\ r \in Seq(Property \X BOOLEAN)
         /\ LastSays(r, "commissionable", FALSE)
         /\ \A k \in DOMAIN r : r[k] # Commissionable(TRUE)
<1>1. PICK a \in Property \X BOOLEAN, b \in Property \X BOOLEAN, c \in Property \X BOOLEAN :
        /\ a = Code(FALSE) /\ b = Started(is) /\ c = Commissionable(FALSE)
        /\ a[1] = "code" /\ b[1] = "started" /\ c[2] = FALSE /\ c = <<"commissionable", FALSE>>
  BY CallSays DEF Commissionable
<1>2. DOMAIN r = 1 .. 3 /\ r[1] = a /\ r[2] = b /\ r[3] = c /\ r \in Seq(Property \X BOOLEAN)
  <2>1. r = <<a, b, c>>
    BY <1>1 DEF ResetCalls
  <2>2. QED
    BY <2>1, ThreeCalls
<1>3. r[1][1] = "code" /\ r[2][1] = "started" /\ r[3][2] = FALSE
  BY <1>1, <1>2
<1>4. \A k \in DOMAIN r : k = 1 \/ k = 2 \/ k = 3
  BY <1>2
<1>6. LastSays(r, "commissionable", FALSE)
  <2>1. 3 \in DOMAIN r /\ \A j \in DOMAIN r : ~(j > 3)
    BY <1>2, <1>4
  <2>2. QED
    BY <1>1, <1>2, <2>1 DEF LastSays
<1>7. \A k \in DOMAIN r : r[k][1] # "commissionable" \/ r[k][2] # TRUE
  BY <1>3, <1>4
<1>8. \A k \in DOMAIN r : r[k] # Commissionable(TRUE)
  <2>1. Commissionable(TRUE)[1] = "commissionable" /\ Commissionable(TRUE)[2] = TRUE
    BY CallSays
  <2>2. QED
    BY <1>7, <2>1
<1>9. QED
  BY <1>2, <1>6, <1>8

LEMMA WindowCallSays ==
  ASSUME NEW is \in BOOLEAN, NEW r, r = <<Commissionable(is)>>
  PROVE  /\ r \in Seq(Property \X BOOLEAN) /\ DOMAIN r = {1}
         /\ LastSays(r, "commissionable", is)
         /\ \A k \in DOMAIN r : r[k][1] \notin {"code", "started"}
<1>1. /\ DOMAIN r = {1} /\ r[1] = <<"commissionable", is>> /\ r \in Seq(Property \X BOOLEAN)
  BY DEF Commissionable, Property
<1>2. LastSays(r, "commissionable", is)
  BY <1>1 DEF LastSays
<1>3. QED
  BY <1>1, <1>2

---------------------------------------------------------------------------
(* What each step does to the calls under way to the vdcd.                 *)

\* updateBridgeStatus, before and after the start of the stack.
LEMMA ResetTells ==
  ASSUME VdcTypes, NotYet, bridge.up \in BOOLEAN,
         NEW is \in BOOLEAN, toStatus' = toStatus \o ResetCalls(is),
         vdcBehind' = bridge.up, bridge'.up = bridge.up, vdcStatus' = vdcStatus, window' = window
  PROVE  VdcTypes' /\ CodeIsFirst' /\ VdcTold' /\ NotYet'
<1>1. PICK r \in Seq(Property \X BOOLEAN) :
        /\ r = ResetCalls(is) /\ LastSays(r, "commissionable", FALSE)
        /\ \A k \in DOMAIN r : r[k] # Commissionable(TRUE)
  BY ResetCallsSay
<1>2. PICK q \in Seq(Property \X BOOLEAN) : q = toStatus
  BY DEF VdcTypes
<1>3. PICK t \in Seq(Property \X BOOLEAN) : t = toStatus' /\ Joined(q, r, t)
  BY <1>1, <1>2, JoinedConcat
<1>4. CASE bridge.up
  <2>1. vdcBehind' = TRUE /\ bridge'.up
    BY <1>4
  <2>2. VdcTypes'
    BY <1>3, <2>1 DEF VdcTypes
  <2>3. QED
    BY <2>1, <2>2 DEF CodeIsFirst, VdcTold, NotYet
<1>5. CASE ~bridge.up
  <2>1. ~bridge'.up /\ vdcBehind' \in BOOLEAN /\ ~window'
    BY <1>5 DEF NotYet
  <2>2. \A k \in DOMAIN t : t[k] # Commissionable(TRUE)
    <3>1. \A k \in DOMAIN q : q[k] # Commissionable(TRUE)
      BY <1>2, <1>5 DEF NotYet
    <3>2. ASSUME NEW k \in DOMAIN t
          PROVE  (k \in DOMAIN q /\ t[k] = q[k]) \/ (k - Len(q) \in DOMAIN r /\ t[k] = r[k - Len(q)])
      BY <1>3 DEF Joined
    <3>3. QED
      BY <1>1, <3>1, <3>2
  <2>3. WillBe(t, vdcStatus', "commissionable", FALSE)
    BY <1>1, <1>3, WillBeSaid
  <2>4. VdcTypes'
    BY <1>3, <2>1 DEF VdcTypes
  <2>5. CodeIsFirst' /\ NotYet'
    BY <1>3, <2>1, <2>2 DEF CodeIsFirst, NotYet
  <2>6. VdcTold'
    BY <1>3, <2>1, <2>3 DEF VdcTold
  <2>7. QED
    BY <2>4, <2>5, <2>6
<1>6. QED
  BY <1>4, <1>5

\* startChip, with the vdcd connected.
LEMMA StartTells ==
  ASSUME VdcTypes, VdcConnection, VdcTold, NotYet, NEW is \in BOOLEAN,
         p44Connected, toStatus' = toStatus \o StartCalls(is),
         vdcBehind' = vdcBehind, ~bridge.up, bridge'.up, vdcStatus' = vdcStatus, window' = is
  PROVE  VdcTypes' /\ CodeIsFirst' /\ VdcTold' /\ NotYet'
<1>1. PICK r \in Seq(Property \X BOOLEAN) :
        /\ r = StartCalls(is) /\ LastSays(r, "started", TRUE) /\ LastSays(r, "code", TRUE)
        /\ is => LastSays(r, "commissionable", TRUE)
        /\ ~is => \A k \in DOMAIN r : r[k][1] # "commissionable"
        /\ \A n \in DOMAIN r : r[n] = Commissionable(TRUE) =>
             \E k \in 1 .. n - 1 : r[k] = Code(TRUE) /\ \A j \in k + 1 .. n - 1 : r[j][1] # "code"
  BY StartCallsSay
<1>2. PICK q \in Seq(Property \X BOOLEAN) : q = toStatus
  BY DEF VdcTypes
<1>3. PICK t \in Seq(Property \X BOOLEAN) : t = toStatus' /\ Joined(q, r, t)
  BY <1>1, <1>2, JoinedConcat
<1>4. PICK s \in VdcStatus : s = vdcStatus
  BY DEF VdcTypes
<1>5. VdcTypes' /\ NotYet'
  BY <1>3 DEF VdcTypes, NotYet
<1>6. ASSUME NEW n \in DOMAIN t, t[n] = Commissionable(TRUE)
      PROVE  CodeBefore(t, s, n)
  <2>1. n \notin DOMAIN q
    BY <1>2, <1>3, <1>6 DEF NotYet, Joined
  <2>2. PICK m \in DOMAIN r : n = Len(q) + m /\ r[m] = Commissionable(TRUE)
    <3>1. n - Len(q) \in DOMAIN r /\ t[n] = r[n - Len(q)] /\ n = Len(q) + (n - Len(q))
      BY <1>3, <2>1 DEF Joined
    <3>2. QED
      BY <1>6, <3>1
  <2>3. PICK k \in 1 .. m - 1 : r[k] = Code(TRUE) /\ \A j \in k + 1 .. m - 1 : r[j][1] # "code"
    BY <1>1, <2>2
  <2>4. CodeBefore(t, s, Len(q) + m)
    BY <1>3, <2>3, CodeWith
  <2>5. QED
    BY <2>2, <2>4
<1>7. CodeIsFirst'
  BY <1>3, <1>4, <1>6 DEF CodeIsFirst
<1>8. WillBe(t, s, "started", TRUE) /\ WillBe(t, s, "code", TRUE)
  BY <1>1, <1>3, WillBeSaid
<1>9. ASSUME ~vdcBehind
      PROVE  WillBe(t, s, "commissionable", is)
  <2>1. CASE is
    <3>1. WillBe(t, s, "commissionable", TRUE)
      BY <1>1, <1>3, <2>1, WillBeSaid
    <3>2. is = TRUE
      BY <2>1
    <3>3. QED
      BY <3>1, <3>2
  <2>2. CASE ~is
    <3>1. WillBe(q, s, "commissionable", FALSE)
      BY <1>2, <1>4, <1>9 DEF VdcTold, VdcConnection
    <3>2. WillBe(t, s, "commissionable", FALSE)
      BY <1>1, <1>3, <2>2, <3>1, WillBeStill
    <3>3. is = FALSE
      BY <2>2
    <3>4. QED
      BY <3>2, <3>3
  <2>3. QED
    BY <2>1, <2>2
<1>10. VdcTold'
  BY <1>3, <1>4, <1>8, <1>9 DEF VdcTold
<1>11. QED
  BY <1>5, <1>7, <1>10

\* A window opens or closes, with the vdcd connected.
LEMMA WindowTells ==
  ASSUME VdcTypes, CodeIsFirst, VdcTold, NEW is \in BOOLEAN,
         toStatus' = toStatus \o <<Commissionable(is)>>,
         vdcBehind' = vdcBehind, bridge.up, bridge'.up, vdcStatus' = vdcStatus, window' = is
  PROVE  VdcTypes' /\ CodeIsFirst' /\ VdcTold' /\ NotYet'
<1>1. PICK r \in Seq(Property \X BOOLEAN) :
        /\ r = <<Commissionable(is)>> /\ DOMAIN r = {1} /\ LastSays(r, "commissionable", is)
        /\ \A k \in DOMAIN r : r[k][1] \notin {"code", "started"}
  BY WindowCallSays
<1>2. PICK q \in Seq(Property \X BOOLEAN) : q = toStatus
  BY DEF VdcTypes
<1>3. PICK t \in Seq(Property \X BOOLEAN) : t = toStatus' /\ Joined(q, r, t)
  BY <1>1, <1>2, JoinedConcat
<1>4. PICK s \in VdcStatus : s = vdcStatus /\ s.code = s["code"]
  BY DEF VdcTypes
<1>5. VdcTypes' /\ NotYet'
  BY <1>3 DEF VdcTypes, NotYet
<1>6. ASSUME ~vdcBehind
      PROVE  /\ WillBe(q, s, "started", TRUE) /\ WillBe(q, s, "code", TRUE)
             /\ WillBe(t, s, "started", TRUE) /\ WillBe(t, s, "code", TRUE)
             /\ WillBe(t, s, "commissionable", is)
  <2>1. WillBe(q, s, "started", TRUE) /\ WillBe(q, s, "code", TRUE)
    BY <1>2, <1>4, <1>6 DEF VdcTold
  <2>2. WillBe(t, s, "started", TRUE)
    BY <1>1, <1>3, <2>1, WillBeStill
  <2>3. WillBe(t, s, "code", TRUE)
    BY <1>1, <1>3, <2>1, WillBeStill
  <2>4. WillBe(t, s, "commissionable", is)
    BY <1>1, <1>3, WillBeSaid
  <2>5. QED
    BY <2>1, <2>2, <2>3, <2>4
<1>7. ASSUME ~vdcBehind, NEW n \in DOMAIN t, t[n] = Commissionable(TRUE)
      PROVE  CodeBefore(t, s, n)
  <2>1. CASE n \in DOMAIN q
    <3>1. CodeBefore(q, s, n)
      BY <1>2, <1>3, <1>4, <1>7, <2>1 DEF CodeIsFirst, Joined
    <3>2. QED
      BY <1>3, <2>1, <3>1, CodeStays
  <2>2. CASE n \notin DOMAIN q
    <3>1. n = Len(q) + 1 /\ 1 \in DOMAIN r
      <4>1. n - Len(q) \in DOMAIN r /\ Len(q) \in Nat /\ n \in Int
        BY <1>3, <2>2 DEF Joined
      <4>2. n - Len(q) = 1
        BY <1>1, <4>1
      <4>3. QED
        BY <1>1, <4>1, <4>2
    <3>2. \A k \in DOMAIN q : q[k] \in Property \X BOOLEAN
      BY <1>2
    <3>3. WillBe(q, s, "code", TRUE)
      BY <1>6, <1>7
    <3>4. CodeBefore(t, s, Len(q) + 1)
      BY <1>3, <1>4, <3>1, <3>2, <3>3, CodeNext
    <3>5. QED
      BY <3>1, <3>4
  <2>3. QED
    BY <2>1, <2>2
<1>8. CodeIsFirst'
  BY <1>3, <1>4, <1>7 DEF CodeIsFirst
<1>9. VdcTold'
  BY <1>3, <1>4, <1>6 DEF VdcTold
<1>10. QED
  BY <1>5, <1>8, <1>9

\* The vdcd sets a property, while the program runs or after it.
LEMMA SetTells ==
  ASSUME VdcTypes, CodeIsFirst, ~bridge.exited => VdcTold /\ NotYet, PropertySet
  PROVE  VdcTypes' /\ CodeIsFirst' /\ (~bridge'.exited => VdcTold' /\ NotYet')
<1>1. PICK q \in Seq(Property \X BOOLEAN) : q = toStatus /\ q # <<>>
  BY DEF VdcTypes, PropertySet
<1>2. PICK s \in VdcStatus : s = vdcStatus
  BY DEF VdcTypes
<1>3. PICK t : t = toStatus' /\ t = Tail(q)
  BY <1>1 DEF PropertySet
<1>4. PICK z : z = vdcStatus' /\ z = Set(s, Head(q))
  BY <1>1, <1>2 DEF PropertySet, Set
<1>5. /\ UNCHANGED <<bridge, window, p44Once, vdcBehind>>
      /\ bridge'.exited = bridge.exited /\ bridge'.up = bridge.up
  BY DEF PropertySet, vars, windowVars, p44Vars
<1>6. Shorter(q, t) /\ t \in Seq(Property \X BOOLEAN) /\ Head(q) \in Property \X BOOLEAN
  BY <1>1, <1>3, ShorterTail, TailIn
<1>7. z \in VdcStatus
  BY <1>4, <1>6, SetGives
<1>8. VdcTypes'
  BY <1>3, <1>4, <1>5, <1>6, <1>7 DEF VdcTypes
<1>9. \A n \in DOMAIN t : n + 1 \in DOMAIN q /\ t[n] = q[n + 1]
  BY <1>6 DEF Shorter
<1>10. ASSUME ~vdcBehind, NEW n \in DOMAIN t, t[n] = Commissionable(TRUE)
       PROVE  CodeBefore(t, z, n)
  <2>1. CodeBefore(q, s, n + 1)
    BY <1>1, <1>2, <1>9, <1>10 DEF CodeIsFirst
  <2>2. QED
    BY <1>1, <1>3, <1>4, <2>1, CodeSet
<1>11. CodeIsFirst'
  BY <1>3, <1>4, <1>5, <1>10 DEF CodeIsFirst
<1>12. ASSUME ~bridge'.exited
       PROVE  VdcTold' /\ NotYet'
  <2>1. VdcTold /\ NotYet
    BY <1>5, <1>12
  <2>2. NotYet'
    BY <1>1, <1>3, <1>5, <1>9, <2>1 DEF NotYet
  <2>3. ASSUME NEW p \in Property, NEW is \in BOOLEAN, WillBe(q, s, p, is)
        PROVE  WillBe(t, z, p, is)
    BY <1>1, <1>3, <1>4, <2>3, WillBeSet
  <2>4. VdcTold'
    <3>1. CASE ~vdcBehind /\ bridge.up
      <4>1. /\ WillBe(q, s, "started", TRUE) /\ WillBe(q, s, "commissionable", window)
            /\ WillBe(q, s, "code", TRUE)
        BY <1>1, <1>2, <2>1, <3>1 DEF VdcTold
      <4>2. /\ WillBe(t, z, "started", TRUE) /\ WillBe(t, z, "commissionable", window)
            /\ WillBe(t, z, "code", TRUE)
        BY <1>1, <1>3, <1>4, <4>1, WillBeSet DEF Property
      <4>3. QED
        BY <1>3, <1>4, <1>5, <3>1, <4>2 DEF VdcTold
    <3>2. CASE ~vdcBehind /\ ~bridge.up /\ p44Once
      <4>1. WillBe(q, s, "commissionable", FALSE)
        BY <1>1, <1>2, <2>1, <3>2 DEF VdcTold
      <4>2. WillBe(t, z, "commissionable", FALSE)
        BY <1>1, <1>3, <1>4, <4>1, WillBeSet DEF Property
      <4>3. QED
        BY <1>3, <1>4, <1>5, <3>2, <4>2 DEF VdcTold
    <3>3. CASE vdcBehind \/ (~bridge.up /\ ~p44Once)
      BY <1>5, <3>3 DEF VdcTold
    <3>4. QED
      BY <3>1, <3>2, <3>3
  <2>5. QED
    BY <2>2, <2>4
<1>13. QED
  BY <1>8, <1>11, <1>12

\* The connection to the vdcd breaks.
LEMMA LostTells ==
  ASSUME VdcTypes, VdcTold, NotYet, toStatus' = <<>>, vdcBehind' = (vdcBehind \/ toStatus # <<>>),
         bridge'.up = bridge.up, vdcStatus' = vdcStatus, window' = window, p44Once' = p44Once
  PROVE  VdcTypes' /\ CodeIsFirst' /\ VdcTold' /\ NotYet'
<1>1. DOMAIN toStatus' = {} /\ VdcTypes'
  <2>1. toStatus' \in Seq(Property \X BOOLEAN) /\ DOMAIN toStatus' = {}
    OBVIOUS
  <2>2. vdcBehind' \in BOOLEAN
    BY DEF VdcTypes
  <2>3. QED
    BY <2>1, <2>2 DEF VdcTypes
<1>2. CodeIsFirst' /\ NotYet'
  BY <1>1 DEF CodeIsFirst, NotYet
<1>3. VdcTold'
  <2>1. CASE vdcBehind'
    BY <2>1 DEF VdcTold
  <2>2. CASE ~vdcBehind'
    <3>1. ~vdcBehind /\ toStatus' = toStatus
      BY <2>2 DEF VdcTypes
    <3>2. QED
      BY <3>1 DEF VdcTold
  <2>3. QED
    BY <2>1, <2>2
<1>4. QED
  BY <1>1, <1>2, <1>3

\* Nothing new for the vdcd.
LEMMA SameTells ==
  ASSUME VdcTypes, CodeIsFirst, toStatus' = toStatus, vdcStatus' = vdcStatus,
         vdcBehind' \in BOOLEAN, ~vdcBehind' => ~vdcBehind
  PROVE  /\ VdcTypes' /\ CodeIsFirst'
         /\ bridge'.up = bridge.up /\ window' = window =>
              /\ NotYet => NotYet'
              /\ (vdcBehind' \/ p44Once' = p44Once) /\ VdcTold => VdcTold'
<1>1. VdcTypes' /\ CodeIsFirst'
  BY DEF VdcTypes, CodeIsFirst
<1>2. ASSUME bridge'.up = bridge.up, window' = window, NotYet
      PROVE  NotYet'
  BY <1>2 DEF NotYet
<1>3. ASSUME bridge'.up = bridge.up, window' = window, vdcBehind' \/ p44Once' = p44Once, VdcTold
      PROVE  VdcTold'
  <2>1. CASE vdcBehind'
    BY <2>1 DEF VdcTold
  <2>2. CASE ~vdcBehind'
    <3>1. ~vdcBehind /\ p44Once' = p44Once
      BY <1>3, <2>2
    <3>2. QED
      BY <1>3, <3>1 DEF VdcTold
  <2>3. QED
    BY <2>1, <2>2
<1>4. QED
  BY <1>1, <1>2, <1>3

---------------------------------------------------------------------------
(* The steps.                                                              *)

\* The steps of the P44 adapter are those of Bridge.
P44Steps == ConnectVdc \/ FailToConnectVdc \/ ReconnectVdc \/ LoseVdc \/ OtherVdc

LEMMA StepsOfP44 ==
  ASSUME ~bridge.exited, P44Steps
  PROVE  P44Next
BY DEF P44Steps, ConnectVdc, FailToConnectVdc, ReconnectVdc, LoseVdc, OtherVdc, P44Next, P44System, P44Receive

LEMMA KeepsConnection ==
  ASSUME VdcConnection, P44Next
  PROVE  VdcConnection'
<1>1. ASSUME NEW m, Received(m)
      PROVE  VdcConnection'
  BY <1>1 DEF Received, VdcConnection
<1>2. CASE P44Connect
  BY <1>2 DEF P44Connect, VdcConnection
<1>3. CASE P44ConnectFails
  BY <1>3 DEF P44ConnectFails, VdcConnection
<1>4. CASE P44Lost
  BY <1>4 DEF P44Lost, VdcConnection
<1>5. CASE VdcAnswer
  BY <1>5 DEF VdcAnswer, VdcConnection
<1>6. ASSUME NEW u \in P44Uid, VdcChange(u) \/ VdcVanish(u)
      PROVE  VdcConnection'
  BY <1>6 DEF VdcChange, VdcVanish, Notify, VdcConnection
<1>7. CASE P44Receive
  BY <1>1, <1>7 DEF P44Receive, P44CollectQuery, P44ReconnectQuery, P44DeviceInfo, P44Push, P44Vanish
<1>8. QED
  BY <1>2, <1>3, <1>4, <1>5, <1>6, <1>7 DEF P44Next, P44System

\* The table of devices and the startup, in every step.
LEMMA MainOfStatus ==
  ASSUME bridge \in Bridge, ~bridge.exited => MainInv(bridge), StatusNext
  PROVE  bridge' \in Bridge /\ (~bridge'.exited => MainInv(bridge'))
<1>1. ASSUME MainInv(bridge')
      PROVE  bridge' \in Bridge /\ (~bridge'.exited => MainInv(bridge'))
  BY <1>1 DEF MainInv, MainType
<1>2. CASE StartChip
  <2>1. MainInv(bridge)
    BY <1>2 DEF StartChip
  <2>2. QED
    BY <1>1, <1>2, <2>1, MainOfStartChip
<1>3. CASE ~bridge.exited /\ P44Steps
  BY <1>1, <1>3, StepsOfP44, MainOfP44
<1>4. CASE CCNext
  <2>1. MainInv(bridge)
    BY <1>4 DEF CCNext
  <2>2. QED
    BY <1>1, <1>4, <2>1, MainOfCC
<1>5. CASE UNCHANGED bridge
  BY <1>5
<1>6. CASE Terminate
  <2>1. PICK b : b = bridge' /\ b = [bridge EXCEPT !.exited = TRUE]
    BY <1>6 DEF Terminate
  <2>2. b \in Bridge /\ b.exited
    BY <2>1 DEF Bridge
  <2>3. QED
    BY <2>1, <2>2
<1>7. CASE Cleanup
  <2>1. PICK b : b = bridge' /\ b = [bridge EXCEPT !.up = FALSE] /\ bridge.exited
    BY <1>7 DEF Cleanup
  <2>2. b \in Bridge /\ b.exited = bridge.exited
    BY <2>1 DEF Bridge
  <2>3. QED
    BY <2>1, <2>2
<1>8. QED
  <2>1. \/ StartChip \/ UNCHANGED bridge \/ Terminate \/ Cleanup \/ CCNext
        \/ (~bridge.exited /\ P44Steps)
    BY DEF StatusNext, StartStack, StartAgain, WindowChanges, PropertySet, GetCommissionable, GatewayTold,
           StepCC, P44Steps, vars
  <2>2. QED
    BY <1>2, <1>3, <1>4, <1>5, <1>6, <1>7, <2>1

\* Starting the stack brings it up, a second start ends the program.
LEMMA StartsUp ==
  ASSUME MainInv(bridge), StartChip
  PROVE  /\ ~bridge.up => bridge'.up
         /\ bridge.up => bridge'.exited
<1>1. bridge.starts > 0 /\ bridge' = [StartedChip(bridge) EXCEPT !.starts = @ - 1]
  BY DEF StartChip
<1>2. ChippedTo(bridge, bridge')
  BY <1>1, ChipKeeps
<1>3. QED
  BY <1>2 DEF ChippedTo

LEMMA UpStays ==
  ASSUME MainInv(bridge), P44Next \/ CCNext
  PROVE  bridge'.up = bridge.up /\ bridge'.exited = bridge.exited
BY FrameOfP44, FrameOfCC DEF Frame

---------------------------------------------------------------------------
(* What the vdcd knows, in every step.                                     *)


LEMMA VdcOfStart ==
  ASSUME VdcInv, bridge.up \in BOOLEAN, NEW hasFabrics \in BOOLEAN, StartStack(hasFabrics)
  PROVE  VdcTypes' /\ CodeIsFirst' /\ VdcConnection' /\ VdcTold' /\ NotYet'
<1>1. /\ ~bridge.exited /\ ~bridge.up /\ StartChip /\ UNCHANGED p44Vars
      /\ window' = ~hasFabrics /\ UNCHANGED vdcStatus
      /\ SetProperties(StartCalls(~hasFabrics))
      /\ vdcBehind' = (vdcBehind \/ ~p44Connected)
  BY DEF StartStack, StartChip, Reported, p44Vars
<1>2. /\ MainInv(bridge) /\ VdcTypes /\ VdcConnection /\ VdcTold /\ NotYet /\ bridge'.up
      /\ p44Connected' = p44Connected /\ p44Once' = p44Once /\ fromVdc' = fromVdc
  BY <1>1, StartsUp DEF VdcInv, p44Vars
<1>3. VdcConnection'
  BY <1>2 DEF VdcConnection
<1>4. CASE p44Connected
  <2>1. toStatus' = toStatus \o StartCalls(~hasFabrics) /\ vdcBehind' = vdcBehind
    BY <1>1, <1>2, <1>4 DEF SetProperties, VdcTypes
  <2>2. QED
    BY <1>1, <1>2, <1>3, <1>4, <2>1, StartTells
<1>5. CASE ~p44Connected
  <2>1. toStatus' = toStatus /\ vdcBehind' = TRUE
    BY <1>1, <1>2, <1>5 DEF SetProperties
  <2>2. VdcTypes' /\ CodeIsFirst' /\ VdcTold' /\ NotYet'
    BY <1>1, <1>2, <2>1 DEF VdcTypes, CodeIsFirst, VdcTold, NotYet
  <2>3. QED
    BY <1>3, <2>2
<1>6. QED
  BY <1>4, <1>5

LEMMA VdcOfWindow ==
  ASSUME VdcInv, window \in BOOLEAN, WindowChanges
  PROVE  VdcTypes' /\ CodeIsFirst' /\ VdcConnection' /\ VdcTold' /\ NotYet'
<1>1. PICK is \in BOOLEAN : is = window' /\ is = ~window
  BY DEF WindowChanges
<1>2. /\ ~bridge.exited /\ bridge.up /\ UNCHANGED <<bridge, p44Connected, p44Once, fromVdc, vdcStatus>>
      /\ SetProperties(<<Commissionable(is)>>)
      /\ vdcBehind' = (vdcBehind \/ ~p44Connected)
  BY <1>1 DEF WindowChanges, UpdateCommissionableStatus, Reported, vars, p44Vars
<1>3. /\ VdcTypes /\ CodeIsFirst /\ VdcConnection /\ VdcTold /\ bridge'.up
  BY <1>2 DEF VdcInv
<1>4. VdcConnection'
  BY <1>2, <1>3 DEF VdcConnection
<1>5. CASE p44Connected
  <2>1. toStatus' = toStatus \o <<Commissionable(is)>> /\ vdcBehind' = vdcBehind
    BY <1>2, <1>3, <1>5 DEF SetProperties, VdcTypes
  <2>2. QED
    BY <1>1, <1>2, <1>3, <1>4, <2>1, WindowTells
<1>6. CASE ~p44Connected
  <2>1. toStatus' = toStatus /\ vdcBehind' = TRUE
    BY <1>2, <1>6 DEF SetProperties
  <2>2. VdcTypes' /\ CodeIsFirst' /\ VdcTold' /\ NotYet'
    BY <1>2, <1>3, <2>1 DEF VdcTypes, CodeIsFirst, VdcTold, NotYet
  <2>3. QED
    BY <1>4, <2>2
<1>7. QED
  BY <1>5, <1>6

LEMMA VdcOfP44 ==
  ASSUME VdcInv, bridge.up \in BOOLEAN, ~bridge.exited, P44Steps, UNCHANGED window
  PROVE  VdcTypes' /\ CodeIsFirst' /\ VdcConnection' /\ VdcTold' /\ NotYet'
<1>1. MainInv(bridge) /\ VdcTypes /\ CodeIsFirst /\ VdcConnection /\ VdcTold /\ NotYet /\ P44Next
  BY StepsOfP44 DEF VdcInv
<1>2. VdcConnection' /\ bridge'.up = bridge.up
  BY <1>1, KeepsConnection, UpStays
<1>3. ASSUME NEW is \in BOOLEAN, UpdateBridgeStatus(is), p44Connected', vdcBehind' = bridge.up, UNCHANGED vdcStatus
      PROVE  VdcTypes' /\ CodeIsFirst' /\ VdcTold' /\ NotYet'
  <2>1. toStatus' = toStatus \o ResetCalls(is)
    BY <1>3 DEF UpdateBridgeStatus, SetProperties, ResetCalls
  <2>2. QED
    BY <1>1, <1>2, <1>3, <2>1, ResetTells
<1>4. ASSUME UNCHANGED <<toStatus, vdcStatus>>, vdcBehind' \in BOOLEAN, ~vdcBehind' => ~vdcBehind,
             vdcBehind' \/ p44Once' = p44Once
      PROVE  VdcTypes' /\ CodeIsFirst' /\ VdcTold' /\ NotYet'
  BY <1>1, <1>2, <1>4, SameTells
<1>5. CASE ConnectVdc
  <2>1. p44Connected' /\ p44Once' = TRUE /\ UNCHANGED vdcStatus
    BY <1>5 DEF ConnectVdc, P44Connect
  <2>2. CASE p44Once
    <3>1. p44Once' = p44Once /\ UNCHANGED <<toStatus, vdcBehind>>
      BY <1>5, <2>1, <2>2 DEF ConnectVdc
    <3>2. QED
      BY <1>1, <1>2, <1>4, <2>1, <3>1 DEF VdcTypes
  <2>3. CASE ~p44Once
    <3>1. UpdateBridgeStatus(FALSE) /\ vdcBehind' = bridge.up
      BY <1>5, <2>3 DEF ConnectVdc
    <3>2. QED
      BY <1>2, <1>3, <2>1, <3>1
  <2>4. QED
    BY <2>2, <2>3
<1>6. CASE FailToConnectVdc
  <2>1. UNCHANGED <<toStatus, vdcStatus>> /\ p44Once' = TRUE /\ vdcBehind' = (vdcBehind \/ ~p44Once)
    BY <1>6 DEF FailToConnectVdc, P44ConnectFails
  <2>2. QED
    BY <1>1, <1>2, <1>4, <2>1 DEF VdcTypes
<1>7. CASE ReconnectVdc
  <2>1. PICK is \in BOOLEAN : is = (\E u \in P44Uid : bridge.map[u] # NoObj)
    OBVIOUS
  <2>2. UpdateBridgeStatus(is) /\ vdcBehind' = bridge.up /\ UNCHANGED vdcStatus
    BY <1>7, <2>1 DEF ReconnectVdc
  <2>3. p44Connected'
    BY <1>1, <1>7 DEF ReconnectVdc, P44ReconnectQuery, Received, VdcConnection
  <2>4. QED
    BY <1>2, <1>3, <2>2, <2>3
<1>8. CASE LoseVdc
  <2>1. /\ toStatus' = <<>> /\ vdcBehind' = (vdcBehind \/ toStatus # <<>>) /\ UNCHANGED <<vdcStatus, p44Once>>
    BY <1>8 DEF LoseVdc, P44Lost
  <2>2. QED
    BY <1>1, <1>2, <2>1, LostTells
<1>9. CASE OtherVdc
  <2>1. UNCHANGED <<toStatus, vdcStatus, vdcBehind>>
    BY <1>9 DEF OtherVdc, vdcVars
  <2>2. p44Once' = p44Once
    BY <1>9 DEF OtherVdc, VdcAnswer, VdcChange, VdcVanish, P44Receive, P44CollectQuery, P44ReconnectQuery,
                P44DeviceInfo, P44Push, P44Vanish, Received
  <2>3. QED
    BY <1>1, <1>2, <1>4, <2>1, <2>2 DEF VdcTypes
<1>10. QED
  BY <1>5, <1>6, <1>7, <1>8, <1>9 DEF P44Steps

\* Nothing changes for the vdcd: also when the program ends.
LEMMA VdcOfOthers ==
  ASSUME VdcInv, UNCHANGED <<toStatus, vdcStatus, vdcBehind>>,
         \/ bridge'.exited
         \/ /\ ~bridge.exited /\ bridge'.up = bridge.up
            /\ UNCHANGED <<p44Vars, window>>
         \/ UNCHANGED <<bridge, p44Vars, window>>
  PROVE  VdcTypes' /\ CodeIsFirst' /\ (~bridge'.exited => VdcConnection' /\ VdcTold' /\ NotYet')
<1>1. VdcTypes' /\ CodeIsFirst'
  BY DEF VdcInv, VdcTypes, CodeIsFirst
<1>2. ASSUME ~bridge'.exited
      PROVE  VdcConnection' /\ VdcTold' /\ NotYet'
  <2>1. /\ ~bridge.exited /\ bridge'.up = bridge.up
        /\ window' = window /\ p44Connected' = p44Connected /\ p44Once' = p44Once /\ fromVdc' = fromVdc
    BY <1>2 DEF p44Vars
  <2>2. VdcConnection /\ VdcTold /\ NotYet
    BY <2>1 DEF VdcInv
  <2>3. VdcConnection'
    BY <2>1, <2>2 DEF VdcConnection
  <2>4. VdcTold'
    BY <2>1, <2>2 DEF VdcTold
  <2>5. NotYet'
    BY <2>1, <2>2 DEF NotYet
  <2>6. QED
    BY <2>3, <2>4, <2>5
<1>3. QED
  BY <1>1, <1>2

LEMMA VdcStep ==
  ASSUME VdcInv, bridge \in Bridge, window \in BOOLEAN, StatusNext
  PROVE  VdcInv'
<1>1. bridge.up \in BOOLEAN /\ bridge' \in Bridge /\ (~bridge'.exited => MainInv(bridge'))
  BY MainOfStatus DEF VdcInv, Bridge
<1>2. SUFFICES VdcTypes' /\ CodeIsFirst' /\ (~bridge'.exited => VdcConnection' /\ VdcTold' /\ NotYet')
  BY <1>1 DEF VdcInv
<1>3. ASSUME NEW hasFabrics \in BOOLEAN, StartStack(hasFabrics)
      PROVE  VdcTypes' /\ CodeIsFirst' /\ VdcConnection' /\ VdcTold' /\ NotYet'
  BY <1>1, <1>3, VdcOfStart
<1>4. CASE StartAgain
  <2>1. MainInv(bridge) /\ bridge.up /\ StartChip /\ UNCHANGED <<toStatus, vdcStatus, vdcBehind>>
    BY <1>4 DEF StartAgain, StartChip, VdcInv, statusVars, vdcVars
  <2>2. bridge'.exited
    BY <2>1, StartsUp
  <2>3. QED
    BY <2>1, <2>2, VdcOfOthers
<1>5. CASE WindowChanges
  BY <1>5, VdcOfWindow
<1>6. CASE Terminate
  <2>1. UNCHANGED <<toStatus, vdcStatus, vdcBehind>> /\ bridge'.exited
    BY <1>6 DEF Terminate, statusVars, vdcVars, Bridge
  <2>2. QED
    BY <2>1, VdcOfOthers
<1>7. CASE Cleanup
  <2>1. UNCHANGED <<toStatus, vdcStatus, vdcBehind>>
    BY <1>7 DEF Cleanup, SetProperties
  <2>2. bridge'.exited
    <3>1. bridge.exited /\ bridge' = [bridge EXCEPT !.up = FALSE]
      BY <1>7 DEF Cleanup
    <3>2. QED
      BY <3>1 DEF Bridge
  <2>3. QED
    BY <2>1, <2>2, VdcOfOthers
<1>8. CASE PropertySet
  <2>1. VdcTypes' /\ CodeIsFirst' /\ (~bridge'.exited => VdcTold' /\ NotYet')
    BY <1>8, SetTells DEF VdcInv
  <2>2. ~bridge'.exited => VdcConnection'
    BY <1>8 DEF PropertySet, vars, p44Vars, VdcInv, VdcConnection
  <2>3. QED
    BY <2>1, <2>2
<1>9. CASE GetCommissionable \/ GatewayTold
  <2>1. UNCHANGED <<bridge, p44Vars, window, toStatus, vdcStatus, vdcBehind>>
    BY <1>9 DEF GetCommissionable, GatewayTold, vars, windowVars, vdcVars
  <2>2. QED
    BY <2>1, VdcOfOthers
<1>10. CASE ~bridge.exited /\ P44Steps /\ UNCHANGED windowVars
  <2>1. UNCHANGED window
    BY <1>10 DEF windowVars
  <2>2. QED
    BY <1>1, <1>10, <2>1, VdcOfP44
<1>11. CASE StepCC /\ UNCHANGED <<p44Vars, windowVars, vdcVars>>
  <2>1. /\ UNCHANGED <<p44Vars, window, toStatus, vdcStatus, vdcBehind>>
        /\ CCNext /\ ~bridge.exited /\ MainInv(bridge)
    BY <1>11 DEF StepCC, CCNext, windowVars, vdcVars, VdcInv
  <2>2. bridge'.up = bridge.up
    BY <2>1, UpStays
  <2>3. QED
    BY <2>1, <2>2, VdcOfOthers
<1>12. QED
  BY <1>3, <1>4, <1>5, <1>6, <1>7, <1>8, <1>9, <1>10, <1>11 DEF StatusNext, P44Steps

---------------------------------------------------------------------------
(* What the gateway is told, in every step.                                *)


\* What is added to a sequence is its last element.
LEMMA LastAppended ==
  ASSUME NEW S, NEW q \in Seq(S), NEW m \in S, NEW t, t = Append(q, m)
  PROVE  t \in Seq(S) /\ t # <<>> /\ t[Len(t)] = m
OBVIOUS

LEMMA LastTwice ==
  ASSUME NEW S, NEW q \in Seq(S), NEW m \in S, NEW t, t = q \o <<m, m>>
  PROVE  t \in Seq(S) /\ t # <<>> /\ t[Len(t)] = m
OBVIOUS

LEMMA LastOfTail ==
  ASSUME NEW S, NEW q \in Seq(S), q # <<>>, NEW t, t = Tail(q)
  PROVE  /\ t \in Seq(S) /\ Head(q) \in S
         /\ t = <<>> => Head(q) = q[Len(q)]
         /\ t # <<>> => t[Len(t)] = q[Len(q)]
<1>1. Shorter(q, t) /\ Head(q) = q[1] /\ t \in Seq(S) /\ Head(q) \in S
  BY ShorterTail, TailIn
<1>2. Len(q) \in Nat /\ Len(q) >= 1 /\ Len(t) = Len(q) - 1
  OBVIOUS
<1>3. CASE t = <<>>
  <2>1. Len(q) = 1
    <3>1. Len(<<>>) = 0
      OBVIOUS
    <3>2. Len(t) = 0
      BY <1>3, <3>1, Zenon
    <3>3. QED
      BY <1>2, <3>2
  <2>2. QED
    BY <1>1, <1>3, <2>1
<1>4. CASE t # <<>>
  <2>1. Len(t) >= 1 /\ DOMAIN t = 1 .. Len(t)
    BY <1>1, <1>4
  <2>2. t[Len(t)] = q[Len(q)]
    <3>1. Len(t) \in DOMAIN t /\ Len(t) + 1 = Len(q)
      BY <1>2, <2>1
    <3>2. QED
      BY <1>1, <3>1 DEF Shorter
  <2>3. QED
    BY <1>1, <1>4, <2>2
<1>5. QED
  BY <1>3, <1>4

\* A status and the message that tells it, with the code known.
LEMMA TellsStatus ==
  ASSUME NEW s \in CCStatus, s.code, NEW is \in BOOLEAN, s.commissionable = is
  PROVE  StatusMessage(s) = [commissionable |-> is, code |-> is] /\ StatusMessage(s) \in CCStatus
<1>1. s.code = TRUE
  BY DEF CCStatus
<1>2. (s.commissionable /\ s.code) = is
  BY <1>1
<1>3. QED
  BY <1>2 DEF StatusMessage, CCStatus

LEMMA StatusSet ==
  ASSUME NEW s \in CCStatus, NEW is \in BOOLEAN
  PROVE  /\ [s EXCEPT !.commissionable = is] \in CCStatus
         /\ [s EXCEPT !.commissionable = is].commissionable = is
         /\ [s EXCEPT !.commissionable = is].code = s.code
         /\ [s EXCEPT !.code = is] \in CCStatus
         /\ [s EXCEPT !.code = is].code = is
         /\ [s EXCEPT !.code = is].commissionable = s.commissionable
BY DEF CCStatus

\* The stack starts: with fabrics nothing was reported yet.
LEMMA GatewayOfStart ==
  ASSUME GatewayInv, MainInv(bridge), NEW hasFabrics \in BOOLEAN, StartStack(hasFabrics)
  PROVE  GatewayTypes' /\ GatewayTells'
<1>1. /\ ~bridge.exited /\ ~bridge.up /\ StartChip /\ UNCHANGED ccConnected /\ window' = ~hasFabrics
  BY DEF StartStack, StartChip, ccVars
<1>2. bridge'.up /\ GatewayTypes /\ ~ccReported
  BY <1>1, StartsUp DEF GatewayInv, GatewayTells
<1>3. CASE hasFabrics
  <2>1. /\ ccStatus' = [ccStatus EXCEPT !.code = TRUE]
        /\ UNCHANGED <<toGateway, gateway, ccReported, ccBehind>>
    BY <1>3 DEF StartStack
  <2>2. ccStatus' \in CCStatus /\ ccStatus'.code = TRUE
    BY <1>2, <2>1, StatusSet DEF GatewayTypes
  <2>3. window' \in BOOLEAN
    BY <1>1
  <2>4. QED
    BY <1>2, <2>1, <2>2, <2>3 DEF GatewayTypes, GatewayTells
<1>4. CASE ~hasFabrics
  <2>1. PICK m : m = [commissionable |-> TRUE, code |-> TRUE]
    OBVIOUS
  <2>2. /\ ccStatus' = m /\ toGateway' = (IF ccConnected THEN toGateway \o <<m, m>> ELSE toGateway)
        /\ ccReported' = TRUE /\ ccBehind' = (ccBehind \/ ~ccConnected) /\ window' = TRUE
    BY <1>1, <1>4, <2>1 DEF StartStack, Reported
  <2>3. m \in CCStatus /\ m.code = TRUE /\ m.commissionable = TRUE
    BY <2>1 DEF CCStatus
  <2>4. toGateway \o <<m, m>> \in Seq(CCStatus)
    BY <1>2, <2>3, LastTwice DEF GatewayTypes
  <2>5. GatewayTypes'
    BY <1>2, <2>2, <2>3, <2>4 DEF GatewayTypes
  <2>6. ASSUME ~ccBehind'
        PROVE  toGateway' # <<>> /\ toGateway'[Len(toGateway')] = [commissionable |-> window', code |-> window']
    <3>1. toGateway' = toGateway \o <<m, m>>
      BY <2>2, <2>6
    <3>2. toGateway' # <<>> /\ toGateway'[Len(toGateway')] = m
      BY <1>2, <2>3, <3>1, LastTwice DEF GatewayTypes
    <3>3. QED
      BY <2>1, <2>2, <3>2
  <2>7. QED
    BY <1>2, <2>2, <2>3, <2>5, <2>6 DEF GatewayTells
<1>5. QED
  BY <1>3, <1>4

\* A window opens or closes, or the gateway asks: the message is the status.
LEMMA GatewayOfMessage ==
  ASSUME GatewayTypes, bridge'.up, window' \in BOOLEAN, ccReported' \in BOOLEAN, ccBehind' \in BOOLEAN,
         ccStatus' \in CCStatus, ccStatus'.code, ccReported' => ccStatus'.commissionable = window',
         \/ toGateway' = Append(toGateway, StatusMessage(ccStatus'))
         \/ ccBehind' /\ toGateway' = toGateway
  PROVE  GatewayTypes' /\ GatewayTells'
<1>1. PICK c \in BOOLEAN : c = ccStatus'.commissionable
  BY DEF CCStatus
<1>2. PICK m \in CCStatus : m = StatusMessage(ccStatus') /\ m = [commissionable |-> c, code |-> c]
  BY <1>1, TellsStatus
<1>3. toGateway' \in Seq(CCStatus)
  <2>1. Append(toGateway, m) \in Seq(CCStatus)
    BY LastAppended DEF GatewayTypes
  <2>2. QED
    BY <1>2, <2>1 DEF GatewayTypes
<1>4. GatewayTypes'
  BY <1>3 DEF GatewayTypes
<1>5. ASSUME ccReported', ~ccBehind'
      PROVE  toGateway' # <<>> /\ toGateway'[Len(toGateway')] = [commissionable |-> window', code |-> window']
  <2>1. toGateway' = Append(toGateway, m) /\ c = window'
    BY <1>1, <1>2, <1>5
  <2>2. toGateway' # <<>> /\ toGateway'[Len(toGateway')] = m
    BY <2>1, LastAppended DEF GatewayTypes
  <2>3. QED
    BY <1>2, <2>1, <2>2
<1>6. QED
  BY <1>4, <1>5 DEF GatewayTells

LEMMA GatewayOfWindow ==
  ASSUME GatewayInv, WindowChanges
  PROVE  GatewayTypes' /\ GatewayTells'
<1>1. PICK is \in BOOLEAN : is = window' /\ is = ~window
  BY DEF WindowChanges
<1>2. /\ ~bridge.exited /\ bridge.up /\ UNCHANGED <<bridge, ccConnected>> /\ ReportToCC(is) /\ Reported
  BY <1>1 DEF WindowChanges, UpdateCommissionableStatus, vars, ccVars
<1>3. /\ GatewayTypes /\ ccStatus \in CCStatus /\ ccStatus.code
  BY <1>2 DEF GatewayInv, GatewayTells, GatewayTypes
<1>4. /\ ccStatus' = [ccStatus EXCEPT !.commissionable = is]
      /\ toGateway' = IF ccConnected' THEN Append(toGateway, StatusMessage(ccStatus')) ELSE toGateway
      /\ ccReported' = TRUE /\ ccBehind' = (ccBehind \/ ~ccConnected')
  BY <1>2 DEF ReportToCC, Reported
<1>5. ccStatus' \in CCStatus /\ ccStatus'.code /\ ccStatus'.commissionable = is
  <2>1. PICK s \in CCStatus : s = ccStatus /\ s.code
    BY <1>3
  <2>2. PICK z : z = [s EXCEPT !.commissionable = is]
    OBVIOUS
  <2>3. z \in CCStatus /\ z.commissionable = is /\ z.code = s.code
    BY <2>2 DEF CCStatus
  <2>4. ccStatus' = z
    BY <1>4, <2>1, <2>2
  <2>5. QED
    BY <2>1, <2>3, <2>4
<1>6. \/ toGateway' = Append(toGateway, StatusMessage(ccStatus'))
      \/ ccBehind' /\ toGateway' = toGateway
  BY <1>4
<1>7. bridge'.up /\ window' \in BOOLEAN /\ ccReported' \in BOOLEAN /\ ccBehind' \in BOOLEAN
  BY <1>1, <1>2, <1>4
<1>8. QED
  BY <1>1, <1>3, <1>5, <1>6, <1>7, GatewayOfMessage

\* Before the stack runs, nothing was reported.
LEMMA GatewayOfQuestion ==
  ASSUME GatewayInv, GetCommissionable
  PROVE  GatewayTypes' /\ GatewayTells'
<1>1. /\ ~bridge.exited /\ UNCHANGED <<bridge, window, ccStatus, gateway, ccReported>>
      /\ toGateway' = Append(toGateway, StatusMessage(ccStatus)) /\ ccBehind' = FALSE
  BY DEF GetCommissionable, vars, windowVars
<1>2. GatewayTypes /\ GatewayTells
  BY <1>1 DEF GatewayInv
<1>3. CASE bridge.up
  <2>1. /\ bridge'.up /\ window' \in BOOLEAN /\ ccReported' \in BOOLEAN /\ ccBehind' \in BOOLEAN
        /\ ccStatus' \in CCStatus /\ ccStatus'.code /\ (ccReported' => ccStatus'.commissionable = window')
        /\ toGateway' = Append(toGateway, StatusMessage(ccStatus'))
    BY <1>1, <1>2, <1>3 DEF GatewayTypes, GatewayTells
  <2>2. QED
    BY <1>2, <2>1, GatewayOfMessage
<1>4. CASE ~bridge.up
  <2>1. ~ccReported' /\ ~bridge'.up
    BY <1>1, <1>2, <1>4 DEF GatewayTells
  <2>2. StatusMessage(ccStatus) \in CCStatus
    BY <1>2 DEF GatewayTypes, StatusMessage, CCStatus
  <2>3. toGateway' \in Seq(CCStatus)
    BY <1>1, <1>2, <2>2, LastAppended DEF GatewayTypes
  <2>4. QED
    BY <1>1, <1>2, <2>1, <2>3 DEF GatewayTypes, GatewayTells
<1>5. QED
  BY <1>3, <1>4

LEMMA GatewayOfTold ==
  ASSUME GatewayInv, GatewayTold
  PROVE  GatewayTypes' /\ (~bridge.exited => GatewayTells')
<1>1. PICK q \in Seq(CCStatus) : q = toGateway /\ q # <<>>
  BY DEF GatewayInv, GatewayTypes, GatewayTold
<1>2. PICK t : t = toGateway' /\ t = Tail(q)
  BY <1>1 DEF GatewayTold
<1>3. UNCHANGED <<bridge, window, ccStatus, ccReported, ccBehind>> /\ gateway' = <<Head(q)>>
  BY <1>1 DEF GatewayTold, vars, windowVars
<1>4. /\ t \in Seq(CCStatus) /\ Head(q) \in CCStatus
      /\ t = <<>> => Head(q) = q[Len(q)]
      /\ t # <<>> => t[Len(t)] = q[Len(q)]
  BY <1>1, <1>2, LastOfTail
<1>5. GatewayTypes'
  BY <1>2, <1>3, <1>4 DEF GatewayInv, GatewayTypes
<1>6. ASSUME ~bridge.exited
      PROVE  GatewayTells'
  <2>1. GatewayTells
    BY <1>6 DEF GatewayInv
  <2>2. ASSUME ccReported, ~ccBehind
        PROVE  q[Len(q)] = [commissionable |-> window, code |-> window]
    BY <1>1, <2>1, <2>2 DEF GatewayTells
  <2>3. QED
    BY <1>2, <1>3, <1>4, <2>1, <2>2 DEF GatewayTells
<1>7. QED
  BY <1>5, <1>6

LEMMA GatewayOfCC ==
  ASSUME GatewayInv, MainInv(bridge), StepCC, UNCHANGED window
  PROVE  GatewayTypes' /\ GatewayTells'
<1>1. /\ CCNext /\ ~bridge.exited /\ UNCHANGED <<ccStatus, gateway, ccReported>>
      /\ toGateway' = (IF ccConnected' THEN toGateway ELSE <<>>)
      /\ ccBehind' = (ccBehind \/ (~ccConnected' /\ toGateway # <<>>))
  BY DEF StepCC, CCNext
<1>2. GatewayTypes /\ GatewayTells /\ bridge'.up = bridge.up
  BY <1>1, UpStays DEF GatewayInv
<1>3. <<>> \in Seq(CCStatus) /\ ccBehind' \in BOOLEAN
  BY <1>1, <1>2 DEF GatewayTypes
<1>4. GatewayTypes'
  BY <1>1, <1>2, <1>3 DEF GatewayTypes
<1>5. ~ccBehind' => ~ccBehind /\ toGateway' = toGateway
  BY <1>1
<1>6. GatewayTells'
  BY <1>1, <1>2, <1>5 DEF GatewayTells
<1>7. QED
  BY <1>4, <1>6

\* Nothing changes for the gateway: also when the program ends.
LEMMA GatewayOfOthers ==
  ASSUME GatewayInv, UNCHANGED ccStatusVars, window' \in BOOLEAN,
         bridge'.exited \/ (~bridge.exited /\ bridge'.up = bridge.up /\ UNCHANGED window)
  PROVE  GatewayTypes' /\ (~bridge'.exited => GatewayTells')
<1>1. UNCHANGED <<ccStatus, toGateway, gateway, ccReported, ccBehind>>
  BY DEF ccStatusVars
<1>2. GatewayTypes'
  BY <1>1 DEF GatewayInv, GatewayTypes
<1>3. ASSUME ~bridge'.exited
      PROVE  GatewayTells'
  BY <1>1, <1>3 DEF GatewayInv, GatewayTells
<1>4. QED
  BY <1>2, <1>3

LEMMA GatewayStep ==
  ASSUME GatewayInv, bridge \in Bridge, ~bridge.exited => MainInv(bridge), StatusNext
  PROVE  GatewayInv'
<1>1. SUFFICES GatewayTypes' /\ (~bridge'.exited => GatewayTells')
  BY DEF GatewayInv
<1>2. window \in BOOLEAN
  BY DEF GatewayInv, GatewayTypes
<1>3. ASSUME NEW hasFabrics \in BOOLEAN, StartStack(hasFabrics)
      PROVE  GatewayTypes' /\ GatewayTells'
  <2>1. MainInv(bridge)
    BY <1>3 DEF StartStack, StartChip
  <2>2. QED
    BY <1>3, <2>1, GatewayOfStart
<1>4. CASE StartAgain
  <2>1. MainInv(bridge) /\ bridge.up /\ StartChip /\ UNCHANGED <<ccStatusVars, window>>
    BY <1>4 DEF StartAgain, StartChip, statusVars, windowVars
  <2>2. bridge'.exited
    BY <2>1, StartsUp
  <2>3. QED
    BY <1>2, <2>1, <2>2, GatewayOfOthers
<1>5. CASE WindowChanges
  BY <1>5, GatewayOfWindow
<1>6. CASE Terminate
  <2>1. UNCHANGED <<ccStatusVars, window>> /\ bridge'.exited
    BY <1>6 DEF Terminate, statusVars, windowVars, Bridge
  <2>2. QED
    BY <1>2, <2>1, GatewayOfOthers
<1>7. CASE Cleanup
  <2>1. UNCHANGED ccStatusVars /\ window' = FALSE
    BY <1>7 DEF Cleanup
  <2>2. bridge'.exited
    <3>1. bridge.exited /\ bridge' = [bridge EXCEPT !.up = FALSE]
      BY <1>7 DEF Cleanup
    <3>2. QED
      BY <3>1 DEF Bridge
  <2>3. QED
    BY <2>1, <2>2, GatewayOfOthers
<1>8. CASE PropertySet
  <2>1. UNCHANGED <<bridge, ccStatusVars, window>>
    BY <1>8 DEF PropertySet, vars, windowVars
  <2>2. bridge'.up = bridge.up /\ bridge'.exited = bridge.exited /\ bridge.exited \in BOOLEAN
    BY <2>1 DEF Bridge
  <2>3. QED
    BY <1>2, <2>1, <2>2, GatewayOfOthers
<1>9. CASE GetCommissionable
  BY <1>9, GatewayOfQuestion
<1>10. CASE GatewayTold
  <2>1. bridge' = bridge
    BY <1>10 DEF GatewayTold, vars
  <2>2. QED
    BY <1>10, <2>1, GatewayOfTold
<1>11. CASE ~bridge.exited /\ P44Steps /\ UNCHANGED <<windowVars, ccStatusVars>>
  <2>1. UNCHANGED window /\ MainInv(bridge) /\ P44Next
    BY <1>11, StepsOfP44 DEF windowVars
  <2>2. bridge'.up = bridge.up
    BY <2>1, UpStays
  <2>3. QED
    BY <1>2, <1>11, <2>1, <2>2, GatewayOfOthers
<1>12. CASE StepCC /\ UNCHANGED windowVars
  <2>1. MainInv(bridge) /\ UNCHANGED window
    BY <1>12 DEF StepCC, CCNext, windowVars
  <2>2. QED
    BY <1>12, <2>1, GatewayOfCC
<1>13. QED
  BY <1>3, <1>4, <1>5, <1>6, <1>7, <1>8, <1>9, <1>10, <1>11, <1>12 DEF StatusNext, P44Steps

---------------------------------------------------------------------------
(* The theorems.                                                           *)

LEMMA StatusBegins ==
  ASSUME StatusInit
  PROVE  StatusInv
<1>1. /\ bridge = InitBridge /\ P44Init /\ window = FALSE /\ vdcBehind = FALSE /\ ccReported = FALSE
      /\ ccBehind = FALSE /\ toStatus = <<>> /\ toGateway = <<>> /\ vdcStatus \in VdcLeft
      /\ ccStatus \in [commissionable : BOOLEAN, code : {FALSE}]
  BY DEF StatusInit, Init
<1>2. MainInv(bridge)
  BY MainInit DEF StatusInit, Init
<1>3. bridge \in Bridge
  BY <1>2 DEF MainInv, MainType
<1>4. ~bridge.up
  BY <1>1 DEF InitBridge
<1>5. toStatus \in Seq(Property \X BOOLEAN) /\ toGateway \in Seq(CCStatus) /\ DOMAIN toStatus = {}
  BY <1>1
<1>6. vdcStatus \in VdcStatus /\ ccStatus \in CCStatus
  BY <1>1, StatusAssumption DEF CCStatus
<1>7. VdcTypes /\ GatewayTypes
  BY <1>1, <1>5, <1>6 DEF VdcTypes, GatewayTypes
<1>8. CodeIsFirst /\ NotYet
  BY <1>1, <1>5 DEF CodeIsFirst, NotYet
<1>9. VdcConnection /\ VdcTold
  BY <1>1, <1>4 DEF P44Init, VdcConnection, VdcTold
<1>10. GatewayTells
  BY <1>1, <1>4 DEF GatewayTells
<1>11. QED
  BY <1>2, <1>3, <1>7, <1>8, <1>9, <1>10 DEF StatusInv, VdcInv, GatewayInv

LEMMA StatusSame ==
  ASSUME StatusInv, UNCHANGED allVars
  PROVE  StatusInv'
<1>1. UNCHANGED <<bridge, p44Vars, window, toStatus, vdcStatus, vdcBehind, ccStatusVars>>
  BY DEF allVars, vars, statusVars, windowVars, vdcVars
<1>2. /\ bridge \in Bridge /\ VdcInv /\ GatewayInv /\ bridge.exited \in BOOLEAN /\ window \in BOOLEAN
  BY DEF StatusInv, Bridge, GatewayInv, GatewayTypes
<1>3. VdcTypes' /\ CodeIsFirst' /\ (~bridge'.exited => VdcConnection' /\ VdcTold' /\ NotYet')
  BY <1>1, <1>2, VdcOfOthers
<1>4. GatewayTypes' /\ (~bridge'.exited => GatewayTells')
  BY <1>1, <1>2, GatewayOfOthers
<1>5. QED
  BY <1>1, <1>2, <1>3, <1>4 DEF StatusInv, VdcInv, GatewayInv

LEMMA StatusStep ==
  ASSUME StatusInv, [StatusNext]_allVars
  PROVE  StatusInv'
<1>1. CASE StatusNext
  <2>1. /\ bridge \in Bridge /\ VdcInv /\ GatewayInv /\ window \in BOOLEAN
        /\ ~bridge.exited => MainInv(bridge)
    BY DEF StatusInv, VdcInv, GatewayInv, GatewayTypes
  <2>2. VdcInv' /\ GatewayInv' /\ bridge' \in Bridge
    BY <1>1, <2>1, VdcStep, GatewayStep, MainOfStatus
  <2>3. QED
    BY <2>2 DEF StatusInv
<1>2. CASE UNCHANGED allVars
  BY <1>2, StatusSame
<1>3. QED
  BY <1>1, <1>2

\* The inductive invariant, in every behaviour of the bridge with its gateways.
THEOREM StatusAlways == StatusSpec => []StatusInv
<1>1. StatusInit => StatusInv
  BY StatusBegins
<1>2. StatusInv /\ [StatusNext]_allVars => StatusInv'
  BY StatusStep
<1>3. QED
  BY <1>1, <1>2, PTL DEF StatusSpec

\* Once everything has arrived, the vdcd knows whether the bridge runs and can be
\* commissioned, and the code (VdcKnows).
THEOREM VdcAlwaysInformed == StatusSpec => []VdcKnows
<1>1. StatusInv => VdcKnows
  <2> SUFFICES ASSUME StatusInv, p44Connected, toStatus = <<>>, bridge.up, ~bridge.exited, ~vdcBehind
               PROVE  vdcStatus = [started |-> TRUE, commissionable |-> window, code |-> TRUE]
    BY DEF VdcKnows
  <2>1. PICK s \in VdcStatus : s = vdcStatus
    BY DEF StatusInv, VdcInv, VdcTypes
  <2>2. DOMAIN toStatus = {}
    OBVIOUS
  <2>3. /\ WillBe(toStatus, s, "started", TRUE) /\ WillBe(toStatus, s, "commissionable", window)
        /\ WillBe(toStatus, s, "code", TRUE)
    BY <2>1 DEF StatusInv, VdcInv, VdcTold
  <2>4. s["started"] = TRUE /\ s["commissionable"] = window /\ s["code"] = TRUE
    BY <2>2, <2>3 DEF WillBe, LastSays
  <2>5. s = [started |-> s.started, commissionable |-> s.commissionable, code |-> s.code]
    BY DEF VdcStatus
  <2>6. QED
    BY <2>1, <2>4, <2>5
<1>2. QED
  BY <1>1, StatusAlways, PTL

\* What the gateway was told last is the status, from the first report on
\* (GatewayKnows).
THEOREM GatewayAlwaysKnows == StatusSpec => []GatewayKnows
<1>1. StatusInv => GatewayKnows
  BY DEF StatusInv, GatewayInv, GatewayTells, GatewayKnows
<1>2. QED
  BY <1>1, StatusAlways, PTL

\* Only the vdcd sets its properties, one at a time.
LEMMA OnlyByPropertySet ==
  ASSUME [StatusNext]_allVars, ~PropertySet
  PROVE  UNCHANGED vdcStatus
<1>1. ASSUME NEW hasFabrics \in BOOLEAN, StartStack(hasFabrics)
      PROVE  UNCHANGED vdcStatus
  BY <1>1 DEF StartStack, Reported
<1>2. CASE StartAgain \/ Terminate \/ GetCommissionable \/ GatewayTold \/ UNCHANGED allVars
  BY <1>2 DEF StartAgain, Terminate, GetCommissionable, GatewayTold, allVars, statusVars, vdcVars
<1>3. CASE WindowChanges
  BY <1>3 DEF WindowChanges, UpdateCommissionableStatus, Reported
<1>4. CASE Cleanup
  BY <1>4 DEF Cleanup
<1>5. CASE ConnectVdc \/ FailToConnectVdc \/ ReconnectVdc \/ LoseVdc \/ OtherVdc
  BY <1>5 DEF ConnectVdc, FailToConnectVdc, ReconnectVdc, LoseVdc, OtherVdc, vdcVars
<1>6. CASE UNCHANGED vdcVars
  BY <1>6 DEF vdcVars
<1>7. QED
  BY <1>1, <1>2, <1>3, <1>4, <1>5, <1>6 DEF StatusNext

\* Whenever the bridge becomes commissionable for the vdcd, the code is there
\* already (CodeComesFirst).
THEOREM CodeAlwaysFirst == StatusSpec => CodeComesFirst
<1>1. StatusInv /\ [StatusNext]_allVars =>
        (~vdcStatus.commissionable /\ vdcStatus'.commissionable /\ ~vdcBehind => vdcStatus.code)
  <2> SUFFICES ASSUME StatusInv, [StatusNext]_allVars,
                      ~vdcStatus.commissionable, vdcStatus'.commissionable, ~vdcBehind
               PROVE  vdcStatus.code
    OBVIOUS
  <2>1. PropertySet
    BY OnlyByPropertySet
  <2>2. PICK q \in Seq(Property \X BOOLEAN) : q = toStatus /\ q # <<>>
    BY <2>1 DEF StatusInv, VdcInv, VdcTypes, PropertySet
  <2>3. PICK s \in VdcStatus : s = vdcStatus
    BY DEF StatusInv, VdcInv, VdcTypes
  <2>4. 1 \in DOMAIN q /\ Head(q) = q[1] /\ q[1] \in Property \X BOOLEAN
    BY <2>2
  <2>5. PICK c \in Property \X BOOLEAN : c = q[1] /\ c = Head(q)
    BY <2>4
  <2>6. vdcStatus' = Set(s, c)
    BY <2>1, <2>2, <2>3, <2>5 DEF PropertySet, Set
  <2>7. c[1] = "commissionable" /\ c[2] = TRUE
    <3>1. /\ Set(s, c) \in VdcStatus /\ Set(s, c)[c[1]] = c[2]
          /\ \A p \in Property : p # c[1] => Set(s, c)[p] = s[p]
      BY SetGives
    <3>2. Set(s, c)["commissionable"] /\ ~s["commissionable"] /\ "commissionable" \in Property
      BY <2>3, <2>6 DEF Property
    <3>3. c[1] = "commissionable" /\ c[2] \in BOOLEAN
      BY <3>1, <3>2
    <3>4. QED
      BY <3>1, <3>2, <3>3
  <2>8. q[1] = Commissionable(TRUE)
    <3>1. PICK p \in Property, v \in BOOLEAN : c = <<p, v>>
      OBVIOUS
    <3>2. p = "commissionable" /\ v = TRUE
      BY <2>7, <3>1
    <3>3. QED
      BY <2>5, <3>1, <3>2 DEF Commissionable
  <2>9. CodeBefore(q, s, 1)
    BY <2>2, <2>3, <2>4, <2>8 DEF StatusInv, VdcInv, CodeIsFirst
  <2>10. 1 .. 1 - 1 = {}
    OBVIOUS
  <2>11. s.code
    BY <2>9, <2>10 DEF CodeBefore
  <2>12. QED
    BY <2>3, <2>11
<1>2. QED
  BY <1>1, StatusAlways, PTL DEF StatusSpec, CodeComesFirst
=============================================================================
