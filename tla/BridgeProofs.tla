---------------------------- MODULE BridgeProofs ----------------------------
(***************************************************************************)
(* Proofs about Bridge, for every set of devices of both adapters, every   *)
(* table size and every number of changes and losses.                      *)
(*                                                                         *)
(* A handler composes operators from one state of the bridge to the next.  *)
(* So the invariant of the main application, MainInv, is about one such    *)
(* state, and there is a lemma for each operator that says that it keeps   *)
(* MainInv and what else it changes.  From it follow the types, that all   *)
(* devices that were given are enabled, and that the table only grows.     *)
(*                                                                         *)
(* What the adapters know is about queues: P44Inv and CCInv say that each  *)
(* device is known as it is, or that something under way will tell.  An    *)
(* adapter leaves the devices of the other one alone (Frame).              *)
(***************************************************************************)
EXTENDS Bridge, FiniteSetTheorems, SequenceTheorems, TLAPS

---------------------------------------------------------------------------
(* The inductive invariant of the main application, over one of its states *)
(* so that it can be carried from operator to operator of a handler.       *)

\* BridgeTypeOK of a state b.
MainType(b) ==
  /\ b \in Bridge
  /\ \A u \in Uid : b.map[u] \in 0 .. Len(b.objs)
  /\ Len(b.table) <= MaxDyn
  /\ \A i \in DOMAIN b.table : b.table[i] \in DOMAIN b.objs
  /\ b.on \subseteq DOMAIN b.table

EnabledIn(b, u) == \E i \in b.on : b.objs[b.table[i]].uid = u

\* The maps hold devices under their own UIDs, one for each that was given.
MapsFit(b) ==
  /\ \A u \in Uid : b.map[u] # NoObj => b.objs[b.map[u]].uid = u
  /\ \A u \in b.handed \cup b.added : b.map[u] # NoObj

\* Devices and endpoints refer to each other; nothing is installed before the start.
EndpointsFit(b) ==
  /\ \A i \in DOMAIN b.table : b.objs[b.table[i]].ep = i
  /\ \A o \in DOMAIN b.objs :
       b.objs[o].ep # NoEp => b.objs[o].ep \in DOMAIN b.table /\ b.table[b.objs[o].ep] = o
  /\ ~b.up => b.table = <<>>

\* Only removed devices have an endpoint that is not enabled.
DisabledRemoved(b) ==
  \A o \in DOMAIN b.objs :
    b.objs[o].ep # NoEp /\ b.objs[o].ep \notin b.on => b.objs[o].uid \in b.removed

\* What the stack is told of an enabled device; only one that was removed is inactive.
FlagsFit(b) ==
  /\ \A i \in b.on : LET d == b.objs[b.table[i]] IN d.reachable = (d.bridgeable /\ d.active)
  /\ \A o \in DOMAIN b.objs : ~b.objs[o].active => b.objs[o].uid \in b.removed \cup b.early

\* Once the stack runs, every device in a map is enabled, unless it was removed or
\* missed, or there is no room.
MappedEnabled(b) ==
  b.up => \A u \in Uid : b.map[u] # NoObj =>
            \/ u \in b.removed \cup (b.late \ b.added)
            \/ EnabledIn(b, u)
            \/ Len(b.table) = MaxDyn

MainInv(b) ==
  MainType(b) /\ MapsFit(b) /\ EndpointsFit(b) /\ DisabledRemoved(b) /\ FlagsFit(b) /\ MappedEnabled(b)

---------------------------------------------------------------------------
(* The startup of the CC adapter comes before any device it adds.          *)

Completed == bridge.unstarted < Cardinality(Adapters)
ListIn(k)     == k \in DOMAIN fromCC /\ fromCC[k].msg = "list"
ListAsked(k)  == k \in DOMAIN toCC /\ toCC[k].call = "list"
ListComes == (\E k \in DOMAIN fromCC : ListIn(k)) \/ (\E k \in DOMAIN toCC : ListAsked(k))

StartupFirst ==
  /\ bridge.unstarted <= Cardinality(Adapters)
  /\ ~ccConnected => toCC = <<>> /\ fromCC = <<>> /\ ~ccSubscribed
  /\ ~Completed =>
       /\ \A k \in DOMAIN fromCC : fromCC[k].msg = "info" => \E j \in 1 .. k - 1 : ListIn(j)
       /\ \A k \in DOMAIN toCC : toCC[k].call = "info" =>
            (\E j \in DOMAIN fromCC : ListIn(j)) \/ (\E j \in 1 .. k - 1 : ListAsked(j))
       /\ \A k \in DOMAIN fromCC : fromCC[k].msg = "created" =>
            ListComes \/ \E j \in 1 .. k - 1 : fromCC[j].msg = "subscribe"
       /\ ccSubscribed => ListComes \/ \E j \in DOMAIN fromCC : fromCC[j].msg = "subscribe"

---------------------------------------------------------------------------
(* The P44 adapter on a connection that never broke.                       *)

\* The answer to the first query has not been handled.
Initial ==
  \/ ~p44Once
  \/ \E k \in DOMAIN toVdc : toVdc[k].call = "initial"
  \/ \E k \in DOMAIN fromVdc : fromVdc[k].msg = "initial"

\* The first query and its answer come before all else that is asked.
InitialFirst ==
  /\ p44Once = p44Connected
  /\ ~p44Connected => toVdc = <<>> /\ fromVdc = <<>>
  /\ \A k \in DOMAIN toVdc : toVdc[k].call # "reconnect" /\ (toVdc[k].call = "initial" => k = 1)
  /\ \A k \in DOMAIN fromVdc : fromVdc[k].msg # "reconnect"
  /\ toVdc # <<>> /\ toVdc[1].call = "initial" =>
       \A k \in DOMAIN fromVdc : fromVdc[k].msg \notin {"initial", "info"}
  /\ \A j, k \in DOMAIN fromVdc : j < k => fromVdc[k].msg # "initial" \/ fromVdc[j].msg \notin {"initial", "info"}

\* What a message tells of a device.
About(m, u) == m.msg = "initial" \/ (m.msg \in {"info", "push", "vanish"} /\ m.uid = u)
Tells(m, u, is) ==
  CASE m.msg = "initial" -> is = (u \in m.uids)
    [] m.msg \in {"info", "push"} -> is = m.bridgeable
    [] OTHER -> is = FALSE

\* The adapter is going to ask for a device.
Waits(u) ==
  \/ ~p44Connected
  \/ \E k \in DOMAIN toVdc : toVdc[k].call = "initial" \/ toVdc[k] = [call |-> "info", uid |-> u]

\* What it knows of a device, or (w) is going to ask.
Knows(b, w, u, is) ==
  IF b.map[u] # NoObj THEN u \in P44Composed \/ b.objs[b.map[u]].bridgeable = is ELSE is => w

\* What it will know when it has handled the first n messages of q.
WillKnow(b, w, q, n, u, is) ==
  \/ \E k \in 1 .. n : About(q[k], u) /\ Tells(q[k], u, is) /\ \A j \in k + 1 .. n : ~About(q[j], u)
  \/ (\A j \in 1 .. n : ~About(q[j], u)) /\ Knows(b, w, u, is)

NoneMapped == Initial => \A u \in P44Uid : bridge.map[u] = NoObj

\* If the stack is started without the P44 adapter, its startup is the last one.
OthersStarted == Initial /\ (bridge.starts > 0 \/ bridge.up) => bridge.unstarted <= 1

LastToldHolds ==
  \A u \in P44Uid : WillKnow(bridge, Waits(u), fromVdc, Len(fromVdc), u, u \in bridgeables)

\* A device that is refused was told to be so before, and the answer can be ignored.
RefusalKnown ==
  \A k \in DOMAIN fromVdc : fromVdc[k].msg = "info" /\ ~fromVdc[k].bridgeable =>
    WillKnow(bridge, TRUE, fromVdc, k - 1, fromVdc[k].uid, FALSE)

InPlace(b, u) ==
  b.map[u] # NoObj =>
    b.objs[b.map[u]].ep \in b.on \/ u \in b.removed \/ Len(b.table) = MaxDyn

MappedInPlace ==
  bridge.up /\ bridge.starts = 0 /\ ~bridge.exited => \A u \in P44Uid : InPlace(bridge, u)

Informed == InitialFirst /\ NoneMapped /\ OthersStarted /\ LastToldHolds /\ RefusalKnown /\ MappedInPlace

P44Inv == p44Losses = 0 => Informed

\* A composed device counts as bridgeable until it vanishes.
ComposedKept(b) ==
  \A u \in P44Composed :
    b.map[u] # NoObj => b.objs[b.map[u]].bridgeable \/ ~b.objs[b.map[u]].active

---------------------------------------------------------------------------
(* The CC adapter on a connection that never broke.                        *)

Setup == {"register", "subscribe", "list"}

\* The list has not been asked for, or not been answered.
SetupComes ==
  \/ ~ccConnected
  \/ \E k \in DOMAIN toCC : toCC[k].call \in Setup
  \/ \E k \in DOMAIN fromCC : fromCC[k].msg \in {"register", "subscribe"}

Listed == ~SetupComes /\ \A k \in DOMAIN fromCC : fromCC[k].msg # "list"

\* The requests and their answers come one by one, and notifications and what is
\* asked because of them later.
SetupFirst ==
  /\ ~ccConnected => toCC = <<>> /\ fromCC = <<>> /\ ~ccSubscribed
  /\ \A k \in DOMAIN toCC : toCC[k].call \in Setup =>
       /\ k = 1
       /\ \A j \in DOMAIN fromCC : fromCC[j].msg \notin Setup \cup {"info"}
       /\ toCC[k].call # "list" <=> ~ccSubscribed
  /\ \A k \in DOMAIN toCC : toCC[k].call = "info" =>
       ccSubscribed /\ \A j \in DOMAIN fromCC : fromCC[j].msg \notin {"register", "subscribe"}
  /\ \A k \in DOMAIN fromCC : fromCC[k].msg \in {"register", "subscribe"} =>
       fromCC[k].ok /\ (fromCC[k].msg = "register" <=> ~ccSubscribed)
  /\ \A k \in DOMAIN fromCC : fromCC[k].msg \in {"created", "deleted", "info", "list"} => ccSubscribed
  /\ \A j, k \in DOMAIN fromCC : j < k =>
       /\ fromCC[k].msg \notin {"register", "subscribe"}
       /\ fromCC[k].msg = "list" => fromCC[j].msg \notin Setup \cup {"info"}
       /\ fromCC[k].msg = "info" => fromCC[j].msg \notin {"register", "subscribe"}
  /\ ~SetupComes => ccSubscribed

\* What the messages say of an item.
Brings(m, u)    == (m.msg = "list" /\ u \in m.uids) \/ (m.msg = "info" /\ m.uid = u /\ m.ok)
Announces(m, u) == Brings(m, u) \/ (m.msg = "created" /\ m.uid = u)
Deletes(m, u)   == m.msg = "deleted" /\ m.uid = u
AsksFor(r, u)   == r.call = "info" /\ r.uid = u

NoneListed == ~Listed => \A u \in CCUid : bridge.map[u] = NoObj

\* An item that exists is in the map, or will be.
ItemsCome ==
  \A u \in CCUid : u \in items /\ bridge.map[u] = NoObj =>
    \/ SetupComes
    \/ \E k \in DOMAIN toCC : AsksFor(toCC[k], u)
    \/ \E k \in DOMAIN fromCC : Announces(fromCC[k], u)

\* One that does not exist any more is told to be deleted after all else, and when
\* it was still there before.
BroughtIsDeleted ==
  \A u \in CCUid \ items, k \in DOMAIN fromCC : Brings(fromCC[k], u) =>
    \E j \in DOMAIN fromCC : j > k /\ Deletes(fromCC[j], u)

Kept(b, u) == b.map[u] # NoObj /\ (~b.up \/ EnabledIn(b, u)) /\ u \notin b.early

KeptIsDeleted ==
  \A u \in CCUid \ items : Kept(bridge, u) => \E j \in DOMAIN fromCC : Deletes(fromCC[j], u)

\* The endpoint that is enabled is the one of the device in the map.
OneEnabled(b, u) == \A i \in b.on : b.objs[b.table[i]].uid = u => b.table[i] = b.map[u]

Followed ==
  /\ SetupFirst /\ NoneListed /\ ItemsCome /\ BroughtIsDeleted /\ KeptIsDeleted
  /\ \A u \in CCUid : OneEnabled(bridge, u)

CCInv == ccFailures = 0 => Followed

---------------------------------------------------------------------------
(* Sequences.                                                              *)

\* SetToSeq(S) lists every element of S once.
Lists(q, S) ==
  /\ q \in Seq(S) /\ DOMAIN q = 1 .. Len(q)
  /\ \A x \in S : \E i \in DOMAIN q : q[i] = x
  /\ \A i, j \in DOMAIN q : q[i] = q[j] => i = j

LEMMA SetToSeqLists ==
  ASSUME NEW S, IsFiniteSet(S)
  PROVE  Lists(SetToSeq(S), S)
<1> DEFINE n == Cardinality(S)
<1>1. n \in Nat /\ ExistsBijection(1 .. n, S)
  BY FS_CardinalityType
<1>2. \E f \in [1 .. n -> S] : IsInjective(f)
  <2>1. PICK f \in Bijection(1 .. n, S) : TRUE
    BY <1>1 DEF ExistsBijection
  <2>2. f \in [1 .. n -> S] /\ \A x, y \in 1 .. n : f[x] = f[y] => x = y
    BY <2>1, Zenon DEF Bijection, Injection, IsInjective
  <2>3. IsInjective(f)
    BY <2>2 DEF IsInjective
  <2>4. QED
    BY <2>2, <2>3
<1>3. PICK q : q = SetToSeq(S)
  OBVIOUS
<1>4. q \in [1 .. n -> S] /\ IsInjective(q)
  BY <1>2, <1>3, Zenon DEF SetToSeq
<1>5. q \in Injection(1 .. n, S)
  BY <1>4, Zenon DEF Injection
<1>6. IsFiniteSet(1 .. n) /\ Cardinality(1 .. n) = n
  BY <1>1, FS_Interval
<1>7. q \in Surjection(1 .. n, S)
  BY <1>5, <1>6, FS_Injection
<1>8. \A x \in S : \E i \in 1 .. n : q[i] = x
  BY <1>7 DEF Surjection
<1>9. q \in Seq(S) /\ DOMAIN q = 1 .. Len(q) /\ DOMAIN q = 1 .. n
  BY <1>1, <1>4
<1>10. \A i, j \in DOMAIN q : q[i] = q[j] => i = j
  BY <1>4 DEF IsInjective
<1>11. QED
  BY <1>3, <1>8, <1>9, <1>10 DEF Lists

---------------------------------------------------------------------------
(* What the operators of the main application do.                          *)

\* c is b with a new device registered for each of us.
RegisteredTo(b, us, c) ==
  /\ c.objs \in Seq(DeviceObject) /\ Len(b.objs) <= Len(c.objs)
  /\ \A o \in DOMAIN b.objs : c.objs[o] = b.objs[o]
  /\ \A o \in (DOMAIN c.objs) \ (DOMAIN b.objs) : c.objs[o].uid \in us /\ c.objs[o] = NewDevice(c.objs[o].uid)
  /\ c.map \in [Uid -> Nat]
  /\ \A u \in Uid : IF u \in us
                      THEN c.map[u] \in (DOMAIN c.objs) \ (DOMAIN b.objs) /\ c.objs[c.map[u]].uid = u
                      ELSE c.map[u] = b.map[u]
  /\ c = [b EXCEPT !.objs = c.objs, !.map = c.map, !.handed = @ \cup us,
                   !.late = IF b.up THEN @ \cup us ELSE @]

LEMMA RegisterGives ==
  ASSUME NEW b, MainType(b), NEW us \in SUBSET Uid, NEW c, c = RegisterInitialDevices(b, us)
  PROVE  RegisteredTo(b, us, c)
<1> DEFINE order == SetToSeq(us)
           added == [i \in DOMAIN order |-> NewDevice(order[i])]
           objs  == b.objs \o added
           new   == (DOMAIN objs) \ (DOMAIN b.objs)
           map   == [u \in Uid |-> IF u \in us THEN CHOOSE o \in new : objs[o].uid = u ELSE b.map[u]]
<1>1. Lists(order, us)
  <2>1. IsFiniteSet(us)
    BY MainAssumption, FS_Subset
  <2>2. QED
    BY <2>1, SetToSeqLists
<1>2. /\ b \in Bridge /\ b.objs \in Seq(DeviceObject) /\ b.map \in [Uid -> Nat]
  BY DEF MainType, Bridge
<1>3. added \in Seq(DeviceObject) /\ Len(added) = Len(order) /\ DOMAIN added = DOMAIN order
  <2>1. order \in Seq(us) /\ \A i \in DOMAIN order : order[i] \in Uid
    BY <1>1 DEF Lists
  <2>2. \A u \in Uid : NewDevice(u) \in DeviceObject
    BY DEF NewDevice, DeviceObject, NoEp
  <2>3. QED
    BY <2>1, <2>2
<1>4. /\ objs \in Seq(DeviceObject) /\ Len(objs) = Len(b.objs) + Len(added)
      /\ \A i \in 1 .. Len(b.objs) + Len(added) :
           objs[i] = IF i <= Len(b.objs) THEN b.objs[i] ELSE added[i - Len(b.objs)]
  <2> HIDE DEF added
  <2>1. QED
    BY <1>2, <1>3, ConcatProperties
<1> HIDE DEF objs
<1>5. \A o \in new : objs[o] = NewDevice(order[o - Len(b.objs)]) /\ o - Len(b.objs) \in DOMAIN order
  BY <1>2, <1>3, <1>4
<1>6. \A o \in new : objs[o].uid \in us /\ objs[o] = NewDevice(objs[o].uid)
  <2>1. \A i \in DOMAIN order : order[i] \in us
    BY <1>1 DEF Lists
  <2>2. QED
    BY <1>5, <2>1 DEF NewDevice
<1>7. \A u \in us : \E o \in new : objs[o].uid = u
  <2>1. TAKE u \in us
  <2>2. PICK i \in DOMAIN order : order[i] = u
    BY <1>1 DEF Lists
  <2>3. i \in 1 .. Len(added) /\ order \in Seq(us)
    BY <1>1, <1>3 DEF Lists
  <2>4. PICK l \in Nat : l = Len(b.objs)
    BY <1>2
  <2>5. l + i \in new
    BY <1>2, <1>3, <1>4, <2>3, <2>4
  <2>6. order[(l + i) - l] = u
    BY <2>2, <2>3, <2>4
  <2>7. objs[l + i] = NewDevice(u)
    BY <1>5, <2>4, <2>5, <2>6
  <2>8. QED
    BY <2>5, <2>7 DEF NewDevice
<1>8. /\ map \in [Uid -> Nat]
      /\ \A u \in Uid : IF u \in us THEN map[u] \in new /\ objs[map[u]].uid = u ELSE map[u] = b.map[u]
  <2>1. \A u \in us : map[u] \in new /\ objs[map[u]].uid = u
    BY <1>7
  <2>2. new \subseteq Nat
    BY <1>4
  <2>3. \A u \in Uid \ us : map[u] = b.map[u]
    OBVIOUS
  <2>4. QED
    BY <1>2, <2>1, <2>2, <2>3
<1> HIDE DEF map
<1>9. c = [b EXCEPT !.objs = objs, !.map = map, !.handed = @ \cup us, !.late = IF b.up THEN @ \cup us ELSE @]
  BY DEF RegisterInitialDevices, objs, map
<1>10. c.objs = objs /\ c.map = map
  BY <1>2, <1>9 DEF Bridge
<1>11. QED
  BY <1>2, <1>4, <1>6, <1>8, <1>9, <1>10 DEF RegisteredTo

\* c is b with the devices os installed, as long as there was room.
InstalledTo(b, os, c) ==
  LET new == (DOMAIN c.table) \ (DOMAIN b.table)
  IN  /\ c.table \in Seq(DOMAIN b.objs) /\ Len(b.table) <= Len(c.table) /\ Len(c.table) <= MaxDyn
      /\ \A i \in DOMAIN b.table : c.table[i] = b.table[i]
      /\ \A i \in new : \E j \in DOMAIN os : c.table[i] = os[j]
      /\ \/ Len(c.table) = MaxDyn
         \/ \A j \in DOMAIN os : \E i \in new : c.table[i] = os[j]
      /\ \A i, j \in new : c.table[i] = c.table[j] => i = j
      /\ c.on = b.on \cup new
      /\ c.objs \in Seq(DeviceObject) /\ DOMAIN c.objs = DOMAIN b.objs
      /\ \A i \in new : c.objs[c.table[i]] = Installed(b.objs[c.table[i]], i)
      /\ \A o \in DOMAIN b.objs : (\A i \in new : c.table[i] # o) => c.objs[o] = b.objs[o]
      /\ c = [b EXCEPT !.table = c.table, !.on = c.on, !.objs = c.objs]

LEMMA InSeq ==
  ASSUME NEW T, NEW s \in Seq(T), NEW S, \A i \in DOMAIN s : s[i] \in S
  PROVE  s \in Seq(S)
  OBVIOUS

LEMMA FirstOnes ==
  ASSUME NEW S, NEW s \in Seq(S), NEW n \in Nat, n <= Len(s), NEW q, q = SubSeq(s, 1, n)
  PROVE  q \in Seq(S) /\ Len(q) = n /\ \A i \in 1 .. n : q[i] = s[i]
  OBVIOUS

LEMMA InstallGives ==
  ASSUME NEW b, MainType(b), NEW os \in Seq(DOMAIN b.objs),
         \A i, j \in DOMAIN os : os[i] = os[j] => i = j,
         NEW c, c = Install(b, os)
  PROVE  InstalledTo(b, os, c)
<1>1. /\ b \in Bridge /\ b.objs \in Seq(DeviceObject)
      /\ b.table \in Seq(Nat) /\ Len(b.table) <= MaxDyn
      /\ \A i \in DOMAIN b.table : b.table[i] \in DOMAIN b.objs
  BY DEF MainType, Bridge
<1>2. PICK D : D = DOMAIN b.objs
  OBVIOUS
<1>3. PICK t : t = b.table
  OBVIOUS
<1>4. PICK n : n = Len(t)
  OBVIOUS
<1>5. PICK O : O = b.objs
  OBVIOUS
<1> DEFINE room  == MaxDyn - Len(b.table)
           taken == IF Len(os) <= room THEN os ELSE SubSeq(os, 1, room)
           table == b.table \o taken
           new   == (DOMAIN table) \ (DOMAIN b.table)
           objs  == [o \in DOMAIN b.objs |-> IF \E i \in new : table[i] = o
                                               THEN Installed(b.objs[o], CHOOSE i \in new : table[i] = o)
                                               ELSE b.objs[o]]
<1>6. t \in Seq(D) /\ n \in Nat /\ n <= MaxDyn /\ room \in Nat /\ DOMAIN t = 1 .. n
  <2>1. t \in Seq(D)
    BY <1>1, <1>2, <1>3, InSeq
  <2>2. QED
    BY <1>1, <1>3, <1>4, <2>1, MainAssumption
<1>7. os \in Seq(D) /\ DOMAIN os = 1 .. Len(os) /\ Len(os) \in Nat
  BY <1>2
<1>8. /\ taken \in Seq(D) /\ Len(taken) \in Nat /\ Len(taken) <= room /\ Len(taken) <= Len(os)
      /\ \A i \in 1 .. Len(taken) : taken[i] = os[i]
      /\ Len(taken) = Len(os) \/ Len(taken) = room
  <2>1. CASE Len(os) <= room
    BY <1>7, <2>1
  <2>2. CASE ~(Len(os) <= room)
    <3>1. taken = SubSeq(os, 1, room) /\ room <= Len(os)
      BY <1>6, <1>7, <2>2
    <3> HIDE DEF room, taken
    <3>2. taken \in Seq(D) /\ Len(taken) = room /\ \A i \in 1 .. room : taken[i] = os[i]
      BY <1>6, <1>7, <3>1, FirstOnes
    <3>3. QED
      BY <1>6, <3>1, <3>2
  <2>3. QED
    BY <2>1, <2>2
<1>9. room = MaxDyn - n
  BY <1>3, <1>4
<1> HIDE DEF room, taken
<1>10. PICK m : m = Len(taken)
  OBVIOUS
<1>11. /\ table \in Seq(D) /\ Len(table) = n + m /\ m \in Nat /\ DOMAIN table = 1 .. n + m
       /\ \A i \in 1 .. n : table[i] = t[i]
       /\ \A i \in 1 .. m : table[n + i] = os[i]
  <2>1. /\ table \in Seq(D) /\ Len(table) = Len(t) + Len(taken)
        /\ \A i \in 1 .. Len(t) + Len(taken) :
             table[i] = IF i <= Len(t) THEN t[i] ELSE taken[i - Len(t)]
    <3>1. table = t \o taken
      BY <1>3
    <3> HIDE DEF table
    <3>2. QED
      BY <1>6, <1>8, <3>1, ConcatProperties
  <2> HIDE DEF table
  <2>2. \A i \in 1 .. m : table[n + i] = taken[n + i - n]
    <3> SUFFICES ASSUME NEW i \in 1 .. m PROVE table[n + i] = taken[n + i - n]
      OBVIOUS
    <3>1. n + i \in 1 .. Len(t) + Len(taken) /\ ~(n + i <= Len(t)) /\ n = Len(t)
      BY <1>4, <1>6, <1>8, <1>10
    <3>2. QED
      BY <2>1, <3>1
  <2>3. QED
    BY <1>4, <1>6, <1>8, <1>10, <2>1, <2>2
<1> HIDE DEF table
<1>12. \A i : i \in new <=> i \in Nat /\ n < i /\ i <= n + m
  BY <1>3, <1>6, <1>11
<1> HIDE DEF new
<1>13. \A i \in new : i - n \in 1 .. m /\ table[i] = os[i - n] /\ i - n \in DOMAIN os
  <2>1. TAKE i \in new
  <2>2. PICK j : j = i - n
    OBVIOUS
  <2>3. j \in 1 .. m /\ i = n + j
    <3>1. i \in Nat /\ n < i /\ i <= n + m
      BY <1>12
    <3>2. n \in Nat /\ m \in Nat
      BY <1>6, <1>11
    <3>3. QED
      BY ONLY <2>2, <3>1, <3>2
  <2>4. j \in DOMAIN os
    BY <1>7, <1>8, <1>10, <2>3
  <2>5. QED
    BY <1>11, <2>2, <2>3, <2>4
<1>14. \A j \in 1 .. m : n + j \in new /\ table[n + j] = os[j]
  <2>1. TAKE j \in 1 .. m
  <2>2. n + j \in Nat /\ n < n + j /\ n + j <= n + m
    BY <1>6, <1>11
  <2>3. QED
    BY <1>11, <1>12, <2>2
<1>15. \A i, j \in new : table[i] = table[j] => i = j
  <2>1. TAKE i \in new, j \in new
  <2>2. i - n = j - n => i = j
    BY <1>6, <1>12
  <2>3. QED
    BY <1>13, <2>2
<1>16. Len(table) = MaxDyn \/ \A j \in DOMAIN os : \E i \in new : table[i] = os[j]
  <2>1. CASE m = Len(os)
    BY <1>7, <1>14, <2>1
  <2>2. CASE m = room
    BY <1>6, <1>9, <1>11, <2>2, MainAssumption
  <2>3. QED
    BY <1>8, <1>10, <2>1, <2>2
<1>17. \A i \in new : table[i] \in D
  BY <1>6, <1>11, <1>12
<1>18. \A i \in new : objs[table[i]] = Installed(O[table[i]], i)
  BY <1>2, <1>5, <1>15, <1>17
<1>19. \A o \in D : (\A i \in new : table[i] # o) => objs[o] = O[o]
  BY <1>2, <1>5
<1>20. objs \in Seq(DeviceObject) /\ DOMAIN objs = D
  <2>1. \A d \in DeviceObject, i \in Nat : Installed(d, i) \in DeviceObject
    BY DEF Installed, DeviceObject
  <2>2. \A o \in D : objs[o] \in DeviceObject
    <3>1. TAKE o \in D
    <3>2. O[o] \in DeviceObject
      BY <1>1, <1>2, <1>5
    <3>3. CASE \E i \in new : table[i] = o
      BY <1>12, <1>18, <2>1, <3>2, <3>3
    <3>4. QED
      BY <1>19, <3>2, <3>3
  <2>3. D = 1 .. Len(O) /\ Len(O) \in Nat
    BY <1>1, <1>2, <1>5
  <2>4. DOMAIN objs = D /\ objs = [o \in D |-> objs[o]]
    BY <1>2
  <2> HIDE DEF objs
  <2>5. QED
    BY <2>2, <2>3, <2>4
<1> HIDE DEF objs
<1>21. c = [b EXCEPT !.table = table, !.on = b.on \cup new, !.objs = objs]
  BY Zenon DEF Install, table, new, objs, taken, room
<1>22. c.table = table /\ c.on = b.on \cup new /\ c.objs = objs
  BY <1>1, <1>21 DEF Bridge
<1>23. Len(b.table) <= Len(table) /\ Len(table) <= MaxDyn
  BY <1>3, <1>4, <1>6, <1>8, <1>9, <1>10, <1>11, MainAssumption
<1>24. \A i \in DOMAIN b.table : table[i] = b.table[i]
  BY <1>3, <1>6, <1>11
<1>25. \A i \in new : \E j \in DOMAIN os : table[i] = os[j]
  BY <1>13
<1>26. new = (DOMAIN c.table) \ (DOMAIN b.table)
  BY <1>3, <1>22 DEF new
<1>27. QED
  BY <1>2, <1>5, <1>11, <1>15, <1>16, <1>18, <1>19, <1>20, <1>21, <1>22, <1>23, <1>24, <1>25, <1>26
  DEF InstalledTo

\* The fields of a state of the bridge have their types.
LEMMA FieldTypes ==
  ASSUME NEW b, MainInv(b)
  PROVE  /\ b \in Bridge /\ b.unstarted \in Int /\ b.starts \in Nat /\ b.up \in BOOLEAN /\ b.exited \in BOOLEAN
         /\ b.objs \in Seq(DeviceObject) /\ b.map \in [Uid -> Nat]
         /\ b.table \in Seq(Nat) /\ b.on \in SUBSET Nat
         /\ b.handed \in SUBSET Uid /\ b.removed \in SUBSET Uid /\ b.early \in SUBSET Uid
         /\ b.late \in SUBSET Uid /\ b.added \in SUBSET Uid
         /\ DOMAIN b.objs = 1 .. Len(b.objs) /\ DOMAIN b.table = 1 .. Len(b.table)
         /\ Len(b.objs) \in Nat /\ Len(b.table) \in Nat
         /\ \A u \in Uid : b.map[u] # NoObj => b.map[u] \in DOMAIN b.objs
         /\ \A o \in DOMAIN b.objs : b.objs[o] \in DeviceObject
  BY DEF MainInv, MainType, Bridge, NoObj

\* What is counted of the startups and the starts is of no concern to the devices.
LEMMA CountingKeeps ==
  ASSUME NEW b, MainInv(b), NEW i \in Int, NEW n \in Nat, NEW x \in BOOLEAN
  PROVE  MainInv([b EXCEPT !.unstarted = i, !.starts = n, !.exited = x])
<1> DEFINE c == [b EXCEPT !.unstarted = i, !.starts = n, !.exited = x]
<1>1. b \in Bridge
  BY FieldTypes
<1>2. c \in Bridge
  BY <1>1 DEF Bridge
<1>3. /\ c.up = b.up /\ c.objs = b.objs /\ c.map = b.map /\ c.table = b.table /\ c.on = b.on
      /\ c.handed = b.handed /\ c.removed = b.removed /\ c.early = b.early /\ c.late = b.late
      /\ c.added = b.added
  BY <1>1 DEF Bridge
<1> HIDE DEF c
<1>4. MainType(c)
  BY <1>2, <1>3 DEF MainInv, MainType
<1>5. MapsFit(c) /\ EndpointsFit(c)
  BY <1>3 DEF MainInv, MapsFit, EndpointsFit
<1>6. DisabledRemoved(c) /\ FlagsFit(c)
  BY <1>3 DEF MainInv, DisabledRemoved, FlagsFit
<1>7. MappedEnabled(c)
  BY <1>3 DEF MainInv, MappedEnabled, EnabledIn
<1>8. QED
  BY <1>4, <1>5, <1>6, <1>7 DEF MainInv, c

\* One more adapter has completed its startup.
CompletedTo(b, c) ==
  /\ c \in Bridge /\ c.unstarted = b.unstarted - 1
  /\ c.starts = IF b.unstarted - 1 > 0 \/ ~HasBridgeableDevices(b) THEN b.starts ELSE b.starts + 1
  /\ c.up = b.up /\ c.exited = b.exited /\ c.objs = b.objs /\ c.map = b.map
  /\ c.table = b.table /\ c.on = b.on
  /\ c.handed = b.handed /\ c.removed = b.removed /\ c.early = b.early /\ c.late = b.late
  /\ c.added = b.added

LEMMA StartupCompleteKeeps ==
  ASSUME NEW b, MainInv(b), NEW c, c = StartupComplete(b)
  PROVE  MainInv(c) /\ CompletedTo(b, c)
<1>1. b \in Bridge /\ b.unstarted \in Int /\ b.starts \in Nat /\ b.exited \in BOOLEAN
  BY FieldTypes
<1>2. PICK n : n = IF b.unstarted - 1 > 0 \/ ~HasBridgeableDevices(b) THEN b.starts ELSE b.starts + 1
  OBVIOUS
<1>3. PICK i : i = b.unstarted - 1
  OBVIOUS
<1>4. n \in Nat /\ i \in Int
  BY <1>1, <1>2, <1>3
<1>5. c = [b EXCEPT !.unstarted = i, !.starts = n]
  BY <1>1, <1>2, <1>3 DEF StartupComplete, PostponeStart, Bridge
<1>6. c = [b EXCEPT !.unstarted = i, !.starts = n, !.exited = b.exited]
  BY <1>1, <1>4, <1>5 DEF Bridge
<1>7. MainInv([b EXCEPT !.unstarted = i, !.starts = n, !.exited = b.exited])
  BY <1>1, <1>4, CountingKeeps
<1>8. CompletedTo(b, c)
  BY <1>1, <1>2, <1>3, <1>4, <1>5 DEF CompletedTo, Bridge
<1>9. QED
  BY <1>6, <1>7, <1>8

\* c is b with a new object that no map refers to.
CreatedTo(b, u, c) ==
  /\ c \in Bridge /\ c.map = b.map /\ c.late = b.late
  /\ c.unstarted = b.unstarted /\ c.starts = b.starts
  /\ c.up = b.up /\ c.exited = b.exited /\ c.table = b.table /\ c.on = b.on
  /\ c.removed = b.removed /\ c.early = b.early /\ c.added = b.added
  /\ Newest(c) = Len(b.objs) + 1 /\ DOMAIN c.objs = (DOMAIN b.objs) \cup {Newest(c)}
  /\ c.objs[Newest(c)] = NewDevice(u)
  /\ \A o \in DOMAIN b.objs : c.objs[o] = b.objs[o]

LEMMA NewObjectKeeps ==
  ASSUME NEW b, MainInv(b), NEW u \in Uid, NEW c, c = NewObject(b, u)
  PROVE  MainInv(c) /\ CreatedTo(b, u, c)
<1>1. /\ b \in Bridge /\ b.objs \in Seq(DeviceObject) /\ Len(b.objs) \in Nat /\ NewDevice(u) \in DeviceObject
  BY FieldTypes DEF NewDevice, DeviceObject, NoEp
<1>2. /\ c \in Bridge /\ c.objs = Append(b.objs, NewDevice(u))
      /\ c.up = b.up /\ c.map = b.map /\ c.table = b.table /\ c.on = b.on
      /\ c.handed = b.handed /\ c.removed = b.removed /\ c.early = b.early /\ c.late = b.late
      /\ c.added = b.added /\ c.unstarted = b.unstarted /\ c.starts = b.starts /\ c.exited = b.exited
  <2>1. PICK q : q = Append(b.objs, NewDevice(u))
    OBVIOUS
  <2>2. q \in Seq(DeviceObject)
    BY <1>1, <2>1
  <2>3. c = [b EXCEPT !.objs = q]
    BY <2>1 DEF NewObject
  <2>4. QED
    <3>1. /\ c \in Bridge /\ c.objs = q
          /\ c.up = b.up /\ c.map = b.map /\ c.table = b.table /\ c.on = b.on
          /\ c.handed = b.handed /\ c.removed = b.removed /\ c.early = b.early /\ c.late = b.late
          /\ c.added = b.added
      BY <1>1, <2>2, <2>3 DEF Bridge
    <3>2. c.unstarted = b.unstarted /\ c.starts = b.starts /\ c.exited = b.exited
      BY <1>1, <2>2, <2>3 DEF Bridge
    <3>3. QED
      BY <2>1, <3>1, <3>2
<1>3. /\ Newest(c) = Len(b.objs) + 1 /\ Newest(c) \in DOMAIN c.objs /\ c.objs[Newest(c)] = NewDevice(u)
      /\ DOMAIN c.objs = (DOMAIN b.objs) \cup {Newest(c)}
      /\ \A o \in DOMAIN b.objs : c.objs[o] = b.objs[o]
  BY <1>1, <1>2 DEF Newest
<1>4. \A i \in DOMAIN b.table : b.table[i] \in DOMAIN b.objs
  BY DEF MainInv, MainType
<1>5. b.on \subseteq DOMAIN b.table
  BY DEF MainInv, MainType
<1>6. MainType(c)
  BY <1>1, <1>2, <1>3 DEF MainInv, MainType
<1>7. MapsFit(c)
  BY <1>2, <1>3, FieldTypes DEF MainInv, MapsFit
<1>8. EndpointsFit(c)
  BY <1>2, <1>3, <1>4 DEF MainInv, EndpointsFit, NewDevice
<1>9. DisabledRemoved(c)
  BY <1>2, <1>3 DEF MainInv, DisabledRemoved, NewDevice
<1>10. FlagsFit(c)
  <2>1. \A i \in c.on : c.objs[c.table[i]] = b.objs[b.table[i]]
    BY <1>2, <1>3, <1>4, <1>5
  <2>2. \A o \in DOMAIN c.objs : ~c.objs[o].active => o \in DOMAIN b.objs /\ ~b.objs[o].active
    BY <1>3 DEF NewDevice
  <2>3. \A i \in c.on : LET d == c.objs[c.table[i]] IN d.reachable = (d.bridgeable /\ d.active)
    BY <1>2, <2>1 DEF MainInv, FlagsFit
  <2>4. \A o \in DOMAIN c.objs : ~c.objs[o].active => c.objs[o].uid \in c.removed \cup c.early
    BY <1>2, <1>3, <2>2 DEF MainInv, FlagsFit
  <2>5. QED
    BY <2>3, <2>4 DEF FlagsFit
<1>11. MappedEnabled(c)
  BY <1>2, <1>3, <1>4, <1>5 DEF MainInv, MappedEnabled, EnabledIn
<1>12. QED
  BY <1>2, <1>3, <1>6, <1>7, <1>8, <1>9, <1>10, <1>11 DEF MainInv, CreatedTo

\* What registering leaves as it is.
SameStack(b, c) ==
  /\ c \in Bridge /\ c.unstarted = b.unstarted /\ c.starts = b.starts
  /\ c.up = b.up /\ c.exited = b.exited /\ c.table = b.table /\ c.on = b.on
  /\ c.removed = b.removed /\ c.early = b.early /\ c.added = b.added

LEMMA RegisterKeeps ==
  ASSUME NEW b, MainInv(b), NEW us \in SUBSET Uid, NEW c, RegisteredTo(b, us, c)
  PROVE  MainInv(c) /\ SameStack(b, c)
<1>1. /\ b \in Bridge /\ b.up \in BOOLEAN /\ DOMAIN b.objs = 1 .. Len(b.objs) /\ Len(b.objs) \in Nat
      /\ b.map \in [Uid -> Nat] /\ b.handed \in SUBSET Uid /\ b.late \in SUBSET Uid
  BY FieldTypes
<1>2. /\ c.objs \in Seq(DeviceObject) /\ Len(b.objs) <= Len(c.objs) /\ c.map \in [Uid -> Nat]
      /\ c = [b EXCEPT !.objs = c.objs, !.map = c.map, !.handed = b.handed \cup us,
                       !.late = IF b.up THEN b.late \cup us ELSE b.late]
  BY <1>1 DEF RegisteredTo, Bridge
<1>3. /\ c \in Bridge /\ c.unstarted = b.unstarted /\ c.starts = b.starts /\ c.exited = b.exited
      /\ c.up = b.up /\ c.table = b.table /\ c.on = b.on
      /\ c.handed = b.handed \cup us /\ c.removed = b.removed /\ c.early = b.early
      /\ c.late = IF b.up THEN b.late \cup us ELSE b.late
      /\ c.added = b.added
  <2>1. PICK q : q = c.objs
    OBVIOUS
  <2>2. PICK m : m = c.map
    OBVIOUS
  <2>3. PICK h : h = b.handed \cup us
    OBVIOUS
  <2>4. PICK l : l = IF b.up THEN b.late \cup us ELSE b.late
    OBVIOUS
  <2>5. q \in Seq(DeviceObject) /\ m \in [Uid -> Nat] /\ h \in SUBSET Uid /\ l \in SUBSET Uid
    BY <1>1, <1>2, <2>1, <2>2, <2>3, <2>4
  <2>6. c = [b EXCEPT !.objs = q, !.map = m, !.handed = h, !.late = l]
    BY <1>2, <2>1, <2>2, <2>3, <2>4
  <2>7. QED
    BY <1>1, <2>3, <2>4, <2>5, <2>6 DEF Bridge
<1>4. DOMAIN c.objs = 1 .. Len(c.objs) /\ Len(c.objs) \in Nat /\ DOMAIN b.objs \subseteq DOMAIN c.objs
  BY <1>1, <1>2
<1>5. /\ \A o \in DOMAIN b.objs : c.objs[o] = b.objs[o]
      /\ \A o \in (DOMAIN c.objs) \ (DOMAIN b.objs) : c.objs[o] = NewDevice(c.objs[o].uid)
      /\ \A u \in us : c.map[u] \in DOMAIN c.objs /\ c.objs[c.map[u]].uid = u
      /\ \A u \in Uid \ us : c.map[u] = b.map[u]
  BY DEF RegisteredTo
<1>6. \A i \in DOMAIN b.table : b.table[i] \in DOMAIN b.objs
  BY DEF MainInv, MainType
<1>7. b.on \subseteq DOMAIN b.table
  BY DEF MainInv, MainType
<1>8. \A o \in (DOMAIN c.objs) \ (DOMAIN b.objs) : c.objs[o].ep = NoEp /\ c.objs[o].active
  <2>1. \A u : NewDevice(u).ep = NoEp /\ NewDevice(u).active
    BY DEF NewDevice
  <2>2. QED
    BY <1>5, <2>1
<1>9. MainType(c)
  <2>1. \A u \in Uid : c.map[u] \in 0 .. Len(c.objs)
    BY <1>1, <1>2, <1>4, <1>5 DEF MainInv, MainType
  <2>2. QED
    BY <1>3, <1>4, <1>6, <2>1 DEF MainInv, MainType
<1>10. MapsFit(c)
  <2>1. \A u \in Uid : b.map[u] # NoObj => b.map[u] \in DOMAIN b.objs
    BY FieldTypes
  <2>2. \A u \in us : c.map[u] # NoObj
    BY <1>4, <1>5 DEF NoObj
  <2>3. b.added \subseteq Uid
    BY FieldTypes
  <2>4. QED
    BY <1>1, <1>3, <1>5, <2>1, <2>2, <2>3 DEF MainInv, MapsFit
<1>11. EndpointsFit(c)
  BY <1>3, <1>4, <1>5, <1>6, <1>8 DEF MainInv, EndpointsFit
<1>12. DisabledRemoved(c)
  BY <1>3, <1>4, <1>5, <1>8 DEF MainInv, DisabledRemoved
<1>13. FlagsFit(c)
  BY <1>3, <1>4, <1>5, <1>6, <1>7, <1>8 DEF MainInv, FlagsFit
<1>14. MappedEnabled(c)
  <2> SUFFICES ASSUME b.up, NEW u \in Uid, c.map[u] # NoObj
               PROVE  \/ u \in c.removed \cup (c.late \ c.added)
                      \/ EnabledIn(c, u)
                      \/ Len(c.table) = MaxDyn
    BY <1>3 DEF MappedEnabled
  <2>1. CASE u \in us /\ u \notin b.added
    BY <1>3, <2>1
  <2>2. CASE u \notin us \/ u \in b.added
    <3>1. b.map[u] # NoObj
      BY <1>5, <2>2 DEF MainInv, MapsFit
    <3>2. \/ u \in b.removed \cup (b.late \ b.added)
          \/ EnabledIn(b, u)
          \/ Len(b.table) = MaxDyn
      BY <3>1 DEF MainInv, MappedEnabled
    <3>3. EnabledIn(b, u) => EnabledIn(c, u)
      BY <1>3, <1>5, <1>6, <1>7 DEF EnabledIn
    <3>4. QED
      BY <1>3, <3>2, <3>3
  <2>3. QED
    BY <2>1, <2>2
<1>15. QED
  BY <1>3, <1>9, <1>10, <1>11, <1>12, <1>13, <1>14 DEF MainInv, SameStack

\* A device object changes what it is said to be, but not whose it is.
DeviceFits(b, o, d) ==
  /\ d \in DeviceObject
  /\ d.uid = b.objs[o].uid /\ d.ep = b.objs[o].ep
  /\ d.ep \in b.on => d.reachable = (d.bridgeable /\ d.active)
  /\ ~d.active => d.uid \in b.removed \cup b.early

Changed(b, o, d) == [b EXCEPT !.objs[o] = d]

ChangedTo(b, o, d, c) ==
  /\ c \in Bridge /\ c.objs = [b.objs EXCEPT ![o] = d]
  /\ c.unstarted = b.unstarted /\ c.starts = b.starts /\ c.up = b.up /\ c.exited = b.exited
  /\ c.map = b.map /\ c.table = b.table /\ c.on = b.on
  /\ c.handed = b.handed /\ c.removed = b.removed /\ c.early = b.early /\ c.late = b.late
  /\ c.added = b.added

LEMMA DeviceKeeps ==
  ASSUME NEW b, MainInv(b), NEW o \in DOMAIN b.objs, NEW d, DeviceFits(b, o, d),
         NEW c, c = Changed(b, o, d)
  PROVE  MainInv(c) /\ ChangedTo(b, o, d, c)
<1> USE DEF DeviceFits
<1>1. /\ b \in Bridge /\ b.objs \in Seq(DeviceObject) /\ Len(b.objs) \in Nat
  BY FieldTypes
<1>2. PICK q : q = [b.objs EXCEPT ![o] = d]
  OBVIOUS
<1>3. q \in Seq(DeviceObject) /\ DOMAIN q = DOMAIN b.objs /\ Len(q) = Len(b.objs)
  BY <1>1, <1>2
<1>4. c = [b EXCEPT !.objs = q]
  BY <1>1, <1>2 DEF Changed
<1>5. /\ c \in Bridge /\ c.objs = q
      /\ c.unstarted = b.unstarted /\ c.starts = b.starts /\ c.exited = b.exited
      /\ c.up = b.up /\ c.map = b.map /\ c.table = b.table /\ c.on = b.on
      /\ c.handed = b.handed /\ c.removed = b.removed /\ c.early = b.early /\ c.late = b.late
      /\ c.added = b.added
  BY <1>1, <1>3, <1>4 DEF Bridge
<1>6. \A p \in DOMAIN b.objs : q[p].uid = b.objs[p].uid /\ q[p].ep = b.objs[p].ep
  BY <1>1, <1>2
<1>7. \A p \in DOMAIN b.objs : p # o => q[p] = b.objs[p]
  BY <1>1, <1>2
<1>8. q[o] = d
  BY <1>1, <1>2
<1>9. /\ \A i \in DOMAIN b.table : b.table[i] \in DOMAIN b.objs
      /\ b.on \subseteq DOMAIN b.table
      /\ \A u \in Uid : b.map[u] # NoObj => b.map[u] \in DOMAIN b.objs
      /\ b.handed \subseteq Uid /\ b.added \subseteq Uid
  BY FieldTypes DEF MainInv, MainType
<1>10. MainType(c)
  BY <1>3, <1>5 DEF MainInv, MainType
<1>11. MapsFit(c)
  BY <1>5, <1>6, <1>9 DEF MainInv, MapsFit
<1>12. EndpointsFit(c)
  BY <1>3, <1>5, <1>6, <1>9 DEF MainInv, EndpointsFit
<1>13. DisabledRemoved(c)
  BY <1>3, <1>5, <1>6 DEF MainInv, DisabledRemoved
<1>14. FlagsFit(c)
  <2>1. ASSUME NEW i \in c.on
        PROVE  LET e == c.objs[c.table[i]] IN e.reachable = (e.bridgeable /\ e.active)
    <3>1. CASE b.table[i] = o
      <4>1. b.objs[o].ep = i
        BY <1>5, <1>9, <2>1, <3>1 DEF MainInv, EndpointsFit
      <4>2. QED
        BY <1>5, <1>8, <2>1, <3>1, <4>1
    <3>2. CASE b.table[i] # o
      BY <1>5, <1>7, <1>9, <2>1, <3>2 DEF MainInv, FlagsFit
    <3>3. QED
      BY <3>1, <3>2
  <2>2. ASSUME NEW p \in DOMAIN c.objs, ~c.objs[p].active
        PROVE  c.objs[p].uid \in c.removed \cup c.early
    BY <1>3, <1>5, <1>7, <1>8, <2>2 DEF MainInv, FlagsFit
  <2>3. QED
    BY <2>1, <2>2 DEF FlagsFit
<1>15. MappedEnabled(c)
  <2>1. \A u : EnabledIn(b, u) => EnabledIn(c, u)
    BY <1>5, <1>6, <1>9 DEF EnabledIn
  <2>2. QED
    BY <1>5, <2>1 DEF MainInv, MappedEnabled
<1>16. QED
  BY <1>2, <1>5, <1>10, <1>11, <1>12, <1>13, <1>14, <1>15 DEF MainInv, ChangedTo

\* A device is taken off its endpoint.
RemovedTo(b, o, c) ==
  /\ c \in Bridge /\ c.on = b.on \ {b.objs[o].ep}
  /\ c.removed = IF b.up THEN b.removed \cup {b.objs[o].uid} ELSE b.removed
  /\ c.early = IF b.up THEN b.early ELSE b.early \cup {b.objs[o].uid}
  /\ c.unstarted = b.unstarted /\ c.starts = b.starts /\ c.up = b.up /\ c.exited = b.exited
  /\ c.objs = b.objs /\ c.map = b.map /\ c.table = b.table

LEMMA RemoveKeeps ==
  ASSUME NEW b, MainInv(b), NEW o \in DOMAIN b.objs, NEW c, c = RemoveDevice(b, o)
  PROVE  MainInv(c) /\ RemovedTo(b, o, c)
<1>1. /\ b \in Bridge /\ b.on \in SUBSET Nat /\ b.objs[o] \in DeviceObject
      /\ b.handed \in SUBSET Uid /\ b.removed \in SUBSET Uid /\ b.early \in SUBSET Uid
  BY FieldTypes
<1>2. PICK u \in Uid, e \in Nat : u = b.objs[o].uid /\ e = b.objs[o].ep
  BY <1>1 DEF DeviceObject
<1>3. PICK on \in SUBSET Nat, handed \in SUBSET Uid, removed \in SUBSET Uid, early \in SUBSET Uid :
        /\ on = b.on \ {e} /\ handed = b.handed \ {u}
        /\ removed = IF b.up THEN b.removed \cup {u} ELSE b.removed
        /\ early = IF b.up THEN b.early ELSE b.early \cup {u}
  BY <1>1, <1>2
<1>4. c = [b EXCEPT !.on = on, !.handed = handed, !.removed = removed, !.early = early]
  BY <1>2, <1>3 DEF RemoveDevice
<1>5. /\ c \in Bridge /\ c.on = on /\ c.handed = handed /\ c.removed = removed /\ c.early = early
      /\ c.up = b.up /\ c.objs = b.objs /\ c.map = b.map /\ c.table = b.table /\ c.late = b.late
      /\ c.added = b.added /\ c.unstarted = b.unstarted /\ c.starts = b.starts /\ c.exited = b.exited
  BY <1>1, <1>4 DEF Bridge
<1>6. /\ \A i \in DOMAIN b.table : b.table[i] \in DOMAIN b.objs
      /\ b.on \subseteq DOMAIN b.table
  BY DEF MainInv, MainType
<1>7. b.removed \subseteq removed /\ b.early \subseteq early
  BY <1>3
<1>8. MainType(c)
  BY <1>3, <1>5 DEF MainInv, MainType
<1>9. MapsFit(c) /\ EndpointsFit(c)
  BY <1>3, <1>5 DEF MainInv, MapsFit, EndpointsFit
<1>10. \A p \in DOMAIN b.objs : b.objs[p].ep = e /\ e # NoEp => p = o
  BY <1>2 DEF MainInv, EndpointsFit
<1>11. ~b.up => b.on = {}
  BY <1>6 DEF MainInv, EndpointsFit
<1>12. DisabledRemoved(c)
  <2> SUFFICES ASSUME NEW p \in DOMAIN b.objs, b.objs[p].ep # NoEp, b.objs[p].ep \notin on
               PROVE  b.objs[p].uid \in removed
    BY <1>5 DEF DisabledRemoved
  <2>1. CASE b.objs[p].ep \notin b.on
    BY <1>7, <2>1 DEF MainInv, DisabledRemoved
  <2>2. CASE b.objs[p].ep \in b.on
    BY <1>2, <1>3, <1>10, <1>11, <2>2
  <2>3. QED
    BY <2>1, <2>2
<1>13. FlagsFit(c)
  BY <1>3, <1>5, <1>7 DEF MainInv, FlagsFit
<1>14. MappedEnabled(c)
  <2> SUFFICES ASSUME b.up, NEW v \in Uid, b.map[v] # NoObj
               PROVE  \/ v \in removed \cup (b.late \ b.added)
                      \/ EnabledIn(c, v)
                      \/ Len(b.table) = MaxDyn
    BY <1>5 DEF MappedEnabled
  <2>1. CASE v = u
    BY <1>3, <2>1
  <2>2. CASE v # u /\ EnabledIn(b, v)
    <3>1. PICK i \in b.on : b.objs[b.table[i]].uid = v
      BY <2>2 DEF EnabledIn
    <3>2. b.objs[b.table[i]].ep = i /\ b.table[i] \in DOMAIN b.objs
      BY <1>6, <3>1 DEF MainInv, EndpointsFit
    <3>3. i # e
      <4>1. SUFFICES ASSUME i = e PROVE FALSE
        OBVIOUS
      <4>2. e # NoEp
        <5>1. i \in DOMAIN b.table /\ b.table \in Seq(Nat)
          BY <1>6, <3>1, FieldTypes
        <5>2. QED
          BY <4>1, <5>1 DEF NoEp
      <4>3. QED
        BY <1>2, <1>10, <2>2, <3>1, <3>2, <4>1, <4>2
    <3>4. QED
      BY <1>3, <1>5, <3>1, <3>3 DEF EnabledIn
  <2>3. CASE ~EnabledIn(b, v)
    BY <1>7, <2>3 DEF MainInv, MappedEnabled
  <2>4. QED
    BY <2>1, <2>2, <2>3
<1>15. QED
  BY <1>2, <1>3, <1>5, <1>8, <1>9, <1>12, <1>13, <1>14 DEF MainInv, RemovedTo

\* A new device takes its place in the map.
Mapped(b, u, o) == [b EXCEPT !.map[u] = o, !.handed = @ \cup {u}, !.added = @ \cup {u}]

\* c is b with the device o in the map.
MappedTo(b, u, o, c) ==
  /\ c \in Bridge /\ c.map = [b.map EXCEPT ![u] = o] /\ c.map[u] = o
  /\ \A v \in Uid \ {u} : c.map[v] = b.map[v]
  /\ c.handed = b.handed \cup {u} /\ c.added = b.added \cup {u}
  /\ c.unstarted = b.unstarted /\ c.starts = b.starts /\ c.exited = b.exited
  /\ c.up = b.up /\ c.objs = b.objs /\ c.table = b.table /\ c.on = b.on
  /\ c.removed = b.removed /\ c.early = b.early /\ c.late = b.late

LEMMA MappedGives ==
  ASSUME NEW b, MainInv(b), NEW u \in Uid, NEW o \in DOMAIN b.objs, b.objs[o] = NewDevice(u),
         NEW c, c = Mapped(b, u, o)
  PROVE  /\ MappedTo(b, u, o, c)
         /\ MainType(c) /\ MapsFit(c) /\ EndpointsFit(c) /\ DisabledRemoved(c) /\ FlagsFit(c)
         /\ \A v \in Uid \ {u} : b.up /\ b.map[v] # NoObj =>
              v \in b.removed \cup (b.late \ b.added) \/ EnabledIn(b, v) \/ Len(b.table) = MaxDyn
         /\ ~b.up \/ u \in b.removed \/ EnabledIn(b, u) => MainInv(c)
<1>1. /\ b \in Bridge /\ b.map \in [Uid -> Nat] /\ b.handed \in SUBSET Uid /\ b.added \in SUBSET Uid
      /\ DOMAIN b.objs = 1 .. Len(b.objs) /\ Len(b.objs) \in Nat
  BY FieldTypes
<1>2. PICK m, h, a : m = [b.map EXCEPT ![u] = o] /\ h = b.handed \cup {u} /\ a = b.added \cup {u}
  OBVIOUS
<1>3. m \in [Uid -> Nat] /\ h \in SUBSET Uid /\ a \in SUBSET Uid
  BY <1>1, <1>2
<1>4. c = [b EXCEPT !.map = m, !.handed = h, !.added = a]
  BY <1>1, <1>2 DEF Mapped
<1>5. /\ c \in Bridge /\ c.map = m /\ c.handed = h /\ c.added = a
      /\ c.up = b.up /\ c.objs = b.objs /\ c.table = b.table /\ c.on = b.on /\ c.late = b.late
      /\ c.removed = b.removed /\ c.early = b.early
      /\ c.unstarted = b.unstarted /\ c.starts = b.starts /\ c.exited = b.exited
  BY <1>1, <1>3, <1>4 DEF Bridge
<1>6. m[u] = o /\ \A v \in Uid \ {u} : m[v] = b.map[v]
  BY <1>1, <1>2
<1>7. b.objs[o].uid = u /\ o # NoObj
  BY <1>1 DEF NewDevice, NoObj
<1>8. MainType(c)
  BY <1>1, <1>5, <1>6 DEF MainInv, MainType
<1>9. MapsFit(c)
  BY <1>1, <1>2, <1>5, <1>6, <1>7 DEF MainInv, MapsFit
<1>10. EndpointsFit(c) /\ DisabledRemoved(c) /\ FlagsFit(c)
  BY <1>5 DEF MainInv, EndpointsFit, DisabledRemoved, FlagsFit
<1>11. \A v \in Uid \ {u} : b.up /\ b.map[v] # NoObj =>
         v \in b.removed \cup (b.late \ b.added) \/ EnabledIn(b, v) \/ Len(b.table) = MaxDyn
  BY DEF MainInv, MappedEnabled
<1>12. ASSUME ~b.up \/ u \in b.removed \/ EnabledIn(b, u)
       PROVE  MappedEnabled(c)
  <2> SUFFICES ASSUME b.up, NEW v \in Uid, c.map[v] # NoObj
               PROVE  \/ v \in c.removed \cup (c.late \ c.added)
                      \/ EnabledIn(c, v)
                      \/ Len(c.table) = MaxDyn
    BY <1>5 DEF MappedEnabled
  <2>1. EnabledIn(b, v) => EnabledIn(c, v)
    BY <1>5 DEF EnabledIn
  <2>2. CASE v = u
    BY <1>5, <1>12, <2>1, <2>2
  <2>3. CASE v # u
    BY <1>2, <1>5, <1>6, <1>11, <2>1, <2>3
  <2>4. QED
    BY <2>2, <2>3
<1>13. MappedTo(b, u, o, c)
  BY <1>2, <1>5, <1>6 DEF MappedTo
<1>14. QED
  BY <1>8, <1>9, <1>10, <1>11, <1>12, <1>13 DEF MainInv

\* A new device is installed at once: c is d with the device o at an endpoint, if
\* there was room.
PlacedIn(b, o, d, c) ==
  /\ c.map = d.map /\ c.up = b.up /\ c.removed = b.removed /\ c.early = b.early
  /\ c.unstarted = b.unstarted /\ c.starts = b.starts /\ c.exited = b.exited
  /\ DOMAIN c.objs = DOMAIN b.objs
  /\ \A p \in DOMAIN b.objs : /\ c.objs[p].uid = b.objs[p].uid
                              /\ c.objs[p].bridgeable = b.objs[p].bridgeable
                              /\ c.objs[p].active = b.objs[p].active
                              /\ p # o => c.objs[p] = b.objs[p]
  /\ DOMAIN b.table \subseteq DOMAIN c.table /\ \A i \in DOMAIN b.table : c.table[i] = b.table[i]
  /\ \A i \in c.on : i \in b.on \/ (c.table[i] = o /\ c.objs[o].ep = i)
  /\ b.on \subseteq c.on
  /\ c.objs[o].ep \in c.on \/ Len(c.table) = MaxDyn

LEMMA AddedInstalled ==
  ASSUME NEW b, MainInv(b), b.up, NEW u \in Uid, NEW o \in DOMAIN b.objs, b.objs[o] = NewDevice(u),
         NEW d, MappedTo(b, u, o, d), MapsFit(d), NEW c, InstalledTo(d, <<o>>, c)
  PROVE  MainInv(c) /\ PlacedIn(b, o, d, c)
<1> DEFINE new == (DOMAIN c.table) \ (DOMAIN b.table)
<1>1. /\ b \in Bridge /\ DOMAIN b.objs = 1 .. Len(b.objs) /\ Len(b.objs) \in Nat
      /\ DOMAIN b.table = 1 .. Len(b.table) /\ Len(b.table) \in Nat
      /\ b.objs \in Seq(DeviceObject)
  BY FieldTypes
<1>2. d.map[u] = o /\ (\A v \in Uid \ {u} : d.map[v] = b.map[v]) /\ d.added = b.added \cup {u}
  BY DEF MappedTo
<1>3. /\ d \in Bridge /\ d.up = b.up /\ d.objs = b.objs /\ d.table = b.table /\ d.on = b.on
      /\ d.late = b.late /\ d.removed = b.removed /\ d.early = b.early
      /\ d.unstarted = b.unstarted /\ d.starts = b.starts /\ d.exited = b.exited
  BY DEF MappedTo
<1>4. /\ c.table \in Seq(DOMAIN b.objs) /\ Len(b.table) <= Len(c.table) /\ Len(c.table) <= MaxDyn
      /\ \A i \in DOMAIN b.table : c.table[i] = b.table[i]
      /\ c.on = b.on \cup new
      /\ c.objs \in Seq(DeviceObject) /\ DOMAIN c.objs = DOMAIN b.objs
      /\ c = [d EXCEPT !.table = c.table, !.on = c.on, !.objs = c.objs]
      /\ \A p \in DOMAIN b.objs : (\A i \in new : c.table[i] # p) => c.objs[p] = b.objs[p]
  BY <1>3 DEF InstalledTo
<1>5. DOMAIN c.table = 1 .. Len(c.table) /\ Len(c.table) \in Nat /\ DOMAIN b.table \subseteq DOMAIN c.table
  BY <1>1, <1>4
<1>6. /\ \A i \in new : c.table[i] = o /\ c.objs[o] = Installed(b.objs[o], i)
      /\ Len(c.table) = MaxDyn \/ \E i \in new : c.table[i] = o
      /\ \A i, j \in new : i = j
  <2>1. DOMAIN <<o>> = {1} /\ <<o>>[1] = o
    OBVIOUS
  <2>2. \A i \in new : c.table[i] = o
    BY <1>3, <2>1 DEF InstalledTo
  <2>3. Len(c.table) = MaxDyn \/ \E i \in new : c.table[i] = o
    BY <1>3, <2>1 DEF InstalledTo
  <2>4. \A i, j \in new : c.table[i] = c.table[j] => i = j
    BY <1>3 DEF InstalledTo
  <2>5. \A i \in new : c.objs[c.table[i]] = Installed(b.objs[c.table[i]], i)
    BY <1>3 DEF InstalledTo
  <2> HIDE DEF new
  <2>6. QED
    BY <2>2, <2>3, <2>4, <2>5
<1>7. /\ c \in Bridge
      /\ c.up = b.up /\ c.map = d.map /\ c.handed = d.handed /\ c.removed = b.removed
      /\ c.early = b.early /\ c.late = b.late /\ c.added = d.added
      /\ c.unstarted = b.unstarted /\ c.starts = b.starts /\ c.exited = b.exited
  <2>1. PICK t : t = c.table
    OBVIOUS
  <2>2. PICK n : n = c.on
    OBVIOUS
  <2>3. PICK q : q = c.objs
    OBVIOUS
  <2>4. t \in Seq(Nat)
    BY <1>1, <1>4, <2>1, InSeq
  <2>5. n \in SUBSET Nat
    <3>1. new \subseteq Nat
      BY <1>5
    <3>2. b.on \subseteq Nat
      BY FieldTypes
    <3>3. QED
      BY <1>4, <2>2, <3>1, <3>2
  <2>6. q \in Seq(DeviceObject)
    BY <1>4, <2>3
  <2>7. c = [d EXCEPT !.table = t, !.on = n, !.objs = q]
    BY <1>4, <2>1, <2>2, <2>3
  <2>8. QED
    BY <1>3, <2>4, <2>5, <2>6, <2>7 DEF Bridge
<1>8. new \subseteq Nat \ {NoEp} /\ b.on \subseteq DOMAIN b.table
      /\ \A i \in DOMAIN b.table : b.table[i] \in DOMAIN b.objs
  BY <1>5 DEF MainInv, MainType, NoEp
<1>9. /\ b.objs[o].ep = NoEp /\ b.objs[o].active /\ b.objs[o].bridgeable /\ b.objs[o].uid = u
  BY DEF NewDevice
<1>10. /\ \A i \in new : c.objs[o].ep = i /\ c.objs[o].reachable /\ c.objs[o].active
       /\ c.objs[o].bridgeable = b.objs[o].bridgeable /\ c.objs[o].active = b.objs[o].active
       /\ c.objs[o].uid = u
       /\ \A p \in DOMAIN b.objs : p # o => c.objs[p] = b.objs[p]
       /\ new = {} => c.objs[o] = b.objs[o]
  <2>1. b.objs[o] \in DeviceObject
    BY <1>1
  <2>2. \A i \in new : LET e == Installed(b.objs[o], i)
                       IN  /\ e.ep = i /\ e.reachable /\ e.active /\ e.bridgeable = b.objs[o].bridgeable
                           /\ e.active = b.objs[o].active /\ e.uid = u
    BY <1>9, <2>1 DEF Installed, DeviceObject
  <2> HIDE DEF new
  <2>3. \A p \in DOMAIN b.objs : p # o => c.objs[p] = b.objs[p]
    BY <1>4, <1>6
  <2>4. new = {} => c.objs[o] = b.objs[o]
    BY <1>4
  <2>5. \A i \in new : c.objs[o].ep = i /\ c.objs[o].reachable /\ c.objs[o].active
    BY <1>6, <2>2
  <2>6. /\ c.objs[o].bridgeable = b.objs[o].bridgeable /\ c.objs[o].active = b.objs[o].active
        /\ c.objs[o].uid = u
    <3>1. CASE new = {}
      BY <1>9, <2>4, <3>1
    <3>2. CASE new # {}
      BY <1>6, <2>2, <3>2
    <3>3. QED
      BY <3>1, <3>2
  <2>7. QED
    BY <2>3, <2>4, <2>5, <2>6
<1>11. \A i \in DOMAIN b.table : b.table[i] # o
  BY <1>1, <1>9 DEF MainInv, EndpointsFit, NoEp
<1> HIDE DEF new
<1>12. DOMAIN c.table = (DOMAIN b.table) \cup new /\ new \cap DOMAIN b.table = {}
  BY <1>5 DEF new
<1>13. \A p \in DOMAIN b.objs : c.objs[p].uid = b.objs[p].uid
  BY <1>9, <1>10
<1>14. MainType(c)
  <2>1. \A v \in Uid : c.map[v] \in 0 .. Len(c.objs)
    <3>1. \A v \in Uid : b.map[v] \in 0 .. Len(b.objs)
      BY DEF MainInv, MainType
    <3>2. Len(c.objs) = Len(b.objs)
      BY <1>1, <1>4
    <3>3. QED
      BY <1>1, <1>2, <1>7, <3>1, <3>2
  <2>2. \A i \in DOMAIN c.table : c.table[i] \in DOMAIN c.objs
    BY <1>4
  <2>3. c.on \subseteq DOMAIN c.table
    BY <1>4, <1>8, <1>12
  <2>4. QED
    BY <1>4, <1>7, <2>1, <2>2, <2>3 DEF MainType
<1>15. MapsFit(c)
  <2>1. \A v \in Uid : c.map[v] # NoObj => c.map[v] \in DOMAIN b.objs
    BY <1>2, <1>7, FieldTypes
  <2>2. \A v \in Uid : c.map[v] # NoObj => b.objs[c.map[v]].uid = v
    BY <1>2, <1>3, <1>7 DEF MapsFit
  <2>3. \A v \in c.handed \cup c.added : c.map[v] # NoObj
    BY <1>2, <1>7 DEF MapsFit
  <2>4. QED
    BY <1>13, <2>1, <2>2, <2>3 DEF MapsFit
<1>16. EndpointsFit(c)
  <2>1. ASSUME NEW i \in DOMAIN c.table
        PROVE  c.objs[c.table[i]].ep = i
    <3>1. CASE i \in new
      BY <1>6, <1>10, <3>1
    <3>2. CASE i \in DOMAIN b.table
      BY <1>4, <1>8, <1>10, <1>11, <3>2 DEF MainInv, EndpointsFit
    <3>3. QED
      BY <1>12, <3>1, <3>2
  <2>2. ASSUME NEW p \in DOMAIN c.objs, c.objs[p].ep # NoEp
        PROVE  c.objs[p].ep \in DOMAIN c.table /\ c.table[c.objs[p].ep] = p
    <3>1. CASE p = o
      <4>1. PICK i : i \in new
        BY <1>9, <1>10, <2>2, <3>1
      <4>2. QED
        BY <1>6, <1>10, <1>12, <3>1, <4>1
    <3>2. CASE p # o
      <4>1. c.objs[p] = b.objs[p] /\ p \in DOMAIN b.objs
        BY <1>4, <1>10, <2>2, <3>2
      <4>2. b.objs[p].ep \in DOMAIN b.table /\ b.table[b.objs[p].ep] = p
        BY <2>2, <4>1 DEF MainInv, EndpointsFit
      <4>3. QED
        BY <1>4, <1>12, <4>1, <4>2
    <3>3. QED
      BY <3>1, <3>2
  <2>3. QED
    BY <1>7, <2>1, <2>2 DEF EndpointsFit
<1>17. DisabledRemoved(c)
  <2> SUFFICES ASSUME NEW p \in DOMAIN c.objs, c.objs[p].ep # NoEp, c.objs[p].ep \notin c.on
               PROVE  c.objs[p].uid \in c.removed
    BY DEF DisabledRemoved
  <2>1. CASE p = o
    <3>1. PICK i : i \in new
      BY <1>9, <1>10, <2>1
    <3>2. QED
      BY <1>4, <1>10, <2>1, <3>1
  <2>2. CASE p # o
    BY <1>4, <1>7, <1>10, <2>2 DEF MainInv, DisabledRemoved
  <2>3. QED
    BY <2>1, <2>2
<1>18. FlagsFit(c)
  <2>1. ASSUME NEW i \in c.on
        PROVE  LET e == c.objs[c.table[i]] IN e.reachable = (e.bridgeable /\ e.active)
    <3>1. CASE i \in new
      BY <1>6, <1>9, <1>10, <3>1
    <3>2. CASE i \in b.on
      <4>1. i \in DOMAIN b.table /\ b.table[i] \in DOMAIN b.objs /\ b.table[i] # o
        BY <1>8, <1>11, <3>2
      <4>2. c.objs[c.table[i]] = b.objs[b.table[i]]
        BY <1>4, <1>10, <4>1
      <4>3. LET e == b.objs[b.table[i]] IN e.reachable = (e.bridgeable /\ e.active)
        BY <3>2 DEF MainInv, FlagsFit
      <4>4. QED
        BY <4>2, <4>3
    <3>3. QED
      BY <1>4, <3>1, <3>2
  <2>2. ASSUME NEW p \in DOMAIN c.objs, ~c.objs[p].active
        PROVE  c.objs[p].uid \in c.removed \cup c.early
    <3>1. p # o
      BY <1>9, <1>10, <2>2
    <3>2. QED
      BY <1>4, <1>7, <1>10, <2>2, <3>1 DEF MainInv, FlagsFit
  <2>3. QED
    BY <2>1, <2>2 DEF FlagsFit
<1>19. MappedEnabled(c)
  <2> SUFFICES ASSUME NEW v \in Uid, c.map[v] # NoObj
               PROVE  \/ v \in c.removed \cup (c.late \ c.added)
                      \/ EnabledIn(c, v)
                      \/ Len(c.table) = MaxDyn
    BY DEF MappedEnabled
  <2>1. CASE v = u
    BY <1>4, <1>6, <1>10, <2>1 DEF EnabledIn
  <2>2. CASE v # u
    <3>1. v \in b.removed \cup (b.late \ b.added) \/ EnabledIn(b, v) \/ Len(b.table) = MaxDyn
      BY <1>2, <1>7, <2>2 DEF MainInv, MappedEnabled
    <3>2. EnabledIn(b, v) => EnabledIn(c, v)
      BY <1>4, <1>8, <1>13 DEF EnabledIn
    <3>3. Len(b.table) = MaxDyn => Len(c.table) = MaxDyn
      BY <1>1, <1>4, <1>5, MainAssumption
    <3>4. QED
      BY <1>2, <1>7, <2>2, <3>1, <3>2, <3>3
  <2>3. QED
    BY <2>1, <2>2
<1>20. MainInv(c)
  BY <1>14, <1>15, <1>16, <1>17, <1>18, <1>19 DEF MainInv
<1>21. c.objs[o].ep \in c.on \/ Len(c.table) = MaxDyn
  BY <1>4, <1>6, <1>10
<1>22. \A i \in c.on : i \in b.on \/ (c.table[i] = o /\ c.objs[o].ep = i)
  BY <1>4, <1>6, <1>10
<1>23. \A p \in DOMAIN b.objs : /\ c.objs[p].bridgeable = b.objs[p].bridgeable
                                /\ c.objs[p].active = b.objs[p].active
  BY <1>10
<1>24. QED
  BY <1>4, <1>7, <1>10, <1>12, <1>13, <1>20, <1>21, <1>22, <1>23 DEF PlacedIn

\* c is b after the new device o was given to bridgeAdditionalDevice.
AddedTo(b, u, o, c) ==
  /\ c \in Bridge /\ c.up = b.up /\ c.exited = b.exited /\ c.unstarted = b.unstarted
  /\ c.removed = b.removed /\ c.early = b.early
  /\ IF b.up THEN c.starts = b.starts ELSE c.starts \in {b.starts, b.starts + 1}
  /\ \A v \in Uid \ {u} : c.map[v] = b.map[v]
  /\ \/ c.map[u] = o /\ (b.map[u] = NoObj \/ b.objs[b.map[u]].ep \notin b.on)
     \/ c.map[u] = b.map[u] /\ b.map[u] # NoObj /\ b.objs[b.map[u]].ep \in b.on
  /\ DOMAIN c.objs = DOMAIN b.objs
  /\ \A p \in DOMAIN b.objs : /\ c.objs[p].uid = b.objs[p].uid
                              /\ c.objs[p].bridgeable = b.objs[p].bridgeable
                              /\ c.objs[p].active = b.objs[p].active
                              /\ p # o => c.objs[p] = b.objs[p]
  /\ DOMAIN b.table \subseteq DOMAIN c.table /\ \A i \in DOMAIN b.table : c.table[i] = b.table[i]
  /\ b.on \subseteq c.on
  /\ \A i \in c.on : i \in b.on \/ (c.table[i] = o /\ c.map[u] = o)
  /\ b.up => \/ c.objs[c.map[u]].ep \in c.on
             \/ u \in b.removed
             \/ Len(c.table) = MaxDyn

LEMMA OneInSeq ==
  ASSUME NEW S, NEW x \in S
  PROVE  <<x>> \in Seq(S)
  OBVIOUS

LEMMA BridgeAdditionalKeeps ==
  ASSUME NEW b, MainInv(b), NEW u \in Uid, NEW o \in DOMAIN b.objs, b.objs[o] = NewDevice(u),
         NEW c, c = BridgeAdditionalDevice(b, o)
  PROVE  MainInv(c) /\ AddedTo(b, u, o, c)
<1> DEFINE prev == IF b.map[u] = NoObj THEN NoEp ELSE b.objs[b.map[u]].ep
           new  == Mapped(b, u, o)
<1>1. b.objs[o].uid = u /\ b.objs[o].ep = NoEp
  BY DEF NewDevice
<1>2. c = IF prev \in b.on THEN b
          ELSE IF prev # NoEp THEN ReEnableDevice(new, o)
          ELSE AddAdditionalDevice(new, o)
  BY <1>1 DEF BridgeAdditionalDevice, Mapped
<1>3. PICK d : d = new
  OBVIOUS
<1>4. /\ MappedTo(b, u, o, d)
      /\ MainType(d) /\ MapsFit(d) /\ EndpointsFit(d) /\ DisabledRemoved(d) /\ FlagsFit(d)
      /\ ~b.up \/ u \in b.removed \/ EnabledIn(b, u) => MainInv(d)
  BY <1>3, MappedGives
<1>5. /\ d \in Bridge /\ d.map[u] = o /\ (\A v \in Uid \ {u} : d.map[v] = b.map[v])
      /\ d.up = b.up /\ d.objs = b.objs /\ d.table = b.table /\ d.on = b.on
      /\ d.removed = b.removed /\ d.early = b.early
      /\ d.unstarted = b.unstarted /\ d.starts = b.starts /\ d.exited = b.exited
  BY <1>4 DEF MappedTo
<1>6. /\ b \in Bridge /\ b.up \in BOOLEAN /\ b.starts \in Nat
      /\ DOMAIN b.objs = 1 .. Len(b.objs) /\ Len(b.objs) \in Nat
      /\ \A v \in Uid : b.map[v] # NoObj => b.map[v] \in DOMAIN b.objs
  BY FieldTypes
<1>7. /\ b.on \subseteq DOMAIN b.table /\ NoEp \notin b.on
      /\ \A i \in DOMAIN b.table : b.table[i] \in DOMAIN b.objs
  <2>1. b.on \subseteq DOMAIN b.table /\ \A i \in DOMAIN b.table : b.table[i] \in DOMAIN b.objs
    BY DEF MainInv, MainType
  <2>2. DOMAIN b.table = 1 .. Len(b.table)
    BY FieldTypes
  <2>3. QED
    BY <2>1, <2>2 DEF NoEp
<1>8. b.map[u] # NoObj => b.objs[b.map[u]].uid = u
  BY DEF MainInv, MapsFit
<1> HIDE DEF new
<1>9. CASE prev \in b.on
  <2>1. c = b
    BY <1>2, <1>9
  <2>2. b.map[u] # NoObj /\ b.objs[b.map[u]].ep \in b.on
    BY <1>7, <1>9
  <2>3. QED
    BY <1>6, <2>1, <2>2 DEF AddedTo
<1>10. CASE prev \notin b.on /\ prev # NoEp
  <2>1. b.map[u] # NoObj /\ b.map[u] \in DOMAIN b.objs /\ b.objs[b.map[u]].ep = prev
    BY <1>6, <1>10
  <2>2. u \in b.removed
    BY <1>8, <1>10, <2>1 DEF MainInv, DisabledRemoved
  <2>3. MainInv(d)
    BY <1>4, <2>2
  <2>4. PICK e : e = [b.objs[o] EXCEPT !.reachable = b.objs[o].active /\ b.objs[o].bridgeable]
    OBVIOUS
  <2>5. /\ e \in DeviceObject /\ e.uid = u /\ e.ep = NoEp
        /\ e.bridgeable = b.objs[o].bridgeable /\ e.active = b.objs[o].active /\ e.active
    <3>1. b.objs[o] \in DeviceObject /\ b.objs[o].active
      BY FieldTypes DEF NewDevice
    <3>2. QED
      BY <1>1, <2>4, <3>1 DEF DeviceObject
  <2>6. c = Changed(d, o, e)
    <3>1. c = [d EXCEPT !.objs[o].reachable = b.objs[o].active /\ b.objs[o].bridgeable]
      BY <1>2, <1>3, <1>5, <1>10 DEF ReEnableDevice
    <3>2. c = [d EXCEPT !.objs = [b.objs EXCEPT ![o] = e]]
      BY <1>5, <2>4, <3>1
    <3>3. QED
      BY <1>5, <3>2 DEF Changed
  <2>7. MainInv(c) /\ ChangedTo(d, o, e, c)
    <3>1. o \in DOMAIN d.objs /\ DeviceFits(d, o, e)
      BY <1>1, <1>5, <1>7, <2>5 DEF DeviceFits
    <3>2. QED
      BY <2>3, <2>6, <3>1, DeviceKeeps
  <2>8. /\ c \in Bridge /\ c.map = d.map /\ c.up = b.up /\ c.table = b.table /\ c.on = b.on
        /\ c.removed = b.removed /\ c.early = b.early
        /\ c.unstarted = b.unstarted /\ c.starts = b.starts /\ c.exited = b.exited
    BY <1>5, <2>7 DEF ChangedTo
  <2>9. /\ DOMAIN c.objs = DOMAIN b.objs
        /\ \A p \in DOMAIN b.objs : /\ c.objs[p].uid = b.objs[p].uid
                                    /\ c.objs[p].bridgeable = b.objs[p].bridgeable
                                    /\ c.objs[p].active = b.objs[p].active
                                    /\ p # o => c.objs[p] = b.objs[p]
    BY <1>1, <1>5, <2>5, <2>7 DEF ChangedTo
  <2>10. QED
    BY <1>5, <1>6, <1>10, <2>1, <2>2, <2>7, <2>8, <2>9 DEF AddedTo
<1>11. CASE prev = NoEp /\ ~b.up
  <2>1. c = [d EXCEPT !.starts = b.starts + 1]
    BY <1>2, <1>3, <1>5, <1>7, <1>11 DEF AddAdditionalDevice, PostponeStart
  <2>2. MainInv(d)
    BY <1>4, <1>11
  <2>3. c = [d EXCEPT !.unstarted = d.unstarted, !.starts = b.starts + 1, !.exited = d.exited]
    BY <1>5, <2>1 DEF Bridge
  <2>4. d.unstarted \in Int /\ d.exited \in BOOLEAN /\ b.starts + 1 \in Nat
    BY <1>6, <2>2, FieldTypes
  <2>5. MainInv(c)
    <3>1. MainInv([d EXCEPT !.unstarted = d.unstarted, !.starts = b.starts + 1, !.exited = d.exited])
      BY <2>2, <2>4, CountingKeeps
    <3>2. QED
      BY <2>3, <3>1
  <2>6. /\ c \in Bridge /\ c.map = d.map /\ c.up = b.up /\ c.table = b.table /\ c.on = b.on
        /\ c.objs = b.objs /\ c.removed = b.removed /\ c.early = b.early
        /\ c.unstarted = b.unstarted /\ c.starts = b.starts + 1 /\ c.exited = b.exited
    <3>1. c \in Bridge
      BY <2>5, FieldTypes
    <3>2. PICK n : n = b.starts + 1
      OBVIOUS
    <3>3. c = [d EXCEPT !.starts = n]
      BY <2>1, <3>2
    <3>4. QED
      BY <1>5, <3>1, <3>2, <3>3 DEF Bridge
  <2>7. b.map[u] = NoObj \/ b.objs[b.map[u]].ep \notin b.on
    BY <1>7, <1>11
  <2>8. QED
    BY <1>5, <1>6, <1>11, <2>5, <2>6, <2>7 DEF AddedTo
<1>12. CASE prev = NoEp /\ b.up
  <2>1. c = Install(d, <<o>>)
    BY <1>2, <1>3, <1>5, <1>7, <1>12 DEF AddAdditionalDevice
  <2>2. /\ <<o>> \in Seq(DOMAIN d.objs)
        /\ \A i, j \in DOMAIN <<o>> : <<o>>[i] = <<o>>[j] => i = j
    <3>1. DOMAIN <<o>> = {1}
      OBVIOUS
    <3>2. o \in DOMAIN d.objs
      BY <1>5
    <3>3. <<o>> \in Seq(DOMAIN d.objs)
      BY <3>2, OneInSeq
    <3>4. QED
      BY <3>1, <3>3
  <2>3. InstalledTo(d, <<o>>, c)
    BY <1>4, <2>1, <2>2, InstallGives
  <2>4. MainInv(c) /\ PlacedIn(b, o, d, c)
    <3>1. b.up /\ MappedTo(b, u, o, d) /\ MapsFit(d)
      BY <1>4, <1>12
    <3>2. QED
      BY <2>3, <3>1, AddedInstalled
  <2>5. b.map[u] = NoObj \/ b.objs[b.map[u]].ep \notin b.on
    BY <1>7, <1>12
  <2>6. c \in Bridge
    BY <2>4, FieldTypes
  <2>7. QED
    BY <1>5, <1>12, <2>4, <2>5, <2>6 DEF AddedTo, PlacedIn
<1>13. QED
  BY <1>6, <1>9, <1>10, <1>11, <1>12

\* c is b with the devices of the maps installed and the stack running.
StartedTo(b, c) ==
  /\ c \in Bridge /\ c.up /\ c.map = b.map
  /\ c.unstarted = b.unstarted /\ c.starts = b.starts /\ c.exited = b.exited
  /\ c.handed = b.handed /\ c.removed = b.removed /\ c.early = b.early /\ c.late = b.late
  /\ c.added = b.added
  /\ DOMAIN c.objs = DOMAIN b.objs
  /\ \A o \in DOMAIN b.objs : /\ c.objs[o].uid = b.objs[o].uid
                              /\ c.objs[o].bridgeable = b.objs[o].bridgeable
                              /\ c.objs[o].active = b.objs[o].active
  /\ \A i \in c.on : \E u \in Uid : c.table[i] = b.map[u] /\ b.map[u] # NoObj
  /\ \/ Len(c.table) = MaxDyn
     \/ \A u \in Uid : b.map[u] # NoObj => c.objs[b.map[u]].ep \in c.on

LEMMA StartedKeeps ==
  ASSUME NEW b, MainInv(b), ~b.up, NEW c, c = [InstallInitial(b) EXCEPT !.up = TRUE]
  PROVE  MainInv(c) /\ StartedTo(b, c)
<1> DEFINE S  == {b.map[u] : u \in Uid} \ {NoObj}
           os == SetToSeq(S)
<1>1. /\ b \in Bridge /\ DOMAIN b.objs = 1 .. Len(b.objs) /\ Len(b.objs) \in Nat
      /\ b.objs \in Seq(DeviceObject) /\ b.table \in Seq(Nat) /\ b.on \in SUBSET Nat
      /\ b.map \in [Uid -> Nat]
      /\ \A u \in Uid : b.map[u] # NoObj => b.map[u] \in DOMAIN b.objs
  BY FieldTypes
<1>2. b.table = <<>> /\ b.on = {} /\ DOMAIN b.table = {}
  <2>1. b.table = <<>>
    BY DEF MainInv, EndpointsFit
  <2>2. b.on \subseteq DOMAIN b.table
    BY DEF MainInv, MainType
  <2>3. DOMAIN b.table = {}
    BY <2>1
  <2>4. QED
    BY <2>1, <2>2, <2>3
<1>3. Lists(os, S)
  <2>1. IsFiniteSet(1 .. Len(b.objs))
    <3>1. PICK l \in Nat : l = Len(b.objs)
      BY <1>1
    <3>2. IsFiniteSet(1 .. l)
      BY FS_Interval
    <3>3. QED
      BY <3>1, <3>2
  <2>2. S \subseteq 1 .. Len(b.objs)
    BY <1>1
  <2>3. IsFiniteSet(S)
    BY <2>1, <2>2, FS_Subset
  <2>4. QED
    BY <2>3, SetToSeqLists
<1>4. PICK q : q = os
  OBVIOUS
<1>5. /\ q \in Seq(DOMAIN b.objs)
      /\ \A i, j \in DOMAIN q : q[i] = q[j] => i = j
      /\ \A x \in S : \E i \in DOMAIN q : q[i] = x
      /\ \A i \in DOMAIN q : q[i] \in S
  <2> HIDE DEF S
  <2>1. q \in Seq(S) /\ (\A x \in S : \E i \in DOMAIN q : q[i] = x)
        /\ \A i, j \in DOMAIN q : q[i] = q[j] => i = j
    BY <1>3, <1>4 DEF Lists
  <2>2. S \subseteq DOMAIN b.objs
    BY <1>1 DEF S
  <2>3. \A i \in DOMAIN q : q[i] \in S
    BY <2>1
  <2>4. \A i \in DOMAIN q : q[i] \in DOMAIN b.objs
    BY <2>2, <2>3
  <2>5. q \in Seq(DOMAIN b.objs)
    BY <2>1, <2>4, InSeq
  <2>6. QED
    BY <2>1, <2>3, <2>5
<1>6. PICK e : e = Install(b, q)
  OBVIOUS
<1>7. InstalledTo(b, q, e)
  <2>1. MainType(b)
    BY DEF MainInv
  <2>2. QED
    BY <1>5, <1>6, <2>1, InstallGives
<1>8. c = [e EXCEPT !.up = TRUE]
  <2>1. [b EXCEPT !.table = <<>>, !.on = {}] = b
    BY <1>1, <1>2 DEF Bridge
  <2>2. InstallInitial(b) = Install(b, q)
    BY <1>4, <2>1 DEF InstallInitial
  <2>3. QED
    BY <1>6, <2>2
<1> HIDE DEF S, os
<1>9. /\ e.table \in Seq(DOMAIN b.objs) /\ Len(e.table) <= MaxDyn
      /\ \A i \in DOMAIN e.table : \E j \in DOMAIN q : e.table[i] = q[j]
      /\ \/ Len(e.table) = MaxDyn
         \/ \A j \in DOMAIN q : \E i \in DOMAIN e.table : e.table[i] = q[j]
      /\ \A i, j \in DOMAIN e.table : e.table[i] = e.table[j] => i = j
      /\ e.on = DOMAIN e.table
      /\ e.objs \in Seq(DeviceObject) /\ DOMAIN e.objs = DOMAIN b.objs
      /\ \A i \in DOMAIN e.table : e.objs[e.table[i]] = Installed(b.objs[e.table[i]], i)
      /\ \A o \in DOMAIN b.objs : (\A i \in DOMAIN e.table : e.table[i] # o) => e.objs[o] = b.objs[o]
      /\ e = [b EXCEPT !.table = e.table, !.on = e.on, !.objs = e.objs]
  BY <1>2, <1>7 DEF InstalledTo
<1>10. DOMAIN e.table = 1 .. Len(e.table) /\ Len(e.table) \in Nat
       /\ \A i \in DOMAIN e.table : e.table[i] \in DOMAIN b.objs
  BY <1>9
<1>11. PICK t, n, ob : t = e.table /\ n = e.on /\ ob = e.objs
  OBVIOUS
<1>12. t \in Seq(Nat) /\ n \in SUBSET Nat /\ ob \in Seq(DeviceObject)
  <2>1. t \in Seq(Nat)
    BY <1>1, <1>9, <1>10, <1>11, InSeq
  <2>2. QED
    BY <1>9, <1>10, <1>11, <2>1
<1>13. c = [b EXCEPT !.table = t, !.on = n, !.objs = ob, !.up = TRUE]
  <2>1. e = [b EXCEPT !.table = t, !.on = n, !.objs = ob]
    BY <1>9, <1>11
  <2>2. QED
    BY <1>1, <1>8, <2>1 DEF Bridge
<1>14. /\ c \in Bridge /\ c.up /\ c.map = b.map /\ c.table = t /\ c.on = n /\ c.objs = ob
       /\ c.unstarted = b.unstarted /\ c.starts = b.starts /\ c.exited = b.exited
       /\ c.handed = b.handed /\ c.removed = b.removed /\ c.early = b.early /\ c.late = b.late
       /\ c.added = b.added
  BY <1>1, <1>12, <1>13 DEF Bridge
<1>15. /\ \A o \in DOMAIN b.objs : b.objs[o].ep = NoEp /\ b.objs[o] \in DeviceObject
  <2>1. \A o \in DOMAIN b.objs : b.objs[o].ep = NoEp
    BY <1>2 DEF MainInv, EndpointsFit
  <2>2. QED
    BY <2>1, FieldTypes
<1>16. \A o \in DOMAIN b.objs, i \in Nat :
         LET d == Installed(b.objs[o], i)
         IN  /\ d.ep = i /\ d.uid = b.objs[o].uid /\ d.bridgeable = b.objs[o].bridgeable
             /\ d.active = b.objs[o].active /\ d.reachable = (d.bridgeable /\ d.active)
  BY <1>15 DEF Installed, DeviceObject
<1>17. \A i \in DOMAIN t : LET d == ob[t[i]] IN d.ep = i /\ d.reachable = (d.bridgeable /\ d.active)
  <2> SUFFICES ASSUME NEW i \in DOMAIN t
               PROVE  ob[t[i]].ep = i /\ ob[t[i]].reachable = (ob[t[i]].bridgeable /\ ob[t[i]].active)
    OBVIOUS
  <2>1. t[i] \in DOMAIN b.objs /\ i \in Nat
    BY <1>10, <1>11
  <2>2. ob[t[i]] = Installed(b.objs[t[i]], i)
    BY <1>9, <1>11
  <2>3. QED
    BY <1>16, <2>1, <2>2
<1>18. \A o \in DOMAIN b.objs : \/ ob[o] = b.objs[o]
                                \/ \E i \in DOMAIN t : t[i] = o /\ ob[o] = Installed(b.objs[o], i)
  BY <1>9, <1>11
<1>19. \A o \in DOMAIN b.objs : /\ ob[o].uid = b.objs[o].uid /\ ob[o].bridgeable = b.objs[o].bridgeable
                                /\ ob[o].active = b.objs[o].active
  <2> SUFFICES ASSUME NEW o \in DOMAIN b.objs
               PROVE  /\ ob[o].uid = b.objs[o].uid /\ ob[o].bridgeable = b.objs[o].bridgeable
                      /\ ob[o].active = b.objs[o].active
    OBVIOUS
  <2>1. CASE ob[o] = b.objs[o]
    BY <2>1
  <2>2. CASE \E i \in DOMAIN t : t[i] = o /\ ob[o] = Installed(b.objs[o], i)
    <3>1. PICK i \in DOMAIN t : ob[o] = Installed(b.objs[o], i)
      BY <2>2
    <3>2. i \in Nat
      BY <1>10, <1>11
    <3>3. QED
      BY <1>16, <3>1, <3>2
  <2>3. QED
    BY <1>18, <2>1, <2>2
<1>20. \A u \in Uid : b.map[u] # NoObj => b.map[u] \in S /\ b.objs[b.map[u]].uid = u
  BY DEF S, MainInv, MapsFit
<1>21. \/ Len(t) = MaxDyn
       \/ \A u \in Uid : b.map[u] # NoObj => \E i \in DOMAIN t : t[i] = b.map[u]
  BY <1>5, <1>9, <1>11, <1>20
<1>22. MainType(c)
  <2>1. \A u \in Uid : b.map[u] \in 0 .. Len(b.objs)
    BY DEF MainInv, MainType
  <2>2. Len(ob) = Len(b.objs) /\ DOMAIN ob = DOMAIN b.objs
    BY <1>1, <1>9, <1>11, <1>12
  <2>3. QED
    BY <1>9, <1>10, <1>11, <1>14, <2>1, <2>2 DEF MainType
<1>23. MapsFit(c)
  BY <1>1, <1>14, <1>19 DEF MainInv, MapsFit
<1>24. EndpointsFit(c)
  <2>1. DOMAIN ob = DOMAIN b.objs
    BY <1>9, <1>11
  <2>2. ASSUME NEW o \in DOMAIN b.objs, ob[o].ep # NoEp
        PROVE  ob[o].ep \in DOMAIN t /\ t[ob[o].ep] = o
    BY <1>15, <1>17, <1>18, <2>2
  <2>3. QED
    BY <1>14, <1>17, <2>1, <2>2 DEF EndpointsFit
<1>25. DisabledRemoved(c)
  <2>1. DOMAIN ob = DOMAIN b.objs
    BY <1>9, <1>11
  <2>2. \A o \in DOMAIN b.objs : ob[o].ep # NoEp => ob[o].ep \in n
    BY <1>9, <1>11, <1>15, <1>17, <1>18
  <2>3. QED
    BY <1>14, <2>1, <2>2 DEF DisabledRemoved
<1>26. FlagsFit(c)
  <2>1. DOMAIN ob = DOMAIN b.objs
    BY <1>9, <1>11
  <2>2. \A o \in DOMAIN ob : ~ob[o].active => ob[o].uid \in b.removed \cup b.early
    BY <1>19, <2>1 DEF MainInv, FlagsFit
  <2>3. n = DOMAIN t
    BY <1>9, <1>11
  <2>4. QED
    BY <1>14, <1>17, <2>2, <2>3 DEF FlagsFit
<1>27. MappedEnabled(c)
  <2> SUFFICES ASSUME NEW u \in Uid, b.map[u] # NoObj, Len(t) # MaxDyn
               PROVE  EnabledIn(c, u)
    BY <1>14 DEF MappedEnabled
  <2>1. PICK i \in DOMAIN t : t[i] = b.map[u]
    BY <1>21
  <2>2. ob[t[i]].uid = u
    BY <1>1, <1>19, <1>20, <2>1
  <2>3. QED
    <3>1. i \in n
      BY <1>9, <1>11, <2>1
    <3>2. QED
      BY <1>14, <2>2, <3>1 DEF EnabledIn
<1>28. \A i \in n : \E u \in Uid : t[i] = b.map[u] /\ b.map[u] # NoObj
  <2>1. \A x \in S : \E u \in Uid : x = b.map[u] /\ b.map[u] # NoObj
    BY DEF S
  <2>2. \A i \in DOMAIN t : t[i] \in S
    BY <1>5, <1>9, <1>11
  <2>3. n = DOMAIN t
    BY <1>9, <1>11
  <2>4. QED
    BY <2>1, <2>2, <2>3
<1>29. Len(t) = MaxDyn \/ \A u \in Uid : b.map[u] # NoObj => ob[b.map[u]].ep \in n
  BY <1>9, <1>11, <1>17, <1>21
<1>30. StartedTo(b, c)
  <2>1. DOMAIN ob = DOMAIN b.objs
    BY <1>9, <1>11
  <2>2. QED
    BY <1>14, <1>19, <1>28, <1>29, <2>1 DEF StartedTo
<1>31. QED
  BY <1>22, <1>23, <1>24, <1>25, <1>26, <1>27, <1>30 DEF MainInv

---------------------------------------------------------------------------
(* What the handlers of the adapters do to the main application.           *)

LEMMA ListKeeps ==
  ASSUME NEW b, MainInv(b), NEW us \in SUBSET Uid,
         NEW d, d = RegisterInitialDevices(b, us), NEW c, c = StartupComplete(d)
  PROVE  /\ MainInv(c) /\ MainInv(d)
         /\ RegisteredTo(b, us, d) /\ SameStack(b, d) /\ CompletedTo(d, c)
<1>1. RegisteredTo(b, us, d)
  <2>1. MainType(b)
    BY DEF MainInv
  <2>2. QED
    BY <2>1, RegisterGives
<1>2. MainInv(d) /\ SameStack(b, d)
  BY <1>1, RegisterKeeps
<1>3. MainInv(c) /\ CompletedTo(d, c)
  BY <1>2, StartupCompleteKeeps
<1>4. QED
  BY <1>1, <1>2, <1>3

LEMMA InfoKeeps ==
  ASSUME NEW b, MainInv(b), NEW u \in Uid,
         NEW d, d = RegisterInitialDevices(b, {u}), NEW c, c = BridgeAdditionalDevice(d, Newest(d))
  PROVE  /\ MainInv(c) /\ MainInv(d)
         /\ RegisteredTo(b, {u}, d) /\ SameStack(b, d)
         /\ Newest(d) \in (DOMAIN d.objs) \ (DOMAIN b.objs) /\ d.objs[Newest(d)] = NewDevice(u)
         /\ AddedTo(d, u, Newest(d), c)
<1>1. RegisteredTo(b, {u}, d)
  <2>1. MainType(b)
    BY DEF MainInv
  <2>2. QED
    BY <2>1, RegisterGives
<1>2. MainInv(d) /\ SameStack(b, d)
  BY <1>1, RegisterKeeps
<1>3. /\ DOMAIN d.objs = 1 .. Len(d.objs) /\ Len(d.objs) \in Nat
      /\ DOMAIN b.objs = 1 .. Len(b.objs) /\ Len(b.objs) \in Nat
  BY <1>2, FieldTypes
<1>4. d.map[u] \in (DOMAIN d.objs) \ (DOMAIN b.objs)
  BY <1>1 DEF RegisteredTo
<1>5. Newest(d) \in (DOMAIN d.objs) \ (DOMAIN b.objs)
  BY <1>3, <1>4 DEF Newest
<1>6. d.objs[Newest(d)] = NewDevice(u)
  BY <1>1, <1>5 DEF RegisteredTo
<1>7. MainInv(c) /\ AddedTo(d, u, Newest(d), c)
  <2>1. Newest(d) \in DOMAIN d.objs
    BY <1>5
  <2>2. QED
    BY <1>2, <1>6, <2>1, BridgeAdditionalKeeps
<1>8. QED
  BY <1>1, <1>2, <1>5, <1>6, <1>7

LEMMA ItemKeeps ==
  ASSUME NEW b, MainInv(b), NEW u \in Uid,
         NEW d, d = NewObject(b, u), NEW c, c = BridgeAdditionalDevice(d, Newest(d))
  PROVE  /\ MainInv(c) /\ MainInv(d)
         /\ CreatedTo(b, u, d) /\ AddedTo(d, u, Newest(d), c)
<1>1. MainInv(d) /\ CreatedTo(b, u, d)
  BY NewObjectKeeps
<1>2. Newest(d) \in DOMAIN d.objs /\ d.objs[Newest(d)] = NewDevice(u)
  BY <1>1 DEF CreatedTo
<1>3. MainInv(c) /\ AddedTo(d, u, Newest(d), c)
  BY <1>1, <1>2, BridgeAdditionalKeeps
<1>4. QED
  BY <1>1, <1>3

\* The device object o after a change of its bridgeability.
Pushed(d, is) == [d EXCEPT !.bridgeable = is, !.reachable = is /\ d.active]

LEMMA PushKeeps ==
  ASSUME NEW b, MainInv(b), NEW o \in DOMAIN b.objs, NEW is \in BOOLEAN,
         NEW c, c = [b EXCEPT !.objs[o].bridgeable = is, !.objs[o].reachable = is /\ b.objs[o].active]
  PROVE  MainInv(c) /\ ChangedTo(b, o, Pushed(b.objs[o], is), c)
<1>1. b \in Bridge /\ b.objs \in Seq(DeviceObject) /\ b.objs[o] \in DeviceObject
  BY FieldTypes
<1>2. PICK e : e = Pushed(b.objs[o], is)
  OBVIOUS
<1>3. /\ e \in DeviceObject /\ e.uid = b.objs[o].uid /\ e.ep = b.objs[o].ep
      /\ e.bridgeable = is /\ e.active = b.objs[o].active /\ e.reachable = (is /\ e.active)
  BY <1>1, <1>2 DEF Pushed, DeviceObject
<1>4. c = Changed(b, o, e)
  <2>1. PICK q : q = [b.objs EXCEPT ![o] = e]
    OBVIOUS
  <2>2. q = [b.objs EXCEPT ![o].bridgeable = is, ![o].reachable = is /\ b.objs[o].active]
    <3>1. e = [[b.objs[o] EXCEPT !.bridgeable = is] EXCEPT !.reachable = is /\ b.objs[o].active]
      BY <1>1, <1>2 DEF Pushed, DeviceObject
    <3>2. [b.objs EXCEPT ![o].bridgeable = is, ![o].reachable = is /\ b.objs[o].active]
            = [b.objs EXCEPT ![o] = [[b.objs[o] EXCEPT !.bridgeable = is] EXCEPT !.reachable = is /\ b.objs[o].active]]
      BY <1>1
    <3>3. QED
      BY <2>1, <3>1, <3>2
  <2>3. c = [b EXCEPT !.objs = q]
    BY <1>1, <2>2 DEF Bridge
  <2>4. QED
    BY <1>1, <2>1, <2>3 DEF Changed, Bridge
<1>5. DeviceFits(b, o, e)
  BY <1>1, <1>3 DEF DeviceFits, MainInv, FlagsFit
<1>6. QED
  BY <1>2, <1>4, <1>5, DeviceKeeps

\* The device object o after its device has vanished.
Gone(d) == [d EXCEPT !.bridgeable = FALSE, !.active = FALSE]

LEMMA VanishKeeps ==
  ASSUME NEW b, MainInv(b), NEW o \in DOMAIN b.objs,
         NEW c, c = RemoveDevice([b EXCEPT !.objs[o].bridgeable = FALSE, !.objs[o].active = FALSE], o)
  PROVE  \E d : MainInv(c) /\ MainInv(d) /\ RemovedTo(b, o, d) /\ ChangedTo(d, o, Gone(b.objs[o]), c)
<1>1. b \in Bridge /\ b.objs \in Seq(DeviceObject) /\ b.objs[o] \in DeviceObject
  BY FieldTypes
<1>2. PICK e : e = Gone(b.objs[o])
  OBVIOUS
<1>3. /\ e \in DeviceObject /\ e.uid = b.objs[o].uid /\ e.ep = b.objs[o].ep
      /\ e.bridgeable = FALSE /\ e.active = FALSE
  BY <1>1, <1>2 DEF Gone, DeviceObject
<1>4. PICK q : q = [b.objs EXCEPT ![o] = e]
  OBVIOUS
<1>5. PICK f : f = [b EXCEPT !.objs = q]
  OBVIOUS
<1>6. f = [b EXCEPT !.objs[o].bridgeable = FALSE, !.objs[o].active = FALSE]
  <2>1. q = [b.objs EXCEPT ![o].bridgeable = FALSE, ![o].active = FALSE]
    <3>1. e = [[b.objs[o] EXCEPT !.bridgeable = FALSE] EXCEPT !.active = FALSE]
      BY <1>1, <1>2 DEF Gone, DeviceObject
    <3>2. [b.objs EXCEPT ![o].bridgeable = FALSE, ![o].active = FALSE]
            = [b.objs EXCEPT ![o] = [[b.objs[o] EXCEPT !.bridgeable = FALSE] EXCEPT !.active = FALSE]]
      BY <1>1
    <3>3. QED
      BY <1>4, <3>1, <3>2
  <2>2. QED
    BY <1>1, <1>5, <2>1 DEF Bridge
<1>7. PICK d : d = RemoveDevice(b, o)
  OBVIOUS
<1>8. MainInv(d) /\ RemovedTo(b, o, d)
  BY <1>7, RemoveKeeps
<1>9. q \in Seq(DeviceObject) /\ q[o] = e
  BY <1>1, <1>3, <1>4
<1>10. /\ f.objs = q /\ f.up = b.up /\ f.on = b.on /\ f.handed = b.handed /\ f.removed = b.removed
       /\ f.early = b.early
  BY <1>1, <1>5 DEF Bridge
<1>11. c = [d EXCEPT !.objs = q]
  <2>1. PICK on, h, r, l : /\ on = b.on \ {b.objs[o].ep} /\ h = b.handed \ {b.objs[o].uid}
                           /\ r = IF b.up THEN b.removed \cup {b.objs[o].uid} ELSE b.removed
                           /\ l = IF b.up THEN b.early ELSE b.early \cup {b.objs[o].uid}
    OBVIOUS
  <2>2. d = [b EXCEPT !.on = on, !.handed = h, !.removed = r, !.early = l]
    BY <1>7, <2>1 DEF RemoveDevice
  <2>3. c = [f EXCEPT !.on = on, !.handed = h, !.removed = r, !.early = l]
    <3>1. c = RemoveDevice(f, o)
      BY <1>6
    <3>2. f.objs[o].ep = b.objs[o].ep /\ f.objs[o].uid = b.objs[o].uid
      BY <1>3, <1>9, <1>10
    <3>3. QED
      BY <1>10, <2>1, <3>1, <3>2 DEF RemoveDevice
  <2>4. QED
    BY <1>1, <1>5, <2>2, <2>3 DEF Bridge
<1>12. o \in DOMAIN d.objs /\ d.objs = b.objs
  BY <1>8 DEF RemovedTo
<1>13. c = Changed(d, o, e)
  BY <1>4, <1>11, <1>12, <1>8 DEF Changed, RemovedTo, Bridge
<1>14. DeviceFits(d, o, e)
  BY <1>3, <1>8, <1>12 DEF DeviceFits, RemovedTo
<1>15. MainInv(c) /\ ChangedTo(d, o, e, c)
  BY <1>8, <1>12, <1>13, <1>14, DeviceKeeps
<1>16. QED
  BY <1>2, <1>8, <1>15

\* When the main loop gets to the start.
ChippedTo(b, c) ==
  /\ c.starts = b.starts - 1 /\ c.unstarted = b.unstarted /\ c.up /\ c.map = b.map
  /\ c.removed = b.removed /\ c.early = b.early
  /\ DOMAIN c.objs = DOMAIN b.objs
  /\ \A o \in DOMAIN b.objs : /\ c.objs[o].uid = b.objs[o].uid
                              /\ c.objs[o].bridgeable = b.objs[o].bridgeable
                              /\ c.objs[o].active = b.objs[o].active
  /\ b.up => c.exited /\ c.table = b.table /\ c.on = b.on
  /\ ~b.up => /\ c.exited = b.exited
              /\ \A i \in c.on : \E u \in Uid : c.table[i] = b.map[u] /\ b.map[u] # NoObj
              /\ \/ Len(c.table) = MaxDyn
                 \/ \A u \in Uid : b.map[u] # NoObj => c.objs[b.map[u]].ep \in c.on

LEMMA ChipKeeps ==
  ASSUME NEW b, MainInv(b), b.starts > 0, NEW c, c = [StartedChip(b) EXCEPT !.starts = @ - 1]
  PROVE  MainInv(c) /\ ChippedTo(b, c)
<1>1. /\ b \in Bridge /\ b.starts \in Nat /\ b.starts - 1 \in Nat /\ b.unstarted \in Int
      /\ b.up \in BOOLEAN /\ b.exited \in BOOLEAN
  BY FieldTypes
<1>2. CASE b.up
  <2>1. PICK n \in Nat : n = b.starts - 1
    BY <1>1
  <2>2. c = [b EXCEPT !.exited = TRUE, !.starts = n]
    BY <1>1, <1>2, <2>1 DEF StartedChip, Bridge
  <2>3. c = [b EXCEPT !.unstarted = b.unstarted, !.starts = n, !.exited = TRUE]
    BY <1>1, <2>2 DEF Bridge
  <2>4. MainInv([b EXCEPT !.unstarted = b.unstarted, !.starts = n, !.exited = TRUE])
    BY <1>1, CountingKeeps
  <2>5. /\ c.starts = n /\ c.unstarted = b.unstarted /\ c.up = b.up /\ c.map = b.map /\ c.exited
        /\ c.removed = b.removed /\ c.early = b.early /\ c.objs = b.objs /\ c.table = b.table /\ c.on = b.on
    BY <1>1, <2>2 DEF Bridge
  <2>6. ChippedTo(b, c)
    BY <1>2, <2>1, <2>5 DEF ChippedTo
  <2>7. QED
    BY <2>3, <2>4, <2>6
<1>3. CASE ~b.up
  <2>1. PICK d : d = [InstallInitial(b) EXCEPT !.up = TRUE]
    OBVIOUS
  <2>2. MainInv(d) /\ StartedTo(b, d)
    BY <1>3, <2>1, StartedKeeps
  <2>3. d \in Bridge /\ d.starts = b.starts /\ d.unstarted = b.unstarted /\ d.exited = b.exited
    BY <2>2 DEF StartedTo
  <2>4. PICK n \in Nat : n = b.starts - 1
    BY <1>1
  <2>5. c = [d EXCEPT !.starts = n]
    BY <1>3, <2>1, <2>3, <2>4 DEF StartedChip
  <2>6. c = [d EXCEPT !.unstarted = d.unstarted, !.starts = n, !.exited = d.exited]
    BY <2>3, <2>5 DEF Bridge
  <2>7. MainInv([d EXCEPT !.unstarted = d.unstarted, !.starts = n, !.exited = d.exited])
    <3>1. d.unstarted \in Int /\ d.exited \in BOOLEAN
      BY <1>1, <2>3
    <3>2. QED
      BY <2>2, <3>1, CountingKeeps
  <2>8. /\ c.starts = n /\ c.unstarted = d.unstarted /\ c.up = d.up /\ c.map = d.map /\ c.exited = d.exited
        /\ c.removed = d.removed /\ c.early = d.early /\ c.objs = d.objs /\ c.table = d.table /\ c.on = d.on
    BY <2>3, <2>5 DEF Bridge
  <2>9. ChippedTo(b, c)
    <3>1. /\ d.up /\ d.map = b.map /\ d.removed = b.removed /\ d.early = b.early
          /\ DOMAIN d.objs = DOMAIN b.objs
      BY <2>2 DEF StartedTo
    <3>2. \A o \in DOMAIN b.objs : /\ d.objs[o].uid = b.objs[o].uid
                                  /\ d.objs[o].bridgeable = b.objs[o].bridgeable
                                  /\ d.objs[o].active = b.objs[o].active
      BY <2>2 DEF StartedTo
    <3>3. /\ \A i \in d.on : \E u \in Uid : d.table[i] = b.map[u] /\ b.map[u] # NoObj
          /\ \/ Len(d.table) = MaxDyn
             \/ \A u \in Uid : b.map[u] # NoObj => d.objs[b.map[u]].ep \in d.on
      BY <2>2 DEF StartedTo
    <3>4. c.starts = b.starts - 1 /\ c.unstarted = b.unstarted /\ c.exited = b.exited
      BY <2>3, <2>4, <2>8
    <3>5. c.up /\ c.map = b.map /\ c.removed = b.removed /\ c.early = b.early
      BY <2>8, <3>1
    <3>6. DOMAIN c.objs = DOMAIN b.objs
      BY <2>8, <3>1
    <3>7. \A o \in DOMAIN b.objs : /\ c.objs[o].uid = b.objs[o].uid
                                  /\ c.objs[o].bridgeable = b.objs[o].bridgeable
                                  /\ c.objs[o].active = b.objs[o].active
      BY <2>8, <3>2
    <3>8. /\ \A i \in c.on : \E u \in Uid : c.table[i] = b.map[u] /\ b.map[u] # NoObj
          /\ \/ Len(c.table) = MaxDyn
             \/ \A u \in Uid : b.map[u] # NoObj => c.objs[b.map[u]].ep \in c.on
      BY <2>8, <3>3
    <3>9. QED
      BY <1>3, <3>4, <3>5, <3>6, <3>7, <3>8 DEF ChippedTo
  <2>10. QED
    BY <2>6, <2>7, <2>9
<1>4. QED
  BY <1>2, <1>3

---------------------------------------------------------------------------
(* Every step keeps the invariant of the main application.                 *)

Grows(b, c) ==
  b.up => /\ c.up
          /\ \A i \in DOMAIN b.table : i \in DOMAIN c.table /\ c.table[i] = b.table[i]

LEMMA RegisteredGrows ==
  ASSUME NEW b, NEW d, SameStack(b, d), NEW c, CompletedTo(d, c)
  PROVE  Grows(b, c)
  BY DEF SameStack, CompletedTo, Grows

LEMMA AddedGrows ==
  ASSUME NEW d, NEW u, NEW o, NEW c, AddedTo(d, u, o, c)
  PROVE  Grows(d, c)
<1>1. /\ c.up = d.up /\ DOMAIN d.table \subseteq DOMAIN c.table
      /\ \A i \in DOMAIN d.table : c.table[i] = d.table[i]
  BY DEF AddedTo
<1>2. QED
  BY <1>1 DEF Grows

LEMMA MainOfStartChip ==
  ASSUME MainInv(bridge), StartChip
  PROVE  MainInv(bridge') /\ Grows(bridge, bridge')
<1>1. bridge.starts > 0 /\ bridge' = [StartedChip(bridge) EXCEPT !.starts = @ - 1]
  BY DEF StartChip
<1>2. MainInv(bridge') /\ ChippedTo(bridge, bridge')
  BY <1>1, ChipKeeps
<1>3. QED
  BY <1>2 DEF ChippedTo, Grows

LEMMA MainOfP44 ==
  ASSUME MainInv(bridge), P44Next
  PROVE  MainInv(bridge') /\ Grows(bridge, bridge')
<1>1. CASE UNCHANGED bridge
  BY <1>1 DEF Grows
<1>2. CASE bridge' = StartupComplete(bridge)
  <2>1. MainInv(bridge') /\ CompletedTo(bridge, bridge')
    BY <1>2, StartupCompleteKeeps
  <2>2. QED
    BY <2>1 DEF CompletedTo, Grows
<1>3. ASSUME NEW us \in SUBSET P44Uid, bridge' = StartupComplete(BridgedDevicesFromJSON(bridge, us))
      PROVE  MainInv(bridge') /\ Grows(bridge, bridge')
  <2>1. PICK d : d = RegisterInitialDevices(bridge, us)
    OBVIOUS
  <2>2. bridge' = StartupComplete(d) /\ us \in SUBSET Uid
    BY <1>3, <2>1, P44Assumption DEF BridgedDevicesFromJSON
  <2>3. MainInv(bridge') /\ SameStack(bridge, d) /\ CompletedTo(d, bridge')
    BY <2>1, <2>2, ListKeeps
  <2>4. QED
    BY <2>3, RegisteredGrows
<1>4. ASSUME NEW u \in P44Uid,
             bridge' = LET b == BridgedDevicesFromJSON(bridge, {u}) IN BridgeAdditionalDevice(b, Newest(b))
      PROVE  MainInv(bridge') /\ Grows(bridge, bridge')
  <2>1. PICK d : d = RegisterInitialDevices(bridge, {u})
    OBVIOUS
  <2>2. bridge' = BridgeAdditionalDevice(d, Newest(d)) /\ u \in Uid
    BY <1>4, <2>1, P44Assumption DEF BridgedDevicesFromJSON
  <2>3. MainInv(bridge') /\ SameStack(bridge, d) /\ AddedTo(d, u, Newest(d), bridge')
    BY <2>1, <2>2, InfoKeeps
  <2>4. Grows(d, bridge')
    BY <2>3, AddedGrows
  <2>5. QED
    BY <2>3, <2>4 DEF SameStack, Grows
<1>5. ASSUME NEW u \in P44Uid, NEW is \in BOOLEAN, NEW o, o = bridge.map[u], o # NoObj,
             bridge' = [bridge EXCEPT !.objs[o].bridgeable = is,
                                      !.objs[o].reachable = is /\ bridge.objs[o].active]
      PROVE  MainInv(bridge') /\ Grows(bridge, bridge')
  <2>1. o \in DOMAIN bridge.objs
    BY <1>5, P44Assumption, FieldTypes
  <2>2. MainInv(bridge') /\ ChangedTo(bridge, o, Pushed(bridge.objs[o], is), bridge')
    BY <1>5, <2>1, PushKeeps
  <2>3. QED
    BY <2>2 DEF ChangedTo, Grows
<1>6. ASSUME NEW u \in P44Uid, NEW o, o = bridge.map[u], o # NoObj,
             bridge' = RemoveDevice([bridge EXCEPT !.objs[o].bridgeable = FALSE, !.objs[o].active = FALSE], o)
      PROVE  MainInv(bridge') /\ Grows(bridge, bridge')
  <2>1. o \in DOMAIN bridge.objs
    BY <1>6, P44Assumption, FieldTypes
  <2>2. PICK d : /\ MainInv(bridge') /\ RemovedTo(bridge, o, d)
                 /\ ChangedTo(d, o, Gone(bridge.objs[o]), bridge')
    BY <1>6, <2>1, VanishKeeps
  <2>3. QED
    BY <2>2 DEF RemovedTo, ChangedTo, Grows
<1>7. CASE P44Receive
  <2>1. CASE \E us \in SUBSET P44Uid : P44CollectQuery(us)
    BY <1>3, <2>1 DEF P44CollectQuery
  <2>2. CASE \E us \in SUBSET P44Uid : P44ReconnectQuery(us)
    BY <1>1, <2>2 DEF P44ReconnectQuery
  <2>3. CASE \E u \in P44Uid, is \in BOOLEAN : P44DeviceInfo(u, is)
    BY <1>1, <1>4, <2>3 DEF P44DeviceInfo
  <2>4. CASE \E u \in P44Uid, is \in BOOLEAN : P44Push(u, is)
    BY <1>1, <1>5, <2>4 DEF P44Push
  <2>5. CASE \E u \in P44Uid : P44Vanish(u)
    BY <1>1, <1>6, <2>5 DEF P44Vanish
  <2>6. QED
    BY <1>7, <2>1, <2>2, <2>3, <2>4, <2>5 DEF P44Receive
<1>8. QED
  <2>1. P44ConnectFails => UNCHANGED bridge \/ bridge' = StartupComplete(bridge)
    BY DEF P44ConnectFails
  <2>2. P44Connect \/ VdcAnswer \/ P44Lost \/ (\E u \in P44Uid : VdcChange(u) \/ VdcVanish(u)) => UNCHANGED bridge
    BY DEF P44Connect, VdcAnswer, P44Lost, VdcChange, VdcVanish
  <2>3. QED
    BY <1>1, <1>2, <1>7, <2>1, <2>2 DEF P44Next, P44System

LEMMA MainOfCC ==
  ASSUME MainInv(bridge), CCNext
  PROVE  MainInv(bridge') /\ Grows(bridge, bridge')
<1>1. CASE UNCHANGED bridge
  BY <1>1 DEF Grows
<1>2. CASE bridge' = StartupComplete(bridge)
  <2>1. MainInv(bridge') /\ CompletedTo(bridge, bridge')
    BY <1>2, StartupCompleteKeeps
  <2>2. QED
    BY <2>1 DEF CompletedTo, Grows
<1>3. ASSUME NEW us \in SUBSET CCUid, bridge' = StartupComplete(RegisterInitialDevices(bridge, us))
      PROVE  MainInv(bridge') /\ Grows(bridge, bridge')
  <2>1. PICK d : d = RegisterInitialDevices(bridge, us)
    OBVIOUS
  <2>2. bridge' = StartupComplete(d) /\ us \in SUBSET Uid
    BY <1>3, <2>1, CCAssumption
  <2>3. MainInv(bridge') /\ SameStack(bridge, d) /\ CompletedTo(d, bridge')
    BY <2>1, <2>2, ListKeeps
  <2>4. QED
    BY <2>3, RegisteredGrows
<1>4. ASSUME NEW u \in CCUid,
             bridge' = LET b == NewObject(bridge, u) IN BridgeAdditionalDevice(b, Newest(b))
      PROVE  MainInv(bridge') /\ Grows(bridge, bridge')
  <2>1. PICK d : d = NewObject(bridge, u)
    OBVIOUS
  <2>2. bridge' = BridgeAdditionalDevice(d, Newest(d)) /\ u \in Uid
    BY <1>4, <2>1, CCAssumption
  <2>3. MainInv(bridge') /\ CreatedTo(bridge, u, d) /\ AddedTo(d, u, Newest(d), bridge')
    BY <2>1, <2>2, ItemKeeps
  <2>4. Grows(d, bridge')
    BY <2>3, AddedGrows
  <2>5. QED
    BY <2>3, <2>4 DEF CreatedTo, Grows
<1>5. ASSUME NEW u \in CCUid, bridge.map[u] # NoObj, bridge' = RemoveDevice(bridge, bridge.map[u])
      PROVE  MainInv(bridge') /\ Grows(bridge, bridge')
  <2>1. PICK o \in DOMAIN bridge.objs : o = bridge.map[u]
    BY <1>5, CCAssumption, FieldTypes
  <2>2. MainInv(bridge') /\ RemovedTo(bridge, o, bridge')
    BY <1>5, <2>1, RemoveKeeps
  <2>3. QED
    BY <2>2 DEF RemovedTo, Grows
<1>6. CASE CCReceive
  <2>1. CASE \E what \in {"register", "subscribe"}, ok \in BOOLEAN : CCSetupAnswer(what, ok)
    BY <1>1, <1>2, <2>1 DEF CCSetupAnswer
  <2>2. CASE \E us \in SUBSET CCUid : CCDeviceList(us)
    BY <1>3, <2>2 DEF CCDeviceList
  <2>3. CASE \E u \in CCUid : CCCreated(u)
    BY <1>1, <2>3 DEF CCCreated
  <2>4. CASE \E u \in CCUid : CCDeleted(u)
    BY <1>1, <1>5, <2>4 DEF CCDeleted
  <2>5. CASE \E u \in CCUid, ok \in BOOLEAN : CCItemInfo(u, ok)
    BY <1>1, <1>4, <2>5 DEF CCItemInfo
  <2>6. QED
    BY <1>6, <2>1, <2>2, <2>3, <2>4, <2>5 DEF CCReceive
<1>7. QED
  <2>1. CCConnect \/ CCAnswer \/ CCLost \/ CCAnswerError
          \/ (\E u \in CCUid : ItemCreated(u) \/ ItemDeleted(u)) => UNCHANGED bridge
    BY DEF CCConnect, CCAnswer, CCLost, CCAnswerError, ItemCreated, ItemDeleted, Vitals
  <2>2. QED
    BY <1>1, <1>6, <2>1 DEF CCNext, CCSystem

\* Nothing changes the main application but StartChip and the handlers of the adapters.
LEMMA MainStep ==
  ASSUME MainInv(bridge), [Next]_vars
  PROVE  MainInv(bridge') /\ Grows(bridge, bridge')
<1>1. CASE UNCHANGED vars
  BY <1>1 DEF vars, Grows
<1>2. QED
  BY <1>1, MainOfStartChip, MainOfP44, MainOfCC DEF Next

LEMMA MainInit ==
  ASSUME Init
  PROVE  MainInv(bridge)
<1>1. /\ bridge.objs = <<>> /\ bridge.table = <<>> /\ bridge.on = {} /\ ~bridge.up
      /\ bridge.map = [u \in Uid |-> NoObj] /\ bridge.handed = {} /\ bridge.added = {}
  BY DEF Init, InitBridge
<1>2. bridge \in Bridge
  <2>1. Cardinality(Adapters) \in Int
    <3>1. IsFiniteSet({"P44", "CC"})
      <4>1. IsFiniteSet({"P44"}) /\ IsFiniteSet({"CC"})
        BY FS_Singleton
      <4>2. {"P44", "CC"} = {"P44"} \cup {"CC"}
        OBVIOUS
      <4>3. QED
        BY <4>1, <4>2, FS_Union
    <3>2. IsFiniteSet(Adapters)
      BY <3>1, AdaptersAssumption, FS_Subset
    <3>3. QED
      BY <3>2, FS_CardinalityType
  <2>2. PICK n \in Int : n = Cardinality(Adapters)
    BY <2>1
  <2>3. bridge = [unstarted |-> n, starts |-> 0, up |-> FALSE, exited |-> FALSE,
          objs |-> <<>>, map |-> [u \in Uid |-> NoObj], table |-> <<>>, on |-> {},
          handed |-> {}, removed |-> {}, early |-> {}, late |-> {}, added |-> {}]
    BY <2>2 DEF Init, InitBridge
  <2>4. PICK m \in [Uid -> Nat] : m = [u \in Uid |-> NoObj]
    BY DEF NoObj
  <2>5. PICK t, q : t = <<>> /\ q = <<>> /\ t \in Seq(Nat) /\ q \in Seq(DeviceObject)
    <3>1. \A S : <<>> \in Seq(S)
      OBVIOUS
    <3>2. QED
      BY <3>1, Zenon
  <2>6. PICK e \in SUBSET Nat, s \in SUBSET Uid : e = {} /\ s = {}
    OBVIOUS
  <2>7. bridge = [unstarted |-> n, starts |-> 0, up |-> FALSE, exited |-> FALSE,
          objs |-> q, map |-> m, table |-> t, on |-> e,
          handed |-> s, removed |-> s, early |-> s, late |-> s, added |-> s]
    BY <2>3, <2>4, <2>5, <2>6
  <2>8. t \in Seq(Nat) /\ q \in Seq(DeviceObject)
    BY <2>5
  <2>9. QED
    BY <2>7, <2>8 DEF Bridge
<1>3. MainType(bridge)
  BY <1>1, <1>2, MainAssumption DEF MainType, NoObj
<1>4. MapsFit(bridge)
  BY <1>1, <1>2 DEF MapsFit
<1>5. EndpointsFit(bridge) /\ DisabledRemoved(bridge) /\ FlagsFit(bridge) /\ MappedEnabled(bridge)
  BY <1>1 DEF EndpointsFit, DisabledRemoved, FlagsFit, MappedEnabled
<1>6. QED
  BY <1>3, <1>4, <1>5 DEF MainInv

\* The invariant of the main application: who is in a map, what has an endpoint,
\* what the stack is told of it.
THEOREM MainAlways == Spec => []MainInv(bridge)
<1>1. Init => MainInv(bridge)
  BY MainInit
<1>2. MainInv(bridge) /\ [Next]_vars => MainInv(bridge)'
  BY MainStep
<1>3. QED
  BY <1>1, <1>2, PTL DEF Spec

\* A device given to the bridge has an enabled endpoint as soon as the stack runs,
\* unless it was removed or missed, or there is no room (HandedIsEnabled).
THEOREM HandedAlwaysEnabled == Spec => []HandedIsEnabled
<1>1. MainInv(bridge) => HandedIsEnabled
  <2> SUFFICES ASSUME MainInv(bridge), Settled,
                      NEW u \in bridge.handed \ (bridge.removed \cup bridge.early \cup Missed)
               PROVE  IsEnabled(u) \/ ~HasRoom
    BY DEF HandedIsEnabled
  <2>1. u \in Uid /\ bridge.map[u] # NoObj
    BY FieldTypes DEF MainInv, MapsFit
  <2>2. EnabledIn(bridge, u) \/ Len(bridge.table) = MaxDyn
    BY <2>1 DEF MainInv, MappedEnabled, Settled, Missed
  <2>3. CASE EnabledIn(bridge, u)
    BY <2>3 DEF EnabledIn, MainInv, MainType, IsEnabled, EndpointsOf
  <2>4. CASE Len(bridge.table) = MaxDyn
    BY <2>4, MainAssumption DEF HasRoom
  <2>5. QED
    BY <2>2, <2>3, <2>4
<1>2. QED
  BY <1>1, MainAlways, PTL

\* Once the stack runs, no endpoint is ever given to another device (TableOnlyGrows).
THEOREM TableAlwaysGrows == Spec => TableOnlyGrows
<1>1. MainInv(bridge) /\ [Next]_vars =>
        [bridge.up => \A i \in DOMAIN bridge.table :
           i \in DOMAIN bridge'.table /\ bridge'.table[i] = bridge.table[i]]_vars
  BY MainStep DEF Grows
<1>2. QED
  BY <1>1, MainAlways, PTL DEF Spec, TableOnlyGrows

---------------------------------------------------------------------------
(* Types.                                                                  *)

LEMMA AppendIn ==
  ASSUME NEW S, NEW s \in Seq(S), NEW x \in S
  PROVE  Append(s, x) \in Seq(S)
  OBVIOUS

LEMMA TailIn ==
  ASSUME NEW S, NEW s \in Seq(S), s # <<>>
  PROVE  Tail(s) \in Seq(S) /\ Head(s) \in S
  OBVIOUS

LEMMA EmptyIn ==
  ASSUME NEW S
  PROVE  <<>> \in Seq(S)
  OBVIOUS

LEMMA P44Types ==
  ASSUME P44TypeOK, P44Next
  PROVE  P44TypeOK'
<1>1. /\ p44Connected \in BOOLEAN /\ p44Once \in BOOLEAN
      /\ toVdc \in Seq(Call) /\ fromVdc \in Seq(Message)
      /\ bridgeables \in SUBSET P44Uid
      /\ p44Changes \in 0 .. MaxP44Changes /\ p44Losses \in 0 .. MaxP44Losses
      /\ MaxP44Changes \in Nat /\ MaxP44Losses \in Nat
  BY P44Assumption DEF P44TypeOK
<1>2. \A u \in P44Uid : [call |-> "info", uid |-> u] \in Call
  BY DEF Call
<1>3. <<>> \in Seq(Call) /\ <<>> \in Seq(Message)
  BY EmptyIn, Zenon
<1>4. CASE P44Connect
  <2>1. \A c \in {"initial", "reconnect"} : [call |-> c] \in Call
    BY DEF Call
  <2>2. [call |-> IF p44Once THEN "reconnect" ELSE "initial"] \in Call
    BY <2>1
  <2>3. toVdc' \in Seq(Call)
    BY <1>4, <2>2, OneInSeq DEF P44Connect
  <2>4. QED
    BY <1>1, <1>4, <2>3 DEF P44Connect, P44TypeOK
<1>5. CASE P44ConnectFails
  BY <1>1, <1>5 DEF P44ConnectFails, P44TypeOK
<1>6. CASE P44Lost
  <2>1. toVdc' \in Seq(Call) /\ fromVdc' \in Seq(Message)
    BY <1>3, <1>6 DEF P44Lost
  <2>2. /\ p44Connected' \in BOOLEAN /\ p44Once' \in BOOLEAN /\ bridgeables' \in SUBSET P44Uid
        /\ p44Changes' \in 0 .. MaxP44Changes /\ p44Losses' \in 0 .. MaxP44Losses
    <3>1. /\ p44Connected' = FALSE /\ p44Once' = p44Once /\ bridgeables' = bridgeables
          /\ p44Changes' = p44Changes /\ p44Losses' = p44Losses + 1 /\ p44Losses < MaxP44Losses
      BY <1>6 DEF P44Lost
    <3>2. p44Losses' \in 0 .. MaxP44Losses
      BY <1>1, <3>1
    <3>3. p44Connected' \in BOOLEAN /\ p44Once' \in BOOLEAN
      BY <1>1, <3>1, Zenon
    <3>4. QED
      BY <1>1, <3>1, <3>2, <3>3, Zenon
  <2>3. QED
    BY <2>1, <2>2 DEF P44TypeOK
<1>7. CASE VdcAnswer
  <2>1. PICK c \in Call : c = Head(toVdc)
    BY <1>1, <1>7, TailIn DEF VdcAnswer
  <2>2. PICK m : m = IF c.call = "info"
                       THEN [msg |-> "info", uid |-> c.uid, bridgeable |-> c.uid \in bridgeables]
                       ELSE [msg |-> c.call, uids |-> bridgeables]
    OBVIOUS
  <2>3. m \in Message
    <3>1. CASE c.call = "info"
      <4>1. c.uid \in P44Uid
        BY <3>1 DEF Call
      <4>2. \A is \in BOOLEAN : [msg |-> "info", uid |-> c.uid, bridgeable |-> is] \in Message
        BY <4>1 DEF Message
      <4>3. (c.uid \in bridgeables) \in BOOLEAN
        OBVIOUS
      <4>4. QED
        BY <2>2, <3>1, <4>2, <4>3
    <3>2. CASE c.call # "info"
      <4>1. c.call \in {"initial", "reconnect"}
        BY <3>2 DEF Call
      <4>2. QED
        BY <1>1, <2>2, <3>2, <4>1 DEF Message
    <3>3. QED
      BY <3>1, <3>2
  <2>4. fromVdc' = Append(fromVdc, m) /\ toVdc' = Tail(toVdc) /\ toVdc # <<>>
    BY <1>7, <2>1, <2>2 DEF VdcAnswer
  <2>5. fromVdc' \in Seq(Message) /\ toVdc' \in Seq(Call)
    BY <1>1, <2>3, <2>4, AppendIn, TailIn
  <2>6. QED
    BY <1>1, <1>7, <2>5 DEF VdcAnswer, P44TypeOK
<1>8. ASSUME NEW m \in Message, Notify(m)
      PROVE  fromVdc' \in Seq(Message)
  BY <1>1, <1>8, AppendIn DEF Notify
<1>9. CASE \E u \in P44Uid : VdcChange(u) \/ VdcVanish(u)
  <2>1. PICK u \in P44Uid : VdcChange(u) \/ VdcVanish(u)
    BY <1>9
  <2>2. \A is \in BOOLEAN : [msg |-> "push", uid |-> u, bridgeable |-> is] \in Message
    BY DEF Message
  <2>3. [msg |-> "vanish", uid |-> u] \in Message
    BY DEF Message
  <2>4. (u \notin bridgeables) \in BOOLEAN
    OBVIOUS
  <2>5. fromVdc' \in Seq(Message)
    <3>1. CASE VdcChange(u)
      BY <1>8, <2>2, <2>4, <3>1 DEF VdcChange
    <3>2. CASE VdcVanish(u)
      BY <1>8, <2>3, <3>2 DEF VdcVanish
    <3>3. QED
      BY <2>1, <3>1, <3>2
  <2>6. QED
    BY <1>1, <2>1, <2>5 DEF VdcChange, VdcVanish, P44TypeOK
<1>10. ASSUME NEW m, Received(m), toVdc' \in Seq(Call)
       PROVE  P44TypeOK'
  <2>1. fromVdc' \in Seq(Message)
    BY <1>1, <1>10, TailIn DEF Received
  <2>2. QED
    BY <1>1, <1>10, <2>1 DEF Received, P44TypeOK
<1>11. CASE P44Receive
  <2>1. ASSUME NEW us \in SUBSET P44Uid, P44CollectQuery(us)
        PROVE  P44TypeOK'
    BY <1>1, <1>10, <2>1 DEF P44CollectQuery
  <2>2. ASSUME NEW us \in SUBSET P44Uid, P44ReconnectQuery(us)
        PROVE  P44TypeOK'
    <3>1. PICK q : q = SetToSeq({u \in us : bridge.map[u] = NoObj})
      OBVIOUS
    <3>2. \A i \in DOMAIN q : q[i] \in P44Uid
      <4>1. IsFiniteSet({u \in us : bridge.map[u] = NoObj})
        BY MainAssumption, P44Assumption, FS_Subset
      <4>2. Lists(q, {u \in us : bridge.map[u] = NoObj})
        BY <3>1, <4>1, SetToSeqLists
      <4>3. q \in Seq({u \in us : bridge.map[u] = NoObj})
        BY <4>2 DEF Lists
      <4>4. QED
        BY <4>3
    <3>3. DOMAIN q = 1 .. Len(q) /\ Len(q) \in Nat
      <4>1. IsFiniteSet({u \in us : bridge.map[u] = NoObj})
        BY MainAssumption, P44Assumption, FS_Subset
      <4>2. Lists(q, {u \in us : bridge.map[u] = NoObj})
        BY <3>1, <4>1, SetToSeqLists
      <4>3. q \in Seq({u \in us : bridge.map[u] = NoObj})
        BY <4>2 DEF Lists
      <4>4. QED
        BY <4>3
    <3>4. [i \in DOMAIN q |-> [call |-> "info", uid |-> q[i]]] \in Seq(Call)
      BY <1>2, <3>2, <3>3
    <3>5. toVdc' \in Seq(Call)
      BY <1>1, <2>2, <3>1, <3>4, ConcatProperties DEF P44ReconnectQuery
    <3>6. QED
      BY <1>10, <2>2, <3>5 DEF P44ReconnectQuery
  <2>3. ASSUME NEW u \in P44Uid, NEW is \in BOOLEAN, P44DeviceInfo(u, is)
        PROVE  P44TypeOK'
    BY <1>1, <1>10, <2>3 DEF P44DeviceInfo
  <2>4. ASSUME NEW u \in P44Uid, NEW is \in BOOLEAN, P44Push(u, is)
        PROVE  P44TypeOK'
    <3>1. toVdc' \in Seq(Call)
      BY <1>1, <1>2, <2>4, AppendIn DEF P44Push
    <3>2. QED
      BY <1>10, <2>4, <3>1 DEF P44Push
  <2>5. ASSUME NEW u \in P44Uid, P44Vanish(u)
        PROVE  P44TypeOK'
    BY <1>1, <1>10, <2>5 DEF P44Vanish
  <2>6. QED
    BY <1>11, <2>1, <2>2, <2>3, <2>4, <2>5 DEF P44Receive
<1>12. QED
  BY <1>4, <1>5, <1>6, <1>7, <1>9, <1>11 DEF P44Next, P44System

LEMMA CCTypes ==
  ASSUME CCTypeOK, CCNext
  PROVE  CCTypeOK'
<1>1. /\ ccConnected \in BOOLEAN /\ ccSubscribed \in BOOLEAN
      /\ toCC \in Seq(Request) /\ fromCC \in Seq(Incoming)
      /\ items \in SUBSET CCUid
      /\ ccChanges \in 0 .. MaxCCChanges /\ ccFailures \in 0 .. MaxCCFailures
      /\ MaxCCChanges \in Nat /\ MaxCCFailures \in Nat
  BY CCAssumption DEF CCTypeOK
<1>2. \A c \in Setup : [call |-> c] \in Request
  BY DEF Request, Setup
<1>3. \A u \in CCUid : [call |-> "info", uid |-> u] \in Request
  BY DEF Request
<1>4. <<>> \in Seq(Request) /\ <<>> \in Seq(Incoming)
  BY EmptyIn, Zenon
<1>5. CASE CCConnect
  <2>1. toCC' \in Seq(Request)
    BY <1>2, <1>5, OneInSeq DEF CCConnect, Setup
  <2>2. QED
    BY <1>1, <1>5, <2>1 DEF CCConnect, CCTypeOK
<1>6. CASE CCLost
  <2>1. toCC' \in Seq(Request) /\ fromCC' \in Seq(Incoming)
    BY <1>4, <1>6 DEF CCLost
  <2>2. /\ ccConnected' \in BOOLEAN /\ ccSubscribed' \in BOOLEAN /\ items' \in SUBSET CCUid
        /\ ccChanges' \in 0 .. MaxCCChanges /\ ccFailures' \in 0 .. MaxCCFailures
    <3>1. /\ ccConnected' = FALSE /\ ccSubscribed' = FALSE /\ items' = items
          /\ ccChanges' = ccChanges /\ ccFailures' = ccFailures + 1 /\ ccFailures < MaxCCFailures
      BY <1>6 DEF CCLost
    <3>2. ccFailures' \in 0 .. MaxCCFailures
      BY <1>1, <3>1
    <3>3. ccConnected' \in BOOLEAN /\ ccSubscribed' \in BOOLEAN
      BY <1>1, <3>1, Zenon
    <3>4. QED
      BY <1>1, <3>1, <3>2, <3>3, Zenon
  <2>3. QED
    BY <2>1, <2>2 DEF CCTypeOK
<1>7. CASE CCAnswer
  <2>1. PICK r \in Request : r = Head(toCC)
    BY <1>1, <1>7, TailIn DEF CCAnswer
  <2>2. r.call \in Setup \cup {"info"} /\ (r.call = "info" => r.uid \in CCUid)
    BY DEF Request, Setup
  <2>3. (r.uid \in items) \in BOOLEAN
    OBVIOUS
  <2>4. \E m \in Incoming : fromCC' = Append(fromCC, m)
    <3>1. CASE r.call \in {"register", "subscribe"}
      <4>1. [msg |-> r.call, ok |-> TRUE] \in Incoming
        BY <3>1 DEF Incoming
      <4>2. fromCC' = Append(fromCC, [msg |-> r.call, ok |-> TRUE])
        BY <1>7, <2>1, <3>1 DEF CCAnswer
      <4>3. QED
        BY <4>1, <4>2
    <3>2. CASE r.call = "list"
      <4>1. [msg |-> "list", uids |-> items] \in Incoming
        BY <1>1 DEF Incoming
      <4>2. fromCC' = Append(fromCC, [msg |-> "list", uids |-> items])
        BY <1>7, <2>1, <3>2 DEF CCAnswer
      <4>3. QED
        BY <4>1, <4>2
    <3>3. CASE r.call = "info"
      <4>1. \A is \in BOOLEAN : [msg |-> "info", uid |-> r.uid, ok |-> is] \in Incoming
        BY <2>2, <3>3 DEF Incoming
      <4>2. fromCC' = Append(fromCC, [msg |-> "info", uid |-> r.uid, ok |-> r.uid \in items])
        BY <1>7, <2>1, <3>3 DEF CCAnswer
      <4>3. QED
        BY <2>3, <4>1, <4>2
    <3>4. QED
      BY <2>2, <3>1, <3>2, <3>3 DEF Setup
  <2>5. ccSubscribed' \in BOOLEAN
    BY <1>1, <1>7, <2>1, <2>2 DEF CCAnswer, Setup
  <2>6. fromCC' \in Seq(Incoming) /\ toCC' \in Seq(Request)
    <3>1. toCC # <<>> /\ toCC' = Tail(toCC)
      BY <1>7 DEF CCAnswer
    <3>2. QED
      BY <1>1, <2>4, <3>1, AppendIn, TailIn
  <2>7. QED
    BY <1>1, <1>7, <2>5, <2>6 DEF CCAnswer, CCTypeOK
<1>8. CASE CCAnswerError
  <2>1. PICK r \in Request : r = Head(toCC) /\ r.call # "info"
    BY <1>1, <1>8, TailIn DEF CCAnswerError
  <2>2. r.call \in Setup
    BY <2>1 DEF Request, Setup
  <2>3. [msg |-> "list", uids |-> {}] \in Incoming
    BY DEF Incoming
  <2>4. r.call # "list" => [msg |-> r.call, ok |-> FALSE] \in Incoming
    BY <2>2 DEF Incoming, Setup
  <2>5. \E m \in Incoming : fromCC' = Append(fromCC, m)
    BY <1>8, <2>1, <2>3, <2>4 DEF CCAnswerError
  <2>6. fromCC' \in Seq(Incoming) /\ toCC' \in Seq(Request)
    <3>1. toCC # <<>> /\ toCC' = Tail(toCC)
      BY <1>8 DEF CCAnswerError
    <3>2. QED
      BY <1>1, <2>5, <3>1, AppendIn, TailIn
  <2>7. QED
    BY <1>1, <1>8, <2>6 DEF CCAnswerError, CCTypeOK
<1>9. CASE \E u \in CCUid : ItemCreated(u) \/ ItemDeleted(u)
  <2>1. PICK u \in CCUid, what \in {"created", "deleted"} :
          /\ Vitals(what, u)
          /\ items' = IF what = "created" THEN items \cup {u} ELSE items \ {u}
    BY <1>9 DEF ItemCreated, ItemDeleted
  <2>2. [msg |-> what, uid |-> u] \in Incoming
    BY DEF Incoming
  <2>3. fromCC' \in Seq(Incoming)
    BY <1>1, <2>1, <2>2, AppendIn DEF Vitals
  <2>4. QED
    BY <1>1, <2>1, <2>3 DEF Vitals, CCTypeOK
<1>10. ASSUME NEW m, CCReceived(m), toCC' \in Seq(Request)
       PROVE  CCTypeOK'
  <2>1. fromCC' \in Seq(Incoming)
    BY <1>1, <1>10, TailIn DEF CCReceived
  <2>2. QED
    BY <1>1, <1>10, <2>1 DEF CCReceived, CCTypeOK
<1>11. CASE CCReceive
  <2>1. ASSUME NEW what \in {"register", "subscribe"}, NEW ok \in BOOLEAN, CCSetupAnswer(what, ok)
        PROVE  CCTypeOK'
    <3>1. [call |-> IF what = "register" THEN "subscribe" ELSE "list"] \in Request
      BY <1>2 DEF Setup
    <3>2. toCC' \in Seq(Request)
      BY <1>1, <2>1, <3>1, AppendIn DEF CCSetupAnswer
    <3>3. QED
      BY <1>10, <2>1, <3>2 DEF CCSetupAnswer
  <2>2. ASSUME NEW us \in SUBSET CCUid, CCDeviceList(us)
        PROVE  CCTypeOK'
    BY <1>1, <1>10, <2>2 DEF CCDeviceList
  <2>3. ASSUME NEW u \in CCUid, CCCreated(u)
        PROVE  CCTypeOK'
    <3>1. toCC' \in Seq(Request)
      BY <1>1, <1>3, <2>3, AppendIn DEF CCCreated
    <3>2. QED
      BY <1>10, <2>3, <3>1 DEF CCCreated
  <2>4. ASSUME NEW u \in CCUid, CCDeleted(u)
        PROVE  CCTypeOK'
    BY <1>1, <1>10, <2>4 DEF CCDeleted
  <2>5. ASSUME NEW u \in CCUid, NEW ok \in BOOLEAN, CCItemInfo(u, ok)
        PROVE  CCTypeOK'
    BY <1>1, <1>10, <2>5 DEF CCItemInfo
  <2>6. QED
    BY <1>11, <2>1, <2>2, <2>3, <2>4, <2>5 DEF CCReceive
<1>12. QED
  BY <1>5, <1>6, <1>7, <1>8, <1>9, <1>11 DEF CCNext, CCSystem

\* The main application's state, the maps and objects of all devices, the table (which
\* never has more endpoints than its size), and both connections with the calls under
\* way on them keep their types: whatever is pushed, removed, lost or repeated.
THEOREM TypeCorrect == Spec => []TypeOK
<1>1. Init => P44TypeOK /\ CCTypeOK
  <2>1. <<>> \in Seq(Call) /\ <<>> \in Seq(Message) /\ <<>> \in Seq(Request) /\ <<>> \in Seq(Incoming)
    BY EmptyIn, Zenon
  <2> SUFFICES ASSUME Init PROVE P44TypeOK /\ CCTypeOK
    OBVIOUS
  <2>2. toVdc \in Seq(Call) /\ fromVdc \in Seq(Message) /\ toCC \in Seq(Request) /\ fromCC \in Seq(Incoming)
    BY <2>1 DEF Init, P44Init, CCInit
  <2>3. /\ p44Connected = FALSE /\ p44Once = FALSE /\ bridgeables \in SUBSET P44Uid
        /\ p44Changes = 0 /\ p44Losses = 0
        /\ ccConnected = FALSE /\ ccSubscribed = FALSE /\ items \in SUBSET CCUid
        /\ ccChanges = 0 /\ ccFailures = 0
    BY DEF Init, P44Init, CCInit
  <2>4. /\ 0 \in 0 .. MaxP44Changes /\ 0 \in 0 .. MaxP44Losses
        /\ 0 \in 0 .. MaxCCChanges /\ 0 \in 0 .. MaxCCFailures
    BY P44Assumption, CCAssumption
  <2>5. P44TypeOK /\ CCTypeOK
    BY <2>2, <2>3, <2>4, Zenon DEF P44TypeOK, CCTypeOK
  <2>6. QED
    BY <2>5
<1>2. P44TypeOK /\ CCTypeOK /\ [Next]_vars => (P44TypeOK /\ CCTypeOK)'
  <2> SUFFICES ASSUME P44TypeOK, CCTypeOK, [Next]_vars PROVE P44TypeOK' /\ CCTypeOK'
    OBVIOUS
  <2>1. UNCHANGED p44Vars => P44TypeOK'
    BY DEF p44Vars, P44TypeOK
  <2>2. UNCHANGED ccVars => CCTypeOK'
    BY DEF ccVars, CCTypeOK
  <2>3. QED
    BY <2>1, <2>2, P44Types, CCTypes DEF Next, vars
<1>3. P44TypeOK /\ CCTypeOK /\ MainInv(bridge) => TypeOK
  BY DEF MainInv, MainType, TypeOK, BridgeTypeOK
<1>4. QED
  BY <1>1, <1>2, <1>3, MainAlways, PTL DEF Spec

---------------------------------------------------------------------------
(* What is received and what is sent: a sequence without its first element, *)
(* and with one more.                                                       *)

Shorter(s, t) ==
  /\ DOMAIN s = 1 .. Len(s) /\ Len(s) \in Nat /\ Len(s) >= 1
  /\ DOMAIN t = 1 .. Len(t) /\ Len(t) = Len(s) - 1
  /\ \A k \in DOMAIN t : k + 1 \in DOMAIN s /\ t[k] = s[k + 1]
  /\ \A k \in DOMAIN s : k = 1 \/ (k - 1 \in DOMAIN t /\ t[k - 1] = s[k])

Longer(s, m, t) ==
  /\ DOMAIN s = 1 .. Len(s) /\ Len(s) \in Nat
  /\ DOMAIN t = 1 .. Len(t) /\ Len(t) = Len(s) + 1 /\ t[Len(t)] = m
  /\ \A k \in DOMAIN t : k = Len(t) \/ (k \in DOMAIN s /\ t[k] = s[k])
  /\ \A k \in DOMAIN s : k \in DOMAIN t /\ k # Len(t) /\ t[k] = s[k]

LEMMA ShorterTail ==
  ASSUME NEW S, NEW s \in Seq(S), s # <<>>, NEW t, t = Tail(s)
  PROVE  Shorter(s, t) /\ Head(s) = s[1] /\ 1 \in DOMAIN s
<1>1. /\ DOMAIN s = 1 .. Len(s) /\ Len(s) \in Nat /\ Len(s) >= 1 /\ t \in Seq(S)
      /\ DOMAIN t = 1 .. Len(t) /\ Len(t) = Len(s) - 1
      /\ \A k \in 1 .. Len(s) - 1 : t[k] = s[k + 1]
  OBVIOUS
<1>2. \A k \in DOMAIN s : k = 1 \/ (k - 1 \in DOMAIN t /\ t[k - 1] = s[k])
  <2> SUFFICES ASSUME NEW k \in DOMAIN s, k # 1 PROVE k - 1 \in DOMAIN t /\ t[k - 1] = s[k]
    OBVIOUS
  <2>1. k - 1 \in 1 .. Len(s) - 1 /\ (k - 1) + 1 = k
    BY <1>1
  <2>2. QED
    BY <1>1, <2>1
<1>3. QED
  BY <1>1, <1>2 DEF Shorter

LEMMA LongerAppend ==
  ASSUME NEW S, NEW s \in Seq(S), NEW m \in S, NEW t, t = Append(s, m)
  PROVE  Longer(s, m, t)
  BY DEF Longer

---------------------------------------------------------------------------
(* The startup comes first.                                                *)

\* The part of StartupFirst about the CC adapter.
ListFirst ==
  /\ \A k \in DOMAIN fromCC : fromCC[k].msg = "info" => \E j \in 1 .. k - 1 : ListIn(j)
  /\ \A k \in DOMAIN toCC : toCC[k].call = "info" =>
       (\E j \in DOMAIN fromCC : ListIn(j)) \/ (\E j \in 1 .. k - 1 : ListAsked(j))
  /\ \A k \in DOMAIN fromCC : fromCC[k].msg = "created" =>
       ListComes \/ \E j \in 1 .. k - 1 : fromCC[j].msg = "subscribe"
  /\ ccSubscribed => ListComes \/ \E j \in DOMAIN fromCC : fromCC[j].msg = "subscribe"

Unconnected == ~ccConnected => toCC = <<>> /\ fromCC = <<>> /\ ~ccSubscribed

LEMMA FirstParts ==
  StartupFirst <=> bridge.unstarted <= Cardinality(Adapters) /\ Unconnected /\ (~Completed => ListFirst)
  BY Zenon DEF StartupFirst, Unconnected, ListFirst

\* The server answers.
LEMMA ListFirstAnswered ==
  ASSUME CCTypeOK, ListFirst, toCC # <<>>, toCC' = Tail(toCC),
         NEW m \in Incoming, m.msg = Head(toCC).call, fromCC' = Append(fromCC, m),
         ccSubscribed' => ccSubscribed \/ m.msg = "subscribe"
  PROVE  ListFirst'
<1>1. toCC \in Seq(Request) /\ fromCC \in Seq(Incoming)
  BY DEF CCTypeOK
<1>2. Shorter(toCC, toCC') /\ Head(toCC) = toCC[1] /\ 1 \in DOMAIN toCC
  BY <1>1, ShorterTail
<1>3. Longer(fromCC, m, fromCC')
  BY <1>1, LongerAppend
<1>4. \A j : ListIn(j) => ListIn(j)'
  BY <1>3 DEF Longer, ListIn
<1> DEFINE n == Len(fromCC')
<1>5. \A j : ListAsked(j) => \/ j = 1 /\ n \in DOMAIN fromCC' /\ fromCC'[n].msg = "list"
                             \/ j # 1 /\ ListAsked(j - 1)'
  BY <1>2, <1>3 DEF Longer, Shorter, ListAsked
<1>6. ListComes => ListComes'
  <2>1. ASSUME NEW j, ListIn(j)
        PROVE  ListComes'
    BY <1>4, <2>1 DEF ListComes, ListIn
  <2>2. ASSUME NEW j, ListAsked(j)
        PROVE  ListComes'
    BY <1>5, <2>2 DEF ListComes, ListIn, ListAsked
  <2>3. QED
    BY <2>1, <2>2 DEF ListComes
<1>7. \A k \in DOMAIN fromCC' : fromCC'[k].msg = "info" => \E j \in 1 .. k - 1 : ListIn(j)'
  <2> SUFFICES ASSUME NEW k \in DOMAIN fromCC', fromCC'[k].msg = "info"
               PROVE  \E j \in 1 .. k - 1 : ListIn(j)'
    OBVIOUS
  <2>1. CASE k # Len(fromCC')
    BY <1>3, <1>4, <2>1 DEF Longer, ListFirst
  <2>2. CASE k = Len(fromCC')
    <3>1. toCC[1].call = "info"
      BY <1>2, <1>3, <2>2 DEF Longer
    <3>2. PICK j \in DOMAIN fromCC : ListIn(j)
      BY <1>2, <3>1 DEF ListFirst
    <3>3. j \in 1 .. k - 1
      BY <1>3, <2>2 DEF Longer
    <3>4. QED
      BY <1>4, <3>2, <3>3
  <2>3. QED
    BY <2>1, <2>2
<1>8. \A k \in DOMAIN toCC' : toCC'[k].call = "info" =>
        (\E j \in DOMAIN fromCC' : ListIn(j)') \/ (\E j \in 1 .. k - 1 : ListAsked(j)')
  <2> SUFFICES ASSUME NEW k \in DOMAIN toCC', toCC'[k].call = "info"
               PROVE  (\E j \in DOMAIN fromCC' : ListIn(j)') \/ (\E j \in 1 .. k - 1 : ListAsked(j)')
    OBVIOUS
  <2>1. k + 1 \in DOMAIN toCC /\ toCC[k + 1].call = "info" /\ k \in Nat
    BY <1>2 DEF Shorter
  <2>2. CASE \E j \in DOMAIN fromCC : ListIn(j)
    BY <1>3, <1>4, <2>2 DEF Longer
  <2>3. CASE \E j \in 1 .. k : ListAsked(j)
    <3>1. PICK j \in 1 .. k : ListAsked(j)
      BY <2>3
    <3>2. CASE j = 1
      <4>1. n \in DOMAIN fromCC' /\ fromCC'[n].msg = "list"
        BY <1>5, <3>1, <3>2
      <4>2. QED
        BY <4>1 DEF ListIn
    <3>3. CASE j # 1
      <4>1. ListAsked(j - 1)' /\ j - 1 \in 1 .. k - 1
        BY <1>5, <2>1, <3>1, <3>3
      <4>2. QED
        BY <4>1
    <3>4. QED
      BY <3>2, <3>3
  <2>4. QED
    <3>1. (k + 1) - 1 = k
      BY <2>1
    <3>2. (\E j \in DOMAIN fromCC : ListIn(j)) \/ (\E j \in 1 .. (k + 1) - 1 : ListAsked(j))
      BY <2>1 DEF ListFirst
    <3>3. QED
      BY <2>2, <2>3, <3>1, <3>2
<1>9. \A k \in DOMAIN fromCC' : fromCC'[k].msg = "created" =>
        ListComes' \/ \E j \in 1 .. k - 1 : fromCC'[j].msg = "subscribe"
  <2> SUFFICES ASSUME NEW k \in DOMAIN fromCC', fromCC'[k].msg = "created"
               PROVE  ListComes' \/ \E j \in 1 .. k - 1 : fromCC'[j].msg = "subscribe"
    OBVIOUS
  <2>1. k # Len(fromCC')
    <3>1. toCC[1].call # "created"
      BY <1>1, <1>2 DEF Request
    <3>2. QED
      BY <1>2, <1>3, <3>1 DEF Longer
  <2>2. k \in DOMAIN fromCC /\ fromCC[k].msg = "created"
    BY <1>3, <2>1 DEF Longer
  <2>3. ListComes \/ \E j \in 1 .. k - 1 : fromCC[j].msg = "subscribe"
    BY <2>2 DEF ListFirst
  <2>4. \A j \in 1 .. k - 1 : fromCC'[j] = fromCC[j]
    BY <1>3, <2>2 DEF Longer
  <2>5. QED
    BY <1>6, <2>3, <2>4
<1>10. ccSubscribed' => ListComes' \/ \E j \in DOMAIN fromCC' : fromCC'[j].msg = "subscribe"
  BY <1>3, <1>6 DEF Longer, ListFirst
<1>11. QED
  BY <1>7, <1>8, <1>9, <1>10 DEF ListFirst

\* A notification is on its way.
LEMMA ListFirstNotified ==
  ASSUME CCTypeOK, ListFirst, ccSubscribed, UNCHANGED <<toCC, ccSubscribed>>,
         NEW m \in Incoming, m.msg \in {"created", "deleted"}, fromCC' = Append(fromCC, m)
  PROVE  ListFirst'
<1>1. Longer(fromCC, m, fromCC')
  BY LongerAppend DEF CCTypeOK
<1>2. \A j : (ListIn(j) => ListIn(j)') /\ (ListAsked(j) => ListAsked(j)')
  BY <1>1 DEF Longer, ListIn, ListAsked
<1>3. ListComes => ListComes'
  BY <1>1, <1>2 DEF ListComes, ListIn
<1>4. \A k \in DOMAIN fromCC' : fromCC'[k].msg = "info" => \E j \in 1 .. k - 1 : ListIn(j)'
  BY <1>1, <1>2 DEF Longer, ListFirst
<1>5. \A k \in DOMAIN toCC' : toCC'[k].call = "info" =>
        (\E j \in DOMAIN fromCC' : ListIn(j)') \/ (\E j \in 1 .. k - 1 : ListAsked(j)')
  BY <1>1, <1>2 DEF Longer, ListFirst
<1>7. \A k \in DOMAIN fromCC' : fromCC'[k].msg = "created" =>
        ListComes' \/ \E j \in 1 .. k - 1 : fromCC'[j].msg = "subscribe"
  <2> SUFFICES ASSUME NEW k \in DOMAIN fromCC', fromCC'[k].msg = "created"
               PROVE  ListComes' \/ \E j \in 1 .. k - 1 : fromCC'[j].msg = "subscribe"
    OBVIOUS
  <2>1. ListComes \/ \E j \in DOMAIN fromCC : fromCC[j].msg = "subscribe"
    BY DEF ListFirst
  <2>2. CASE k = Len(fromCC')
    BY <1>1, <1>3, <2>1, <2>2 DEF Longer
  <2>3. CASE k # Len(fromCC')
    <3>1. k \in DOMAIN fromCC /\ fromCC[k].msg = "created"
      BY <1>1, <2>3 DEF Longer
    <3>2. ListComes \/ \E j \in 1 .. k - 1 : fromCC[j].msg = "subscribe"
      BY <3>1 DEF ListFirst
    <3>3. \A j \in 1 .. k - 1 : fromCC'[j] = fromCC[j]
      BY <1>1, <3>1 DEF Longer
    <3>4. QED
      BY <1>3, <3>2, <3>3
  <2>4. QED
    BY <2>2, <2>3
<1>8. ccSubscribed' => ListComes' \/ \E j \in DOMAIN fromCC' : fromCC'[j].msg = "subscribe"
  BY <1>1, <1>3 DEF Longer, ListFirst
<1>9. QED
  BY <1>4, <1>5, <1>7, <1>8 DEF ListFirst

\* What was on its way stays there, and something may be added.
Added(s, t) ==
  /\ DOMAIN s = 1 .. Len(s) /\ Len(s) \in Nat /\ DOMAIN t = 1 .. Len(t) /\ Len(t) \in Nat
  /\ \A k \in DOMAIN s : k \in DOMAIN t /\ t[k] = s[k]
  /\ \A k \in (DOMAIN t) \ (DOMAIN s) : \A j \in DOMAIN s : j \in 1 .. k - 1

LEMMA AddedAppend ==
  ASSUME NEW S, NEW s \in Seq(S), NEW m \in S
  PROVE  Added(s, Append(s, m)) /\ \A k \in DOMAIN Append(s, m) : k \notin DOMAIN s => Append(s, m)[k] = m
<1>1. Longer(s, m, Append(s, m))
  BY LongerAppend
<1>2. QED
  BY <1>1 DEF Longer, Added

LEMMA AddedNone ==
  ASSUME NEW S, NEW s \in Seq(S)
  PROVE  Added(s, s)
  BY DEF Added

\* An answer or a notification other than the list and what was asked is handled.
LEMMA ListFirstReceived ==
  ASSUME CCTypeOK, ListFirst, fromCC # <<>>, fromCC' = Tail(fromCC), UNCHANGED ccSubscribed,
         fromCC[1].msg \notin {"list", "info"}, Added(toCC, toCC'),
         \A k \in DOMAIN toCC' : k \notin DOMAIN toCC /\ toCC'[k].call = "info" => fromCC[1].msg = "created",
         fromCC[1].msg = "subscribe" => \E k \in DOMAIN toCC' : toCC'[k].call = "list"
  PROVE  ListFirst'
<1>1. Shorter(fromCC, fromCC') /\ 1 \in DOMAIN fromCC
  BY ShorterTail DEF CCTypeOK
<1>2. \A j : ListAsked(j) => ListAsked(j)'
  BY DEF ListAsked, Added
<1>3. \A j : ListIn(j) => j # 1 /\ ListIn(j - 1)'
  BY <1>1 DEF Shorter, ListIn
<1>4. ListComes => ListComes'
  <2>1. ASSUME NEW j, ListIn(j)
        PROVE  ListComes'
    BY <1>3, <2>1 DEF ListComes, ListIn
  <2>2. ASSUME NEW j, ListAsked(j)
        PROVE  ListComes'
    BY <1>2, <2>2 DEF ListComes, ListAsked
  <2>3. QED
    BY <2>1, <2>2 DEF ListComes
<1>5. fromCC[1].msg = "subscribe" => ListComes'
  BY DEF ListComes, ListAsked
<1>6. fromCC[1].msg = "created" => ListComes
  BY <1>1 DEF ListFirst
<1>7. \A k \in DOMAIN fromCC' : fromCC'[k].msg = "info" => \E j \in 1 .. k - 1 : ListIn(j)'
  <2> SUFFICES ASSUME NEW k \in DOMAIN fromCC', fromCC'[k].msg = "info"
               PROVE  \E j \in 1 .. k - 1 : ListIn(j)'
    OBVIOUS
  <2>1. k + 1 \in DOMAIN fromCC /\ fromCC[k + 1].msg = "info" /\ k \in Nat /\ (k + 1) - 1 = k
    BY <1>1 DEF Shorter
  <2>2. PICK j \in 1 .. k : ListIn(j)
    BY <2>1 DEF ListFirst
  <2>3. j # 1 /\ ListIn(j - 1)' /\ j - 1 \in 1 .. k - 1
    BY <1>3, <2>1, <2>2
  <2>4. QED
    BY <2>3
<1>8. \A k \in DOMAIN toCC' : toCC'[k].call = "info" =>
        (\E j \in DOMAIN fromCC' : ListIn(j)') \/ (\E j \in 1 .. k - 1 : ListAsked(j)')
  <2> SUFFICES ASSUME NEW k \in DOMAIN toCC', toCC'[k].call = "info"
               PROVE  (\E j \in DOMAIN fromCC' : ListIn(j)') \/ (\E j \in 1 .. k - 1 : ListAsked(j)')
    OBVIOUS
  <2>1. ASSUME NEW j, ListIn(j)
        PROVE  \E i \in DOMAIN fromCC' : ListIn(i)'
    BY <1>3, <2>1 DEF ListIn
  <2>2. CASE k \in DOMAIN toCC
    <3>1. toCC[k].call = "info"
      BY <2>2 DEF Added
    <3>2. (\E j \in DOMAIN fromCC : ListIn(j)) \/ (\E j \in 1 .. k - 1 : ListAsked(j))
      BY <2>2, <3>1 DEF ListFirst
    <3>3. QED
      BY <1>2, <2>1, <3>2
  <2>3. CASE k \notin DOMAIN toCC
    <3>1. ListComes
      BY <1>6, <2>3
    <3>2. \A j \in DOMAIN toCC : j \in 1 .. k - 1
      BY <2>3 DEF Added
    <3>3. QED
      BY <1>2, <2>1, <3>1, <3>2 DEF ListComes
  <2>4. QED
    BY <2>2, <2>3
<1>9. \A k \in DOMAIN fromCC' : fromCC'[k].msg = "created" =>
        ListComes' \/ \E j \in 1 .. k - 1 : fromCC'[j].msg = "subscribe"
  <2> SUFFICES ASSUME NEW k \in DOMAIN fromCC', fromCC'[k].msg = "created"
               PROVE  ListComes' \/ \E j \in 1 .. k - 1 : fromCC'[j].msg = "subscribe"
    OBVIOUS
  <2>1. k + 1 \in DOMAIN fromCC /\ fromCC[k + 1].msg = "created" /\ k \in Nat /\ (k + 1) - 1 = k
    BY <1>1 DEF Shorter
  <2>2. ListComes \/ \E j \in 1 .. k : fromCC[j].msg = "subscribe"
    BY <2>1 DEF ListFirst
  <2>3. CASE \E j \in 1 .. k : fromCC[j].msg = "subscribe"
    <3>1. PICK j \in 1 .. k : fromCC[j].msg = "subscribe"
      BY <2>3
    <3>2. CASE j = 1
      BY <1>5, <3>1, <3>2
    <3>3. CASE j # 1
      <4>1. j \in DOMAIN fromCC /\ j - 1 \in 1 .. k - 1
        BY <1>1, <2>1, <3>1, <3>3 DEF Shorter
      <4>2. fromCC'[j - 1] = fromCC[j]
        BY <1>1, <3>3, <4>1 DEF Shorter
      <4>3. QED
        BY <3>1, <4>1, <4>2
    <3>4. QED
      BY <3>2, <3>3
  <2>4. QED
    BY <1>4, <2>2, <2>3
<1>10. ccSubscribed' => ListComes' \/ \E j \in DOMAIN fromCC' : fromCC'[j].msg = "subscribe"
  <2>1. ASSUME NEW j \in DOMAIN fromCC, fromCC[j].msg = "subscribe"
        PROVE  ListComes' \/ \E i \in DOMAIN fromCC' : fromCC'[i].msg = "subscribe"
    BY <1>1, <1>5, <2>1 DEF Shorter
  <2>2. ccSubscribed => ListComes \/ \E j \in DOMAIN fromCC : fromCC[j].msg = "subscribe"
    BY DEF ListFirst
  <2>3. QED
    BY <1>4, <2>1, <2>2
<1>11. QED
  BY <1>7, <1>8, <1>9, <1>10 DEF ListFirst

---------------------------------------------------------------------------

LEMMA AnswerGives ==
  ASSUME CCTypeOK, CCAnswer
  PROVE  \E m \in Incoming :
           /\ m.msg = Head(toCC).call /\ fromCC' = Append(fromCC, m)
           /\ ccSubscribed' <=> ccSubscribed \/ m.msg = "subscribe"
           /\ m.msg \in {"register", "subscribe"} => m.ok
           /\ m.msg = "list" => m.uids = items
           /\ m.msg = "info" => m.uid = Head(toCC).uid /\ m.ok = (m.uid \in items)
<1>1. toCC \in Seq(Request) /\ fromCC \in Seq(Incoming) /\ items \in SUBSET CCUid /\ ccSubscribed \in BOOLEAN
  BY DEF CCTypeOK
<1>2. PICK r \in Request : r = Head(toCC)
  BY <1>1, TailIn DEF CCAnswer
<1>3. r.call \in Setup \cup {"info"} /\ (r.call = "info" => r.uid \in CCUid)
  BY DEF Request, Setup
<1>4. CASE r.call \in {"register", "subscribe"}
  <2>1. PICK m : m = [msg |-> r.call, ok |-> TRUE]
    OBVIOUS
  <2>2. m \in Incoming
    BY <1>4, <2>1 DEF Incoming
  <2>3. fromCC' = Append(fromCC, m) /\ (ccSubscribed' <=> ccSubscribed \/ r.call = "subscribe")
    BY <1>1, <1>2, <1>4, <2>1 DEF CCAnswer
  <2>4. QED
    BY <1>2, <1>4, <2>1, <2>2, <2>3
<1>5. CASE r.call = "list"
  <2>1. PICK m : m = [msg |-> "list", uids |-> items]
    OBVIOUS
  <2>2. m \in Incoming
    BY <1>1, <2>1 DEF Incoming
  <2>3. fromCC' = Append(fromCC, m) /\ ccSubscribed' = ccSubscribed
    BY <1>2, <1>5, <2>1 DEF CCAnswer
  <2>4. QED
    BY <1>2, <1>5, <2>1, <2>2, <2>3
<1>6. CASE r.call = "info"
  <2>2. PICK m : m = [msg |-> "info", uid |-> r.uid, ok |-> r.uid \in items]
    OBVIOUS
  <2>3. m \in Incoming
    <3>1. \A x \in BOOLEAN : [msg |-> "info", uid |-> r.uid, ok |-> x] \in Incoming
      BY <1>3, <1>6 DEF Incoming
    <3>2. (r.uid \in items) \in BOOLEAN
      OBVIOUS
    <3>3. QED
      BY <2>2, <3>1, <3>2
  <2>4. fromCC' = Append(fromCC, m) /\ ccSubscribed' = ccSubscribed
    BY <1>2, <1>6, <2>2 DEF CCAnswer
  <2>5. QED
    BY <1>2, <1>6, <2>2, <2>3, <2>4
<1>7. QED
  BY <1>3, <1>4, <1>5, <1>6 DEF Setup

LEMMA ErrorGives ==
  ASSUME CCTypeOK, CCAnswerError
  PROVE  \E m \in Incoming : m.msg = Head(toCC).call /\ fromCC' = Append(fromCC, m) /\ ccSubscribed' = ccSubscribed
<1>1. PICK r \in Request : r = Head(toCC) /\ r.call # "info"
  BY TailIn DEF CCAnswerError, CCTypeOK
<1>2. r.call \in Setup
  BY <1>1 DEF Request, Setup
<1>3. PICK m : m = IF r.call = "list" THEN [msg |-> "list", uids |-> {}] ELSE [msg |-> r.call, ok |-> FALSE]
  OBVIOUS
<1>4. m \in Incoming /\ m.msg = r.call
  BY <1>2, <1>3 DEF Incoming, Setup
<1>5. fromCC' = Append(fromCC, m) /\ ccSubscribed' = ccSubscribed
  BY <1>1, <1>3 DEF CCAnswerError
<1>6. QED
  BY <1>1, <1>4, <1>5

LEMMA FirstOfCC ==
  ASSUME MainInv(bridge), CCTypeOK, StartupFirst, Cardinality(Adapters) \in Int, CCNext
  PROVE  StartupFirst'
<1>1. bridge.unstarted \in Int
  BY FieldTypes
<1>2. bridge.unstarted <= Cardinality(Adapters) /\ Unconnected /\ (~Completed => ListFirst)
  BY FirstParts
<1>3. toCC \in Seq(Request) /\ fromCC \in Seq(Incoming)
  BY DEF CCTypeOK
<1>4. ASSUME bridge'.unstarted = bridge.unstarted - 1, Unconnected'
      PROVE  StartupFirst'
  <2>1. bridge'.unstarted < Cardinality(Adapters)
    BY <1>1, <1>2, <1>4
  <2>2. bridge'.unstarted <= Cardinality(Adapters) /\ Completed'
    BY <1>1, <1>4, <2>1 DEF Completed
  <2>3. QED
    BY <1>4, <2>2 DEF StartupFirst, Unconnected
<1>5. ASSUME bridge'.unstarted = bridge.unstarted, Unconnected', ~Completed => ListFirst'
      PROVE  StartupFirst'
  BY <1>2, <1>5 DEF StartupFirst, Completed, Unconnected, ListFirst
<1>6. ASSUME NEW m, CCReceived(m)
      PROVE  /\ fromCC # <<>> /\ fromCC' = Tail(fromCC) /\ UNCHANGED ccSubscribed /\ fromCC[1] = m
             /\ Unconnected'
  BY <1>2, <1>3, <1>6, ShorterTail DEF CCReceived, Unconnected
<1>7. CASE CCConnect
  <2>1. fromCC = <<>> /\ ~ccSubscribed
    BY <1>2, <1>7 DEF CCConnect, Unconnected
  <2>2. toCC' = <<[call |-> "register"]>> /\ fromCC' = <<>> /\ ~ccSubscribed' /\ ccConnected'
    BY <1>7, <2>1 DEF CCConnect
  <2>3. ListFirst'
    BY <2>2 DEF ListFirst
  <2>4. QED
    BY <1>5, <1>7, <2>2, <2>3 DEF CCConnect, Unconnected
<1>8. CASE CCLost
  <2>1. toCC' = <<>> /\ fromCC' = <<>> /\ ~ccSubscribed' /\ bridge' = bridge
    BY <1>8 DEF CCLost
  <2>2. ListFirst'
    BY <2>1 DEF ListFirst
  <2>3. QED
    BY <1>5, <2>1, <2>2 DEF Unconnected
<1>9. CASE CCAnswer
  <2>1. bridge' = bridge /\ ccConnected' /\ toCC # <<>> /\ toCC' = Tail(toCC)
    BY <1>9 DEF CCAnswer
  <2>2. \E m \in Incoming : /\ m.msg = Head(toCC).call /\ fromCC' = Append(fromCC, m)
                            /\ ccSubscribed' => ccSubscribed \/ m.msg = "subscribe"
    BY <1>9, AnswerGives
  <2>3. ListFirst => ListFirst'
    BY <2>1, <2>2, ListFirstAnswered
  <2>4. QED
    BY <1>2, <1>5, <2>1, <2>3 DEF Unconnected
<1>10. CASE CCAnswerError
  <2>1. bridge' = bridge /\ ccConnected' /\ toCC # <<>> /\ toCC' = Tail(toCC)
    BY <1>10 DEF CCAnswerError
  <2>2. \E m \in Incoming : /\ m.msg = Head(toCC).call /\ fromCC' = Append(fromCC, m)
                            /\ ccSubscribed' => ccSubscribed \/ m.msg = "subscribe"
    BY <1>10, ErrorGives
  <2>3. ListFirst => ListFirst'
    BY <2>1, <2>2, ListFirstAnswered
  <2>4. QED
    BY <1>2, <1>5, <2>1, <2>3 DEF Unconnected
<1>11. CASE \E u \in CCUid : ItemCreated(u) \/ ItemDeleted(u)
  <2>1. PICK u \in CCUid, what \in {"created", "deleted"} : Vitals(what, u)
    BY <1>11 DEF ItemCreated, ItemDeleted
  <2>2. bridge' = bridge /\ UNCHANGED <<ccConnected, ccSubscribed, toCC>>
    BY <2>1 DEF Vitals
  <2>3. CASE ccSubscribed
    <3>1. fromCC' = Append(fromCC, [msg |-> what, uid |-> u])
      BY <2>1, <2>3 DEF Vitals
    <3>2. [msg |-> what, uid |-> u] \in Incoming
      BY DEF Incoming
    <3>3. [msg |-> what, uid |-> u].msg \in {"created", "deleted"}
      OBVIOUS
    <3>4. ListFirst => ListFirst'
      BY <2>2, <2>3, <3>1, <3>2, <3>3, ListFirstNotified
    <3>5. Unconnected'
      BY <1>2, <2>2, <2>3 DEF Unconnected
    <3>6. QED
      BY <1>2, <1>5, <2>2, <3>4, <3>5
  <2>4. CASE ~ccSubscribed
    <3>1. fromCC' = fromCC
      BY <2>1, <2>4 DEF Vitals
    <3>2. QED
      BY <1>2, <1>5, <2>2, <3>1 DEF Unconnected, ListFirst, ListComes, ListIn, ListAsked
  <2>5. QED
    BY <2>3, <2>4
<1>12. ASSUME NEW what \in {"register", "subscribe"}, NEW ok \in BOOLEAN, CCSetupAnswer(what, ok)
       PROVE  StartupFirst'
  <2>1. CCReceived([msg |-> what, ok |-> ok])
    BY <1>12 DEF CCSetupAnswer
  <2>2. fromCC[1].msg = what /\ fromCC # <<>> /\ fromCC' = Tail(fromCC) /\ UNCHANGED ccSubscribed /\ Unconnected'
    BY <1>6, <2>1
  <2>3. CASE ~ok
    <3>1. bridge' = StartupComplete(bridge)
      BY <1>12, <2>3 DEF CCSetupAnswer
    <3>2. bridge'.unstarted = bridge.unstarted - 1
      BY <3>1, StartupCompleteKeeps DEF CompletedTo
    <3>3. QED
      BY <1>4, <2>2, <3>2
  <2>4. CASE ok
    <3>1. PICK r : r = [call |-> IF what = "register" THEN "subscribe" ELSE "list"]
      OBVIOUS
    <3>2. r \in Request /\ r.call # "info" /\ (what = "subscribe" => r.call = "list")
      BY <3>1 DEF Request
    <3>3. toCC' = Append(toCC, r) /\ bridge' = bridge
      BY <1>12, <2>4, <3>1 DEF CCSetupAnswer
    <3>4. Added(toCC, toCC') /\ \A k \in DOMAIN toCC' : k \notin DOMAIN toCC => toCC'[k] = r
      BY <1>3, <3>2, <3>3, AddedAppend
    <3>5. what = "subscribe" => \E k \in DOMAIN toCC' : toCC'[k].call = "list"
      BY <1>3, <3>2, <3>3, LongerAppend DEF Longer
    <3>6. ListFirst => ListFirst'
      BY <2>2, <3>2, <3>4, <3>5, ListFirstReceived
    <3>7. QED
      BY <1>2, <1>5, <2>2, <3>3, <3>6
  <2>5. QED
    BY <2>3, <2>4
<1>13. ASSUME NEW us \in SUBSET CCUid, CCDeviceList(us)
       PROVE  StartupFirst'
  <2>1. PICK d : d = RegisterInitialDevices(bridge, us)
    OBVIOUS
  <2>2. bridge' = StartupComplete(d) /\ us \in SUBSET Uid
    BY <1>13, <2>1, CCAssumption DEF CCDeviceList
  <2>3. SameStack(bridge, d) /\ CompletedTo(d, bridge')
    BY <2>1, <2>2, ListKeeps
  <2>4. bridge'.unstarted = bridge.unstarted - 1
    BY <2>3 DEF SameStack, CompletedTo
  <2>5. QED
    BY <1>4, <1>6, <1>13, <2>4 DEF CCDeviceList
<1>14. ASSUME NEW u \in CCUid, CCCreated(u)
       PROVE  StartupFirst'
  <2>1. /\ fromCC[1].msg = "created" /\ fromCC # <<>> /\ fromCC' = Tail(fromCC) /\ UNCHANGED ccSubscribed
        /\ Unconnected' /\ bridge' = bridge
    BY <1>6, <1>14 DEF CCCreated
  <2>2. [call |-> "info", uid |-> u] \in Request
    BY DEF Request
  <2>3. Added(toCC, toCC')
    BY <1>3, <1>14, <2>2, AddedAppend, AddedNone DEF CCCreated
  <2>4. ListFirst => ListFirst'
    BY <2>1, <2>3, ListFirstReceived
  <2>5. QED
    BY <1>2, <1>5, <2>1, <2>4
<1>15. ASSUME NEW u \in CCUid, CCDeleted(u)
       PROVE  StartupFirst'
  <2>1. /\ fromCC[1].msg = "deleted" /\ fromCC # <<>> /\ fromCC' = Tail(fromCC) /\ UNCHANGED ccSubscribed
        /\ Unconnected' /\ toCC' = toCC
    BY <1>6, <1>15 DEF CCDeleted
  <2>2. bridge'.unstarted = bridge.unstarted
    <3>1. CASE bridge.map[u] # NoObj
      <4>1. PICK o \in DOMAIN bridge.objs : o = bridge.map[u]
        BY <3>1, CCAssumption, FieldTypes
      <4>2. RemovedTo(bridge, o, bridge')
        BY <1>15, <3>1, <4>1, RemoveKeeps DEF CCDeleted
      <4>3. QED
        BY <4>2 DEF RemovedTo
    <3>2. QED
      BY <1>15, <3>1 DEF CCDeleted
  <2>3. Added(toCC, toCC')
    BY <1>3, <2>1, AddedNone
  <2>4. ListFirst => ListFirst'
    BY <2>1, <2>3, ListFirstReceived
  <2>5. QED
    BY <1>2, <1>5, <2>1, <2>2, <2>4
<1>16. ASSUME NEW u \in CCUid, NEW ok \in BOOLEAN, CCItemInfo(u, ok)
       PROVE  StartupFirst'
  <2>1. /\ fromCC[1].msg = "info" /\ fromCC # <<>> /\ Unconnected'
    BY <1>6, <1>16 DEF CCItemInfo
  <2>2. ~ListFirst
    <3>1. 1 \in DOMAIN fromCC
      BY <1>3, <2>1, ShorterTail
    <3>2. \A j : j \notin 1 .. 1 - 1
      OBVIOUS
    <3>3. QED
      BY <2>1, <3>1, <3>2 DEF ListFirst
  <2>3. bridge'.unstarted = bridge.unstarted
    <3>1. PICK d : d = NewObject(bridge, u)
      OBVIOUS
    <3>2. CASE ok
      <4>1. bridge' = BridgeAdditionalDevice(d, Newest(d)) /\ u \in Uid
        BY <1>16, <3>1, <3>2, CCAssumption DEF CCItemInfo
      <4>2. CreatedTo(bridge, u, d) /\ AddedTo(d, u, Newest(d), bridge')
        BY <3>1, <4>1, ItemKeeps
      <4>3. QED
        BY <4>2 DEF CreatedTo, AddedTo
    <3>3. QED
      BY <1>16, <3>2 DEF CCItemInfo
  <2>4. QED
    BY <1>2, <1>5, <2>1, <2>2, <2>3
<1>17. QED
  BY <1>7, <1>8, <1>9, <1>10, <1>11, <1>12, <1>13, <1>14, <1>15, <1>16 DEF CCNext, CCSystem, CCReceive

---------------------------------------------------------------------------
(* What a handler of one adapter, which has the devices U, leaves alone.   *)

Frame(b, c, U) ==
  /\ c.up = b.up /\ c.exited = b.exited /\ (c.starts = 0 => b.starts = 0)
  /\ c.unstarted \in {b.unstarted, b.unstarted - 1}
  /\ \A u \in Uid \ U : /\ c.map[u] = b.map[u]
                        /\ b.map[u] # NoObj => c.objs[b.map[u]] = b.objs[b.map[u]]
                        /\ u \in c.removed <=> u \in b.removed
                        /\ u \in c.early <=> u \in b.early
  /\ \A i \in c.on : c.objs[c.table[i]].uid \notin U =>
       i \in b.on /\ c.table[i] = b.table[i] /\ c.objs[c.table[i]].uid = b.objs[b.table[i]].uid
  /\ \A i \in b.on : b.objs[b.table[i]].uid \notin U =>
       i \in c.on /\ c.objs[c.table[i]].uid = b.objs[b.table[i]].uid
  /\ Len(b.table) = MaxDyn => Len(c.table) = MaxDyn

LEMMA MapsInto ==
  ASSUME NEW b, MainInv(b)
  PROVE  /\ \A u \in Uid : b.map[u] # NoObj => b.map[u] \in DOMAIN b.objs /\ b.objs[b.map[u]].uid = u
         /\ \A i \in b.on : i \in DOMAIN b.table /\ b.table[i] \in DOMAIN b.objs /\ b.objs[b.table[i]].ep = i
  BY FieldTypes DEF MainInv, MapsFit, MainType, EndpointsFit

\* A new device is registered, or created, and is nowhere else.
LEMMA FrameRegistered ==
  ASSUME NEW b, MainInv(b), NEW U, NEW us \in SUBSET U, NEW c, RegisteredTo(b, us, c), SameStack(b, c)
  PROVE  Frame(b, c, U)
<1>1. /\ \A o \in DOMAIN b.objs : c.objs[o] = b.objs[o]
      /\ \A u \in Uid \ U : c.map[u] = b.map[u]
  BY DEF RegisteredTo
<1>2. /\ c.unstarted = b.unstarted /\ c.starts = b.starts
      /\ c.up = b.up /\ c.exited = b.exited /\ c.table = b.table /\ c.on = b.on
      /\ c.removed = b.removed /\ c.early = b.early
  BY DEF SameStack
<1>3. QED
  BY <1>1, <1>2, MapsInto DEF Frame

LEMMA FrameCreated ==
  ASSUME NEW b, MainInv(b), NEW U, NEW u, NEW c, CreatedTo(b, u, c)
  PROVE  Frame(b, c, U)
  BY MapsInto DEF CreatedTo, Frame

LEMMA FrameCompleted ==
  ASSUME NEW b, MainInv(b), NEW U, NEW c, CompletedTo(b, c)
  PROVE  Frame(b, c, U)
<1>1. b.starts \in Nat
  BY FieldTypes
<1>2. /\ c.unstarted = b.unstarted - 1 /\ (c.starts = b.starts \/ c.starts = b.starts + 1)
      /\ c.up = b.up /\ c.exited = b.exited /\ c.objs = b.objs /\ c.map = b.map
      /\ c.table = b.table /\ c.on = b.on /\ c.removed = b.removed /\ c.early = b.early
  BY DEF CompletedTo
<1>3. c.starts = 0 => b.starts = 0
  BY <1>1, <1>2
<1>4. QED
  BY <1>2, <1>3 DEF Frame

LEMMA FrameAdded ==
  ASSUME NEW b, MainInv(b), NEW U, NEW u \in Uid, u \in U,
         NEW o \in DOMAIN b.objs, b.objs[o] = NewDevice(u),
         NEW c, MainInv(c), AddedTo(b, u, o, c)
  PROVE  Frame(b, c, U)
<1>1. b.starts \in Nat /\ b.objs[o].uid = u /\ Len(c.table) <= MaxDyn
      /\ DOMAIN b.table = 1 .. Len(b.table) /\ DOMAIN c.table = 1 .. Len(c.table)
      /\ Len(b.table) \in Nat /\ Len(c.table) \in Nat
  BY FieldTypes DEF NewDevice, MainInv, MainType
<1>2. /\ c.up = b.up /\ c.exited = b.exited /\ c.unstarted = b.unstarted
      /\ c.removed = b.removed /\ c.early = b.early /\ c.starts \in {b.starts, b.starts + 1}
      /\ \A v \in Uid \ {u} : c.map[v] = b.map[v]
      /\ \A p \in DOMAIN b.objs : c.objs[p].uid = b.objs[p].uid /\ (p # o => c.objs[p] = b.objs[p])
      /\ DOMAIN b.table \subseteq DOMAIN c.table /\ \A i \in DOMAIN b.table : c.table[i] = b.table[i]
      /\ b.on \subseteq c.on
      /\ \A i \in c.on : i \in b.on \/ c.table[i] = o
  BY DEF AddedTo
<1>3. c.starts = 0 => b.starts = 0
  BY <1>1, <1>2
<1>4. Len(b.table) = MaxDyn => Len(c.table) = MaxDyn
  BY <1>1, <1>2, MainAssumption
<1>5. \A v \in Uid \ U : /\ c.map[v] = b.map[v]
                         /\ b.map[v] # NoObj => c.objs[b.map[v]] = b.objs[b.map[v]]
  BY <1>1, <1>2, MapsInto
<1>6. \A i \in c.on : c.objs[c.table[i]].uid \notin U =>
        i \in b.on /\ c.table[i] = b.table[i] /\ c.objs[c.table[i]].uid = b.objs[b.table[i]].uid
  BY <1>1, <1>2, MapsInto
<1>7. \A i \in b.on : i \in c.on /\ c.objs[c.table[i]].uid = b.objs[b.table[i]].uid
  BY <1>2, MapsInto
<1>8. QED
  BY <1>2, <1>3, <1>4, <1>5, <1>6, <1>7 DEF Frame

LEMMA FrameChanged ==
  ASSUME NEW b, MainInv(b), NEW U, NEW o \in DOMAIN b.objs, b.objs[o].uid \in U,
         NEW d, d.uid = b.objs[o].uid, NEW c, ChangedTo(b, o, d, c)
  PROVE  Frame(b, c, U)
<1>1. /\ c.objs = [b.objs EXCEPT ![o] = d]
      /\ c.unstarted = b.unstarted /\ c.starts = b.starts
      /\ c.up = b.up /\ c.exited = b.exited /\ c.table = b.table /\ c.on = b.on /\ c.map = b.map
      /\ c.removed = b.removed /\ c.early = b.early
  BY DEF ChangedTo
<1>2. \A p \in DOMAIN b.objs : c.objs[p].uid = b.objs[p].uid /\ (p # o => c.objs[p] = b.objs[p])
  BY <1>1
<1>3. QED
  BY <1>1, <1>2, MapsInto DEF Frame

LEMMA FrameRemoved ==
  ASSUME NEW b, MainInv(b), NEW U, NEW o \in DOMAIN b.objs, b.objs[o].uid \in U,
         NEW c, RemovedTo(b, o, c)
  PROVE  Frame(b, c, U)
<1>1. /\ c.on = b.on \ {b.objs[o].ep}
      /\ c.objs = b.objs /\ c.unstarted = b.unstarted /\ c.starts = b.starts
      /\ c.up = b.up /\ c.exited = b.exited /\ c.table = b.table /\ c.map = b.map
      /\ \A u : u # b.objs[o].uid => (u \in c.removed <=> u \in b.removed) /\ (u \in c.early <=> u \in b.early)
  BY DEF RemovedTo
<1>2. b.objs[o].ep # NoEp => b.table[b.objs[o].ep] = o
  BY DEF MainInv, EndpointsFit
<1>3. \A i \in b.on : b.objs[b.table[i]].uid \notin U => i \in c.on
  <2> SUFFICES ASSUME NEW i \in b.on, b.objs[b.table[i]].uid \notin U, i = b.objs[o].ep
               PROVE  FALSE
    BY <1>1
  <2>1. i \in DOMAIN b.table /\ DOMAIN b.table = 1 .. Len(b.table)
    BY MapsInto, FieldTypes
  <2>2. i # NoEp
    BY <2>1 DEF NoEp
  <2>3. QED
    BY <1>2, <2>2
<1>4. QED
  BY <1>1, <1>3 DEF Frame

LEMMA FrameTrans ==
  ASSUME NEW b, MainInv(b), NEW U, NEW d, MainInv(d), NEW c, Frame(b, d, U), Frame(d, c, U),
         d.unstarted = b.unstarted
  PROVE  Frame(b, c, U)
<1>1. /\ c.up = b.up /\ c.exited = b.exited /\ (c.starts = 0 => b.starts = 0)
      /\ c.unstarted \in {b.unstarted, b.unstarted - 1}
      /\ Len(b.table) = MaxDyn => Len(c.table) = MaxDyn
  BY DEF Frame
<1>2. \A u \in Uid \ U : /\ c.map[u] = b.map[u]
                         /\ b.map[u] # NoObj => c.objs[b.map[u]] = b.objs[b.map[u]]
                         /\ u \in c.removed <=> u \in b.removed
                         /\ u \in c.early <=> u \in b.early
  BY DEF Frame
<1>3. \A i \in c.on : c.objs[c.table[i]].uid \notin U =>
        i \in b.on /\ c.table[i] = b.table[i] /\ c.objs[c.table[i]].uid = b.objs[b.table[i]].uid
  BY DEF Frame
<1>4. \A i \in b.on : b.objs[b.table[i]].uid \notin U =>
        i \in c.on /\ c.objs[c.table[i]].uid = b.objs[b.table[i]].uid
  BY DEF Frame
<1>5. QED
  BY <1>1, <1>2, <1>3, <1>4 DEF Frame

LEMMA FrameSame ==
  ASSUME NEW b, NEW U
  PROVE  Frame(b, b, U)
  BY DEF Frame

LEMMA FrameList ==
  ASSUME NEW b, MainInv(b), NEW us \in SUBSET Uid, NEW U, us \subseteq U,
         NEW c, c = StartupComplete(RegisterInitialDevices(b, us))
  PROVE  Frame(b, c, U)
<1>1. PICK d : d = RegisterInitialDevices(b, us)
  OBVIOUS
<1>2. MainInv(d) /\ RegisteredTo(b, us, d) /\ SameStack(b, d) /\ CompletedTo(d, c)
  BY <1>1, ListKeeps
<1>3. us \in SUBSET U
  OBVIOUS
<1>4. Frame(b, d, U)
  BY <1>2, <1>3, FrameRegistered
<1>5. Frame(d, c, U)
  BY <1>2, FrameCompleted
<1>6. d.unstarted = b.unstarted
  BY <1>2 DEF SameStack
<1>7. QED
  BY <1>2, <1>4, <1>5, <1>6, FrameTrans

LEMMA FrameInfo ==
  ASSUME NEW b, MainInv(b), NEW u \in Uid, NEW U, u \in U,
         NEW d, d = RegisterInitialDevices(b, {u}), NEW c, c = BridgeAdditionalDevice(d, Newest(d))
  PROVE  Frame(b, c, U)
<1>1. /\ MainInv(c) /\ MainInv(d) /\ RegisteredTo(b, {u}, d) /\ SameStack(b, d)
      /\ Newest(d) \in DOMAIN d.objs /\ d.objs[Newest(d)] = NewDevice(u)
      /\ AddedTo(d, u, Newest(d), c)
  BY InfoKeeps
<1>2. {u} \in SUBSET U
  OBVIOUS
<1>3. Frame(b, d, U)
  BY <1>1, <1>2, FrameRegistered
<1>4. Frame(d, c, U)
  BY <1>1, FrameAdded
<1>5. d.unstarted = b.unstarted
  BY <1>1 DEF SameStack
<1>6. QED
  BY <1>1, <1>3, <1>4, <1>5, FrameTrans

LEMMA FrameItem ==
  ASSUME NEW b, MainInv(b), NEW u \in Uid, NEW U, u \in U,
         NEW d, d = NewObject(b, u), NEW c, c = BridgeAdditionalDevice(d, Newest(d))
  PROVE  Frame(b, c, U)
<1>1. /\ MainInv(c) /\ MainInv(d) /\ CreatedTo(b, u, d) /\ AddedTo(d, u, Newest(d), c)
  BY ItemKeeps
<1>2. Newest(d) \in DOMAIN d.objs /\ d.objs[Newest(d)] = NewDevice(u) /\ d.unstarted = b.unstarted
  BY <1>1 DEF CreatedTo
<1>3. Frame(b, d, U)
  BY <1>1, FrameCreated
<1>4. Frame(d, c, U)
  BY <1>1, <1>2, FrameAdded
<1>5. QED
  BY <1>1, <1>2, <1>3, <1>4, FrameTrans

LEMMA FramePush ==
  ASSUME NEW b, MainInv(b), NEW u \in Uid, NEW U, u \in U, NEW is \in BOOLEAN, NEW o, o = b.map[u], o # NoObj,
         NEW c, c = [b EXCEPT !.objs[o].bridgeable = is, !.objs[o].reachable = is /\ b.objs[o].active]
  PROVE  Frame(b, c, U)
<1>1. o \in DOMAIN b.objs /\ b.objs[o].uid = u /\ b.objs[o] \in DeviceObject
  BY MapsInto, FieldTypes
<1>2. ChangedTo(b, o, Pushed(b.objs[o], is), c)
  BY <1>1, PushKeeps
<1>3. Pushed(b.objs[o], is).uid = b.objs[o].uid
  BY <1>1 DEF Pushed, DeviceObject
<1>4. b.objs[o].uid \in U
  BY <1>1
<1>5. QED
  BY <1>1, <1>2, <1>3, <1>4, FrameChanged

LEMMA FrameVanish ==
  ASSUME NEW b, MainInv(b), NEW u \in Uid, NEW U, u \in U, NEW o, o = b.map[u], o # NoObj,
         NEW c, c = RemoveDevice([b EXCEPT !.objs[o].bridgeable = FALSE, !.objs[o].active = FALSE], o)
  PROVE  Frame(b, c, U)
<1>1. o \in DOMAIN b.objs /\ b.objs[o].uid = u /\ b.objs[o] \in DeviceObject
  BY MapsInto, FieldTypes
<1>2. PICK d : MainInv(d) /\ RemovedTo(b, o, d) /\ ChangedTo(d, o, Gone(b.objs[o]), c)
  BY <1>1, VanishKeeps
<1>3. Gone(b.objs[o]).uid = b.objs[o].uid
  BY <1>1 DEF Gone, DeviceObject
<1>4. b.objs[o].uid \in U
  BY <1>1
<1>5. Frame(b, d, U)
  BY <1>1, <1>2, <1>4, FrameRemoved
<1>6. d.objs = b.objs /\ d.unstarted = b.unstarted
  BY <1>2 DEF RemovedTo
<1>7. Frame(d, c, U)
  BY <1>1, <1>2, <1>3, <1>4, <1>6, FrameChanged
<1>8. Frame(b, c, U)
  BY <1>2, <1>5, <1>6, <1>7, FrameTrans
<1>9. QED
  BY <1>8

LEMMA FrameOfP44 ==
  ASSUME MainInv(bridge), P44Next
  PROVE  Frame(bridge, bridge', P44Uid)
<1>1. CASE UNCHANGED bridge
  BY <1>1, FrameSame
<1>2. CASE bridge' = StartupComplete(bridge)
  BY <1>2, StartupCompleteKeeps, FrameCompleted
<1>3. ASSUME NEW us \in SUBSET P44Uid, bridge' = StartupComplete(BridgedDevicesFromJSON(bridge, us))
      PROVE  Frame(bridge, bridge', P44Uid)
  <2>1. us \in SUBSET Uid /\ us \subseteq P44Uid
    BY P44Assumption
  <2>2. bridge' = StartupComplete(RegisterInitialDevices(bridge, us))
    BY <1>3 DEF BridgedDevicesFromJSON
  <2>3. QED
    BY <2>1, <2>2, FrameList
<1>4. ASSUME NEW u \in P44Uid,
             bridge' = LET b == BridgedDevicesFromJSON(bridge, {u}) IN BridgeAdditionalDevice(b, Newest(b))
      PROVE  Frame(bridge, bridge', P44Uid)
  <2>1. PICK d : d = RegisterInitialDevices(bridge, {u})
    OBVIOUS
  <2>2. bridge' = BridgeAdditionalDevice(d, Newest(d)) /\ u \in Uid
    BY <1>4, <2>1, P44Assumption DEF BridgedDevicesFromJSON
  <2>3. QED
    BY <2>1, <2>2, FrameInfo
<1>5. ASSUME NEW u \in P44Uid, NEW is \in BOOLEAN, NEW o, o = bridge.map[u], o # NoObj,
             bridge' = [bridge EXCEPT !.objs[o].bridgeable = is,
                                      !.objs[o].reachable = is /\ bridge.objs[o].active]
      PROVE  Frame(bridge, bridge', P44Uid)
  <2>1. u \in Uid
    BY P44Assumption
  <2>2. QED
    BY <1>5, <2>1, FramePush
<1>6. ASSUME NEW u \in P44Uid, NEW o, o = bridge.map[u], o # NoObj,
             bridge' = RemoveDevice([bridge EXCEPT !.objs[o].bridgeable = FALSE, !.objs[o].active = FALSE], o)
      PROVE  Frame(bridge, bridge', P44Uid)
  <2>1. u \in Uid
    BY P44Assumption
  <2>2. QED
    BY <1>6, <2>1, FrameVanish
<1>7. CASE P44Receive
  <2>1. CASE \E us \in SUBSET P44Uid : P44CollectQuery(us)
    BY <1>3, <2>1 DEF P44CollectQuery
  <2>2. CASE \E us \in SUBSET P44Uid : P44ReconnectQuery(us)
    BY <1>1, <2>2 DEF P44ReconnectQuery
  <2>3. CASE \E u \in P44Uid, is \in BOOLEAN : P44DeviceInfo(u, is)
    BY <1>1, <1>4, <2>3 DEF P44DeviceInfo
  <2>4. CASE \E u \in P44Uid, is \in BOOLEAN : P44Push(u, is)
    BY <1>1, <1>5, <2>4 DEF P44Push
  <2>5. CASE \E u \in P44Uid : P44Vanish(u)
    BY <1>1, <1>6, <2>5 DEF P44Vanish
  <2>6. QED
    BY <1>7, <2>1, <2>2, <2>3, <2>4, <2>5 DEF P44Receive
<1>8. QED
  <2>1. P44ConnectFails => UNCHANGED bridge \/ bridge' = StartupComplete(bridge)
    BY DEF P44ConnectFails
  <2>2. P44Connect \/ VdcAnswer \/ P44Lost \/ (\E u \in P44Uid : VdcChange(u) \/ VdcVanish(u)) => UNCHANGED bridge
    BY DEF P44Connect, VdcAnswer, P44Lost, VdcChange, VdcVanish
  <2>3. QED
    BY <1>1, <1>2, <1>7, <2>1, <2>2 DEF P44Next, P44System

LEMMA FrameOfCC ==
  ASSUME MainInv(bridge), CCNext
  PROVE  Frame(bridge, bridge', CCUid)
<1>1. CASE UNCHANGED bridge
  BY <1>1, FrameSame
<1>2. CASE bridge' = StartupComplete(bridge)
  BY <1>2, StartupCompleteKeeps, FrameCompleted
<1>3. ASSUME NEW us \in SUBSET CCUid, bridge' = StartupComplete(RegisterInitialDevices(bridge, us))
      PROVE  Frame(bridge, bridge', CCUid)
  <2>1. us \in SUBSET Uid /\ us \subseteq CCUid
    BY CCAssumption
  <2>2. QED
    BY <1>3, <2>1, FrameList
<1>4. ASSUME NEW u \in CCUid,
             bridge' = LET b == NewObject(bridge, u) IN BridgeAdditionalDevice(b, Newest(b))
      PROVE  Frame(bridge, bridge', CCUid)
  <2>1. PICK d : d = NewObject(bridge, u)
    OBVIOUS
  <2>2. bridge' = BridgeAdditionalDevice(d, Newest(d)) /\ u \in Uid
    BY <1>4, <2>1, CCAssumption
  <2>3. QED
    BY <2>1, <2>2, FrameItem
<1>5. ASSUME NEW u \in CCUid, bridge.map[u] # NoObj, bridge' = RemoveDevice(bridge, bridge.map[u])
      PROVE  Frame(bridge, bridge', CCUid)
  <2>1. PICK o \in DOMAIN bridge.objs : o = bridge.map[u] /\ bridge.objs[o].uid = u
    BY <1>5, CCAssumption, MapsInto
  <2>2. RemovedTo(bridge, o, bridge')
    BY <1>5, <2>1, RemoveKeeps
  <2>3. bridge.objs[o].uid \in CCUid
    BY <2>1
  <2>4. QED
    BY <2>2, <2>3, FrameRemoved
<1>6. CASE CCReceive
  <2>1. CASE \E what \in {"register", "subscribe"}, ok \in BOOLEAN : CCSetupAnswer(what, ok)
    BY <1>1, <1>2, <2>1 DEF CCSetupAnswer
  <2>2. CASE \E us \in SUBSET CCUid : CCDeviceList(us)
    BY <1>3, <2>2 DEF CCDeviceList
  <2>3. CASE \E u \in CCUid : CCCreated(u)
    BY <1>1, <2>3 DEF CCCreated
  <2>4. CASE \E u \in CCUid : CCDeleted(u)
    BY <1>1, <1>5, <2>4 DEF CCDeleted
  <2>5. CASE \E u \in CCUid, ok \in BOOLEAN : CCItemInfo(u, ok)
    BY <1>1, <1>4, <2>5 DEF CCItemInfo
  <2>6. QED
    BY <1>6, <2>1, <2>2, <2>3, <2>4, <2>5 DEF CCReceive
<1>7. QED
  <2>1. CCConnect \/ CCAnswer \/ CCLost \/ CCAnswerError
          \/ (\E u \in CCUid : ItemCreated(u) \/ ItemDeleted(u)) => UNCHANGED bridge
    BY DEF CCConnect, CCAnswer, CCLost, CCAnswerError, ItemCreated, ItemDeleted, Vitals
  <2>2. QED
    BY <1>1, <1>6, <2>1 DEF CCNext, CCSystem

---------------------------------------------------------------------------

LEMMA AdaptersCount ==
  Cardinality(Adapters) \in Nat /\ Cardinality(Adapters) <= 2
<1>1. IsFiniteSet({"P44", "CC"}) /\ Cardinality({"P44", "CC"}) <= 2
  <2>1. IsFiniteSet({"P44"}) /\ Cardinality({"P44"}) = 1
    BY FS_Singleton
  <2>2. {"P44", "CC"} = {"P44"} \cup {"CC"}
    OBVIOUS
  <2>3. IsFiniteSet({"P44", "CC"}) /\ (Cardinality({"P44", "CC"}) = 1 \/ Cardinality({"P44", "CC"}) = 1 + 1)
    BY <2>1, <2>2, FS_AddElement
  <2>4. QED
    BY <2>3
<1>2. Cardinality(Adapters) <= Cardinality({"P44", "CC"}) /\ IsFiniteSet(Adapters)
  BY <1>1, AdaptersAssumption, FS_Subset
<1>3. Cardinality(Adapters) \in Nat /\ Cardinality({"P44", "CC"}) \in Nat
  BY <1>1, <1>2, FS_CardinalityType
<1>4. QED
  BY <1>1, <1>2, <1>3

LEMMA FirstInit ==
  ASSUME Init
  PROVE  StartupFirst
<1>1. bridge.unstarted = Cardinality(Adapters) /\ toCC = <<>> /\ fromCC = <<>> /\ ~ccSubscribed
  BY DEF Init, InitBridge, CCInit
<1>2. bridge.unstarted <= Cardinality(Adapters)
  BY <1>1, AdaptersCount
<1>3. QED
  BY <1>1, <1>2 DEF StartupFirst

LEMMA FirstStep ==
  ASSUME TypeOK, MainInv(bridge), StartupFirst, [Next]_vars
  PROVE  StartupFirst'
<1>1. bridge.unstarted \in Int /\ Cardinality(Adapters) \in Int
  BY FieldTypes, AdaptersCount
<1>2. ASSUME UNCHANGED ccVars, bridge'.unstarted \in {bridge.unstarted, bridge.unstarted - 1}
      PROVE  StartupFirst'
  <2>1. /\ bridge'.unstarted <= Cardinality(Adapters)
        /\ ~(bridge'.unstarted < Cardinality(Adapters)) => ~(bridge.unstarted < Cardinality(Adapters))
    BY <1>1, <1>2 DEF StartupFirst
  <2>2. (Unconnected /\ (~Completed => ListFirst)) => (Unconnected /\ (~Completed => ListFirst))'
    BY <1>2, <2>1 DEF ccVars, Unconnected, Completed, ListFirst, ListComes, ListIn, ListAsked
  <2>3. QED
    BY <2>1, <2>2, FirstParts DEF StartupFirst, Unconnected, ListFirst
<1>3. CASE UNCHANGED vars
  BY <1>2, <1>3 DEF vars
<1>4. CASE StartChip /\ UNCHANGED <<p44Vars, ccVars>>
  <2>1. bridge.starts > 0 /\ bridge' = [StartedChip(bridge) EXCEPT !.starts = @ - 1]
    BY <1>4 DEF StartChip
  <2>2. bridge'.unstarted = bridge.unstarted
    BY <2>1, ChipKeeps DEF ChippedTo
  <2>3. QED
    BY <1>2, <1>4, <2>2
<1>5. CASE P44Next /\ UNCHANGED ccVars
  BY <1>2, <1>5, FrameOfP44 DEF Frame
<1>6. CASE CCNext
  BY <1>1, <1>6, FirstOfCC DEF TypeOK
<1>7. QED
  BY <1>3, <1>4, <1>5, <1>6 DEF Next

\* As long as no adapter has completed its startup, the CC adapter has not asked for
\* an item before the list of all of them.
THEOREM StartupAlwaysFirst == Spec => []StartupFirst
<1>1. TypeOK /\ MainInv(bridge) /\ StartupFirst /\ [Next]_vars => StartupFirst'
  BY FirstStep
<1>2. QED
  BY <1>1, FirstInit, TypeCorrect, MainAlways, PTL DEF Spec

---------------------------------------------------------------------------
(* What the P44 adapter knows, and will know.                              *)

\* The first message is handled.
LEMMA HandledKnows ==
  ASSUME NEW q, NEW t, Shorter(q, t), NEW b, NEW w, NEW c, NEW x, NEW u, NEW is,
         NEW n \in 1 .. Len(q), WillKnow(b, w, q, n, u, is),
         About(q[1], u) /\ Tells(q[1], u, is) => Knows(c, x, u, is),
         ~About(q[1], u) /\ Knows(b, w, u, is) => Knows(c, x, u, is)
  PROVE  WillKnow(c, x, t, n - 1, u, is)
<1>1. n \in Nat /\ n - 1 \in Nat /\ Len(q) \in Nat /\ \A j \in 1 .. n - 1 : j + 1 \in 1 .. n /\ t[j] = q[j + 1]
  BY DEF Shorter
<1>2. CASE (\A j \in 1 .. n : ~About(q[j], u)) /\ Knows(b, w, u, is)
  <2>1. \A j \in 1 .. n - 1 : ~About(t[j], u)
    BY <1>1, <1>2
  <2>2. 1 \in 1 .. n
    BY <1>1
  <2>3. QED
    BY <1>2, <2>1, <2>2 DEF WillKnow
<1>3. ASSUME NEW k \in 1 .. n, About(q[k], u), Tells(q[k], u, is), \A j \in k + 1 .. n : ~About(q[j], u)
      PROVE  WillKnow(c, x, t, n - 1, u, is)
  <2>1. CASE k = 1
    <3>1. \A j \in 1 .. n - 1 : ~About(t[j], u)
      BY <1>1, <1>3, <2>1
    <3>2. Knows(c, x, u, is)
      BY <1>3, <2>1
    <3>3. QED
      BY <3>1, <3>2 DEF WillKnow
  <2>2. CASE k # 1
    <3>1. PICK i \in 1 .. n - 1 : k = i + 1
      <4>1. k - 1 \in 1 .. n - 1 /\ k = (k - 1) + 1
        BY <1>1, <2>2
      <4>2. QED
        BY <4>1
    <3>2. t[i] = q[k]
      BY <1>1, <3>1
    <3>3. \A j \in i + 1 .. n - 1 : j + 1 \in k + 1 .. n /\ t[j] = q[j + 1]
      BY <1>1, <3>1
    <3>4. \A j \in i + 1 .. n - 1 : ~About(t[j], u)
      BY <1>3, <3>3
    <3>5. QED
      BY <1>3, <3>1, <3>2, <3>4 DEF WillKnow
  <2>3. QED
    BY <2>1, <2>2
<1>4. QED
  BY <1>2, <1>3 DEF WillKnow

\* What is known of a device without a message about it stays known.
LEMMA StillKnows ==
  ASSUME NEW q, NEW t, NEW n \in Nat, \A k \in 1 .. n : t[k] = q[k],
         NEW b, NEW w, NEW c, NEW x, NEW u, NEW is,
         WillKnow(b, w, q, n, u, is), Knows(b, w, u, is) => Knows(c, x, u, is)
  PROVE  WillKnow(c, x, t, n, u, is)
<1>1. CASE (\A j \in 1 .. n : ~About(q[j], u)) /\ Knows(b, w, u, is)
  BY <1>1 DEF WillKnow
<1>2. ASSUME NEW k \in 1 .. n, About(q[k], u), Tells(q[k], u, is), \A j \in k + 1 .. n : ~About(q[j], u)
      PROVE  WillKnow(c, x, t, n, u, is)
  <2>1. \A j \in k + 1 .. n : j \in 1 .. n
    OBVIOUS
  <2>2. QED
    BY <1>2, <2>1 DEF WillKnow
<1>3. QED
  BY <1>1, <1>2 DEF WillKnow

\* One more message is on its way.
LEMMA ToldKnows ==
  ASSUME NEW q, NEW m, NEW t, Longer(q, m, t), NEW b, NEW w, NEW c, NEW x, NEW u, NEW is,
         \/ About(m, u) /\ Tells(m, u, is)
         \/ /\ ~About(m, u) /\ WillKnow(b, w, q, Len(q), u, is)
            /\ Knows(b, w, u, is) => Knows(c, x, u, is)
  PROVE  WillKnow(c, x, t, Len(t), u, is)
<1>1. /\ Len(q) \in Nat /\ Len(t) = Len(q) + 1 /\ t[Len(t)] = m
      /\ \A k \in 1 .. Len(q) : t[k] = q[k]
      /\ \A k \in 1 .. Len(t) : k = Len(t) \/ k \in 1 .. Len(q)
  BY DEF Longer
<1>2. CASE About(m, u) /\ Tells(m, u, is)
  <2>1. Len(t) \in 1 .. Len(t) /\ \A j \in Len(t) + 1 .. Len(t) : FALSE
    BY <1>1
  <2>2. QED
    BY <1>1, <1>2, <2>1 DEF WillKnow
<1>3. CASE ~About(m, u) /\ WillKnow(b, w, q, Len(q), u, is) /\ (Knows(b, w, u, is) => Knows(c, x, u, is))
  <2>1. WillKnow(c, x, t, Len(q), u, is)
    BY <1>1, <1>3, StillKnows
  <2>2. CASE (\A j \in 1 .. Len(q) : ~About(t[j], u)) /\ Knows(c, x, u, is)
    BY <1>1, <1>3, <2>2 DEF WillKnow
  <2>3. ASSUME NEW k \in 1 .. Len(q), About(t[k], u), Tells(t[k], u, is),
               \A j \in k + 1 .. Len(q) : ~About(t[j], u)
        PROVE  WillKnow(c, x, t, Len(t), u, is)
    <3>1. k \in 1 .. Len(t) /\ \A j \in k + 1 .. Len(t) : j = Len(t) \/ j \in k + 1 .. Len(q)
      BY <1>1
    <3>2. QED
      BY <1>1, <1>3, <2>3, <3>1 DEF WillKnow
  <2>4. QED
    BY <2>1, <2>2, <2>3 DEF WillKnow
<1>4. QED
  BY <1>2, <1>3

\* Membership as a value.
LEMMA Truth ==
  ASSUME NEW S, NEW x
  PROVE  /\ \E is \in BOOLEAN : is = (x \in S)
         /\ x \notin S => (x \in S) = FALSE
<1>1. CASE x \in S
  <2>1. (x \in S) = TRUE
    BY <1>1
  <2>2. QED
    BY <1>1, <2>1
<1>2. CASE x \notin S
  <2>1. (x \in S) = FALSE
    BY <1>2
  <2>2. QED
    BY <1>2, <2>1
<1>3. QED
  BY <1>1, <1>2

\* What a handler leaves alone of a device is known as before.
LEMMA KnowsSame ==
  ASSUME NEW b, NEW c, NEW u, c.map[u] = b.map[u],
         b.map[u] # NoObj => c.objs[b.map[u]].bridgeable = b.objs[b.map[u]].bridgeable,
         NEW w, NEW x, w => x, NEW is, Knows(b, w, u, is)
  PROVE  Knows(c, x, u, is)
  BY DEF Knows

LEMMA InformedAnswer ==
  ASSUME P44TypeOK, Informed, VdcAnswer
  PROVE  Informed'
<1>1. /\ toVdc \in Seq(Call) /\ fromVdc \in Seq(Message) /\ bridgeables \in SUBSET P44Uid
      /\ toVdc # <<>> /\ toVdc' = Tail(toVdc) /\ p44Connected
      /\ UNCHANGED <<bridge, p44Connected, p44Once, bridgeables>>
  BY DEF P44TypeOK, VdcAnswer
<1>2. Shorter(toVdc, toVdc') /\ Head(toVdc) = toVdc[1] /\ 1 \in DOMAIN toVdc
  BY <1>1, ShorterTail
<1>3. PICK c : c = toVdc[1]
  OBVIOUS
<1>4. c \in Call /\ c.call # "reconnect" /\ c.call \in {"initial", "info"}
  BY <1>1, <1>2, <1>3 DEF Informed, InitialFirst, Call
<1>5. PICK m \in Message :
        /\ fromVdc' = Append(fromVdc, m) /\ m.msg = c.call
        /\ m.msg = "initial" => m.uids = bridgeables
        /\ m.msg = "info" => c.uid \in P44Uid /\ m.uid = c.uid /\ m.bridgeable = (c.uid \in bridgeables)
  <2>1. CASE c.call = "info"
    <3>1. c.uid \in P44Uid
      BY <1>4, <2>1 DEF Call
    <3>2. PICK is \in BOOLEAN : is = (c.uid \in bridgeables)
      BY Truth
    <3>3. PICK m : m = [msg |-> "info", uid |-> c.uid, bridgeable |-> is]
      OBVIOUS
    <3>4. m \in Message
      BY <3>1, <3>3 DEF Message
    <3>5. fromVdc' = Append(fromVdc, m)
      BY <1>2, <1>3, <2>1, <3>2, <3>3 DEF VdcAnswer
    <3>6. QED
      BY <2>1, <3>1, <3>2, <3>3, <3>4, <3>5
  <2>2. CASE c.call = "initial"
    <3>1. PICK m : m = [msg |-> "initial", uids |-> bridgeables]
      OBVIOUS
    <3>2. m \in Message
      BY <1>1, <3>1 DEF Message
    <3>3. fromVdc' = Append(fromVdc, m)
      BY <1>2, <1>3, <2>2, <3>1 DEF VdcAnswer
    <3>4. QED
      BY <2>2, <3>1, <3>2, <3>3
  <2>3. QED
    BY <1>4, <2>1, <2>2
<1>6. Longer(fromVdc, m, fromVdc')
  BY <1>1, <1>5, LongerAppend
<1>7. Initial' => Initial
  BY <1>1, <1>2, <1>3, <1>5, <1>6 DEF Initial, Shorter, Longer
<1>8. InitialFirst'
  <2>1. p44Once' = p44Connected' /\ (~p44Connected' => toVdc' = <<>> /\ fromVdc' = <<>>)
    BY <1>1 DEF Informed, InitialFirst
  <2>2. \A k \in DOMAIN toVdc' : toVdc'[k].call # "reconnect" /\ toVdc'[k].call # "initial"
    BY <1>2 DEF Informed, InitialFirst, Shorter
  <2>3. \A k \in DOMAIN fromVdc' : fromVdc'[k].msg # "reconnect"
    BY <1>4, <1>5, <1>6 DEF Informed, InitialFirst, Longer
  <2>4. toVdc' # <<>> => toVdc'[1].call # "initial"
    <3>1. toVdc' # <<>> => 1 \in DOMAIN toVdc'
      BY <1>1
    <3>2. QED
      BY <2>2, <3>1
  <2>5. \A j, k \in DOMAIN fromVdc' : j < k =>
          fromVdc'[k].msg # "initial" \/ fromVdc'[j].msg \notin {"initial", "info"}
    <3> SUFFICES ASSUME NEW j \in DOMAIN fromVdc', NEW k \in DOMAIN fromVdc', j < k,
                        fromVdc'[k].msg = "initial"
                 PROVE  fromVdc'[j].msg \notin {"initial", "info"}
      OBVIOUS
    <3>1. j # Len(fromVdc') /\ j \in DOMAIN fromVdc /\ fromVdc'[j] = fromVdc[j]
      BY <1>6 DEF Longer
    <3>2. CASE k = Len(fromVdc')
      <4>1. c.call = "initial"
        BY <1>5, <1>6, <3>2 DEF Longer
      <4>2. QED
        BY <1>1, <1>3, <3>1, <4>1 DEF Informed, InitialFirst
    <3>3. CASE k # Len(fromVdc')
      BY <1>6, <3>1, <3>3 DEF Longer, Informed, InitialFirst
    <3>4. QED
      BY <3>2, <3>3
  <2>6. QED
    BY <2>1, <2>2, <2>3, <2>4, <2>5 DEF InitialFirst
<1>9. NoneMapped' /\ OthersStarted' /\ MappedInPlace'
  BY <1>1, <1>7 DEF Informed, NoneMapped, OthersStarted, MappedInPlace
<1>10. LastToldHolds'
  <2> SUFFICES ASSUME NEW u \in P44Uid
               PROVE  WillKnow(bridge', Waits(u)', fromVdc', Len(fromVdc'), u, u \in bridgeables')
    BY DEF LastToldHolds
  <2>1. PICK is \in BOOLEAN : is = (u \in bridgeables)
    BY Truth
  <2>2. WillKnow(bridge, Waits(u), fromVdc, Len(fromVdc), u, is)
    BY <2>1 DEF Informed, LastToldHolds
  <2>3. About(m, u) => Tells(m, u, is)
    BY <1>4, <1>5, <2>1 DEF About, Tells
  <2>4. ~About(m, u) /\ Waits(u) => Waits(u)'
    <3> SUFFICES ASSUME ~About(m, u), NEW k \in DOMAIN toVdc,
                        toVdc[k].call = "initial" \/ toVdc[k] = [call |-> "info", uid |-> u]
                 PROVE  Waits(u)'
      BY <1>1 DEF Waits
    <3>1. k # 1
      BY <1>3, <1>5 DEF About
    <3>2. k - 1 \in DOMAIN toVdc' /\ toVdc'[k - 1] = toVdc[k]
      BY <1>2, <3>1 DEF Shorter
    <3>3. QED
      BY <3>2 DEF Waits
  <2>5. ~About(m, u) /\ Knows(bridge, Waits(u), u, is) => Knows(bridge', Waits(u)', u, is)
    BY <1>1, <2>4 DEF Knows
  <2>6. WillKnow(bridge', Waits(u)', fromVdc', Len(fromVdc'), u, is)
    BY <1>6, <2>2, <2>3, <2>5, ToldKnows
  <2>7. QED
    BY <1>1, <2>1, <2>6
<1>11. RefusalKnown'
  <2> SUFFICES ASSUME NEW k \in DOMAIN fromVdc', fromVdc'[k].msg = "info", ~fromVdc'[k].bridgeable
               PROVE  WillKnow(bridge', TRUE, fromVdc', k - 1, fromVdc'[k].uid, FALSE)
    BY DEF RefusalKnown
  <2>1. PICK u : u = fromVdc'[k].uid
    OBVIOUS
  <2>2. k - 1 \in Nat /\ k - 1 <= Len(fromVdc) /\ \A j \in 1 .. k - 1 : fromVdc'[j] = fromVdc[j]
    BY <1>6 DEF Longer
  <2>3. \E w : WillKnow(bridge, w, fromVdc, k - 1, u, FALSE)
    <3>1. CASE k = Len(fromVdc')
      <4>1. fromVdc'[k] = m /\ k - 1 = Len(fromVdc)
        BY <1>6, <3>1 DEF Longer
      <4>2. u \in P44Uid /\ (u \in bridgeables) = FALSE
        <5>1. u \in P44Uid /\ u \notin bridgeables
          BY <1>5, <2>1, <4>1
        <5>2. QED
          BY <5>1, Truth
      <4>3. WillKnow(bridge, Waits(u), fromVdc, Len(fromVdc), u, FALSE)
        BY <4>2 DEF Informed, LastToldHolds
      <4>4. QED
        BY <4>1, <4>3
    <3>2. CASE k # Len(fromVdc')
      <4>1. k \in DOMAIN fromVdc /\ fromVdc'[k] = fromVdc[k]
        BY <1>6, <3>2 DEF Longer
      <4>2. WillKnow(bridge, TRUE, fromVdc, k - 1, u, FALSE)
        BY <2>1, <4>1 DEF Informed, RefusalKnown
      <4>3. QED
        BY <4>2
    <3>3. QED
      BY <3>1, <3>2
  <2>4. PICK w : WillKnow(bridge, w, fromVdc, k - 1, u, FALSE)
    BY <2>3
  <2>5. Knows(bridge, w, u, FALSE) => Knows(bridge', TRUE, u, FALSE)
    BY <1>1 DEF Knows
  <2>6. WillKnow(bridge', TRUE, fromVdc', k - 1, u, FALSE)
    BY <2>2, <2>4, <2>5, StillKnows
  <2>7. QED
    BY <2>1, <2>6
<1>12. QED
  BY <1>8, <1>9, <1>10, <1>11 DEF Informed

\* A notification of a change of the device u.
LEMMA InformedNotified ==
  ASSUME P44TypeOK, Informed, UNCHANGED <<bridge, p44Connected, p44Once, toVdc>>,
         NEW u \in P44Uid, NEW m \in Message, Notify(m), m.msg \in {"push", "vanish"}, m.uid = u,
         Tells(m, u, u \in bridgeables'), \A v \in P44Uid : v # u => (v \in bridgeables' <=> v \in bridgeables)
  PROVE  Informed'
<1>1. /\ toVdc \in Seq(Call) /\ fromVdc \in Seq(Message)
      /\ UNCHANGED <<bridge, p44Connected, p44Once, toVdc>>
      /\ m.msg \in {"push", "vanish"} /\ m.uid = u
  BY DEF P44TypeOK
<1>2. CASE ~p44Connected
  <2>1. fromVdc = <<>> /\ fromVdc' = fromVdc /\ Initial
    BY <1>2 DEF Informed, InitialFirst, Notify, Initial
  <2>2. InitialFirst' /\ NoneMapped' /\ OthersStarted' /\ MappedInPlace'
    BY <1>1, <2>1 DEF Informed, InitialFirst, NoneMapped, OthersStarted, MappedInPlace, Initial
  <2>3. RefusalKnown'
    BY <2>1 DEF RefusalKnown
  <2>4. LastToldHolds'
    <3> SUFFICES ASSUME NEW v \in P44Uid
                 PROVE  WillKnow(bridge', Waits(v)', fromVdc', Len(fromVdc'), v, v \in bridgeables')
      BY DEF LastToldHolds
    <3>1. Waits(v)' /\ bridge'.map[v] = NoObj
      BY <1>1, <1>2, <2>1 DEF Informed, NoneMapped, Waits
    <3>2. Knows(bridge', Waits(v)', v, v \in bridgeables')
      BY <3>1 DEF Knows
    <3>3. \A j \in 1 .. Len(fromVdc') : FALSE
      BY <2>1
    <3>4. QED
      BY <3>2, <3>3 DEF WillKnow
  <2>5. QED
    BY <2>2, <2>3, <2>4 DEF Informed
<1>3. CASE p44Connected
  <2>1. Longer(fromVdc, m, fromVdc')
    <3>1. fromVdc' = Append(fromVdc, m)
      BY <1>3 DEF Notify
    <3>2. QED
      BY <1>1, <3>1, LongerAppend
  <2>2. Initial' <=> Initial
    BY <1>1, <2>1 DEF Initial, Longer
  <2>3. NoneMapped' /\ OthersStarted' /\ MappedInPlace'
    BY <1>1, <2>2 DEF Informed, NoneMapped, OthersStarted, MappedInPlace
  <2>4. InitialFirst'
    <3>1. /\ p44Once' = p44Connected' /\ p44Connected'
          /\ \A k \in DOMAIN toVdc' : toVdc'[k].call # "reconnect" /\ (toVdc'[k].call = "initial" => k = 1)
      BY <1>1, <1>3 DEF Informed, InitialFirst
    <3>2. \A k \in DOMAIN fromVdc' : fromVdc'[k].msg # "reconnect"
      BY <1>1, <2>1 DEF Informed, InitialFirst, Longer
    <3>3. toVdc' # <<>> /\ toVdc'[1].call = "initial" =>
            \A k \in DOMAIN fromVdc' : fromVdc'[k].msg \notin {"initial", "info"}
      BY <1>1, <2>1 DEF Informed, InitialFirst, Longer
    <3>4. \A j, k \in DOMAIN fromVdc' : j < k =>
            fromVdc'[k].msg # "initial" \/ fromVdc'[j].msg \notin {"initial", "info"}
      BY <1>1, <2>1 DEF Informed, InitialFirst, Longer
    <3>5. QED
      BY <3>1, <3>2, <3>3, <3>4 DEF InitialFirst
  <2>5. LastToldHolds'
    <3> SUFFICES ASSUME NEW v \in P44Uid
                 PROVE  WillKnow(bridge', Waits(v)', fromVdc', Len(fromVdc'), v, v \in bridgeables')
      BY DEF LastToldHolds
    <3>1. PICK is \in BOOLEAN : is = (v \in bridgeables')
      BY Truth
    <3>2. CASE v = u
      <4>1. About(m, v) /\ Tells(m, v, is)
        BY <1>1, <3>1, <3>2 DEF About
      <4>2. WillKnow(bridge', Waits(v)', fromVdc', Len(fromVdc'), v, is)
        BY <2>1, <4>1, ToldKnows
      <4>3. QED
        BY <3>1, <4>2
    <3>3. CASE v # u
      <4>1. ~About(m, v) /\ is = (v \in bridgeables)
        BY <1>1, <3>1, <3>3 DEF About
      <4>2. WillKnow(bridge, Waits(v), fromVdc, Len(fromVdc), v, is)
        BY <4>1 DEF Informed, LastToldHolds
      <4>3. Knows(bridge, Waits(v), v, is) => Knows(bridge', Waits(v)', v, is)
        <5>1. Waits(v) => Waits(v)'
          BY <1>1 DEF Waits
        <5>2. QED
          BY <1>1, <5>1 DEF Knows
      <4>4. WillKnow(bridge', Waits(v)', fromVdc', Len(fromVdc'), v, is)
        BY <2>1, <4>1, <4>2, <4>3, ToldKnows
      <4>5. QED
        BY <3>1, <4>4
    <3>4. QED
      BY <3>2, <3>3
  <2>6. RefusalKnown'
    <3> SUFFICES ASSUME NEW k \in DOMAIN fromVdc', fromVdc'[k].msg = "info", ~fromVdc'[k].bridgeable
                 PROVE  WillKnow(bridge', TRUE, fromVdc', k - 1, fromVdc'[k].uid, FALSE)
      BY DEF RefusalKnown
    <3>1. k \in DOMAIN fromVdc /\ fromVdc'[k] = fromVdc[k]
      BY <1>1, <2>1 DEF Longer
    <3>2. k - 1 \in Nat /\ \A j \in 1 .. k - 1 : fromVdc'[j] = fromVdc[j]
      BY <2>1, <3>1 DEF Longer
    <3>3. WillKnow(bridge, TRUE, fromVdc, k - 1, fromVdc[k].uid, FALSE)
      BY <3>1 DEF Informed, RefusalKnown
    <3>4. PICK v : v = fromVdc[k].uid
      OBVIOUS
    <3>5. Knows(bridge, TRUE, v, FALSE) => Knows(bridge', TRUE, v, FALSE)
      BY <1>1
    <3>6. WillKnow(bridge', TRUE, fromVdc', k - 1, v, FALSE)
      <4>1. WillKnow(bridge, TRUE, fromVdc, k - 1, v, FALSE)
        BY <3>3, <3>4
      <4>2. QED
        BY <3>2, <3>5, <4>1, StillKnows
    <3>7. QED
      BY <3>1, <3>4, <3>6
  <2>7. QED
    BY <2>3, <2>4, <2>5, <2>6 DEF Informed
<1>4. QED
  BY <1>2, <1>3 DEF P44TypeOK

LEMMA InformedConnect ==
  ASSUME P44TypeOK, Informed, P44Connect
  PROVE  Informed'
<1>1. /\ ~p44Connected /\ p44Connected' /\ p44Once' /\ UNCHANGED <<bridge, fromVdc, bridgeables>>
  BY DEF P44Connect
<1>2. ~p44Once /\ toVdc = <<>> /\ fromVdc = <<>> /\ Initial
  BY <1>1 DEF Informed, InitialFirst, Initial
<1>3. toVdc' = <<[call |-> "initial"]>>
  BY <1>2 DEF P44Connect
<1>4. DOMAIN toVdc' = {1} /\ toVdc'[1].call = "initial" /\ fromVdc' = <<>>
  BY <1>1, <1>2, <1>3
<1>5. InitialFirst'
  <2>1. p44Once' = p44Connected'
    BY DEF P44Connect
  <2>2. QED
    BY <1>1, <1>4, <2>1 DEF InitialFirst
<1>6. NoneMapped' /\ OthersStarted' /\ MappedInPlace'
  BY <1>1, <1>2 DEF Informed, NoneMapped, OthersStarted, MappedInPlace
<1>7. RefusalKnown'
  BY <1>4 DEF RefusalKnown
<1>8. LastToldHolds'
  <2> SUFFICES ASSUME NEW v \in P44Uid
               PROVE  WillKnow(bridge', Waits(v)', fromVdc', Len(fromVdc'), v, v \in bridgeables')
    BY DEF LastToldHolds
  <2>1. Waits(v)' /\ bridge'.map[v] = NoObj
    BY <1>1, <1>2, <1>4 DEF Informed, NoneMapped, Waits
  <2>2. Knows(bridge', Waits(v)', v, v \in bridgeables')
    BY <2>1 DEF Knows
  <2>3. \A j \in 1 .. Len(fromVdc') : FALSE
    BY <1>4
  <2>4. QED
    BY <2>2, <2>3 DEF WillKnow
<1>9. QED
  BY <1>5, <1>6, <1>7, <1>8 DEF Informed

\* A message is handled, which may lead to questions.
LEMMA InitialFirstReceived ==
  ASSUME P44TypeOK, InitialFirst, fromVdc # <<>>, fromVdc' = Tail(fromVdc), UNCHANGED <<p44Connected, p44Once>>,
         Added(toVdc, toVdc'), \A k \in DOMAIN toVdc' : k \notin DOMAIN toVdc => toVdc'[k].call = "info"
  PROVE  /\ InitialFirst' /\ p44Connected
         /\ Initial' => Initial /\ fromVdc[1].msg \notin {"initial", "info"}
         /\ fromVdc[1].msg = "initial" => Initial
<1>1. Shorter(fromVdc, fromVdc') /\ 1 \in DOMAIN fromVdc
  BY ShorterTail DEF P44TypeOK
<1>2. p44Once = p44Connected /\ p44Connected /\ p44Connected' /\ p44Once' = p44Connected'
  BY DEF InitialFirst
<1>3. \A k \in DOMAIN toVdc' : /\ toVdc'[k].call # "reconnect"
                               /\ toVdc'[k].call = "initial" => k = 1 /\ k \in DOMAIN toVdc /\ toVdc[k].call = "initial"
  BY DEF InitialFirst, Added
<1>4. \A k \in DOMAIN fromVdc' : k + 1 \in DOMAIN fromVdc /\ k \in Nat /\ fromVdc'[k] = fromVdc[k + 1]
  BY <1>1 DEF Shorter
<1>5. toVdc' # <<>> /\ toVdc'[1].call = "initial" => toVdc # <<>> /\ toVdc[1].call = "initial"
  <2>1. toVdc' # <<>> => 1 \in DOMAIN toVdc'
    BY DEF Added
  <2>2. 1 \in DOMAIN toVdc => toVdc # <<>>
    OBVIOUS
  <2>3. QED
    BY <1>3, <2>1, <2>2
<1>6. InitialFirst'
  <2>1. toVdc' # <<>> /\ toVdc'[1].call = "initial" =>
          \A k \in DOMAIN fromVdc' : fromVdc'[k].msg \notin {"initial", "info"}
    BY <1>4, <1>5 DEF InitialFirst
  <2>2. \A j, k \in DOMAIN fromVdc' : j < k =>
          fromVdc'[k].msg # "initial" \/ fromVdc'[j].msg \notin {"initial", "info"}
    <3> SUFFICES ASSUME NEW j \in DOMAIN fromVdc', NEW k \in DOMAIN fromVdc', j < k
                 PROVE  fromVdc'[k].msg # "initial" \/ fromVdc'[j].msg \notin {"initial", "info"}
      OBVIOUS
    <3>1. j + 1 < k + 1
      BY <1>4
    <3>2. QED
      BY <1>4, <3>1 DEF InitialFirst
  <2>3. \A k \in DOMAIN fromVdc' : fromVdc'[k].msg # "reconnect"
    BY <1>4 DEF InitialFirst
  <2>4. QED
    BY <1>2, <1>3, <2>1, <2>2, <2>3 DEF InitialFirst
<1>7. ASSUME Initial'
      PROVE  Initial /\ fromVdc[1].msg \notin {"initial", "info"}
  <2>1. CASE \E k \in DOMAIN toVdc' : toVdc'[k].call = "initial"
    <3>1. 1 \in DOMAIN toVdc /\ toVdc[1].call = "initial"
      BY <1>3, <2>1
    <3>2. toVdc # <<>>
      BY <3>1
    <3>3. QED
      BY <1>1, <3>1, <3>2 DEF Initial, InitialFirst
  <2>2. ASSUME NEW k \in DOMAIN fromVdc', fromVdc'[k].msg = "initial"
        PROVE  Initial /\ fromVdc[1].msg \notin {"initial", "info"}
    <3>1. fromVdc[k + 1].msg = "initial" /\ k + 1 \in DOMAIN fromVdc /\ 1 < k + 1
      BY <1>1, <1>4, <2>2 DEF Shorter
    <3>2. QED
      BY <1>1, <3>1 DEF Initial, InitialFirst
  <2>3. QED
    BY <1>2, <1>7, <2>1, <2>2 DEF Initial
<1>8. QED
  BY <1>1, <1>2, <1>6, <1>7 DEF Initial

LEMMA KnownReceived ==
  ASSUME P44TypeOK, LastToldHolds, RefusalKnown, fromVdc # <<>>, fromVdc' = Tail(fromVdc), UNCHANGED bridgeables,
         \A u \in P44Uid, is \in BOOLEAN :
           /\ About(fromVdc[1], u) /\ Tells(fromVdc[1], u, is) => Knows(bridge', Waits(u)', u, is)
           /\ ~About(fromVdc[1], u) /\ Knows(bridge, Waits(u), u, is) => Knows(bridge', Waits(u)', u, is)
  PROVE  LastToldHolds' /\ RefusalKnown'
<1>1. /\ Shorter(fromVdc, fromVdc') /\ 1 \in DOMAIN fromVdc /\ Len(fromVdc) \in 1 .. Len(fromVdc)
      /\ Len(fromVdc') = Len(fromVdc) - 1 /\ fromVdc \in Seq(Message)
  BY ShorterTail DEF P44TypeOK, Shorter
<1>2. LastToldHolds'
  <2> SUFFICES ASSUME NEW u \in P44Uid
               PROVE  WillKnow(bridge', Waits(u)', fromVdc', Len(fromVdc'), u, u \in bridgeables')
    BY DEF LastToldHolds
  <2>1. PICK is \in BOOLEAN : is = (u \in bridgeables)
    BY Truth
  <2>2. WillKnow(bridge, Waits(u), fromVdc, Len(fromVdc), u, is)
    BY <2>1 DEF LastToldHolds
  <2>3. WillKnow(bridge', Waits(u)', fromVdc', Len(fromVdc) - 1, u, is)
    BY <1>1, <2>2, HandledKnows
  <2>4. QED
    BY <1>1, <2>1, <2>3
<1>3. RefusalKnown'
  <2> SUFFICES ASSUME NEW k \in DOMAIN fromVdc', fromVdc'[k].msg = "info", ~fromVdc'[k].bridgeable
               PROVE  WillKnow(bridge', TRUE, fromVdc', k - 1, fromVdc'[k].uid, FALSE)
    BY DEF RefusalKnown
  <2>1. PICK u : u = fromVdc'[k].uid
    OBVIOUS
  <2>2. /\ k + 1 \in DOMAIN fromVdc /\ fromVdc[k + 1] = fromVdc'[k] /\ (k + 1) - 1 = k
        /\ k \in 1 .. Len(fromVdc) /\ k \in Nat
    BY <1>1 DEF Shorter
  <2>3. u \in P44Uid
    BY <1>1, <2>1, <2>2 DEF Message
  <2>4. WillKnow(bridge, TRUE, fromVdc, k, u, FALSE)
    BY <2>1, <2>2 DEF RefusalKnown
  <2>5. \A b, w, x : Knows(b, w, u, FALSE) => Knows(b, x, u, FALSE)
    BY DEF Knows
  <2>6. /\ About(fromVdc[1], u) /\ Tells(fromVdc[1], u, FALSE) => Knows(bridge', TRUE, u, FALSE)
        /\ ~About(fromVdc[1], u) /\ Knows(bridge, TRUE, u, FALSE) => Knows(bridge', TRUE, u, FALSE)
    <3>1. FALSE \in BOOLEAN
      OBVIOUS
    <3>2. QED
      BY <2>3, <2>5, <3>1
  <2>7. WillKnow(bridge', TRUE, fromVdc', k - 1, u, FALSE)
    BY <1>1, <2>2, <2>4, <2>6, HandledKnows
  <2>8. QED
    BY <2>1, <2>7
<1>4. QED
  BY <1>2, <1>3

---------------------------------------------------------------------------
(* What a handler leaves alone stays as it is.                             *)

\* A device that a handler leaves alone stays in its place.
LEMMA FrameInPlace ==
  ASSUME NEW b, MainInv(b), NEW U, NEW c, Frame(b, c, U), NEW u \in Uid \ U, InPlace(b, u)
  PROVE  InPlace(c, u)
<1> SUFFICES ASSUME c.map[u] # NoObj
             PROVE  c.objs[c.map[u]].ep \in c.on \/ u \in c.removed \/ Len(c.table) = MaxDyn
  BY DEF InPlace
<1>1. PICK o : o = b.map[u]
  OBVIOUS
<1>2. /\ c.map[u] = o /\ o # NoObj /\ c.objs[o] = b.objs[o] /\ (u \in c.removed <=> u \in b.removed)
      /\ Len(b.table) = MaxDyn => Len(c.table) = MaxDyn
  BY <1>1 DEF Frame
<1>3. o \in DOMAIN b.objs /\ b.objs[o].uid = u
  BY <1>1, <1>2, MapsInto
<1>4. ASSUME b.objs[o].ep \in b.on
      PROVE  c.objs[o].ep \in c.on
  <2>1. PICK i : i = b.objs[o].ep
    OBVIOUS
  <2>2. i \in DOMAIN b.table /\ DOMAIN b.table = 1 .. Len(b.table) /\ i # NoEp
    BY <1>4, <2>1, MapsInto, FieldTypes DEF NoEp
  <2>3. b.table[i] = o
    BY <1>3, <2>1, <2>2 DEF MainInv, EndpointsFit
  <2>4. i \in c.on
    BY <1>3, <1>4, <2>1, <2>3 DEF Frame
  <2>5. QED
    BY <1>2, <2>1, <2>4
<1>5. QED
  BY <1>1, <1>2, <1>4 DEF InPlace

\* What it leaves alone of a device is known as before.
LEMMA FrameKnows ==
  ASSUME NEW b, NEW U, NEW c, Frame(b, c, U), NEW u \in Uid \ U, NEW w, NEW x, w => x,
         NEW is, Knows(b, w, u, is)
  PROVE  Knows(c, x, u, is)
<1>1. c.map[u] = b.map[u] /\ (b.map[u] # NoObj => c.objs[b.map[u]] = b.objs[b.map[u]])
  BY DEF Frame
<1>2. QED
  BY <1>1 DEF Knows

---------------------------------------------------------------------------
(* The handlers of the P44 adapter.                                        *)

LEMMA InformedInitial ==
  ASSUME P44TypeOK, MainInv(bridge), Informed, NEW us \in SUBSET P44Uid, P44CollectQuery(us)
  PROVE  Informed'
<1>1. /\ fromVdc # <<>> /\ Head(fromVdc) = [msg |-> "initial", uids |-> us] /\ fromVdc' = Tail(fromVdc)
      /\ UNCHANGED <<p44Connected, p44Once, bridgeables, toVdc>>
      /\ bridge' = StartupComplete(RegisterInitialDevices(bridge, us))
  BY DEF P44CollectQuery, Received, BridgedDevicesFromJSON
<1>2. fromVdc[1].msg = "initial" /\ fromVdc[1].uids = us
  BY <1>1, ShorterTail DEF P44TypeOK
<1>3. InitialFirst' /\ Initial /\ ~Initial'
  <2>1. Added(toVdc, toVdc') /\ \A k \in DOMAIN toVdc' : k \in DOMAIN toVdc
    BY <1>1, AddedNone DEF P44TypeOK
  <2>2. InitialFirst
    BY DEF Informed
  <2>3. QED
    BY <1>1, <1>2, <2>1, <2>2, InitialFirstReceived
<1>4. us \in SUBSET Uid /\ P44Uid \subseteq Uid
  BY P44Assumption
<1>5. PICK d : d = RegisterInitialDevices(bridge, us)
  OBVIOUS
<1>6. /\ MainInv(bridge') /\ MainInv(d) /\ RegisteredTo(bridge, us, d) /\ SameStack(bridge, d)
      /\ CompletedTo(d, bridge')
  BY <1>1, <1>4, <1>5, ListKeeps
<1>7. /\ bridge'.map = d.map /\ bridge'.objs = d.objs /\ bridge'.up = bridge.up
      /\ bridge'.starts = IF bridge.unstarted - 1 > 0 \/ ~HasBridgeableDevices(d) THEN bridge.starts ELSE bridge.starts + 1
  BY <1>6 DEF CompletedTo, SameStack
<1>8. \A u \in P44Uid : IF u \in us THEN bridge'.map[u] # NoObj /\ bridge'.objs[bridge'.map[u]].bridgeable = TRUE
                        ELSE bridge'.map[u] = NoObj
  <2>1. \A u \in P44Uid : bridge.map[u] = NoObj
    BY <1>3 DEF Informed, NoneMapped
  <2>2. \A u \in P44Uid \ us : d.map[u] = NoObj
    BY <1>4, <1>6, <2>1 DEF RegisteredTo
  <2>3. \A u \in us : d.map[u] \in DOMAIN d.objs /\ d.objs[d.map[u]] = NewDevice(u)
    <3> SUFFICES ASSUME NEW u \in us PROVE d.map[u] \in DOMAIN d.objs /\ d.objs[d.map[u]] = NewDevice(u)
      OBVIOUS
    <3>1. u \in Uid
      BY <1>4
    <3>2. PICK o : o = d.map[u]
      OBVIOUS
    <3>3. o \in (DOMAIN d.objs) \ (DOMAIN bridge.objs) /\ d.objs[o].uid = u
      BY <1>6, <3>1, <3>2 DEF RegisteredTo
    <3>4. d.objs[o] = NewDevice(u)
      BY <1>6, <3>3 DEF RegisteredTo
    <3>5. QED
      BY <3>2, <3>3, <3>4
  <2>4. NoObj \notin DOMAIN d.objs
    BY <1>6, FieldTypes DEF NoObj
  <2>5. \A u \in us : d.map[u] # NoObj /\ d.objs[d.map[u]].bridgeable = TRUE
    <3> SUFFICES ASSUME NEW u \in us PROVE d.map[u] # NoObj /\ d.objs[d.map[u]].bridgeable = TRUE
      OBVIOUS
    <3>1. d.map[u] \in DOMAIN d.objs /\ d.objs[d.map[u]] = NewDevice(u)
      BY <2>3
    <3>2. NewDevice(u).bridgeable = TRUE
      BY DEF NewDevice
    <3>3. QED
      BY <2>4, <3>1, <3>2
  <2>6. QED
    BY <1>7, <2>2, <2>5
<1>9. LastToldHolds' /\ RefusalKnown'
  <2>1. \A u \in P44Uid, is \in BOOLEAN :
          /\ About(fromVdc[1], u) /\ Tells(fromVdc[1], u, is) => Knows(bridge', Waits(u)', u, is)
          /\ ~About(fromVdc[1], u) /\ Knows(bridge, Waits(u), u, is) => Knows(bridge', Waits(u)', u, is)
    <3> SUFFICES ASSUME NEW u \in P44Uid, NEW is \in BOOLEAN
                 PROVE  /\ About(fromVdc[1], u)
                        /\ Tells(fromVdc[1], u, is) => Knows(bridge', Waits(u)', u, is)
      OBVIOUS
    <3>1. About(fromVdc[1], u)
      BY <1>2 DEF About
    <3>2. Tells(fromVdc[1], u, is) => is = (u \in us)
      BY <1>2 DEF Tells
    <3>3. CASE u \in us
      BY <1>8, <3>1, <3>2, <3>3 DEF Knows
    <3>4. CASE u \notin us
      BY <1>8, <3>1, <3>2, <3>4 DEF Knows
    <3>5. QED
      BY <3>3, <3>4
  <2>2. QED
    BY <1>1, <2>1, KnownReceived DEF Informed
<1>10. NoneMapped' /\ OthersStarted'
  BY <1>3 DEF NoneMapped, OthersStarted
<1>11. MappedInPlace'
  <2> SUFFICES ASSUME bridge'.up, bridge'.starts = 0, NEW u \in P44Uid PROVE InPlace(bridge', u)
    BY DEF MappedInPlace
  <2>1. bridge.unstarted \in Int /\ bridge.starts \in Nat
    BY FieldTypes
  <2>2. bridge.unstarted <= 1
    BY <1>3, <1>7 DEF Informed, OthersStarted
  <2>3. ~HasBridgeableDevices(d)
    BY <1>7, <2>1, <2>2
  <2>4. bridge'.map[u] = NoObj
    BY <1>4, <1>7, <2>3 DEF HasBridgeableDevices
  <2>5. QED
    BY <2>4 DEF InPlace
<1>12. QED
  BY <1>3, <1>9, <1>10, <1>11 DEF Informed

\* A message about the device u alone.
LEMMA InformedReceived ==
  ASSUME P44TypeOK, MainInv(bridge), Informed, fromVdc # <<>>, fromVdc' = Tail(fromVdc),
         UNCHANGED <<p44Connected, p44Once, bridgeables>>,
         Added(toVdc, toVdc'), \A k \in DOMAIN toVdc' : k \notin DOMAIN toVdc => toVdc'[k].call = "info",
         NEW u \in P44Uid, Frame(bridge, bridge', {u}),
         \A v \in P44Uid : About(fromVdc[1], v) <=> v = u,
         \A is \in BOOLEAN : Tells(fromVdc[1], u, is) => Knows(bridge', Waits(u)', u, is),
         fromVdc[1].msg = "info" \/ bridge.map[u] # NoObj \/ UNCHANGED bridge,
         bridge'.up /\ bridge'.starts = 0 /\ ~bridge'.exited /\ InPlace(bridge, u) => InPlace(bridge', u)
  PROVE  Informed'
<1>1. InitialFirst' /\ p44Connected /\ (Initial' => Initial /\ fromVdc[1].msg \notin {"initial", "info"})
  BY InitialFirstReceived DEF Informed
<1>2. \A k \in DOMAIN toVdc : k \in DOMAIN toVdc' /\ toVdc'[k] = toVdc[k]
  BY DEF Added
<1>3. P44Uid \subseteq Uid
  BY P44Assumption
<1>4. LastToldHolds' /\ RefusalKnown'
  <2>1. \A v \in P44Uid, is \in BOOLEAN :
          /\ About(fromVdc[1], v) /\ Tells(fromVdc[1], v, is) => Knows(bridge', Waits(v)', v, is)
          /\ ~About(fromVdc[1], v) /\ Knows(bridge, Waits(v), v, is) => Knows(bridge', Waits(v)', v, is)
    <3> SUFFICES ASSUME NEW v \in P44Uid, NEW is \in BOOLEAN, v # u, Knows(bridge, Waits(v), v, is)
                 PROVE  Knows(bridge', Waits(v)', v, is)
      OBVIOUS
    <3>1. Waits(v) => Waits(v)'
      BY <1>2 DEF Waits
    <3>2. v \in Uid \ {u}
      BY <1>3
    <3>3. QED
      BY <3>1, <3>2, FrameKnows
  <2>2. QED
    BY <2>1, KnownReceived DEF Informed
<1>5. Initial' => UNCHANGED bridge
  BY <1>1 DEF Informed, NoneMapped
<1>6. NoneMapped' /\ OthersStarted'
  BY <1>1, <1>5 DEF Informed, NoneMapped, OthersStarted
<1>7. MappedInPlace'
  <2> SUFFICES ASSUME bridge'.up, bridge'.starts = 0, ~bridge'.exited, NEW v \in P44Uid
               PROVE  InPlace(bridge', v)
    BY DEF MappedInPlace
  <2>1. bridge.up /\ bridge.starts = 0 /\ ~bridge.exited
    BY DEF Frame
  <2>2. InPlace(bridge, v)
    BY <2>1 DEF Informed, MappedInPlace
  <2>3. CASE v = u
    BY <2>2, <2>3
  <2>4. CASE v # u
    <3>1. v \in Uid \ {u}
      BY <1>3, <2>4
    <3>2. QED
      BY <2>2, <3>1, FrameInPlace
  <2>5. QED
    BY <2>3, <2>4
<1>8. QED
  BY <1>1, <1>4, <1>6, <1>7 DEF Informed

LEMMA InformedInfo ==
  ASSUME P44TypeOK, MainInv(bridge), Informed, NEW u \in P44Uid, NEW is \in BOOLEAN, P44DeviceInfo(u, is)
  PROVE  Informed'
<1>1. /\ fromVdc # <<>> /\ Head(fromVdc) = [msg |-> "info", uid |-> u, bridgeable |-> is]
      /\ fromVdc' = Tail(fromVdc) /\ UNCHANGED <<p44Connected, p44Once, bridgeables, toVdc>>
      /\ bridge' = IF ~is THEN bridge
                   ELSE LET b == RegisterInitialDevices(bridge, {u}) IN BridgeAdditionalDevice(b, Newest(b))
  BY DEF P44DeviceInfo, Received, BridgedDevicesFromJSON
<1>2. /\ fromVdc[1].msg = "info" /\ fromVdc[1].uid = u /\ fromVdc[1].bridgeable = is
      /\ 1 \in DOMAIN fromVdc /\ 1 - 1 = 0
  BY <1>1, ShorterTail DEF P44TypeOK
<1>3. Added(toVdc, toVdc') /\ \A k \in DOMAIN toVdc' : k \in DOMAIN toVdc
  BY <1>1, AddedNone DEF P44TypeOK
<1>4. \A v \in P44Uid : About(fromVdc[1], v) <=> v = u
  BY <1>2 DEF About
<1>5. u \in Uid /\ {u} \in SUBSET Uid
  BY P44Assumption
<1>6. CASE ~is
  <2>1. Frame(bridge, bridge', {u}) /\ bridge' = bridge
    BY <1>1, <1>6, FrameSame
  <2>2. WillKnow(bridge, TRUE, fromVdc, 0, u, FALSE)
    BY <1>2, <1>6 DEF Informed, RefusalKnown
  <2>3. Knows(bridge, TRUE, u, FALSE)
    <3>1. \A k \in 1 .. 0 : FALSE
      OBVIOUS
    <3>2. QED
      BY <2>2, <3>1 DEF WillKnow
  <2>4. Knows(bridge', Waits(u)', u, FALSE)
    BY <2>1, <2>3 DEF Knows
  <2>5. \A x \in BOOLEAN : Tells(fromVdc[1], u, x) => Knows(bridge', Waits(u)', u, x)
    BY <1>2, <1>6, <2>4 DEF Tells
  <2>6. QED
    BY <1>1, <1>2, <1>3, <1>4, <2>1, <2>5, InformedReceived
<1>7. CASE is
  <2>1. PICK d : d = RegisterInitialDevices(bridge, {u})
    OBVIOUS
  <2>2. bridge' = BridgeAdditionalDevice(d, Newest(d))
    BY <1>1, <1>7, <2>1
  <2>3. Frame(bridge, bridge', {u})
    BY <1>5, <2>1, <2>2, FrameInfo
  <2>4. /\ MainInv(bridge') /\ MainInv(d) /\ RegisteredTo(bridge, {u}, d) /\ SameStack(bridge, d)
        /\ AddedTo(d, u, Newest(d), bridge')
        /\ Newest(d) \in (DOMAIN d.objs) \ (DOMAIN bridge.objs) /\ d.objs[Newest(d)] = NewDevice(u)
    BY <1>5, <2>1, <2>2, InfoKeeps
  <2>5. PICK o : o = bridge'.map[u]
    OBVIOUS
  <2>6. o = Newest(d) \/ o = d.map[u]
    BY <2>4, <2>5 DEF AddedTo
  <2>7. d.map[u] \in (DOMAIN d.objs) \ (DOMAIN bridge.objs)
    BY <1>5, <2>4 DEF RegisteredTo
  <2>8. o \in (DOMAIN d.objs) \ (DOMAIN bridge.objs)
    BY <2>4, <2>6, <2>7
  <2>9. o # NoObj /\ d.objs[o].bridgeable = TRUE
    <3>1. d.objs[o] = NewDevice(d.objs[o].uid)
      BY <2>4, <2>8 DEF RegisteredTo
    <3>2. QED
      BY <2>4, <2>8, <3>1, FieldTypes DEF NewDevice, NoObj
  <2>10. bridge'.objs[o].bridgeable = TRUE
    BY <2>4, <2>8, <2>9 DEF AddedTo
  <2>11. Knows(bridge', Waits(u)', u, TRUE)
    BY <2>5, <2>9, <2>10 DEF Knows
  <2>12. \A x \in BOOLEAN : Tells(fromVdc[1], u, x) => Knows(bridge', Waits(u)', u, x)
    BY <1>2, <1>7, <2>11 DEF Tells
  <2>13. bridge'.up => InPlace(bridge', u)
    BY <2>4 DEF AddedTo, InPlace
  <2>14. QED
    BY <1>1, <1>2, <1>3, <1>4, <2>3, <2>12, <2>13, InformedReceived
<1>8. QED
  BY <1>6, <1>7

LEMMA InformedPush ==
  ASSUME P44TypeOK, MainInv(bridge), Informed, NEW u \in P44Uid, NEW is \in BOOLEAN, P44Push(u, is)
  PROVE  Informed'
<1>1. /\ fromVdc # <<>> /\ Head(fromVdc) = [msg |-> "push", uid |-> u, bridgeable |-> is]
      /\ fromVdc' = Tail(fromVdc) /\ UNCHANGED <<p44Connected, p44Once, bridgeables>>
  BY DEF P44Push, Received
<1>2. /\ fromVdc[1].msg = "push" /\ fromVdc[1].uid = u /\ fromVdc[1].bridgeable = is
      /\ toVdc \in Seq(Call)
  BY <1>1, ShorterTail DEF P44TypeOK
<1>3. \A v \in P44Uid : About(fromVdc[1], v) <=> v = u
  BY <1>2 DEF About
<1>4. u \in Uid
  BY P44Assumption
<1>5. CASE bridge.map[u] # NoObj /\ u \notin P44Composed
  <2>1. PICK o : o = bridge.map[u]
    OBVIOUS
  <2>2. /\ o # NoObj /\ UNCHANGED toVdc
        /\ bridge' = [bridge EXCEPT !.objs[o].bridgeable = is,
                                    !.objs[o].reachable = is /\ bridge.objs[o].active]
    BY <1>5, <2>1 DEF P44Push
  <2>3. Added(toVdc, toVdc') /\ \A k \in DOMAIN toVdc' : k \in DOMAIN toVdc
    BY <1>2, <2>2, AddedNone
  <2>4. Frame(bridge, bridge', {u})
    BY <1>4, <2>1, <2>2, FramePush
  <2>5. o \in DOMAIN bridge.objs /\ bridge.objs[o] \in DeviceObject /\ bridge.objs \in Seq(DeviceObject)
    BY <1>4, <2>1, <2>2, MapsInto, FieldTypes
  <2>6. ChangedTo(bridge, o, Pushed(bridge.objs[o], is), bridge')
    BY <2>2, <2>5, PushKeeps
  <2>7. PICK e : e = Pushed(bridge.objs[o], is)
    OBVIOUS
  <2>8. e.bridgeable = is /\ e.ep = bridge.objs[o].ep
    BY <2>5, <2>7 DEF Pushed, DeviceObject
  <2>9. /\ bridge'.map = bridge.map /\ bridge'.on = bridge.on /\ bridge'.table = bridge.table
        /\ bridge'.removed = bridge.removed /\ bridge'.objs[o] = e
    BY <2>5, <2>6, <2>7 DEF ChangedTo
  <2>10. \A x \in BOOLEAN : Tells(fromVdc[1], u, x) => Knows(bridge', Waits(u)', u, x)
    BY <1>2, <2>1, <2>2, <2>8, <2>9 DEF Tells, Knows
  <2>11. InPlace(bridge, u) => InPlace(bridge', u)
    BY <2>1, <2>2, <2>8, <2>9 DEF InPlace
  <2>12. QED
    BY <1>1, <1>3, <1>5, <2>3, <2>4, <2>10, <2>11, InformedReceived
<1>6. CASE bridge.map[u] = NoObj
  <2>1. /\ UNCHANGED bridge
        /\ toVdc' = IF is THEN Append(toVdc, [call |-> "info", uid |-> u]) ELSE toVdc
    BY <1>6 DEF P44Push
  <2>2. Frame(bridge, bridge', {u})
    BY <2>1, FrameSame
  <2>3. /\ Added(toVdc, toVdc') /\ \A k \in DOMAIN toVdc' : k \notin DOMAIN toVdc => toVdc'[k].call = "info"
        /\ is => \E k \in DOMAIN toVdc' : toVdc'[k] = [call |-> "info", uid |-> u]
    <3>1. CASE is
      <4>1. PICK r : r = [call |-> "info", uid |-> u]
        OBVIOUS
      <4>2. r \in Call /\ r.call = "info" /\ toVdc' = Append(toVdc, r)
        BY <2>1, <3>1, <4>1 DEF Call
      <4>3. Longer(toVdc, r, toVdc')
        BY <1>2, <4>2, LongerAppend
      <4>4. Added(toVdc, toVdc') /\ \A k \in DOMAIN toVdc' : k \notin DOMAIN toVdc => toVdc'[k] = r
        BY <1>2, <4>2, AddedAppend
      <4>5. Len(toVdc') \in DOMAIN toVdc' /\ toVdc'[Len(toVdc')] = r
        BY <4>3 DEF Longer
      <4>6. QED
        BY <4>1, <4>2, <4>4, <4>5
    <3>2. CASE ~is
      BY <1>2, <2>1, <3>2, AddedNone
    <3>3. QED
      BY <3>1, <3>2
  <2>4. \A x \in BOOLEAN : Tells(fromVdc[1], u, x) => Knows(bridge', Waits(u)', u, x)
    <3>1. is => Waits(u)'
      BY <2>3 DEF Waits
    <3>2. QED
      BY <1>2, <1>6, <2>1, <3>1 DEF Tells, Knows
  <2>5. InPlace(bridge, u) => InPlace(bridge', u)
    BY <2>1
  <2>6. QED
    BY <1>1, <1>3, <2>1, <2>2, <2>3, <2>4, <2>5, InformedReceived
<1>7. CASE bridge.map[u] # NoObj /\ u \in P44Composed
  <2>1. UNCHANGED <<bridge, toVdc>>
    BY <1>7 DEF P44Push
  <2>2. Added(toVdc, toVdc') /\ \A k \in DOMAIN toVdc' : k \in DOMAIN toVdc
    BY <1>2, <2>1, AddedNone
  <2>3. Frame(bridge, bridge', {u})
    BY <2>1, FrameSame
  <2>4. \A x \in BOOLEAN : Tells(fromVdc[1], u, x) => Knows(bridge', Waits(u)', u, x)
    BY <1>7, <2>1 DEF Knows
  <2>5. InPlace(bridge, u) => InPlace(bridge', u)
    BY <2>1
  <2>6. QED
    BY <1>1, <1>3, <2>1, <2>2, <2>3, <2>4, <2>5, InformedReceived
<1>8. QED
  BY <1>5, <1>6, <1>7

LEMMA InformedVanish ==
  ASSUME P44TypeOK, MainInv(bridge), Informed, NEW u \in P44Uid, P44Vanish(u)
  PROVE  Informed'
<1>1. /\ fromVdc # <<>> /\ Head(fromVdc) = [msg |-> "vanish", uid |-> u]
      /\ fromVdc' = Tail(fromVdc) /\ UNCHANGED <<p44Connected, p44Once, bridgeables, toVdc>>
  BY DEF P44Vanish, Received
<1>2. fromVdc[1].msg = "vanish" /\ fromVdc[1].uid = u
  BY <1>1, ShorterTail DEF P44TypeOK
<1>3. \A v \in P44Uid : About(fromVdc[1], v) <=> v = u
  BY <1>2 DEF About
<1>4. Added(toVdc, toVdc') /\ \A k \in DOMAIN toVdc' : k \in DOMAIN toVdc
  BY <1>1, AddedNone DEF P44TypeOK
<1>5. u \in Uid
  BY P44Assumption
<1>6. CASE bridge.map[u] # NoObj
  <2>1. PICK o : o = bridge.map[u]
    OBVIOUS
  <2>2. /\ o # NoObj
        /\ bridge' = RemoveDevice([bridge EXCEPT !.objs[o].bridgeable = FALSE, !.objs[o].active = FALSE], o)
    BY <1>6, <2>1 DEF P44Vanish
  <2>3. Frame(bridge, bridge', {u})
    BY <1>5, <2>1, <2>2, FrameVanish
  <2>4. o \in DOMAIN bridge.objs /\ bridge.objs[o].uid = u /\ bridge.objs[o] \in DeviceObject
    BY <1>5, <2>1, <2>2, MapsInto, FieldTypes
  <2>5. PICK d : MainInv(d) /\ RemovedTo(bridge, o, d) /\ ChangedTo(d, o, Gone(bridge.objs[o]), bridge')
    BY <2>2, <2>4, VanishKeeps
  <2>6. d.objs = bridge.objs /\ d.map = bridge.map /\ (bridge.up => u \in d.removed)
    BY <2>4, <2>5 DEF RemovedTo
  <2>7. /\ bridge'.map = bridge.map /\ bridge'.objs[o] = Gone(bridge.objs[o]) /\ bridge'.removed = d.removed
    BY <2>4, <2>5, <2>6 DEF ChangedTo
  <2>8. bridge'.objs[o].bridgeable = FALSE
    BY <2>4, <2>7 DEF Gone, DeviceObject
  <2>9. \A x \in BOOLEAN : Tells(fromVdc[1], u, x) => Knows(bridge', Waits(u)', u, x)
    BY <1>2, <2>1, <2>2, <2>7, <2>8 DEF Tells, Knows
  <2>10. bridge'.up => InPlace(bridge', u)
    <3>1. bridge'.up = bridge.up
      BY <2>3 DEF Frame
    <3>2. QED
      BY <2>6, <2>7, <3>1 DEF InPlace
  <2>11. QED
    BY <1>1, <1>3, <1>4, <1>6, <2>3, <2>9, <2>10, InformedReceived
<1>7. CASE bridge.map[u] = NoObj
  <2>1. UNCHANGED bridge
    BY <1>7 DEF P44Vanish
  <2>2. Frame(bridge, bridge', {u})
    BY <2>1, FrameSame
  <2>3. \A x \in BOOLEAN : Tells(fromVdc[1], u, x) => Knows(bridge', Waits(u)', u, x)
    BY <1>2, <1>7, <2>1 DEF Tells, Knows
  <2>4. QED
    BY <1>1, <1>3, <1>4, <2>1, <2>2, <2>3, InformedReceived
<1>8. QED
  BY <1>6, <1>7

\* The steps of the P44 adapter.
LEMMA InformedByP44 ==
  ASSUME P44TypeOK, MainInv(bridge), P44Inv, P44Next
  PROVE  P44Inv'
<1> SUFFICES ASSUME p44Losses' = 0 PROVE Informed'
  BY DEF P44Inv, Informed
<1>1. ~P44ConnectFails /\ ~P44Lost /\ p44Losses = 0
  <2>1. p44Losses \in Nat
    BY P44Assumption DEF P44TypeOK
  <2>2. P44ConnectFails \/ P44Lost => p44Losses' = p44Losses + 1
    BY DEF P44ConnectFails, P44Lost
  <2>3. ~P44ConnectFails /\ ~P44Lost
    BY <2>1, <2>2
  <2>4. p44Losses' = p44Losses
    BY <2>3 DEF P44Next, P44System, P44Connect, VdcAnswer, VdcChange, VdcVanish, P44Receive, P44CollectQuery,
                P44ReconnectQuery, P44DeviceInfo, P44Push, P44Vanish, Received
  <2>5. QED
    BY <2>3, <2>4
<1>2. Informed
  BY <1>1 DEF P44Inv, Informed
<1>3. CASE P44Connect
  BY <1>2, <1>3, InformedConnect
<1>4. CASE VdcAnswer
  BY <1>2, <1>4, InformedAnswer
<1>5. ASSUME NEW u \in P44Uid, VdcChange(u)
      PROVE  Informed'
  <2>1. PICK is \in BOOLEAN : is = (u \in bridgeables')
    BY Truth
  <2>2. is = (u \notin bridgeables)
    BY <1>5, <2>1 DEF VdcChange
  <2>3. PICK m : m = [msg |-> "push", uid |-> u, bridgeable |-> is]
    OBVIOUS
  <2>4. m \in Message /\ m.msg \in {"push", "vanish"} /\ m.uid = u /\ Tells(m, u, u \in bridgeables')
    BY <2>1, <2>3 DEF Message, Tells
  <2>5. Notify(m) /\ UNCHANGED <<bridge, p44Connected, p44Once, toVdc>>
    BY <1>5, <2>2, <2>3 DEF VdcChange
  <2>6. \A v \in P44Uid : v # u => (v \in bridgeables' <=> v \in bridgeables)
    BY <1>5 DEF VdcChange
  <2>7. QED
    BY <1>2, <2>4, <2>5, <2>6, InformedNotified
<1>6. ASSUME NEW u \in P44Uid, VdcVanish(u)
      PROVE  Informed'
  <2>1. PICK m : m = [msg |-> "vanish", uid |-> u]
    OBVIOUS
  <2>2. (u \in bridgeables') = FALSE
    BY <1>6 DEF VdcVanish
  <2>3. m \in Message /\ m.msg \in {"push", "vanish"} /\ m.uid = u /\ Tells(m, u, u \in bridgeables')
    BY <2>1, <2>2 DEF Message, Tells
  <2>4. Notify(m) /\ UNCHANGED <<bridge, p44Connected, p44Once, toVdc>>
    BY <1>6, <2>1 DEF VdcVanish
  <2>5. \A v \in P44Uid : v # u => (v \in bridgeables' <=> v \in bridgeables)
    BY <1>6 DEF VdcVanish
  <2>6. QED
    BY <1>2, <2>3, <2>4, <2>5, InformedNotified
<1>7. CASE P44Receive
  <2>1. \A us \in SUBSET P44Uid : ~P44ReconnectQuery(us)
    <3> SUFFICES ASSUME NEW us \in SUBSET P44Uid, P44ReconnectQuery(us) PROVE FALSE
      OBVIOUS
    <3>1. fromVdc # <<>> /\ Head(fromVdc) = [msg |-> "reconnect", uids |-> us]
      BY DEF P44ReconnectQuery, Received
    <3>2. 1 \in DOMAIN fromVdc /\ fromVdc[1].msg = "reconnect"
      BY <3>1, ShorterTail DEF P44TypeOK
    <3>3. QED
      BY <1>2, <3>2 DEF Informed, InitialFirst
  <2>2. ASSUME NEW us \in SUBSET P44Uid, P44CollectQuery(us)
        PROVE  Informed'
    BY <1>2, <2>2, InformedInitial
  <2>3. ASSUME NEW u \in P44Uid, NEW is \in BOOLEAN, P44DeviceInfo(u, is)
        PROVE  Informed'
    BY <1>2, <2>3, InformedInfo
  <2>4. ASSUME NEW u \in P44Uid, NEW is \in BOOLEAN, P44Push(u, is)
        PROVE  Informed'
    BY <1>2, <2>4, InformedPush
  <2>5. ASSUME NEW u \in P44Uid, P44Vanish(u)
        PROVE  Informed'
    BY <1>2, <2>5, InformedVanish
  <2>6. QED
    BY <1>7, <2>1, <2>2, <2>3, <2>4, <2>5 DEF P44Receive
<1>8. QED
  BY <1>1, <1>3, <1>4, <1>5, <1>6, <1>7 DEF P44Next, P44System

\* The steps of the others.
LEMMA InformedByOthers ==
  ASSUME P44TypeOK, Informed, UNCHANGED p44Vars,
         \A u \in P44Uid :
           /\ bridge'.map[u] = bridge.map[u]
           /\ bridge.map[u] # NoObj =>
                bridge'.objs[bridge.map[u]].bridgeable = bridge.objs[bridge.map[u]].bridgeable,
         OthersStarted', MappedInPlace'
  PROVE  Informed'
<1>1. UNCHANGED <<p44Connected, p44Once, toVdc, fromVdc, bridgeables>>
  BY DEF p44Vars
<1>2. InitialFirst' /\ (Initial' <=> Initial)
  BY <1>1 DEF Informed, InitialFirst, Initial
<1>3. NoneMapped'
  BY <1>2 DEF Informed, NoneMapped
<1>4. \A u \in P44Uid : \A w, is : Knows(bridge, w, u, is) => Knows(bridge', w, u, is)
  BY DEF Knows
<1>5. LastToldHolds'
  <2> SUFFICES ASSUME NEW u \in P44Uid
               PROVE  WillKnow(bridge', Waits(u)', fromVdc', Len(fromVdc'), u, u \in bridgeables')
    BY DEF LastToldHolds
  <2>1. WillKnow(bridge, Waits(u), fromVdc, Len(fromVdc), u, u \in bridgeables)
    BY DEF Informed, LastToldHolds
  <2>2. PICK w, is : w = Waits(u) /\ is = (u \in bridgeables)
    OBVIOUS
  <2>3. WillKnow(bridge, w, fromVdc, Len(fromVdc), u, is)
    BY <2>1, <2>2
  <2>4. WillKnow(bridge', w, fromVdc, Len(fromVdc), u, is)
    BY <1>4, <2>3 DEF WillKnow
  <2>5. Waits(u)' = Waits(u)
    BY <1>1 DEF Waits
  <2>6. QED
    BY <1>1, <2>2, <2>4, <2>5
<1>6. RefusalKnown'
  <2> SUFFICES ASSUME NEW k \in DOMAIN fromVdc, fromVdc[k].msg = "info", ~fromVdc[k].bridgeable
               PROVE  WillKnow(bridge', TRUE, fromVdc, k - 1, fromVdc[k].uid, FALSE)
    BY <1>1 DEF RefusalKnown
  <2>1. PICK u : u = fromVdc[k].uid
    OBVIOUS
  <2>2. u \in P44Uid
    <3>1. fromVdc[k] \in Message
      BY DEF P44TypeOK
    <3>2. QED
      BY <2>1, <3>1 DEF Message
  <2>3. WillKnow(bridge, TRUE, fromVdc, k - 1, u, FALSE)
    BY <2>1 DEF Informed, RefusalKnown
  <2>4. WillKnow(bridge', TRUE, fromVdc, k - 1, u, FALSE)
    BY <1>4, <2>2, <2>3 DEF WillKnow
  <2>5. QED
    BY <2>1, <2>4
<1>7. QED
  BY <1>2, <1>3, <1>5, <1>6 DEF Informed

\* The CC adapter has the stack started at the end of its startup, or after it.
LEMMA StartsOfCC ==
  ASSUME CCTypeOK, MainInv(bridge), StartupFirst, CCNext
  PROVE  bridge'.starts = bridge.starts \/ bridge'.unstarted = bridge.unstarted - 1 \/ Completed
<1>1. CASE bridge' = StartupComplete(bridge)
  BY <1>1, StartupCompleteKeeps DEF CompletedTo
<1>2. ASSUME NEW us \in SUBSET CCUid, bridge' = StartupComplete(RegisterInitialDevices(bridge, us))
      PROVE  bridge'.unstarted = bridge.unstarted - 1
  <2>1. PICK d : d = RegisterInitialDevices(bridge, us)
    OBVIOUS
  <2>2. us \in SUBSET Uid
    BY CCAssumption
  <2>3. SameStack(bridge, d) /\ CompletedTo(d, bridge')
    BY <1>2, <2>1, <2>2, ListKeeps
  <2>4. QED
    BY <2>3 DEF SameStack, CompletedTo
<1>3. ASSUME NEW u \in CCUid, NEW ok \in BOOLEAN, CCItemInfo(u, ok)
      PROVE  Completed
  <2>1. fromCC # <<>> /\ Head(fromCC) = [msg |-> "info", uid |-> u, ok |-> ok]
    BY <1>3 DEF CCItemInfo, CCReceived
  <2>2. 1 \in DOMAIN fromCC /\ fromCC[1].msg = "info"
    BY <2>1, ShorterTail DEF CCTypeOK
  <2>3. \A j \in 1 .. 1 - 1 : FALSE
    OBVIOUS
  <2>4. QED
    BY <2>2, <2>3 DEF StartupFirst
<1>4. ASSUME NEW u \in CCUid, bridge.map[u] # NoObj, bridge' = RemoveDevice(bridge, bridge.map[u])
      PROVE  bridge'.starts = bridge.starts
  <2>1. PICK o \in DOMAIN bridge.objs : o = bridge.map[u]
    BY <1>4, CCAssumption, MapsInto
  <2>2. RemovedTo(bridge, o, bridge')
    BY <1>4, <2>1, RemoveKeeps
  <2>3. QED
    BY <2>2 DEF RemovedTo
<1>5. CASE CCReceive
  <2>1. CASE \E what \in {"register", "subscribe"}, ok \in BOOLEAN : CCSetupAnswer(what, ok)
    BY <1>1, <2>1 DEF CCSetupAnswer
  <2>2. CASE \E us \in SUBSET CCUid : CCDeviceList(us)
    BY <1>2, <2>2 DEF CCDeviceList
  <2>3. CASE \E u \in CCUid : CCCreated(u)
    BY <2>3 DEF CCCreated
  <2>4. CASE \E u \in CCUid : CCDeleted(u)
    BY <1>4, <2>4 DEF CCDeleted
  <2>5. CASE \E u \in CCUid, ok \in BOOLEAN : CCItemInfo(u, ok)
    BY <1>3, <2>5
  <2>6. QED
    BY <1>5, <2>1, <2>2, <2>3, <2>4, <2>5 DEF CCReceive
<1>6. QED
  <2>1. CCConnect \/ CCAnswer \/ CCLost \/ CCAnswerError
          \/ (\E u \in CCUid : ItemCreated(u) \/ ItemDeleted(u)) => UNCHANGED bridge
    BY DEF CCConnect, CCAnswer, CCLost, CCAnswerError, ItemCreated, ItemDeleted, Vitals
  <2>2. QED
    BY <1>5, <2>1 DEF CCNext, CCSystem

LEMMA InformedByCC ==
  ASSUME TypeOK, MainInv(bridge), StartupFirst, P44Inv, CCNext, UNCHANGED p44Vars
  PROVE  P44Inv'
<1> SUFFICES ASSUME p44Losses' = 0 PROVE Informed'
  BY DEF P44Inv, Informed
<1>1. Informed
  BY DEF P44Inv, Informed, p44Vars
<1>2. Frame(bridge, bridge', CCUid)
  BY FrameOfCC
<1>3. \A u \in P44Uid : u \in Uid \ CCUid
  BY UidAssumption
<1>4. \A u \in P44Uid :
        /\ bridge'.map[u] = bridge.map[u]
        /\ bridge.map[u] # NoObj =>
             bridge'.objs[bridge.map[u]].bridgeable = bridge.objs[bridge.map[u]].bridgeable
  BY <1>2, <1>3 DEF Frame
<1>5. OthersStarted'
  <2> SUFFICES ASSUME Initial, bridge'.starts > 0 \/ bridge'.up
               PROVE  bridge'.unstarted <= 1
    BY DEF OthersStarted, Initial, p44Vars
  <2>1. /\ bridge.unstarted \in Int /\ bridge.starts \in Nat
        /\ Cardinality(Adapters) \in Nat /\ Cardinality(Adapters) <= 2
    BY FieldTypes, AdaptersCount
  <2>2. bridge'.up = bridge.up /\ bridge'.unstarted \in {bridge.unstarted, bridge.unstarted - 1}
    BY <1>2 DEF Frame
  <2>3. CASE bridge.starts > 0 \/ bridge.up
    <3>1. bridge.unstarted <= 1
      BY <1>1, <2>3 DEF Informed, OthersStarted
    <3>2. QED
      BY <2>1, <2>2, <3>1
  <2>4. CASE ~(bridge.starts > 0 \/ bridge.up)
    <3>1. bridge'.starts # bridge.starts
      BY <2>2, <2>4
    <3>2. bridge'.unstarted = bridge.unstarted - 1 \/ Completed
      BY <3>1, StartsOfCC DEF TypeOK
    <3>3. bridge.unstarted <= Cardinality(Adapters)
      BY DEF StartupFirst
    <3>4. QED
      BY <2>1, <2>2, <3>2, <3>3 DEF Completed
  <2>5. QED
    BY <2>3, <2>4
<1>6. MappedInPlace'
  <2> SUFFICES ASSUME bridge'.up, bridge'.starts = 0, ~bridge'.exited, NEW u \in P44Uid
               PROVE  InPlace(bridge', u)
    BY DEF MappedInPlace
  <2>1. bridge.up /\ bridge.starts = 0 /\ ~bridge.exited
    BY <1>2 DEF Frame
  <2>2. InPlace(bridge, u)
    BY <1>1, <2>1 DEF Informed, MappedInPlace
  <2>3. QED
    BY <1>2, <1>3, <2>2, FrameInPlace
<1>7. QED
  BY <1>1, <1>4, <1>5, <1>6, InformedByOthers DEF TypeOK

LEMMA InformedByStart ==
  ASSUME TypeOK, MainInv(bridge), P44Inv, StartChip, UNCHANGED p44Vars
  PROVE  P44Inv'
<1> SUFFICES ASSUME p44Losses' = 0 PROVE Informed'
  BY DEF P44Inv, Informed
<1>1. Informed
  BY DEF P44Inv, Informed, p44Vars
<1>2. bridge.starts > 0 /\ bridge' = [StartedChip(bridge) EXCEPT !.starts = @ - 1]
  BY DEF StartChip
<1>3. ChippedTo(bridge, bridge')
  BY <1>2, ChipKeeps
<1>4. \A u \in P44Uid :
        /\ bridge'.map[u] = bridge.map[u]
        /\ bridge.map[u] # NoObj =>
             bridge'.objs[bridge.map[u]].bridgeable = bridge.objs[bridge.map[u]].bridgeable
  <2>1. P44Uid \subseteq Uid
    BY P44Assumption
  <2>2. QED
    BY <1>3, <2>1, MapsInto DEF ChippedTo
<1>5. OthersStarted'
  <2>1. Initial' <=> Initial
    BY DEF Initial, p44Vars
  <2>2. bridge'.unstarted = bridge.unstarted
    BY <1>3 DEF ChippedTo
  <2>3. Initial => bridge.unstarted <= 1
    BY <1>1, <1>2 DEF Informed, OthersStarted
  <2>4. QED
    BY <2>1, <2>2, <2>3 DEF OthersStarted
<1>6. MappedInPlace'
  <2> SUFFICES ASSUME ~bridge'.exited, NEW u \in P44Uid, bridge'.map[u] # NoObj
               PROVE  \/ bridge'.objs[bridge'.map[u]].ep \in bridge'.on
                      \/ Len(bridge'.table) = MaxDyn
    BY DEF MappedInPlace, InPlace
  <2>1. ~bridge.up /\ bridge'.map = bridge.map /\ u \in Uid
    BY <1>3, P44Assumption DEF ChippedTo
  <2>2. QED
    BY <1>3, <2>1 DEF ChippedTo
<1>7. QED
  BY <1>1, <1>4, <1>5, <1>6, InformedByOthers DEF TypeOK

LEMMA InformedInit ==
  ASSUME Init
  PROVE  P44Inv
<1>1. /\ ~p44Connected /\ ~p44Once /\ p44Connected = p44Once /\ toVdc = <<>> /\ fromVdc = <<>>
      /\ \A u \in Uid : bridge.map[u] = NoObj
      /\ bridge.starts = 0 /\ bridge.up = FALSE
  BY DEF Init, P44Init, InitBridge
<1>2. P44Uid \subseteq Uid
  BY P44Assumption
<1>3. InitialFirst
  BY <1>1 DEF InitialFirst
<1>4. NoneMapped /\ OthersStarted /\ MappedInPlace
  BY <1>1, <1>2 DEF NoneMapped, OthersStarted, MappedInPlace
<1>5. RefusalKnown
  BY <1>1 DEF RefusalKnown
<1>6. LastToldHolds
  <2> SUFFICES ASSUME NEW u \in P44Uid
               PROVE  WillKnow(bridge, Waits(u), fromVdc, Len(fromVdc), u, u \in bridgeables)
    BY DEF LastToldHolds
  <2>1. Waits(u) /\ bridge.map[u] = NoObj
    BY <1>1, <1>2 DEF Waits
  <2>2. Knows(bridge, Waits(u), u, u \in bridgeables)
    BY <2>1 DEF Knows
  <2>3. \A j \in 1 .. Len(fromVdc) : FALSE
    BY <1>1
  <2>4. QED
    BY <2>2, <2>3 DEF WillKnow
<1>7. QED
  BY <1>3, <1>4, <1>5, <1>6 DEF P44Inv, Informed

LEMMA InformedStep ==
  ASSUME TypeOK, MainInv(bridge), StartupFirst, P44Inv, [Next]_vars
  PROVE  P44Inv'
<1>1. CASE UNCHANGED vars
  BY <1>1 DEF vars, p44Vars, P44Inv, Informed, InitialFirst, NoneMapped, OthersStarted, LastToldHolds, RefusalKnown,
              MappedInPlace, Initial, Waits
<1>2. CASE StartChip /\ UNCHANGED <<p44Vars, ccVars>>
  BY <1>2, InformedByStart
<1>3. CASE P44Next
  BY <1>3, InformedByP44 DEF TypeOK
<1>4. CASE CCNext /\ UNCHANGED p44Vars
  BY <1>4, InformedByCC
<1>5. QED
  BY <1>1, <1>2, <1>3, <1>4 DEF Next

\* When nothing is on its way, what the adapter knows is what is.
LEMMA InformedConsistent ==
  ASSUME TypeOK, MainInv(bridge), P44Inv, ComposedKept(bridge)
  PROVE  P44Consistent
<1> SUFFICES ASSUME P44Quiet, Settled, NEW u \in P44Uid, NEW o, o = bridge.map[u],
                    NEW reached, reached = (o # NoObj /\ bridge.objs[o].ep \in bridge.on /\ bridge.objs[o].reachable)
             PROVE  /\ reached => u \in bridgeables \cup P44Composed
                    /\ u \in bridgeables /\ u \notin bridge.removed \cup bridge.early => reached \/ ~HasRoom
  BY DEF P44Consistent, IsReachable
<1>1. Informed /\ p44Connected /\ toVdc = <<>> /\ fromVdc = <<>>
  BY DEF P44Quiet, P44Inv, Informed
<1>2. bridge.up /\ ~bridge.exited /\ bridge.starts = 0
  BY DEF Settled
<1>3. u \in Uid
  BY P44Assumption
<1>4. PICK is : is = (u \in bridgeables)
  OBVIOUS
<1>5. Knows(bridge, Waits(u), u, is)
  <2>1. WillKnow(bridge, Waits(u), fromVdc, Len(fromVdc), u, is)
    BY <1>1, <1>4 DEF Informed, LastToldHolds
  <2>2. \A k \in 1 .. Len(fromVdc) : FALSE
    BY <1>1
  <2>3. QED
    BY <2>1, <2>2 DEF WillKnow
<1>6. ~Waits(u)
  BY <1>1 DEF Waits
<1>7. InPlace(bridge, u)
  BY <1>1, <1>2 DEF Informed, MappedInPlace
<1>8. CASE o = NoObj
  BY <1>4, <1>5, <1>6, <1>8 DEF Knows
<1>9. CASE o # NoObj
  <2>1. /\ u \notin P44Composed => bridge.objs[o].bridgeable = is
        /\ u \in P44Composed => bridge.objs[o].bridgeable \/ ~bridge.objs[o].active
    BY <1>5, <1>9 DEF Knows, ComposedKept
  <2>2. o \in DOMAIN bridge.objs /\ bridge.objs[o].uid = u
    BY <1>3, <1>9, MapsInto
  <2>3. bridge.objs[o].ep \in bridge.on =>
          bridge.objs[o].reachable = (bridge.objs[o].bridgeable /\ bridge.objs[o].active)
    <3>1. PICK i : i = bridge.objs[o].ep
      OBVIOUS
    <3>2. i \in bridge.on => i # NoEp
      BY MapsInto, FieldTypes DEF NoEp
    <3>3. i \in bridge.on => bridge.table[i] = o
      BY <2>2, <3>1, <3>2 DEF MainInv, EndpointsFit
    <3>4. QED
      BY <3>1, <3>3 DEF MainInv, FlagsFit
  <2>4. ~bridge.objs[o].active => u \in bridge.removed \cup bridge.early
    BY <2>2 DEF MainInv, FlagsFit
  <2>5. \/ bridge.objs[o].ep \in bridge.on \/ u \in bridge.removed \/ ~HasRoom
    BY <1>7, <1>9, MainAssumption DEF InPlace, HasRoom
  <2>6. QED
    BY <1>4, <1>9, <2>1, <2>3, <2>4, <2>5
<1>10. QED
  BY <1>8, <1>9

\* A new object of a composed device is bridgeable, a push leaves it alone.
LEMMA ComposedStep ==
  ASSUME MainInv(bridge), ComposedKept(bridge), [Next]_vars
  PROVE  ComposedKept(bridge)'
<1> SUFFICES ASSUME NEW u \in P44Composed, bridge'.map[u] # NoObj
             PROVE  bridge'.objs[bridge'.map[u]].bridgeable \/ ~bridge'.objs[bridge'.map[u]].active
  BY DEF ComposedKept
<1>1. u \in Uid /\ u \in P44Uid /\ u \notin CCUid
  BY P44Assumption, UidAssumption
<1>2. ASSUME bridge'.map[u] = bridge.map[u], bridge'.objs[bridge.map[u]] = bridge.objs[bridge.map[u]]
      PROVE  bridge'.objs[bridge'.map[u]].bridgeable \/ ~bridge'.objs[bridge'.map[u]].active
  BY <1>2 DEF ComposedKept
<1>3. CASE UNCHANGED bridge
  BY <1>2, <1>3
<1>4. CASE StartChip
  <2>1. bridge.starts > 0 /\ bridge' = [StartedChip(bridge) EXCEPT !.starts = @ - 1]
    BY <1>4 DEF StartChip
  <2>2. ChippedTo(bridge, bridge')
    BY <2>1, ChipKeeps
  <2>3. bridge'.map[u] = bridge.map[u] /\ bridge.map[u] \in DOMAIN bridge.objs
    BY <1>1, <2>2, MapsInto DEF ChippedTo
  <2>4. QED
    BY <2>2, <2>3 DEF ChippedTo, ComposedKept
<1>5. CASE CCNext
  BY <1>1, <1>2, <1>5, FrameOfCC DEF Frame
<1>6. CASE P44Next
  <2>1. ASSUME NEW v \in P44Uid, v # u, Frame(bridge, bridge', {v})
        PROVE  bridge'.objs[bridge'.map[u]].bridgeable \/ ~bridge'.objs[bridge'.map[u]].active
    BY <1>1, <1>2, <2>1 DEF Frame
  <2>2. CASE bridge' = StartupComplete(bridge)
    BY <1>2, <2>2, StartupCompleteKeeps DEF CompletedTo
  <2>3. ASSUME NEW us \in SUBSET P44Uid, P44CollectQuery(us)
        PROVE  bridge'.objs[bridge'.map[u]].bridgeable \/ ~bridge'.objs[bridge'.map[u]].active
    <3>1. PICK d : d = RegisterInitialDevices(bridge, us)
      OBVIOUS
    <3>2. us \in SUBSET Uid /\ bridge' = StartupComplete(d)
      BY <2>3, <3>1, P44Assumption DEF P44CollectQuery, BridgedDevicesFromJSON
    <3>3. RegisteredTo(bridge, us, d) /\ CompletedTo(d, bridge')
      BY <3>1, <3>2, ListKeeps
    <3>4. bridge'.map = d.map /\ bridge'.objs = d.objs
      BY <3>3 DEF CompletedTo
    <3>5. CASE u \in us
      <4>1. PICK o : o = d.map[u]
        OBVIOUS
      <4>2. o \in (DOMAIN d.objs) \ (DOMAIN bridge.objs)
        BY <1>1, <3>3, <3>5, <4>1 DEF RegisteredTo
      <4>3. d.objs[o] = NewDevice(d.objs[o].uid)
        BY <3>3, <4>2 DEF RegisteredTo
      <4>4. d.objs[o].bridgeable = TRUE
        BY <4>3 DEF NewDevice
      <4>5. QED
        BY <3>4, <4>1, <4>4
    <3>6. CASE u \notin us
      <4>1. d.map[u] = bridge.map[u]
        BY <1>1, <3>3, <3>6 DEF RegisteredTo
      <4>2. bridge.map[u] \in DOMAIN bridge.objs
        BY <1>1, <3>4, <4>1, MapsInto
      <4>3. QED
        BY <1>2, <3>3, <3>4, <4>1, <4>2 DEF RegisteredTo
    <3>7. QED
      BY <3>5, <3>6
  <2>4. ASSUME NEW v \in P44Uid, NEW is \in BOOLEAN, P44DeviceInfo(v, is)
        PROVE  bridge'.objs[bridge'.map[u]].bridgeable \/ ~bridge'.objs[bridge'.map[u]].active
    <3>1. CASE ~is
      BY <1>3, <2>4, <3>1 DEF P44DeviceInfo
    <3>2. CASE is
      <4>1. PICK d : d = RegisterInitialDevices(bridge, {v})
        OBVIOUS
      <4>2. v \in Uid /\ bridge' = BridgeAdditionalDevice(d, Newest(d))
        BY <2>4, <3>2, <4>1, P44Assumption DEF P44DeviceInfo, BridgedDevicesFromJSON
      <4>3. CASE v # u
        <5>1. Frame(bridge, bridge', {v})
          BY <4>1, <4>2, FrameInfo
        <5>2. QED
          BY <2>1, <4>3, <5>1
      <4>4. CASE v = u
        <5>1. /\ RegisteredTo(bridge, {u}, d) /\ AddedTo(d, u, Newest(d), bridge')
              /\ Newest(d) \in DOMAIN d.objs /\ d.objs[Newest(d)] = NewDevice(u)
          <6>1. d = RegisterInitialDevices(bridge, {u}) /\ u \in Uid
            BY <1>1, <4>1, <4>4
          <6>2. QED
            BY <4>2, <6>1, InfoKeeps
        <5>2. PICK o : o = bridge'.map[u]
          OBVIOUS
        <5>3. o = Newest(d) \/ o = d.map[u]
          BY <5>1, <5>2 DEF AddedTo
        <5>4. o \in DOMAIN d.objs /\ (d.objs[o] = NewDevice(u) \/ d.objs[o] = NewDevice(d.objs[o].uid))
          <6>1. CASE o = Newest(d)
            BY <5>1, <6>1
          <6>2. CASE o = d.map[u]
            <7>1. o \in (DOMAIN d.objs) \ (DOMAIN bridge.objs)
              BY <1>1, <5>1, <6>2 DEF RegisteredTo
            <7>2. QED
              BY <5>1, <7>1 DEF RegisteredTo
          <6>3. QED
            BY <5>3, <6>1, <6>2
        <5>5. d.objs[o].bridgeable = TRUE
          BY <5>4 DEF NewDevice
        <5>6. QED
          BY <5>1, <5>2, <5>4, <5>5 DEF AddedTo
      <4>5. QED
        BY <4>3, <4>4
    <3>3. QED
      BY <3>1, <3>2
  <2>5. ASSUME NEW v \in P44Uid, NEW is \in BOOLEAN, P44Push(v, is)
        PROVE  bridge'.objs[bridge'.map[u]].bridgeable \/ ~bridge'.objs[bridge'.map[u]].active
    <3>1. CASE bridge.map[v] = NoObj \/ v \in P44Composed
      BY <1>3, <2>5, <3>1 DEF P44Push
    <3>2. CASE bridge.map[v] # NoObj /\ v \notin P44Composed
      <4>1. PICK o : o = bridge.map[v]
        OBVIOUS
      <4>2. /\ o # NoObj /\ v \in Uid
            /\ bridge' = [bridge EXCEPT !.objs[o].bridgeable = is,
                                        !.objs[o].reachable = is /\ bridge.objs[o].active]
        BY <2>5, <3>2, <4>1, P44Assumption DEF P44Push
      <4>3. Frame(bridge, bridge', {v})
        BY <4>1, <4>2, FramePush
      <4>4. QED
        BY <2>1, <3>2, <4>3
    <3>3. QED
      BY <3>1, <3>2
  <2>6. ASSUME NEW v \in P44Uid, P44Vanish(v)
        PROVE  bridge'.objs[bridge'.map[u]].bridgeable \/ ~bridge'.objs[bridge'.map[u]].active
    <3>1. CASE bridge.map[v] = NoObj
      BY <1>3, <2>6, <3>1 DEF P44Vanish
    <3>2. CASE bridge.map[v] # NoObj
      <4>1. PICK o : o = bridge.map[v]
        OBVIOUS
      <4>2. /\ o # NoObj /\ v \in Uid
            /\ bridge' = RemoveDevice([bridge EXCEPT !.objs[o].bridgeable = FALSE, !.objs[o].active = FALSE], o)
        BY <2>6, <3>2, <4>1, P44Assumption DEF P44Vanish
      <4>3. CASE v # u
        <5>1. Frame(bridge, bridge', {v})
          BY <4>1, <4>2, FrameVanish
        <5>2. QED
          BY <2>1, <4>3, <5>1
      <4>4. CASE v = u
        <5>1. o \in DOMAIN bridge.objs /\ bridge.objs[o] \in DeviceObject
          BY <4>1, <4>2, MapsInto, FieldTypes
        <5>2. PICK d : RemovedTo(bridge, o, d) /\ ChangedTo(d, o, Gone(bridge.objs[o]), bridge')
          BY <4>2, <5>1, VanishKeeps
        <5>3. bridge'.map[u] = o /\ bridge'.objs[o] = Gone(bridge.objs[o])
          BY <4>1, <4>4, <5>1, <5>2 DEF RemovedTo, ChangedTo
        <5>4. bridge'.objs[o].active = FALSE
          BY <5>1, <5>3 DEF Gone, DeviceObject
        <5>5. QED
          BY <5>3, <5>4
      <4>5. QED
        BY <4>3, <4>4
    <3>3. QED
      BY <3>1, <3>2
  <2>7. CASE P44Receive
    <3>1. \A us \in SUBSET P44Uid : P44ReconnectQuery(us) => UNCHANGED bridge
      BY DEF P44ReconnectQuery
    <3>2. QED
      BY <1>3, <2>3, <2>4, <2>5, <2>6, <2>7, <3>1 DEF P44Receive
  <2>8. QED
    <3>1. P44ConnectFails => UNCHANGED bridge \/ bridge' = StartupComplete(bridge)
      BY DEF P44ConnectFails
    <3>2. P44Connect \/ VdcAnswer \/ P44Lost \/ (\E v \in P44Uid : VdcChange(v) \/ VdcVanish(v)) => UNCHANGED bridge
      BY DEF P44Connect, VdcAnswer, P44Lost, VdcChange, VdcVanish
    <3>3. QED
      BY <1>3, <1>6, <2>2, <2>7, <3>1, <3>2 DEF P44Next, P44System
<1>7. QED
  BY <1>3, <1>4, <1>5, <1>6 DEF Next, vars

\* Whenever nothing is on its way on a connection that never broke and the stack
\* runs, every bridgeable device that has not vanished is reachable over matter,
\* in whatever order the answers, the notifications and the start of the stack
\* came, and only bridgeable devices and composed ones are: a composed device
\* stays reachable when it is no longer bridgeable.
THEOREM P44AlwaysConsistent == Spec => []P44Consistent
<1>1. Init => P44Inv /\ ComposedKept(bridge)
  <2>1. Init => ComposedKept(bridge)
    <3>1. P44Composed \subseteq Uid
      BY P44Assumption
    <3>2. QED
      BY <3>1 DEF ComposedKept, Init, InitBridge
  <2>2. QED
    BY <2>1, InformedInit
<1>2. TypeOK /\ MainInv(bridge) /\ StartupFirst /\ P44Inv /\ [Next]_vars => P44Inv'
  BY InformedStep
<1>3. MainInv(bridge) /\ ComposedKept(bridge) /\ [Next]_vars => ComposedKept(bridge)'
  BY ComposedStep
<1>4. TypeOK /\ MainInv(bridge) /\ P44Inv /\ ComposedKept(bridge) => P44Consistent
  BY InformedConsistent
<1>5. QED
  BY <1>1, <1>2, <1>3, <1>4, TypeCorrect, MainAlways, StartupAlwaysFirst, PTL DEF Spec

---------------------------------------------------------------------------
(* What the CC adapter has asked for and is told.                          *)

\* While the setup goes on, there is no message about an item that exists.
LEMMA SetupQuiet ==
  ASSUME SetupFirst, SetupComes, fromCC \in Seq(Incoming)
  PROVE  \A k \in DOMAIN fromCC : fromCC[k].msg \notin {"list", "info"}
<1> SUFFICES ASSUME NEW k \in DOMAIN fromCC, fromCC[k].msg \in {"list", "info"} PROVE FALSE
  OBVIOUS
<1>1. ccConnected
  BY DEF SetupFirst
<1>2. ASSUME NEW j \in DOMAIN toCC, toCC[j].call \in Setup
      PROVE  FALSE
  BY <1>2 DEF SetupFirst, Setup
<1>3. ASSUME NEW j \in DOMAIN fromCC, fromCC[j].msg \in {"register", "subscribe"}
      PROVE  FALSE
  <2>1. j # k /\ j \in Int /\ k \in Int
    BY <1>3
  <2>2. CASE j < k
    BY <1>3, <2>2 DEF SetupFirst, Setup
  <2>3. CASE k < j
    BY <1>3, <2>3 DEF SetupFirst
  <2>4. QED
    BY <2>1, <2>2, <2>3
<1>4. QED
  BY <1>1, <1>2, <1>3 DEF SetupComes

\* The server answers.
LEMMA SetupAnswered ==
  ASSUME CCTypeOK, SetupFirst, ccConnected', toCC # <<>>, toCC' = Tail(toCC),
         NEW m \in Incoming, m.msg = Head(toCC).call, fromCC' = Append(fromCC, m),
         ccSubscribed' <=> ccSubscribed \/ m.msg = "subscribe",
         m.msg \in {"register", "subscribe"} => m.ok
  PROVE  SetupFirst'
<1>1. /\ toCC \in Seq(Request) /\ fromCC \in Seq(Incoming) /\ Setup = {"register", "subscribe", "list"}
      /\ \A k \in DOMAIN fromCC :
           fromCC[k].msg \in Setup \cup {"info", "created", "deleted"}
  <2>1. \A x \in Incoming : x.msg \in Setup \cup {"info", "created", "deleted"}
    BY DEF Incoming, Setup
  <2>2. QED
    BY <2>1 DEF CCTypeOK, Setup
<1>2. Shorter(toCC, toCC') /\ m.msg = toCC[1].call /\ 1 \in DOMAIN toCC
  BY <1>1, ShorterTail
<1>3. Longer(fromCC, m, fromCC')
  BY <1>1, LongerAppend
<1>4. m.msg \in Setup \cup {"info"}
  <2>1. \A r \in Request : r.call \in Setup \cup {"info"}
    BY DEF Request, Setup
  <2>2. QED
    BY <1>1, <1>2, <2>1
<1>5. \A k \in DOMAIN fromCC : fromCC[k].msg \notin {"register", "subscribe"}
  BY <1>1, <1>2, <1>4 DEF SetupFirst
<1>6. m.msg \in {"register", "subscribe"} =>
        /\ ~ccSubscribed /\ fromCC = <<>>
        /\ \A k \in DOMAIN toCC : toCC[k].call # "info"
  <2> SUFFICES ASSUME m.msg \in {"register", "subscribe"}
               PROVE  ~ccSubscribed /\ fromCC = <<>> /\ \A k \in DOMAIN toCC : toCC[k].call # "info"
    OBVIOUS
  <2>1. ~ccSubscribed
    BY <1>1, <1>2 DEF SetupFirst
  <2>2. \A k \in DOMAIN fromCC : FALSE
    BY <1>1, <1>5, <2>1 DEF SetupFirst
  <2>3. QED
    BY <1>1, <2>1, <2>2 DEF SetupFirst
<1>7. m.msg \in {"list", "info"} => ccSubscribed
  BY <1>1, <1>2 DEF SetupFirst
<1>8. \A k \in DOMAIN toCC' : toCC'[k].call \notin Setup
  <2> SUFFICES ASSUME NEW k \in DOMAIN toCC', toCC'[k].call \in Setup PROVE FALSE
    OBVIOUS
  <2>1. k + 1 \in DOMAIN toCC /\ toCC[k + 1].call \in Setup /\ k \in Nat /\ k >= 1 /\ k + 1 # 1
    BY <1>2 DEF Shorter
  <2>2. QED
    BY <2>1 DEF SetupFirst
<1>9. \A k \in DOMAIN toCC' : toCC'[k].call = "info" =>
        ccSubscribed' /\ \A j \in DOMAIN fromCC' : fromCC'[j].msg \notin {"register", "subscribe"}
  <2> SUFFICES ASSUME NEW k \in DOMAIN toCC', toCC'[k].call = "info"
               PROVE  ccSubscribed' /\ \A j \in DOMAIN fromCC' : fromCC'[j].msg \notin {"register", "subscribe"}
    OBVIOUS
  <2>1. k + 1 \in DOMAIN toCC /\ toCC[k + 1].call = "info"
    BY <1>2 DEF Shorter
  <2>2. ccSubscribed
    BY <2>1 DEF SetupFirst
  <2>3. m.msg \notin {"register", "subscribe"}
    BY <1>6, <2>2
  <2>4. QED
    BY <1>3, <1>5, <2>2, <2>3 DEF Longer
<1>10. \A k \in DOMAIN fromCC' : fromCC'[k].msg \in {"register", "subscribe"} =>
         fromCC'[k].ok /\ (fromCC'[k].msg = "register" <=> ~ccSubscribed')
  <2> SUFFICES ASSUME NEW k \in DOMAIN fromCC', fromCC'[k].msg \in {"register", "subscribe"}
               PROVE  fromCC'[k].ok /\ (fromCC'[k].msg = "register" <=> ~ccSubscribed')
    OBVIOUS
  <2>1. fromCC'[k] = m
    BY <1>3, <1>5 DEF Longer
  <2>2. QED
    BY <1>6, <2>1
<1>11. \A k \in DOMAIN fromCC' : fromCC'[k].msg \in {"created", "deleted", "info", "list"} => ccSubscribed'
  <2> SUFFICES ASSUME NEW k \in DOMAIN fromCC', fromCC'[k].msg \in {"created", "deleted", "info", "list"}
               PROVE  ccSubscribed
    OBVIOUS
  <2>1. CASE k = Len(fromCC')
    <3>1. fromCC'[k] = m
      BY <1>3, <2>1 DEF Longer
    <3>2. QED
      BY <1>1, <1>4, <1>7, <3>1
  <2>2. CASE k # Len(fromCC')
    <3>1. k \in DOMAIN fromCC /\ fromCC'[k] = fromCC[k]
      BY <1>3, <2>2 DEF Longer
    <3>2. QED
      BY <3>1 DEF SetupFirst
  <2>3. QED
    BY <2>1, <2>2
<1>12. \A j, k \in DOMAIN fromCC' : j < k =>
         /\ fromCC'[k].msg \notin {"register", "subscribe"}
         /\ fromCC'[k].msg = "list" => fromCC'[j].msg \notin Setup \cup {"info"}
         /\ fromCC'[k].msg = "info" => fromCC'[j].msg \notin {"register", "subscribe"}
  <2> SUFFICES ASSUME NEW j \in DOMAIN fromCC', NEW k \in DOMAIN fromCC', j < k
               PROVE  /\ fromCC'[k].msg \notin {"register", "subscribe"}
                      /\ fromCC'[k].msg = "list" => fromCC'[j].msg \notin Setup \cup {"info"}
                      /\ fromCC'[k].msg = "info" => fromCC'[j].msg \notin {"register", "subscribe"}
    OBVIOUS
  <2>1. j \in DOMAIN fromCC /\ fromCC'[j] = fromCC[j]
    <3>1. j # Len(fromCC')
      BY <1>3 DEF Longer
    <3>2. QED
      BY <1>3, <3>1 DEF Longer
  <2>2. CASE k = Len(fromCC')
    <3>1. fromCC'[k] = m /\ fromCC # <<>>
      BY <1>1, <1>3, <2>1, <2>2 DEF Longer
    <3>2. m.msg \notin {"register", "subscribe"}
      BY <1>6, <3>1
    <3>3. m.msg = "list" => fromCC[j].msg \notin Setup \cup {"info"}
      BY <1>1, <1>2, <2>1 DEF SetupFirst
    <3>4. QED
      BY <1>5, <2>1, <3>1, <3>2, <3>3
  <2>3. CASE k # Len(fromCC')
    <3>1. k \in DOMAIN fromCC /\ fromCC'[k] = fromCC[k]
      BY <1>3, <2>3 DEF Longer
    <3>2. QED
      BY <2>1, <3>1 DEF SetupFirst
  <2>4. QED
    BY <2>2, <2>3
<1>13. ~SetupComes' => ccSubscribed'
  <2>1. Len(fromCC') \in DOMAIN fromCC' /\ fromCC'[Len(fromCC')] = m
    BY <1>3 DEF Longer
  <2>2. m.msg \in {"register", "subscribe"} => SetupComes'
    BY <2>1 DEF SetupComes
  <2>3. QED
    BY <1>1, <1>4, <1>7, <2>2
<1>14. QED
  BY <1>8, <1>9, <1>10, <1>11, <1>12, <1>13 DEF SetupFirst

\* An item is created or deleted.
LEMMA SetupNotified ==
  ASSUME CCTypeOK, SetupFirst, ccSubscribed, UNCHANGED <<ccConnected, ccSubscribed, toCC>>,
         NEW m \in Incoming, m.msg \in {"created", "deleted"}, fromCC' = Append(fromCC, m)
  PROVE  SetupFirst' /\ (SetupComes' <=> SetupComes) /\ (Listed' <=> Listed)
<1>1. Longer(fromCC, m, fromCC')
  BY LongerAppend DEF CCTypeOK
<1>2. \A k \in DOMAIN fromCC' : \/ fromCC'[k].msg \in {"created", "deleted"}
                                \/ k \in DOMAIN fromCC /\ fromCC'[k] = fromCC[k]
  BY <1>1 DEF Longer
<1>3. ccConnected
  BY DEF SetupFirst
<1>4. \A k \in DOMAIN toCC' : toCC'[k].call \in Setup =>
        /\ k = 1
        /\ \A j \in DOMAIN fromCC' : fromCC'[j].msg \notin Setup \cup {"info"}
        /\ toCC'[k].call # "list" <=> ~ccSubscribed'
  <2>1. \A j \in DOMAIN fromCC' : fromCC'[j].msg \in Setup \cup {"info"} =>
          j \in DOMAIN fromCC /\ fromCC'[j] = fromCC[j]
    BY <1>2 DEF Setup
  <2>2. QED
    BY <2>1 DEF SetupFirst
<1>5. \A k \in DOMAIN toCC' : toCC'[k].call = "info" =>
        ccSubscribed' /\ \A j \in DOMAIN fromCC' : fromCC'[j].msg \notin {"register", "subscribe"}
  BY <1>2 DEF SetupFirst
<1>6. \A k \in DOMAIN fromCC' : fromCC'[k].msg \in {"register", "subscribe"} =>
        fromCC'[k].ok /\ (fromCC'[k].msg = "register" <=> ~ccSubscribed')
  BY <1>2 DEF SetupFirst
<1>7. \A j, k \in DOMAIN fromCC' : j < k =>
        /\ fromCC'[k].msg \notin {"register", "subscribe"}
        /\ fromCC'[k].msg = "list" => fromCC'[j].msg \notin Setup \cup {"info"}
        /\ fromCC'[k].msg = "info" => fromCC'[j].msg \notin {"register", "subscribe"}
  <2> SUFFICES ASSUME NEW j \in DOMAIN fromCC', NEW k \in DOMAIN fromCC', j < k
               PROVE  /\ fromCC'[k].msg \notin {"register", "subscribe"}
                      /\ fromCC'[k].msg = "list" => fromCC'[j].msg \notin Setup \cup {"info"}
                      /\ fromCC'[k].msg = "info" => fromCC'[j].msg \notin {"register", "subscribe"}
    OBVIOUS
  <2>1. CASE fromCC'[k].msg \in {"created", "deleted"}
    BY <2>1
  <2>2. CASE k \in DOMAIN fromCC /\ fromCC'[k] = fromCC[k]
    <3>1. j \in DOMAIN fromCC /\ fromCC'[j] = fromCC[j]
      <4>1. j # Len(fromCC')
        BY <1>1 DEF Longer
      <4>2. QED
        BY <1>1, <4>1 DEF Longer
    <3>2. QED
      BY <2>2, <3>1 DEF SetupFirst
  <2>3. QED
    BY <1>2, <2>1, <2>2
<1>8. \A k \in DOMAIN fromCC : k \in DOMAIN fromCC' /\ fromCC'[k] = fromCC[k]
  BY <1>1 DEF Longer
<1>9. SetupComes' <=> SetupComes
  BY <1>2, <1>8 DEF SetupComes
<1>10. Listed' <=> Listed
  BY <1>2, <1>8, <1>9 DEF Listed
<1>11. SetupFirst'
  BY <1>3, <1>4, <1>5, <1>6, <1>7 DEF SetupFirst
<1>12. QED
  BY <1>9, <1>10, <1>11

\* A message that does not belong to the setup is handled, or the list.
LEMMA SetupReceived ==
  ASSUME CCTypeOK, SetupFirst, fromCC # <<>>, fromCC' = Tail(fromCC), UNCHANGED <<ccConnected, ccSubscribed>>,
         Added(toCC, toCC'),
         \A k \in DOMAIN toCC' : k \notin DOMAIN toCC => toCC'[k].call = "info" /\ fromCC[1].msg = "created",
         fromCC[1].msg \notin {"register", "subscribe"}
  PROVE  /\ SetupFirst' /\ (SetupComes' <=> SetupComes)
         /\ fromCC[1].msg = "list" => ~Listed /\ Listed'
         /\ fromCC[1].msg = "info" => Listed
         /\ fromCC[1].msg # "list" => (Listed' <=> Listed)
<1>1. Shorter(fromCC, fromCC') /\ 1 \in DOMAIN fromCC
  BY ShorterTail DEF CCTypeOK
<1>2. /\ \A k \in DOMAIN fromCC' : k + 1 \in DOMAIN fromCC /\ fromCC'[k] = fromCC[k + 1] /\ 1 < k + 1
      /\ \A k \in DOMAIN fromCC : k = 1 \/ (k - 1 \in DOMAIN fromCC' /\ fromCC'[k - 1] = fromCC[k])
  BY <1>1 DEF Shorter
<1>3. /\ \A k \in DOMAIN toCC : k \in DOMAIN toCC' /\ toCC'[k] = toCC[k]
      /\ \A k \in DOMAIN toCC' : toCC'[k].call = "info" \/ k \in DOMAIN toCC
  BY DEF Added
<1>4. ccConnected
  BY DEF SetupFirst
<1>5. \A k \in DOMAIN fromCC' : fromCC'[k].msg \notin {"register", "subscribe"}
  BY <1>1, <1>2 DEF SetupFirst
<1>6. \A k \in DOMAIN toCC' : toCC'[k].call \in Setup =>
        /\ k = 1
        /\ \A j \in DOMAIN fromCC' : fromCC'[j].msg \notin Setup \cup {"info"}
        /\ toCC'[k].call # "list" <=> ~ccSubscribed'
  <2>1. \A k \in DOMAIN toCC' : toCC'[k].call \in Setup => k \in DOMAIN toCC /\ toCC'[k] = toCC[k]
    BY <1>3 DEF Setup
  <2>2. QED
    BY <1>2, <2>1 DEF SetupFirst
<1>7. \A k \in DOMAIN toCC' : toCC'[k].call = "info" => ccSubscribed'
  BY <1>1, <1>3 DEF SetupFirst
<1>8. \A j, k \in DOMAIN fromCC' : j < k /\ fromCC'[k].msg = "list" =>
        fromCC'[j].msg \notin Setup \cup {"info"}
  <2> SUFFICES ASSUME NEW j \in DOMAIN fromCC', NEW k \in DOMAIN fromCC', j < k, fromCC'[k].msg = "list"
               PROVE  fromCC'[j].msg \notin Setup \cup {"info"}
    OBVIOUS
  <2>1. /\ j + 1 \in DOMAIN fromCC /\ fromCC'[j] = fromCC[j + 1]
        /\ k + 1 \in DOMAIN fromCC /\ fromCC'[k] = fromCC[k + 1]
    BY <1>2
  <2>2. j + 1 < k + 1
    BY <1>1 DEF Shorter
  <2>3. QED
    BY <2>1, <2>2 DEF SetupFirst
<1>9. SetupComes' <=> SetupComes
  <2>1. (\E k \in DOMAIN toCC' : toCC'[k].call \in Setup) <=> (\E k \in DOMAIN toCC : toCC[k].call \in Setup)
    BY <1>3 DEF Setup
  <2>2. \A k \in DOMAIN fromCC : fromCC[k].msg \notin {"register", "subscribe"}
    BY <1>2, <1>5
  <2>3. QED
    BY <1>4, <1>5, <2>1, <2>2 DEF SetupComes
<1>10. SetupFirst'
  <2>1. ~SetupComes' => ccSubscribed'
    BY <1>9 DEF SetupFirst
  <2>2. \A k \in DOMAIN fromCC' : fromCC'[k].msg \in {"created", "deleted", "info", "list"} => ccSubscribed'
    BY <1>2 DEF SetupFirst
  <2>3. QED
    BY <1>4, <1>5, <1>6, <1>7, <1>8, <2>1, <2>2 DEF SetupFirst
<1>11. fromCC[1].msg \in {"list", "info"} => ~SetupComes /\ \A k \in DOMAIN fromCC' : fromCC'[k].msg # "list"
  <2> SUFFICES ASSUME fromCC[1].msg \in {"list", "info"}
               PROVE  ~SetupComes /\ \A k \in DOMAIN fromCC' : fromCC'[k].msg # "list"
    OBVIOUS
  <2>1. ~SetupComes
    BY <1>1, SetupQuiet DEF CCTypeOK
  <2>2. \A k \in DOMAIN fromCC' : fromCC'[k].msg # "list"
    BY <1>1, <1>2 DEF SetupFirst, Setup
  <2>3. QED
    BY <2>1, <2>2
<1>12. fromCC[1].msg = "list" => ~Listed /\ Listed'
  BY <1>1, <1>9, <1>11 DEF Listed
<1>13. fromCC[1].msg # "list" => (Listed' <=> Listed)
  BY <1>2, <1>9 DEF Listed
<1>14. fromCC[1].msg = "info" => Listed
  BY <1>9, <1>11, <1>13 DEF Listed
<1>15. QED
  BY <1>9, <1>10, <1>12, <1>13, <1>14

\* The answer to a request of the setup is handled.
LEMMA SetupHandled ==
  ASSUME CCTypeOK, SetupFirst, fromCC # <<>>, fromCC' = Tail(fromCC), UNCHANGED <<ccConnected, ccSubscribed>>,
         fromCC[1].msg \in {"register", "subscribe"},
         NEW r, r.call = (IF fromCC[1].msg = "register" THEN "subscribe" ELSE "list"), toCC' = Append(toCC, r)
  PROVE  SetupFirst' /\ SetupComes /\ SetupComes'
<1>1. Shorter(fromCC, fromCC') /\ 1 \in DOMAIN fromCC /\ fromCC \in Seq(Incoming) /\ toCC \in Seq(Request)
  BY ShorterTail DEF CCTypeOK
<1>2. \A k \in DOMAIN fromCC' : k + 1 \in DOMAIN fromCC /\ fromCC'[k] = fromCC[k + 1] /\ 1 < k + 1
  BY <1>1 DEF Shorter
<1>3. toCC = <<>>
  <2>1. \A x \in Request : x.call \in Setup \cup {"info"}
    BY DEF Request, Setup
  <2>2. \A k \in DOMAIN toCC : FALSE
    BY <1>1, <2>1 DEF SetupFirst, Setup
  <2>3. QED
    BY <1>1, <2>2
<1>4. DOMAIN toCC' = {1} /\ toCC'[1] = r
  BY <1>3
<1>5. SetupComes
  BY <1>1 DEF SetupComes
<1>6. \A k \in DOMAIN fromCC' : fromCC'[k].msg \notin {"register", "subscribe", "list", "info"}
  <2>1. \A k \in DOMAIN fromCC : fromCC[k].msg \notin {"list", "info"}
    BY <1>1, <1>5, SetupQuiet
  <2>2. QED
    BY <1>1, <1>2, <2>1 DEF SetupFirst
<1>7. SetupComes'
  BY <1>4 DEF SetupComes, Setup
<1>8. ccConnected' /\ (fromCC[1].msg = "register" <=> ~ccSubscribed')
  BY <1>1 DEF SetupFirst
<1>9. \A k \in DOMAIN fromCC' : fromCC'[k].msg \in {"created", "deleted", "info", "list"} => ccSubscribed'
  BY <1>2 DEF SetupFirst
<1>10. SetupFirst'
  BY <1>4, <1>6, <1>7, <1>8, <1>9 DEF SetupFirst, Setup
<1>11. QED
  BY <1>5, <1>7, <1>10

\* While the setup goes on, no item is in the map, and none is expected to be.
LEMMA FollowedSetup ==
  ASSUME Followed, SetupFirst', SetupComes, SetupComes', UNCHANGED bridge, fromCC' \in Seq(Incoming)
  PROVE  Followed'
<1>1. \A u \in CCUid : bridge.map[u] = NoObj
  BY DEF Followed, NoneListed, Listed
<1>2. NoneListed'
  BY <1>1 DEF NoneListed
<1>3. ItemsCome'
  BY DEF ItemsCome
<1>4. BroughtIsDeleted'
  <2>1. \A k \in DOMAIN fromCC' : fromCC'[k].msg \notin {"list", "info"}
    <3>1. (SetupFirst /\ SetupComes /\ fromCC \in Seq(Incoming))' =>
            (\A k \in DOMAIN fromCC : fromCC[k].msg \notin {"list", "info"})'
      BY SetupQuiet, PTL
    <3>2. QED
      BY <3>1
  <2>2. QED
    BY <2>1 DEF BroughtIsDeleted, Brings
<1>5. KeptIsDeleted'
  BY <1>1 DEF KeptIsDeleted, Kept
<1>6. \A u \in CCUid : OneEnabled(bridge', u)
  BY DEF Followed
<1>7. QED
  BY <1>2, <1>3, <1>4, <1>5, <1>6 DEF Followed

---------------------------------------------------------------------------
(* The steps of the CC adapter and of its server.                          *)

LEMMA FollowedConnect ==
  ASSUME CCTypeOK, Followed, CCConnect
  PROVE  Followed'
<1>1. toCC = <<>> /\ fromCC = <<>> /\ ~ccSubscribed /\ SetupComes
  BY DEF Followed, SetupFirst, SetupComes, CCConnect
<1>2. /\ toCC' = <<[call |-> "register"]>> /\ fromCC' = <<>> /\ ~ccSubscribed' /\ ccConnected'
      /\ bridge' = bridge
  BY <1>1 DEF CCConnect
<1>3. DOMAIN toCC' = {1} /\ toCC'[1].call = "register" /\ \A k \in DOMAIN fromCC' : FALSE
  BY <1>2
<1>4. SetupComes'
  BY <1>3 DEF SetupComes, Setup
<1>5. SetupFirst'
  BY <1>2, <1>3, <1>4 DEF SetupFirst, Setup
<1>6. fromCC' \in Seq(Incoming)
  BY <1>2, EmptyIn
<1>7. QED
  BY <1>1, <1>2, <1>4, <1>5, <1>6, FollowedSetup

LEMMA FollowedAnswer ==
  ASSUME CCTypeOK, Followed, CCAnswer
  PROVE  Followed'
<1>1. PICK m \in Incoming :
        /\ m.msg = Head(toCC).call /\ fromCC' = Append(fromCC, m)
        /\ ccSubscribed' <=> ccSubscribed \/ m.msg = "subscribe"
        /\ m.msg \in {"register", "subscribe"} => m.ok
        /\ m.msg = "list" => m.uids = items
        /\ m.msg = "info" => m.uid = Head(toCC).uid /\ m.ok = (m.uid \in items)
  BY AnswerGives
<1>2. /\ ccConnected /\ ccConnected' /\ toCC # <<>> /\ toCC' = Tail(toCC) /\ UNCHANGED <<bridge, items>>
  BY DEF CCAnswer
<1>3. SetupFirst'
  BY <1>1, <1>2, SetupAnswered DEF Followed
<1>4. /\ Shorter(toCC, toCC') /\ m.msg = toCC[1].call /\ 1 \in DOMAIN toCC
      /\ (m.msg = "info" => m.uid = toCC[1].uid)
  BY <1>1, <1>2, ShorterTail DEF CCTypeOK
<1>5. Longer(fromCC, m, fromCC') /\ fromCC' \in Seq(Incoming) /\ fromCC \in Seq(Incoming)
  BY <1>1, LongerAppend, AppendIn DEF CCTypeOK
<1>6. m.msg \in Setup \cup {"info"}
  <2>1. \A r \in Request : r.call \in Setup \cup {"info"}
    BY DEF Request, Setup
  <2>2. QED
    BY <1>4, <2>1 DEF CCTypeOK
<1>7. /\ Len(fromCC') \in DOMAIN fromCC' /\ fromCC'[Len(fromCC')] = m
      /\ \A k \in DOMAIN fromCC : k \in DOMAIN fromCC' /\ fromCC'[k] = fromCC[k]
      /\ \A k \in DOMAIN fromCC' : k = Len(fromCC') \/ (k \in DOMAIN fromCC /\ fromCC'[k] = fromCC[k])
  BY <1>5 DEF Longer
<1>8. \A u \in CCUid : OneEnabled(bridge', u)
  BY <1>2 DEF Followed
<1>9. CASE m.msg \in {"register", "subscribe"}
  <2>1. SetupComes
    BY <1>4, <1>9 DEF SetupComes, Setup
  <2>2. SetupComes'
    BY <1>7, <1>9 DEF SetupComes
  <2>3. QED
    BY <1>2, <1>3, <1>5, <2>1, <2>2, FollowedSetup
<1>10. CASE m.msg = "list"
  <2>1. SetupComes
    BY <1>4, <1>10 DEF SetupComes, Setup
  <2>2. \A u \in CCUid : bridge'.map[u] = NoObj
    BY <1>2, <2>1 DEF Followed, NoneListed, Listed
  <2>3. NoneListed' /\ KeptIsDeleted'
    BY <2>2 DEF NoneListed, KeptIsDeleted, Kept
  <2>4. ItemsCome'
    <3>1. \A u \in items' : Announces(fromCC'[Len(fromCC')], u)
      BY <1>1, <1>2, <1>7, <1>10 DEF Announces, Brings
    <3>2. QED
      BY <1>7, <3>1 DEF ItemsCome
  <2>5. BroughtIsDeleted'
    <3>1. \A u \in CCUid \ items : ~Brings(m, u)
      BY <1>1, <1>10 DEF Brings
    <3>2. \A k \in DOMAIN fromCC, u \in CCUid : ~Brings(fromCC[k], u)
      BY <1>5, <2>1, SetupQuiet DEF Followed, Brings
    <3>3. QED
      BY <1>2, <1>7, <3>1, <3>2 DEF BroughtIsDeleted
  <2>6. QED
    BY <1>3, <1>8, <2>3, <2>4, <2>5 DEF Followed
<1>11. CASE m.msg = "info"
  <2>1. toCC[1].call \notin Setup
    BY <1>4, <1>11 DEF Setup
  <2>2. \A k \in DOMAIN toCC : k = 1 \/ (k - 1 \in DOMAIN toCC' /\ toCC'[k - 1] = toCC[k])
    BY <1>4 DEF Shorter
  <2>3. SetupComes => SetupComes'
    <3>1. \A k \in DOMAIN toCC : toCC[k].call \in Setup => \E j \in DOMAIN toCC' : toCC'[j].call \in Setup
      BY <2>1, <2>2
    <3>2. \A k \in DOMAIN fromCC : fromCC[k].msg \in {"register", "subscribe"} =>
            \E j \in DOMAIN fromCC' : fromCC'[j].msg \in {"register", "subscribe"}
      BY <1>7
    <3>3. QED
      BY <1>2, <3>1, <3>2 DEF SetupComes
  <2>4. Listed => Listed'
    <3>1. SetupComes' => SetupComes
      <4>1. \A k \in DOMAIN toCC' : k + 1 \in DOMAIN toCC /\ toCC'[k] = toCC[k + 1]
        BY <1>4 DEF Shorter
      <4>2. QED
        BY <1>2, <1>7, <1>11, <4>1 DEF SetupComes
    <3>2. QED
      BY <1>7, <1>11, <3>1 DEF Listed
  <2>5. NoneListed'
    BY <1>2, <2>4 DEF Followed, NoneListed
  <2>6. ItemsCome'
    <3> SUFFICES ASSUME NEW u \in CCUid, u \in items, bridge.map[u] = NoObj
                 PROVE  \/ SetupComes'
                        \/ \E k \in DOMAIN toCC' : AsksFor(toCC'[k], u)
                        \/ \E k \in DOMAIN fromCC' : Announces(fromCC'[k], u)
      BY <1>2 DEF ItemsCome
    <3>1. \/ SetupComes
          \/ \E k \in DOMAIN toCC : AsksFor(toCC[k], u)
          \/ \E k \in DOMAIN fromCC : Announces(fromCC[k], u)
      BY DEF Followed, ItemsCome
    <3>2. ASSUME NEW k \in DOMAIN toCC, AsksFor(toCC[k], u), k # 1
          PROVE  \E j \in DOMAIN toCC' : AsksFor(toCC'[j], u)
      BY <2>2, <3>2
    <3>3. ASSUME AsksFor(toCC[1], u)
          PROVE  Announces(fromCC'[Len(fromCC')], u)
      <4>1. m.uid = u /\ m.ok = (u \in items)
        BY <1>1, <1>4, <1>11, <3>3 DEF AsksFor
      <4>2. QED
        BY <1>7, <1>11, <4>1 DEF Announces, Brings
    <3>4. QED
      BY <1>7, <2>3, <3>1, <3>2, <3>3
  <2>7. BroughtIsDeleted'
    <3> SUFFICES ASSUME NEW u \in CCUid \ items, NEW k \in DOMAIN fromCC', Brings(fromCC'[k], u)
                 PROVE  \E j \in DOMAIN fromCC' : j > k /\ Deletes(fromCC'[j], u)
      BY <1>2 DEF BroughtIsDeleted
    <3>1. ~Brings(m, u)
      <4>1. m.uid = u => m.ok = FALSE
        <5>1. m.uid \notin items => (m.uid \in items) = FALSE
          BY Truth
        <5>2. m.ok = (m.uid \in items)
          BY <1>1, <1>11
        <5>3. QED
          BY <5>1, <5>2
      <4>2. QED
        BY <1>11, <4>1 DEF Brings
    <3>2. k \in DOMAIN fromCC /\ Brings(fromCC[k], u)
      BY <1>7, <3>1
    <3>3. QED
      BY <1>7, <3>2 DEF Followed, BroughtIsDeleted
  <2>8. KeptIsDeleted'
    BY <1>2, <1>7 DEF Followed, KeptIsDeleted
  <2>9. QED
    BY <1>3, <1>8, <2>5, <2>6, <2>7, <2>8 DEF Followed
<1>12. QED
  BY <1>6, <1>9, <1>10, <1>11 DEF Setup

LEMMA FollowedVitals ==
  ASSUME CCTypeOK, Followed, NEW u \in CCUid, ItemCreated(u) \/ ItemDeleted(u)
  PROVE  Followed'
<1>1. PICK what \in {"created", "deleted"} :
        /\ Vitals(what, u)
        /\ what = "created" => items' = items \cup {u}
        /\ what = "deleted" => items' = items \ {u}
  BY DEF ItemCreated, ItemDeleted
<1>2. UNCHANGED <<bridge, ccConnected, ccSubscribed, toCC>>
  BY <1>1 DEF Vitals
<1>3. CASE ~ccSubscribed
  <2>1. fromCC' = fromCC
    BY <1>1, <1>3 DEF Vitals
  <2>2. SetupComes /\ SetupComes' /\ SetupFirst'
    <3>1. SetupFirst /\ SetupComes
      BY <1>3 DEF Followed, SetupFirst
    <3>2. QED
      BY <1>2, <2>1, <3>1 DEF SetupFirst, SetupComes
  <2>3. fromCC' \in Seq(Incoming)
    BY <2>1 DEF CCTypeOK
  <2>4. QED
    BY <1>2, <2>2, <2>3, FollowedSetup
<1>4. CASE ccSubscribed
  <2>1. PICK m : m = [msg |-> what, uid |-> u]
    OBVIOUS
  <2>2. fromCC' = Append(fromCC, m) /\ m \in Incoming /\ m.msg = what /\ m.uid = u
    BY <1>1, <1>4, <2>1 DEF Vitals, Incoming
  <2>3. SetupFirst' /\ (SetupComes' <=> SetupComes) /\ (Listed' <=> Listed)
    BY <1>2, <1>4, <2>2, SetupNotified DEF Followed
  <2>4. Longer(fromCC, m, fromCC')
    BY <2>2, LongerAppend DEF CCTypeOK
  <2>5. /\ Len(fromCC') \in DOMAIN fromCC' /\ fromCC'[Len(fromCC')] = m
        /\ \A k \in DOMAIN fromCC : k \in DOMAIN fromCC' /\ fromCC'[k] = fromCC[k] /\ Len(fromCC') > k
        /\ \A k \in DOMAIN fromCC' : k = Len(fromCC') \/ (k \in DOMAIN fromCC /\ fromCC'[k] = fromCC[k])
    BY <2>4 DEF Longer
  <2>6. NoneListed' /\ \A v \in CCUid : OneEnabled(bridge', v)
    BY <1>2, <2>3 DEF Followed, NoneListed
  <2>7. ItemsCome'
    <3> SUFFICES ASSUME NEW v \in CCUid, v \in items', bridge.map[v] = NoObj
                 PROVE  \/ SetupComes
                        \/ \E k \in DOMAIN toCC : AsksFor(toCC[k], v)
                        \/ \E k \in DOMAIN fromCC' : Announces(fromCC'[k], v)
      BY <1>2, <2>3 DEF ItemsCome
    <3>1. CASE what = "created" /\ v = u
      <4>1. Announces(m, v)
        BY <2>2, <3>1 DEF Announces
      <4>2. QED
        BY <2>5, <4>1
    <3>2. CASE v \in items
      BY <2>5, <3>2 DEF Followed, ItemsCome
    <3>3. QED
      BY <1>1, <3>1, <3>2
  <2>8. \A v \in CCUid \ items' : v \in CCUid \ items \/ Deletes(m, v)
    BY <1>1, <2>2 DEF Deletes
  <2>9. BroughtIsDeleted'
    <3> SUFFICES ASSUME NEW v \in CCUid \ items', NEW k \in DOMAIN fromCC', Brings(fromCC'[k], v)
                 PROVE  \E j \in DOMAIN fromCC' : j > k /\ Deletes(fromCC'[j], v)
      BY DEF BroughtIsDeleted
    <3>1. ~Brings(m, v)
      BY <1>1, <2>2 DEF Brings
    <3>2. k \in DOMAIN fromCC /\ Brings(fromCC[k], v)
      BY <2>5, <3>1
    <3>3. QED
      BY <2>5, <2>8, <3>2 DEF Followed, BroughtIsDeleted
  <2>10. KeptIsDeleted'
    BY <1>2, <2>5, <2>8 DEF Followed, KeptIsDeleted
  <2>11. QED
    BY <2>3, <2>6, <2>7, <2>9, <2>10 DEF Followed
<1>5. QED
  BY <1>3, <1>4

\* What is left alone of an item is kept, and enabled, as before.
LEMMA FrameKept ==
  ASSUME NEW b, NEW U, NEW c, Frame(b, c, U), NEW u \in Uid \ U
  PROVE  (Kept(c, u) => Kept(b, u)) /\ (OneEnabled(b, u) => OneEnabled(c, u)) /\ c.map[u] = b.map[u]
<1>1. c.map[u] = b.map[u] /\ (u \in c.early <=> u \in b.early) /\ c.up = b.up
  BY DEF Frame
<1>2. \A i \in c.on : c.objs[c.table[i]].uid = u =>
        i \in b.on /\ c.table[i] = b.table[i] /\ b.objs[b.table[i]].uid = u
  BY DEF Frame
<1>3. EnabledIn(c, u) => EnabledIn(b, u)
  BY <1>2 DEF EnabledIn
<1>4. Kept(c, u) => Kept(b, u)
  BY <1>1, <1>3 DEF Kept
<1>5. OneEnabled(b, u) => OneEnabled(c, u)
  BY <1>1, <1>2 DEF OneEnabled
<1>6. QED
  BY <1>1, <1>4, <1>5

\* A message about the item u alone is handled.
LEMMA FollowedReceived ==
  ASSUME CCTypeOK, Followed, NEW u \in CCUid, fromCC # <<>>, fromCC[1].msg \in {"created", "deleted", "info"},
         fromCC[1].uid = u, fromCC' = Tail(fromCC), UNCHANGED <<ccConnected, ccSubscribed, items>>,
         Added(toCC, toCC'),
         \A k \in DOMAIN toCC' : k \notin DOMAIN toCC => toCC'[k].call = "info" /\ fromCC[1].msg = "created",
         Frame(bridge, bridge', {u}),
         fromCC[1].msg = "info" \/ bridge'.map[u] = bridge.map[u],
         bridge'.map[u] = NoObj => bridge.map[u] = NoObj,
         bridge'.map[u] = NoObj /\ u \in items /\ Announces(fromCC[1], u) =>
           \E k \in DOMAIN toCC' : AsksFor(toCC'[k], u),
         Kept(bridge', u) => u \in items \/ (Kept(bridge, u) /\ ~Deletes(fromCC[1], u)) \/ Brings(fromCC[1], u),
         OneEnabled(bridge, u) => OneEnabled(bridge', u)
  PROVE  Followed'
<1>1. Shorter(fromCC, fromCC') /\ 1 \in DOMAIN fromCC
  BY ShorterTail DEF CCTypeOK
<1>2. /\ \A k \in DOMAIN fromCC' : k + 1 \in DOMAIN fromCC /\ fromCC'[k] = fromCC[k + 1] /\ 1 < k + 1
      /\ \A k \in DOMAIN fromCC : k = 1 \/ (k - 1 \in DOMAIN fromCC' /\ fromCC'[k - 1] = fromCC[k])
      /\ \A k \in DOMAIN fromCC', j \in DOMAIN fromCC : j > k + 1 =>
           j - 1 > k /\ j - 1 \in DOMAIN fromCC' /\ fromCC'[j - 1] = fromCC[j]
      /\ \A k \in DOMAIN fromCC : k > 1 => k # 1
  BY <1>1 DEF Shorter
<1>3. /\ SetupFirst' /\ (SetupComes' <=> SetupComes)
      /\ fromCC[1].msg = "info" => Listed
      /\ Listed' <=> Listed
  BY SetupReceived DEF Followed
<1>4. CCUid \subseteq Uid
  BY CCAssumption
<1>5. \A v \in CCUid \ {u} : /\ Kept(bridge', v) => Kept(bridge, v)
                             /\ OneEnabled(bridge, v) => OneEnabled(bridge', v)
                             /\ bridge'.map[v] = bridge.map[v]
  BY <1>4, FrameKept
<1>6. \A v \in CCUid \ {u} : ~Announces(fromCC[1], v) /\ ~Brings(fromCC[1], v) /\ ~Deletes(fromCC[1], v)
  BY DEF Announces, Brings, Deletes
<1>7. NoneListed'
  BY <1>3, <1>5 DEF Followed, NoneListed
<1>8. ItemsCome'
  <2> SUFFICES ASSUME NEW v \in CCUid, v \in items, bridge'.map[v] = NoObj
               PROVE  \/ SetupComes
                      \/ \E k \in DOMAIN toCC' : AsksFor(toCC'[k], v)
                      \/ \E k \in DOMAIN fromCC' : Announces(fromCC'[k], v)
    BY <1>3 DEF ItemsCome
  <2>1. bridge.map[v] = NoObj
    BY <1>5
  <2>2. \/ SetupComes
        \/ \E k \in DOMAIN toCC : AsksFor(toCC[k], v)
        \/ \E k \in DOMAIN fromCC : Announces(fromCC[k], v)
    BY <2>1 DEF Followed, ItemsCome
  <2>3. CASE \E k \in DOMAIN toCC : AsksFor(toCC[k], v)
    BY <2>3 DEF Added
  <2>4. ASSUME NEW k \in DOMAIN fromCC, Announces(fromCC[k], v)
        PROVE  \/ \E j \in DOMAIN toCC' : AsksFor(toCC'[j], v)
               \/ \E j \in DOMAIN fromCC' : Announces(fromCC'[j], v)
    BY <1>2, <1>6, <2>4
  <2>5. QED
    BY <2>2, <2>3, <2>4
<1>9. \A v \in CCUid \ items : \A k \in DOMAIN fromCC :
        Brings(fromCC[k], v) => \E j \in DOMAIN fromCC : j > k /\ Deletes(fromCC[j], v)
  BY DEF Followed, BroughtIsDeleted
<1>10. BroughtIsDeleted'
  <2> SUFFICES ASSUME NEW v \in CCUid \ items, NEW k \in DOMAIN fromCC', Brings(fromCC'[k], v)
               PROVE  \E j \in DOMAIN fromCC' : j > k /\ Deletes(fromCC'[j], v)
    BY DEF BroughtIsDeleted
  <2>1. PICK j \in DOMAIN fromCC : j > k + 1 /\ Deletes(fromCC[j], v)
    BY <1>2, <1>9
  <2>2. QED
    BY <1>2, <2>1
<1>11. KeptIsDeleted'
  <2> SUFFICES ASSUME NEW v \in CCUid \ items, Kept(bridge', v)
               PROVE  \E j \in DOMAIN fromCC' : Deletes(fromCC'[j], v)
    BY DEF KeptIsDeleted
  <2>1. PICK j \in DOMAIN fromCC : j # 1 /\ Deletes(fromCC[j], v)
    <3>1. Kept(bridge, v) => \E j \in DOMAIN fromCC : Deletes(fromCC[j], v)
      BY DEF Followed, KeptIsDeleted
    <3>2. CASE v # u
      BY <1>5, <1>6, <3>1, <3>2
    <3>3. CASE v = u /\ Brings(fromCC[1], u)
      BY <1>1, <1>2, <1>9, <3>3
    <3>4. CASE v = u /\ ~Brings(fromCC[1], u)
      BY <3>1, <3>4
    <3>5. QED
      BY <3>2, <3>3, <3>4
  <2>2. QED
    BY <1>2, <2>1
<1>12. \A v \in CCUid : OneEnabled(bridge', v)
  BY <1>5 DEF Followed
<1>13. QED
  BY <1>3, <1>7, <1>8, <1>10, <1>11, <1>12 DEF Followed

\* The list of items is handled.
LEMMA FollowedList ==
  ASSUME CCTypeOK, MainInv(bridge), Followed, NEW us \in SUBSET CCUid, CCDeviceList(us)
  PROVE  Followed'
<1>1. /\ fromCC # <<>> /\ Head(fromCC) = [msg |-> "list", uids |-> us] /\ fromCC' = Tail(fromCC)
      /\ UNCHANGED <<ccConnected, ccSubscribed, items, toCC>>
      /\ bridge' = StartupComplete(RegisterInitialDevices(bridge, us))
  BY DEF CCDeviceList, CCReceived
<1>2. /\ Shorter(fromCC, fromCC') /\ 1 \in DOMAIN fromCC
      /\ fromCC[1].msg = "list" /\ fromCC[1].uids = us
  <2>1. Shorter(fromCC, fromCC') /\ Head(fromCC) = fromCC[1] /\ 1 \in DOMAIN fromCC
    BY <1>1, ShorterTail DEF CCTypeOK
  <2>2. QED
    BY <1>1, <2>1
<1>3. /\ \A k \in DOMAIN fromCC' : k + 1 \in DOMAIN fromCC /\ fromCC'[k] = fromCC[k + 1]
      /\ \A k \in DOMAIN fromCC : k = 1 \/ (k - 1 \in DOMAIN fromCC' /\ fromCC'[k - 1] = fromCC[k])
      /\ \A k \in DOMAIN fromCC', j \in DOMAIN fromCC : j > k + 1 =>
           j - 1 > k /\ j - 1 \in DOMAIN fromCC' /\ fromCC'[j - 1] = fromCC[j]
      /\ \A k \in DOMAIN fromCC : k > 1 => k # 1
  BY <1>2 DEF Shorter
<1>4. SetupFirst' /\ (SetupComes' <=> SetupComes) /\ ~Listed /\ Listed'
  <2>1. Added(toCC, toCC') /\ \A k \in DOMAIN toCC' : k \in DOMAIN toCC
    BY <1>1, AddedNone DEF CCTypeOK
  <2>2. SetupFirst
    BY DEF Followed
  <2>3. QED
    BY <1>1, <1>2, <2>1, <2>2, SetupReceived
<1>5. us \in SUBSET Uid /\ CCUid \subseteq Uid
  BY CCAssumption
<1>6. PICK d : d = RegisterInitialDevices(bridge, us)
  OBVIOUS
<1>7. /\ MainInv(bridge') /\ MainInv(d) /\ RegisteredTo(bridge, us, d) /\ SameStack(bridge, d)
      /\ CompletedTo(d, bridge')
  BY <1>1, <1>5, <1>6, ListKeeps
<1>8. bridge'.map = d.map /\ bridge'.objs = d.objs /\ bridge'.on = bridge.on /\ bridge'.table = bridge.table
  BY <1>7 DEF CompletedTo, SameStack
<1>9. \A u \in CCUid : bridge.map[u] = NoObj /\ (bridge'.map[u] = NoObj <=> u \notin us)
  <2>1. \A u \in CCUid : bridge.map[u] = NoObj
    BY <1>4 DEF Followed, NoneListed
  <2>2. NoObj \notin DOMAIN d.objs
    BY <1>7, FieldTypes DEF NoObj
  <2>3. \A u \in CCUid : IF u \in us THEN d.map[u] \in DOMAIN d.objs ELSE d.map[u] = bridge.map[u]
    BY <1>5, <1>7 DEF RegisteredTo
  <2>4. QED
    BY <1>8, <2>1, <2>2, <2>3
<1>10. NoneListed'
  BY <1>4 DEF NoneListed
<1>11. ItemsCome'
  <2> SUFFICES ASSUME NEW u \in CCUid, u \in items, bridge'.map[u] = NoObj
               PROVE  \/ SetupComes
                      \/ \E k \in DOMAIN toCC : AsksFor(toCC[k], u)
                      \/ \E k \in DOMAIN fromCC' : Announces(fromCC'[k], u)
    BY <1>1, <1>4 DEF ItemsCome
  <2>1. \/ SetupComes
        \/ \E k \in DOMAIN toCC : AsksFor(toCC[k], u)
        \/ \E k \in DOMAIN fromCC : Announces(fromCC[k], u)
    BY <1>9 DEF Followed, ItemsCome
  <2>2. ~Announces(fromCC[1], u)
    BY <1>2, <1>9 DEF Announces, Brings
  <2>3. QED
    BY <1>3, <2>1, <2>2
<1>12. \A v \in CCUid \ items : \A k \in DOMAIN fromCC :
        Brings(fromCC[k], v) => \E j \in DOMAIN fromCC : j > k /\ Deletes(fromCC[j], v)
  BY DEF Followed, BroughtIsDeleted
<1>13. BroughtIsDeleted'
  <2> SUFFICES ASSUME NEW v \in CCUid \ items, NEW k \in DOMAIN fromCC', Brings(fromCC'[k], v)
               PROVE  \E j \in DOMAIN fromCC' : j > k /\ Deletes(fromCC'[j], v)
    BY <1>1 DEF BroughtIsDeleted
  <2>1. PICK j \in DOMAIN fromCC : j > k + 1 /\ Deletes(fromCC[j], v)
    BY <1>3, <1>12
  <2>2. QED
    BY <1>3, <2>1
<1>14. KeptIsDeleted'
  <2> SUFFICES ASSUME NEW v \in CCUid \ items, bridge'.map[v] # NoObj
               PROVE  \E j \in DOMAIN fromCC' : Deletes(fromCC'[j], v)
    BY <1>1 DEF KeptIsDeleted, Kept
  <2>1. Brings(fromCC[1], v)
    BY <1>2, <1>9 DEF Brings
  <2>2. PICK j \in DOMAIN fromCC : j > 1 /\ Deletes(fromCC[j], v)
    BY <1>2, <1>12, <2>1
  <2>3. QED
    BY <1>3, <2>2
<1>15. \A u \in CCUid : OneEnabled(bridge', u)
  <2> SUFFICES ASSUME NEW u \in CCUid, NEW i \in bridge.on, bridge'.objs[bridge.table[i]].uid = u
               PROVE  FALSE
    BY <1>8 DEF OneEnabled
  <2>1. bridge.table[i] \in DOMAIN bridge.objs /\ NoObj \notin DOMAIN bridge.objs
    BY MapsInto, FieldTypes DEF NoObj
  <2>2. bridge'.objs[bridge.table[i]] = bridge.objs[bridge.table[i]]
    BY <1>7, <1>8, <2>1 DEF RegisteredTo
  <2>3. bridge.table[i] = bridge.map[u]
    BY <2>2 DEF Followed, OneEnabled
  <2>4. QED
    BY <1>9, <2>1, <2>3
<1>16. QED
  BY <1>4, <1>10, <1>11, <1>13, <1>14, <1>15 DEF Followed

LEMMA FollowedCreated ==
  ASSUME CCTypeOK, Followed, NEW u \in CCUid, CCCreated(u)
  PROVE  Followed'
<1>1. /\ fromCC # <<>> /\ Head(fromCC) = [msg |-> "created", uid |-> u] /\ fromCC' = Tail(fromCC)
      /\ UNCHANGED <<ccConnected, ccSubscribed, items, bridge>>
      /\ toCC' = IF bridge.map[u] = NoObj THEN Append(toCC, [call |-> "info", uid |-> u]) ELSE toCC
  BY DEF CCCreated, CCReceived
<1>2. fromCC[1].msg = "created" /\ fromCC[1].uid = u
  <2>1. Head(fromCC) = fromCC[1]
    BY <1>1, ShorterTail DEF CCTypeOK
  <2>2. QED
    BY <1>1, <2>1
<1>3. PICK r : r = [call |-> "info", uid |-> u]
  OBVIOUS
<1>4. r \in Request /\ r.call = "info" /\ r.uid = u /\ toCC \in Seq(Request)
  BY <1>3 DEF Request, CCTypeOK
<1>5. /\ Added(toCC, toCC')
      /\ \A k \in DOMAIN toCC' : k \notin DOMAIN toCC => toCC'[k].call = "info"
      /\ bridge'.map[u] = NoObj => \E k \in DOMAIN toCC' : AsksFor(toCC'[k], u)
  <2>1. CASE bridge.map[u] = NoObj
    <3>1. toCC' = Append(toCC, r)
      BY <1>1, <1>3, <2>1
    <3>2. Added(toCC, toCC') /\ \A k \in DOMAIN toCC' : k \notin DOMAIN toCC => toCC'[k] = r
      BY <1>4, <3>1, AddedAppend
    <3>3. Longer(toCC, r, toCC')
      BY <1>4, <3>1, LongerAppend
    <3>4. Len(toCC') \in DOMAIN toCC' /\ AsksFor(toCC'[Len(toCC')], u)
      BY <1>4, <3>3 DEF Longer, AsksFor
    <3>5. QED
      BY <1>4, <3>2, <3>4
  <2>2. CASE bridge.map[u] # NoObj
    BY <1>1, <1>4, <2>2, AddedNone
  <2>3. QED
    BY <2>1, <2>2
<1>6. ~Deletes(fromCC[1], u)
  BY <1>2 DEF Deletes
<1>7. Frame(bridge, bridge', {u})
  BY <1>1, FrameSame
<1>8. QED
  BY <1>1, <1>2, <1>5, <1>6, <1>7, FollowedReceived

LEMMA FollowedDeleted ==
  ASSUME CCTypeOK, MainInv(bridge), Followed, NEW u \in CCUid, CCDeleted(u)
  PROVE  Followed'
<1>1. /\ fromCC # <<>> /\ Head(fromCC) = [msg |-> "deleted", uid |-> u] /\ fromCC' = Tail(fromCC)
      /\ UNCHANGED <<ccConnected, ccSubscribed, items, toCC>>
      /\ bridge' = IF bridge.map[u] # NoObj THEN RemoveDevice(bridge, bridge.map[u]) ELSE bridge
  BY DEF CCDeleted, CCReceived
<1>2. fromCC[1].msg = "deleted" /\ fromCC[1].uid = u
  <2>1. Head(fromCC) = fromCC[1]
    BY <1>1, ShorterTail DEF CCTypeOK
  <2>2. QED
    BY <1>1, <2>1
<1>3. Added(toCC, toCC') /\ \A k \in DOMAIN toCC' : k \in DOMAIN toCC
  BY <1>1, AddedNone DEF CCTypeOK
<1>4. ~Announces(fromCC[1], u)
  BY <1>2 DEF Announces, Brings
<1>5. /\ Frame(bridge, bridge', {u}) /\ bridge'.map[u] = bridge.map[u] /\ ~Kept(bridge', u)
      /\ OneEnabled(bridge, u) => OneEnabled(bridge', u)
  <2>1. CASE bridge.map[u] = NoObj
    <3>1. bridge' = bridge
      BY <1>1, <2>1
    <3>2. QED
      BY <2>1, <3>1, FrameSame DEF Kept
  <2>2. CASE bridge.map[u] # NoObj
    <3>1. PICK o \in DOMAIN bridge.objs : o = bridge.map[u] /\ bridge.objs[o].uid = u
      BY <2>2, CCAssumption, MapsInto
    <3>2. bridge' = RemoveDevice(bridge, o)
      BY <1>1, <2>2, <3>1
    <3>3. RemovedTo(bridge, o, bridge')
      BY <3>2, RemoveKeeps
    <3>4. Frame(bridge, bridge', {u})
      BY <3>1, <3>3, FrameRemoved
    <3>5. /\ bridge'.on = bridge.on \ {bridge.objs[o].ep} /\ bridge'.table = bridge.table
          /\ bridge'.objs = bridge.objs /\ bridge'.map = bridge.map /\ bridge'.up = bridge.up
          /\ ~bridge.up => u \in bridge'.early
      BY <3>1, <3>3 DEF RemovedTo
    <3>6. OneEnabled(bridge, u) => OneEnabled(bridge', u)
      BY <3>5 DEF OneEnabled
    <3>7. ~EnabledIn(bridge', u)
      <4> SUFFICES ASSUME NEW i \in bridge.on, i # bridge.objs[o].ep, bridge.objs[bridge.table[i]].uid = u
                   PROVE  FALSE
        BY <3>5 DEF EnabledIn
      <4>1. bridge.table[i] = o
        BY <3>1 DEF Followed, OneEnabled
      <4>2. QED
        BY <4>1, MapsInto
    <3>8. ~Kept(bridge', u)
      BY <3>5, <3>7 DEF Kept
    <3>9. QED
      BY <3>4, <3>5, <3>6, <3>8
  <2>3. QED
    BY <2>1, <2>2
<1>6. QED
  BY <1>1, <1>2, <1>3, <1>4, <1>5, FollowedReceived

\* The device that is added is the one in the map, if another one was not enabled.
LEMMA AddedOnce ==
  ASSUME NEW b, MainInv(b), NEW u \in Uid,
         NEW d, d = NewObject(b, u), NEW c, c = BridgeAdditionalDevice(d, Newest(d))
  PROVE  c.map[u] # NoObj /\ (OneEnabled(b, u) => OneEnabled(c, u))
<1>1. /\ MainInv(c) /\ MainInv(d) /\ CreatedTo(b, u, d) /\ AddedTo(d, u, Newest(d), c)
  BY ItemKeeps
<1>2. PICK o : o = Newest(d)
  OBVIOUS
<1>3. /\ d.map = b.map /\ d.on = b.on /\ d.table = b.table
      /\ \A p \in DOMAIN b.objs : p \in DOMAIN d.objs /\ d.objs[p] = b.objs[p]
      /\ o \in DOMAIN d.objs
  BY <1>1, <1>2 DEF CreatedTo
<1>4. NoObj \notin DOMAIN d.objs
  BY <1>1, FieldTypes DEF NoObj
<1>5. /\ \/ c.map[u] = o /\ (d.map[u] = NoObj \/ d.objs[d.map[u]].ep \notin d.on)
         \/ c.map[u] = d.map[u] /\ d.map[u] # NoObj
      /\ \A p \in DOMAIN d.objs : c.objs[p].uid = d.objs[p].uid
      /\ \A i \in DOMAIN d.table : c.table[i] = d.table[i]
      /\ \A i \in c.on : i \in d.on \/ (c.table[i] = o /\ c.map[u] = o)
  BY <1>1, <1>2 DEF AddedTo
<1>6. c.map[u] # NoObj
  BY <1>3, <1>4, <1>5
<1>7. ASSUME OneEnabled(b, u), NEW i \in c.on, c.objs[c.table[i]].uid = u, i \in b.on
      PROVE  c.table[i] = c.map[u]
  <2>1. i \in DOMAIN b.table /\ b.table[i] \in DOMAIN b.objs /\ b.objs[b.table[i]].ep = i
    BY <1>7, MapsInto
  <2>2. c.table[i] = b.table[i] /\ b.objs[b.table[i]].uid = u
    BY <1>3, <1>5, <1>7, <2>1
  <2>3. b.map[u] = b.table[i]
    BY <1>7, <2>2 DEF OneEnabled
  <2>4. d.map[u] # NoObj /\ d.objs[d.map[u]].ep \in d.on
    BY <1>3, <1>4, <1>7, <2>1, <2>3
  <2>5. QED
    BY <1>3, <1>5, <2>2, <2>3, <2>4
<1>8. QED
  BY <1>3, <1>5, <1>6, <1>7 DEF OneEnabled

LEMMA FollowedInfo ==
  ASSUME CCTypeOK, MainInv(bridge), Followed, NEW u \in CCUid, NEW ok \in BOOLEAN, CCItemInfo(u, ok)
  PROVE  Followed'
<1>1. /\ fromCC # <<>> /\ Head(fromCC) = [msg |-> "info", uid |-> u, ok |-> ok] /\ fromCC' = Tail(fromCC)
      /\ UNCHANGED <<ccConnected, ccSubscribed, items, toCC>>
      /\ bridge' = IF ~ok THEN bridge
                   ELSE LET b == NewObject(bridge, u) IN BridgeAdditionalDevice(b, Newest(b))
  BY DEF CCItemInfo, CCReceived
<1>2. fromCC[1].msg = "info" /\ fromCC[1].uid = u /\ fromCC[1].ok = ok
  <2>1. Head(fromCC) = fromCC[1]
    BY <1>1, ShorterTail DEF CCTypeOK
  <2>2. QED
    BY <1>1, <2>1
<1>3. Added(toCC, toCC') /\ \A k \in DOMAIN toCC' : k \in DOMAIN toCC
  BY <1>1, AddedNone DEF CCTypeOK
<1>4. ~Deletes(fromCC[1], u)
  BY <1>2 DEF Deletes
<1>5. CASE ~ok
  <2>1. bridge' = bridge
    BY <1>1, <1>5
  <2>2. Frame(bridge, bridge', {u})
    BY <2>1, FrameSame
  <2>3. ~Announces(fromCC[1], u)
    BY <1>2, <1>5 DEF Announces, Brings
  <2>4. QED
    BY <1>1, <1>2, <1>3, <1>4, <2>1, <2>2, <2>3, FollowedReceived
<1>6. CASE ok
  <2>1. PICK d : d = NewObject(bridge, u)
    OBVIOUS
  <2>2. bridge' = BridgeAdditionalDevice(d, Newest(d)) /\ u \in Uid
    BY <1>1, <1>6, <2>1, CCAssumption
  <2>3. Frame(bridge, bridge', {u})
    BY <2>1, <2>2, FrameItem
  <2>4. bridge'.map[u] # NoObj /\ (OneEnabled(bridge, u) => OneEnabled(bridge', u))
    BY <2>1, <2>2, AddedOnce
  <2>5. Brings(fromCC[1], u)
    BY <1>2, <1>6 DEF Brings
  <2>6. QED
    BY <1>1, <1>2, <1>3, <1>4, <2>3, <2>4, <2>5, FollowedReceived
<1>7. QED
  BY <1>5, <1>6

LEMMA FollowedSetupAnswer ==
  ASSUME CCTypeOK, Followed, NEW what \in {"register", "subscribe"}, NEW ok \in BOOLEAN, CCSetupAnswer(what, ok)
  PROVE  Followed'
<1>1. /\ fromCC # <<>> /\ Head(fromCC) = [msg |-> what, ok |-> ok] /\ fromCC' = Tail(fromCC)
      /\ UNCHANGED <<ccConnected, ccSubscribed>>
  BY DEF CCSetupAnswer, CCReceived
<1>2. fromCC[1].msg = what /\ fromCC[1].ok = ok /\ 1 \in DOMAIN fromCC
  <2>1. Head(fromCC) = fromCC[1] /\ 1 \in DOMAIN fromCC
    BY <1>1, ShorterTail DEF CCTypeOK
  <2>2. QED
    BY <1>1, <2>1
<1>3. ok
  BY <1>2 DEF Followed, SetupFirst
<1>4. PICK r : r = [call |-> IF what = "register" THEN "subscribe" ELSE "list"]
  OBVIOUS
<1>5. r.call = (IF fromCC[1].msg = "register" THEN "subscribe" ELSE "list")
  BY <1>2, <1>4
<1>6. toCC' = Append(toCC, r) /\ bridge' = bridge
  BY <1>3, <1>4 DEF CCSetupAnswer
<1>7. SetupFirst' /\ SetupComes /\ SetupComes'
  BY <1>1, <1>2, <1>5, <1>6, SetupHandled DEF Followed
<1>8. fromCC' \in Seq(Incoming)
  BY <1>1, TailIn DEF CCTypeOK
<1>9. QED
  BY <1>6, <1>7, <1>8, FollowedSetup

\* The steps of the CC adapter.
LEMMA FollowedByCC ==
  ASSUME CCTypeOK, MainInv(bridge), CCInv, CCNext
  PROVE  CCInv'
<1> SUFFICES ASSUME ccFailures' = 0 PROVE Followed'
  BY DEF CCInv, Followed
<1>1. ~CCLost /\ ~CCAnswerError /\ ccFailures = 0
  <2>1. ccFailures \in Nat
    BY CCAssumption DEF CCTypeOK
  <2>2. CCLost \/ CCAnswerError => ccFailures' = ccFailures + 1
    BY DEF CCLost, CCAnswerError
  <2>3. ~CCLost /\ ~CCAnswerError
    BY <2>1, <2>2
  <2>4. ccFailures' = ccFailures
    BY <2>3 DEF CCNext, CCSystem, CCConnect, CCAnswer, ItemCreated, ItemDeleted, Vitals, CCReceive, CCReceived,
                CCSetupAnswer, CCDeviceList, CCCreated, CCDeleted, CCItemInfo
  <2>5. QED
    BY <2>3, <2>4
<1>2. Followed
  BY <1>1 DEF CCInv
<1>3. CASE CCReceive
  <2>1. CASE \E what \in {"register", "subscribe"}, ok \in BOOLEAN : CCSetupAnswer(what, ok)
    BY <1>2, <2>1, FollowedSetupAnswer
  <2>2. CASE \E us \in SUBSET CCUid : CCDeviceList(us)
    BY <1>2, <2>2, FollowedList
  <2>3. CASE \E u \in CCUid : CCCreated(u)
    BY <1>2, <2>3, FollowedCreated
  <2>4. CASE \E u \in CCUid : CCDeleted(u)
    BY <1>2, <2>4, FollowedDeleted
  <2>5. CASE \E u \in CCUid, ok \in BOOLEAN : CCItemInfo(u, ok)
    BY <1>2, <2>5, FollowedInfo
  <2>6. QED
    BY <1>3, <2>1, <2>2, <2>3, <2>4, <2>5 DEF CCReceive
<1>4. CCConnect \/ CCAnswer \/ (\E u \in CCUid : ItemCreated(u) \/ ItemDeleted(u)) => Followed'
  BY <1>2, FollowedConnect, FollowedAnswer, FollowedVitals
<1>5. QED
  BY <1>1, <1>3, <1>4 DEF CCNext, CCSystem

\* The main application changes, and the messages on their way do not.
LEMMA FollowedByOthers ==
  ASSUME CCInv, UNCHANGED ccVars,
         \A u \in CCUid : /\ Kept(bridge', u) => Kept(bridge, u)
                          /\ OneEnabled(bridge, u) => OneEnabled(bridge', u)
                          /\ bridge'.map[u] = bridge.map[u]
  PROVE  CCInv'
<1> SUFFICES ASSUME ccFailures = 0 PROVE Followed'
  BY DEF CCInv, Followed, ccVars
<1>1. Followed
  BY DEF CCInv
<1>2. UNCHANGED <<ccConnected, ccSubscribed, toCC, fromCC, items>>
  BY DEF ccVars
<1>3. (SetupComes' <=> SetupComes) /\ (Listed' <=> Listed)
  BY <1>2 DEF SetupComes, Listed
<1>4. SetupFirst'
  BY <1>1, <1>2, <1>3 DEF Followed, SetupFirst
<1>5. NoneListed' /\ ItemsCome'
  BY <1>1, <1>2, <1>3 DEF Followed, NoneListed, ItemsCome
<1>6. BroughtIsDeleted' /\ KeptIsDeleted'
  BY <1>1, <1>2 DEF Followed, BroughtIsDeleted, KeptIsDeleted
<1>7. \A u \in CCUid : OneEnabled(bridge', u)
  BY <1>1 DEF Followed
<1>8. QED
  BY <1>4, <1>5, <1>6, <1>7 DEF Followed

LEMMA FollowedByStart ==
  ASSUME MainInv(bridge), CCInv, StartChip, UNCHANGED ccVars
  PROVE  CCInv'
<1>1. MainInv(bridge') /\ ChippedTo(bridge, bridge')
  BY ChipKeeps DEF StartChip
<1>2. /\ bridge'.map = bridge.map /\ bridge'.early = bridge.early /\ bridge'.up
      /\ \A o \in DOMAIN bridge.objs : bridge'.objs[o].uid = bridge.objs[o].uid
      /\ bridge.up => bridge'.table = bridge.table /\ bridge'.on = bridge.on
      /\ ~bridge.up => \A i \in bridge'.on : \E v \in Uid : bridge'.table[i] = bridge.map[v] /\ bridge.map[v] # NoObj
  BY <1>1 DEF ChippedTo
<1>3. \A u \in CCUid : Kept(bridge', u) => Kept(bridge, u)
  <2>1. CASE bridge.up
    BY <1>2, <2>1, MapsInto DEF Kept, EnabledIn
  <2>2. CASE ~bridge.up
    BY <1>2, <2>2 DEF Kept
  <2>3. QED
    BY <2>1, <2>2
<1>4. \A u \in CCUid : OneEnabled(bridge, u) => OneEnabled(bridge', u)
  <2>1. CASE bridge.up
    BY <1>2, <2>1, MapsInto DEF OneEnabled
  <2>2. CASE ~bridge.up
    <3> SUFFICES ASSUME NEW u \in CCUid, NEW i \in bridge'.on, bridge'.objs[bridge'.table[i]].uid = u
                 PROVE  bridge'.table[i] = bridge'.map[u]
      BY DEF OneEnabled
    <3>1. PICK v \in Uid : bridge'.table[i] = bridge.map[v] /\ bridge.map[v] # NoObj
      BY <1>2, <2>2
    <3>2. bridge.map[v] \in DOMAIN bridge.objs /\ bridge.objs[bridge.map[v]].uid = v
      BY <3>1, MapsInto
    <3>3. v = u
      BY <1>2, <3>1, <3>2
    <3>4. QED
      BY <1>2, <3>1, <3>3
  <2>3. QED
    BY <2>1, <2>2
<1>5. QED
  BY <1>2, <1>3, <1>4, FollowedByOthers

LEMMA FollowedInit ==
  ASSUME Init
  PROVE  CCInv
<1>1. /\ ~ccConnected /\ ~ccSubscribed /\ toCC = <<>> /\ fromCC = <<>> /\ bridge.on = {}
      /\ \A u \in Uid : bridge.map[u] = NoObj
  BY DEF Init, CCInit, InitBridge
<1>2. CCUid \subseteq Uid /\ SetupComes /\ \A k \in DOMAIN fromCC : FALSE
  BY <1>1, CCAssumption DEF SetupComes
<1>3. SetupFirst
  BY <1>1, <1>2 DEF SetupFirst
<1>4. NoneListed /\ ItemsCome /\ BroughtIsDeleted /\ KeptIsDeleted
  BY <1>1, <1>2 DEF NoneListed, ItemsCome, BroughtIsDeleted, KeptIsDeleted, Kept
<1>5. \A u \in CCUid : OneEnabled(bridge, u)
  BY <1>1 DEF OneEnabled
<1>6. QED
  BY <1>3, <1>4, <1>5 DEF CCInv, Followed

LEMMA FollowedStep ==
  ASSUME TypeOK, MainInv(bridge), CCInv, [Next]_vars
  PROVE  CCInv'
<1>1. CASE UNCHANGED vars
  BY <1>1, FollowedByOthers DEF vars
<1>2. CASE StartChip /\ UNCHANGED <<p44Vars, ccVars>>
  BY <1>2, FollowedByStart
<1>3. CASE P44Next /\ UNCHANGED ccVars
  <2>1. Frame(bridge, bridge', P44Uid)
    BY <1>3, FrameOfP44
  <2>2. \A u \in CCUid : u \in Uid \ P44Uid
    BY UidAssumption
  <2>3. QED
    BY <1>3, <2>1, <2>2, FrameKept, FollowedByOthers
<1>4. CASE CCNext
  BY <1>4, FollowedByCC DEF TypeOK
<1>5. QED
  BY <1>1, <1>2, <1>3, <1>4 DEF Next

\* When nothing is on its way, the items that are enabled are those that exist.
LEMMA FollowedConsistent ==
  ASSUME TypeOK, MainInv(bridge), CCInv
  PROVE  CCConsistent
<1> SUFFICES ASSUME CCQuiet, Settled, NEW u \in CCUid
             PROVE  /\ IsEnabled(u) /\ u \notin bridge.early => u \in items
                    /\ u \in items /\ u \notin bridge.removed \cup Missed => IsEnabled(u) \/ ~HasRoom
  BY DEF CCConsistent
<1>1. Followed /\ ccConnected /\ toCC = <<>> /\ fromCC = <<>>
  BY DEF CCQuiet, CCInv
<1>2. bridge.up /\ u \in Uid /\ (\A k \in DOMAIN fromCC : FALSE) /\ (\A k \in DOMAIN toCC : FALSE)
  BY <1>1, CCAssumption DEF Settled
<1>3. ~SetupComes
  BY <1>1, <1>2 DEF SetupComes
<1>4. IsEnabled(u) <=> EnabledIn(bridge, u)
  BY MapsInto DEF IsEnabled, EndpointsOf, EnabledIn
<1>5. ASSUME IsEnabled(u), u \notin bridge.early, u \notin items
      PROVE  FALSE
  <2>1. PICK i \in bridge.on : bridge.objs[bridge.table[i]].uid = u
    BY <1>4, <1>5 DEF EnabledIn
  <2>2. bridge.table[i] = bridge.map[u] /\ bridge.table[i] \in DOMAIN bridge.objs
    BY <1>1, <2>1, MapsInto DEF Followed, OneEnabled
  <2>3. bridge.map[u] # NoObj
    BY <2>2, FieldTypes DEF NoObj
  <2>4. Kept(bridge, u)
    BY <1>4, <1>5, <2>3 DEF Kept
  <2>5. QED
    BY <1>1, <1>2, <1>5, <2>4 DEF Followed, KeptIsDeleted
<1>6. ASSUME u \in items, u \notin bridge.removed \cup Missed, HasRoom
      PROVE  IsEnabled(u)
  <2>1. bridge.map[u] # NoObj
    BY <1>1, <1>2, <1>3, <1>6 DEF Followed, ItemsCome
  <2>2. Len(bridge.table) # MaxDyn
    BY <1>6, MainAssumption, FieldTypes DEF HasRoom
  <2>3. QED
    BY <1>2, <1>4, <1>6, <2>1, <2>2 DEF MainInv, MappedEnabled, Missed
<1>7. QED
  BY <1>5, <1>6

\* Whenever nothing is on its way on a connection without failures and the stack
\* runs, exactly the existing items are enabled, in whatever order they were created
\* and deleted while the setup, an answer or the start of the stack was under way.
THEOREM CCAlwaysConsistent == Spec => []CCConsistent
<1>1. Init => CCInv
  BY FollowedInit
<1>2. TypeOK /\ MainInv(bridge) /\ CCInv /\ [Next]_vars => CCInv'
  BY FollowedStep
<1>3. TypeOK /\ MainInv(bridge) /\ CCInv => CCConsistent
  BY FollowedConsistent
<1>4. QED
  BY <1>1, <1>2, <1>3, TypeCorrect, MainAlways, PTL DEF Spec
=============================================================================
