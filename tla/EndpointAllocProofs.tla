------------------------ MODULE EndpointAllocProofs ------------------------
(***************************************************************************)
(* Proofs about EndpointAlloc, for every set of devices, every number of   *)
(* dynamic endpoints and every range of ids; at the end, that it           *)
(* implements EndpointRegistry.                                            *)
(***************************************************************************)
EXTENDS EndpointAlloc, WellFoundedInduction, TLAPS

Installing == phase \in {"migrate", "check", "scan", "assign"}
Booted     == phase \notin {"down", "forget", "validate"}

(* The control state: what the local variables of the running handler hold. *)
Shape ==
  /\ Installing => todo # <<>>
  /\ Booted => firstFree # InvalidId /\ firstFree >= fixedCount
  /\ phase \in {"forget", "validate"} => firstFree = kvsFirstFree
  /\ phase = "forget" => firstFree # InvalidId
  /\ phase = "validate" /\ firstFree = InvalidId => kvsMap = {}
  /\ phase = "operational" => firstFree = kvsFirstFree
  /\ phase \in {"down", "forget", "validate"} => devices = <<>> /\ todo = <<>> /\ addFrom = 0
  /\ phase = "operational" => todo = <<>> /\ addFrom = 0
  /\ phase = "operational" \/ addFrom # 0 => mains = {}
  /\ phase = "migrate" => candidate # InvalidId

(* The collision scan has passed no device that has the id in hand.         *)
ScanInv ==
  /\ phase = "scan" =>
       /\ scanAt >= 1 /\ scanAt <= Len(devices) + 1
       /\ candidate # InvalidId
       /\ \A i \in DOMAIN devices : i < scanAt => devices[i].ep # candidate
  /\ KnownNeverCollides

SubsSet(m) == {SubsOf[m][k] : k \in DOMAIN SubsOf[m]}
InTable(u) == \E i \in DOMAIN devices : devices[i].uid = u

(* The subdevices that are still to be installed are those of one device:   *)
(* the first of the list, or the one installed last.                        *)
Ownership ==
  /\ \A i \in DOMAIN devices : devices[i].uid \in Sub =>
       \E j \in DOMAIN devices :
         /\ devices[j].uid \in Main
         /\ devices[i].uid \in SubsSet(devices[j].uid)
         /\ devices[i].parent = devices[j].ep
  /\ \A k \in DOMAIN todo : k # 1 => todo[k] \in Sub
  /\ todo # <<>> /\ todo[1] \in Main =>
       \A k \in DOMAIN todo : k # 1 => todo[k] \in SubsSet(todo[1])
  /\ todo # <<>> /\ todo[1] \notin Main =>
       \E j \in DOMAIN devices :
         /\ devices[j].uid \in Main
         /\ mainEp = devices[j].ep
         /\ \A k \in DOMAIN todo : todo[k] \in SubsSet(devices[j].uid)

(* While the counter was never left behind and never wrapped, the ids of    *)
(* all devices, bridged or remembered, are different and lie below it.      *)
Owned(u) == IdOf(u) # InvalidId

Injective ==
  \A u, v \in Uid : IdOf(u) = IdOf(v) /\ Owned(u) => u = v

(* The counter in memory, or the one the next start will count from.        *)
Bounded ==
  /\ Booted => \A u \in Uid : Owned(u) => IdOf(u) < firstFree
  /\ ~Booted /\ kvsFirstFree # InvalidId => \A u \in Uid : Owned(u) => IdOf(u) < kvsFirstFree
  /\ ~Booted /\ kvsFirstFree = InvalidId =>
       \A u \in Uid : /\ kvsEp[u] = InvalidId
                      /\ kvsLegacy[u] # InvalidId => kvsLegacy[u] \in kvsMap

(* The table has the stored ids, but for the entries of objects that were    *)
(* replaced since: their ids are nobody's.                                  *)
TableStored ==
  \A i \in DOMAIN devices :
    /\ Newest(i) => kvsEp[devices[i].uid] = devices[i].ep
    /\ kvsLegacy[devices[i].uid] = InvalidId
    /\ devices[i].ep # InvalidId
    /\ Booted => devices[i].ep < firstFree
    /\ \A u \in Uid : IdOf(u) = devices[i].ep => u = devices[i].uid

(* The id in hand is the stored id of the device being installed.           *)
InHand ==
  /\ Installing => kvsLegacy[Head(todo)] = InvalidId
  /\ phase = "migrate" => ~InTable(Head(todo))
  /\ phase \in {"check", "scan"} => candidate = kvsEp[Head(todo)]
  /\ phase \in {"scan", "assign"} /\ candidate # InvalidId => candidate >= fixedCount
  /\ phase = "assign" =>
       \/ candidate = kvsEp[Head(todo)]
       \/ /\ candidate = InvalidId
          /\ \/ kvsEp[Head(todo)] = InvalidId \/ kvsEp[Head(todo)] < fixedCount
             \/ InTable(Head(todo))

SoundInv == Injective /\ Bounded /\ TableStored /\ UniqueIds /\ InHand

TypeInv == TypeOK /\ Shape
Base    == TypeInv /\ ScanInv /\ Ownership

(* The inductive invariant.                                                 *)
IInv == Base /\ (Sound => SoundInv)

---------------------------------------------------------------------------
(* Type correctness, with the shape of the control state.                  *)

(* Installing a device needs an element of todo, which is a UID.            *)
LEMMA HeadTodo ==
  ASSUME todo \in Seq(Uid), todo # <<>>
  PROVE  Head(todo) \in Uid /\ Tail(todo) \in Seq(Uid)
  OBVIOUS

(* The list of a main device and its subdevices.                            *)
LEMMA JobList ==
  ASSUME NEW m \in Main
  PROVE  /\ <<m>> \o SubsOf[m] \in Seq(Uid)
         /\ <<m>> \o SubsOf[m] # <<>>
         /\ (<<m>> \o SubsOf[m])[1] = m
         /\ \A k \in DOMAIN (<<m>> \o SubsOf[m]) :
              k # 1 => /\ k - 1 \in DOMAIN SubsOf[m]
                       /\ (<<m>> \o SubsOf[m])[k] = SubsOf[m][k - 1]
<1>1. SubsOf[m] \in Seq(Sub)
  BY DevicesAssumption
<1>2. SubsOf[m] \in Seq(Uid) /\ <<m>> \in Seq(Uid) /\ m \in Uid
  BY <1>1 DEF Uid
<1> QED
  BY <1>1, <1>2

(* The ids the code computes stay below the invalid one.                    *)
LEMMA NextIdType ==
  ASSUME TypeOK, NEW e \in Id, e # InvalidId, e >= fixedCount
  PROVE  NextId(e) \in Id /\ NextId(e) # InvalidId /\ NextId(e) >= fixedCount
  BY IdsAssumption DEF TypeOK, NextId, EndpointCount, Id

LEMMA InitType == Init => TypeInv
<1> SUFFICES ASSUME Init PROVE TypeInv
  OBVIOUS
<1>1. devices \in Seq(Device) /\ todo \in Seq(Uid)
  BY DEF Init
<1>2. TypeOK
  <2>1. kvsEp \in [Uid -> Id] /\ kvsFirstFree \in Id
    BY IdsAssumption DEF Init, Id
  <2>2. fixedCount \in MinFixed .. MaxFixed
    BY IdsAssumption DEF Init
  <2>3. mainEp \in Id /\ candidate \in Id /\ firstFree \in Id
    BY IdsAssumption DEF Init, Id
  <2>4. phase \in Phase /\ addFrom \in Nat /\ scanAt \in Nat
    BY DEF Init, Phase
  <2> QED
    BY <1>1, <2>1, <2>2, <2>3, <2>4 DEF Init, TypeOK
<1>3. Shape
  BY DEF Init, Shape, Installing, Booted
<1> QED
  BY <1>2, <1>3 DEF TypeInv

LEMMA NextType == TypeInv /\ [Next]_vars => TypeInv'
<1> SUFFICES ASSUME TypeInv, [Next]_vars PROVE TypeInv'
  OBVIOUS
<1> USE IdsAssumption DEF TypeInv, TypeOK, Shape, Installing, Booted, Id, Idx,
                          Phase, kvs, job, search, table
<1>1. ASSUME NEW ds \in SUBSET Main, StartChip(ds) PROVE TypeInv'
  <2>1. kvsMap # {} => MapBounds \subseteq Id
    BY DEF MapBounds
  <2>2. kvsFirstFree' \in Id /\ firstFree' = kvsFirstFree'
    BY <1>1, <2>1 DEF StartChip
  <2>3. kvsFirstFree' = InvalidId => kvsMap = {}
    BY <1>1 DEF StartChip, MapBounds
  <2> QED
    BY <1>1, <2>2, <2>3 DEF StartChip
<1>2. CASE ForgetMap
  BY <1>2 DEF ForgetMap
<1>2a. CASE Validate
  BY <1>2a DEF Validate
<1>3. ASSUME NEW m \in Main, NextMain(m) PROVE TypeInv'
  BY <1>3, JobList DEF NextMain
<1>4. CASE NoEndpoint
  BY <1>4, HeadTodo DEF NoEndpoint
<1>5. CASE LegacyFound
  BY <1>5, HeadTodo, SMTT(30) DEF LegacyFound
<1>6. CASE MigratePut
  BY <1>6, HeadTodo DEF MigratePut
<1>7. CASE Lookup
  BY <1>7, HeadTodo DEF Lookup
<1>8. CASE Check
  BY <1>8, SMTT(30) DEF Check
<1>9. CASE ScanStep
  <2>1. firstFree' \in Id /\ firstFree' # InvalidId /\ firstFree' >= fixedCount
    BY <1>9, NextIdType DEF ScanStep
  <2>2. wrapped' \in BOOLEAN
    BY <1>9 DEF ScanStep, WrapsAt
  <2>3. /\ candidate' \in Id /\ scanAt' \in Nat /\ phase' \in {"scan", "assign"}
    <3>1. CASE devices[scanAt].ep = candidate
      <4>1. candidate' = InvalidId /\ phase' = "assign" /\ scanAt' = 0
        BY ONLY <1>9, <3>1 DEF ScanStep
      <4> QED
        BY <4>1
    <3>2. CASE devices[scanAt].ep # candidate
      <4>1. scanAt' = scanAt + 1 /\ candidate' = candidate /\ phase' = "scan"
        BY ONLY <1>9, <3>2 DEF ScanStep
      <4> QED
        BY <4>1
    <3> QED
      BY ONLY <3>1, <3>2
  <2> QED
    BY <1>9, <2>1, <2>2, <2>3 DEF ScanStep
<1>10. CASE ScanDone
  BY <1>10 DEF ScanDone
<1>11. ASSUME NEW e \in Id, phase = "assign", Enter(Head(todo), e),
              UNCHANGED <<addFrom, mains, scanAt, registered, torn>>
       PROVE  /\ devices' \in Seq(Device) /\ mainEp' \in Id /\ todo' \in Seq(Uid)
              /\ candidate' \in Id /\ phase' = "next"
  <2>1. Head(todo) \in Uid /\ Tail(todo) \in Seq(Uid)
    BY <1>11, HeadTodo
  <2>2. [uid |-> Head(todo), ep |-> e,
         parent |-> IF Head(todo) \in Main THEN MatterBridgeEndpoint ELSE mainEp] \in Device
    BY <2>1 DEF Device, MatterBridgeEndpoint
  <2> QED
    BY <1>11, <2>1, <2>2 DEF Enter
<1>12. CASE AssignKnown
  BY <1>12, <1>11 DEF AssignKnown
<1>13. CASE AssignNew
  BY <1>13, <1>11, HeadTodo, NextIdType DEF AssignNew
<1>14. CASE InitialInstalled
  BY <1>14 DEF InitialInstalled, Accepted
<1>15. ASSUME NEW m \in Main, AddAdditionalDevice(m) PROVE TypeInv'
  BY <1>15, JobList DEF AddAdditionalDevice
<1>16. CASE AdditionalInstalled
  <2>1. addFrom .. Len(devices) \subseteq Nat
    OBVIOUS
  <2>2. registered' \in SUBSET Nat
    BY <1>16, <2>1 DEF AdditionalInstalled, Accepted
  <2> QED
    BY <1>16, <2>2 DEF AdditionalInstalled
<1>17. CASE Crash
  BY <1>17 DEF Crash
<1>18. CASE Update
  BY <1>18 DEF Update
<1>19. CASE UNCHANGED vars
  BY <1>19 DEF vars
<1> QED
  BY <1>1, <1>2, <1>2a, <1>3, <1>4, <1>5, <1>6, <1>7, <1>8, <1>9, <1>10, <1>12,
     <1>13, <1>14, <1>15, <1>16, <1>17, <1>18, <1>19
  DEF Next, System, InstallStep

(* The type invariant of EndpointAlloc: every variable of the allocation    *)
(* stays in its type for any devices, stores, crashes and updates.          *)
THEOREM TypeCorrect == Spec => []TypeOK
<1>1. Spec => []TypeInv
  BY InitType, NextType, PTL DEF Spec
<1>2. TypeInv => TypeOK
  BY DEF TypeInv
<1> QED
  BY <1>1, <1>2, PTL

---------------------------------------------------------------------------
(* The collision scan.                                                      *)

LEMMA NextScan == TypeInv /\ ScanInv /\ [Next]_vars => ScanInv'
<1> SUFFICES ASSUME TypeInv, ScanInv, [Next]_vars PROVE ScanInv'
  OBVIOUS
<1> USE DEF ScanInv, KnownNeverCollides, kvs, job, search, table
<1>1. ASSUME NEW ds \in SUBSET Main, StartChip(ds) PROVE ScanInv'
  BY <1>1 DEF StartChip
<1>2. CASE ForgetMap \/ Validate
  BY <1>2 DEF ForgetMap, Validate
<1>3. ASSUME NEW m \in Main, NextMain(m) PROVE ScanInv'
  BY <1>3 DEF NextMain
<1>4. CASE NoEndpoint
  BY <1>4 DEF NoEndpoint
<1>5. CASE LegacyFound
  BY <1>5 DEF LegacyFound
<1>6. CASE MigratePut
  BY <1>6 DEF MigratePut
<1>7. CASE Lookup
  BY <1>7 DEF Lookup
<1>8. CASE Check
  BY <1>8 DEF Check, TypeInv, TypeOK
<1>9. CASE ScanStep
  <2>1. CASE devices[scanAt].ep = candidate
    BY <1>9, <2>1 DEF ScanStep
  <2>2. CASE devices[scanAt].ep # candidate
    <3>1. /\ phase' = "scan" /\ scanAt' = scanAt + 1 /\ scanAt <= Len(devices)
          /\ UNCHANGED <<candidate, devices>>
      BY <1>9, <2>2 DEF ScanStep
    <3>2. ASSUME NEW i \in DOMAIN devices, i < scanAt + 1
          PROVE  devices[i].ep # candidate
      BY <1>9, <2>2, <3>2 DEF ScanStep, TypeInv, TypeOK
    <3> QED
      BY <1>9, <3>1, <3>2 DEF ScanStep, TypeInv, TypeOK
  <2> QED
    BY <2>1, <2>2
<1>10. CASE ScanDone
  BY <1>10 DEF ScanDone, TypeInv, TypeOK
<1>11. CASE AssignKnown
  BY <1>11 DEF AssignKnown, Enter
<1>12. CASE AssignNew
  BY <1>12 DEF AssignNew, Enter
<1>13. CASE InitialInstalled
  BY <1>13 DEF InitialInstalled
<1>14. ASSUME NEW m \in Main, AddAdditionalDevice(m) PROVE ScanInv'
  BY <1>14 DEF AddAdditionalDevice
<1>15. CASE AdditionalInstalled
  BY <1>15 DEF AdditionalInstalled
<1>16. CASE Crash
  BY <1>16 DEF Crash
<1>17. CASE Update
  BY <1>17 DEF Update
<1>18. CASE UNCHANGED vars
  BY <1>18 DEF vars
<1> QED
  BY <1>1, <1>2, <1>3, <1>4, <1>5, <1>6, <1>7, <1>8, <1>9, <1>10, <1>11, <1>12,
     <1>13, <1>14, <1>15, <1>16, <1>17, <1>18
  DEF Next, System, InstallStep

(* The collision scan of installSingleBridgedDevice misses no installed     *)
(* device: whatever was stored, a device that returns to the id it had      *)
(* before never takes the id of another one.                                *)
THEOREM ReturningDeviceNeverCollides == Spec => []KnownNeverCollides
<1>1. Init => TypeInv /\ ScanInv
  BY InitType DEF Init, ScanInv, KnownNeverCollides
<1>2. TypeInv /\ ScanInv /\ [Next]_vars => (TypeInv /\ ScanInv)'
  BY NextType, NextScan
<1>3. ScanInv => KnownNeverCollides
  BY DEF ScanInv
<1> QED
  BY <1>1, <1>2, <1>3, PTL DEF Spec

---------------------------------------------------------------------------
(* Composed devices.                                                        *)

(* Installing a device appends it to the table and takes it off the list.   *)
LEMMA EnterTable ==
  ASSUME TypeInv, phase = "assign", NEW e \in Id, Enter(Head(todo), e)
  PROVE  /\ todo[1] \in Uid
         /\ Len(devices') = Len(devices) + 1
         /\ \A i \in DOMAIN devices : i \in DOMAIN devices' /\ devices'[i] = devices[i]
         /\ Len(devices) + 1 \in DOMAIN devices'
         /\ \A i \in DOMAIN devices' : i \in DOMAIN devices \/ i = Len(devices) + 1
         /\ devices'[Len(devices) + 1].uid = todo[1]
         /\ devices'[Len(devices) + 1].ep = e
         /\ devices'[Len(devices) + 1].parent =
              IF todo[1] \in Main THEN MatterBridgeEndpoint ELSE mainEp
         /\ \A k \in DOMAIN todo' : k + 1 \in DOMAIN todo /\ todo'[k] = todo[k + 1]
         /\ mainEp' = IF todo[1] \in Main THEN e ELSE mainEp
<1>1. devices \in Seq(Device) /\ todo \in Seq(Uid) /\ todo # <<>>
  BY DEF TypeInv, TypeOK, Shape, Installing
<1>2. Head(todo) = todo[1] /\ todo[1] \in Uid
  BY <1>1
<1>3. todo' = Tail(todo) /\ \A k \in DOMAIN Tail(todo) :
                                k + 1 \in DOMAIN todo /\ Tail(todo)[k] = todo[k + 1]
  BY <1>1 DEF Enter
<1>4. \E d : /\ d = [uid |-> todo[1], ep |-> e,
                     parent |-> IF todo[1] \in Main THEN MatterBridgeEndpoint ELSE mainEp]
             /\ devices' = Append(devices, d)
  BY <1>2 DEF Enter
<1> QED
  BY <1>1, <1>2, <1>3, <1>4 DEF Enter

LEMMA NextOwnership == TypeInv /\ Ownership /\ [Next]_vars => Ownership'
<1> SUFFICES ASSUME TypeInv, Ownership, [Next]_vars PROVE Ownership'
  OBVIOUS
<1> USE DEF Ownership, kvs, job, search, table
<1>0. todo \in Seq(Uid) /\ devices \in Seq(Device) /\ mains \subseteq Main
  BY DEF TypeInv, TypeOK
<1>1. ASSUME NEW m \in Main,
             todo' = <<m>> \o SubsOf[m], UNCHANGED devices
      PROVE  Ownership'
  BY <1>1, JobList, DevicesAssumption DEF SubsSet
<1>2. ASSUME todo' = <<>>, UNCHANGED devices
      PROVE  Ownership'
  BY <1>2
<1>3. ASSUME UNCHANGED <<todo, mainEp, devices>>
      PROVE  Ownership'
  BY <1>3
<1>4. ASSUME NEW ds \in SUBSET Main, StartChip(ds) PROVE Ownership'
  BY <1>3, <1>4 DEF StartChip
<1>5. ASSUME NEW m \in Main, NextMain(m) PROVE Ownership'
  BY <1>1, <1>5 DEF NextMain
<1>6. CASE NoEndpoint
  <2>1. CASE Head(todo) \in Main
    BY <1>2, <1>6, <2>1 DEF NoEndpoint
  <2>2. CASE Head(todo) \notin Main
    <3>1. /\ todo # <<>> /\ todo[1] \notin Main
          /\ todo' = Tail(todo) /\ UNCHANGED <<mainEp, devices>>
      BY <1>0, <1>6, <2>2 DEF NoEndpoint
    <3>2. \A k \in DOMAIN todo' : k + 1 \in DOMAIN todo /\ todo'[k] = todo[k + 1]
      BY <1>0, <3>1
    <3>3. \A k \in DOMAIN todo' : todo'[k] \in Sub
      BY <1>0, <3>1, <3>2
    <3>4. todo' # <<>> => todo'[1] \notin Main
      <4>1. todo' \in Seq(Uid)
        BY <1>0, <3>1, HeadTodo
      <4>2. todo' # <<>> => 1 \in DOMAIN todo'
        BY <4>1
      <4> QED
        BY <3>3, <4>2, DevicesAssumption
    <3>5. \E j \in DOMAIN devices :
             /\ devices[j].uid \in Main
             /\ mainEp = devices[j].ep
             /\ \A k \in DOMAIN todo : todo[k] \in SubsSet(devices[j].uid)
      BY <3>1
    <3>6. \A k \in DOMAIN todo' : k # 1 => todo'[k] \in Sub
      BY <3>3
    <3> HIDE DEF SubsSet
    <3> QED
      BY <3>1, <3>2, <3>4, <3>5, <3>6
  <2> QED
    BY <2>1, <2>2
<1>7. ASSUME NEW e \in Id, phase = "assign", Enter(Head(todo), e)
      PROVE  Ownership'
  <2>0. Len(devices) \in Nat /\ todo # <<>> /\ todo' \in Seq(Uid) /\ 1 \in DOMAIN todo
    <3>1. todo # <<>>
      BY <1>7 DEF TypeInv, Shape, Installing
    <3>2. todo' = Tail(todo)
      BY <1>7 DEF Enter
    <3>3. todo' \in Seq(Uid)
      BY <1>0, <3>1, <3>2, HeadTodo
    <3> QED
      BY <1>0, <3>1, <3>3
  <2>1. \A k \in DOMAIN todo' : todo'[k] \in Sub
    <3>1. \A k \in DOMAIN todo' : k + 1 # 1
      BY <2>0
    <3>2. \A k \in DOMAIN todo' : k + 1 \in DOMAIN todo /\ todo'[k] = todo[k + 1]
      BY <1>7, EnterTable
    <3> QED
      BY <3>1, <3>2
  <2>2. todo' # <<>> => todo'[1] \notin Main
    BY <2>0, <2>1, DevicesAssumption
  <2>3. todo[1] \notin Main =>
          \E j \in DOMAIN devices :
             /\ devices[j].uid \in Main
             /\ mainEp = devices[j].ep
             /\ \A k \in DOMAIN todo : todo[k] \in SubsSet(devices[j].uid)
    BY <2>0
  <2>4. todo' # <<>> =>
          \E j \in DOMAIN devices' :
             /\ devices'[j].uid \in Main
             /\ mainEp' = devices'[j].ep
             /\ \A k \in DOMAIN todo' : todo'[k] \in SubsSet(devices'[j].uid)
    <3>1. CASE todo[1] \in Main
      <4>1. \A k \in DOMAIN todo' : todo'[k] \in SubsSet(todo[1])
        BY <1>7, <2>0, <3>1, EnterTable
      <4> QED
        BY <1>7, <2>0, <3>1, <4>1, EnterTable
    <3>2. CASE todo[1] \notin Main
      BY <1>7, <2>0, <2>3, <3>2, EnterTable
    <3> QED
      BY <3>1, <3>2
  <2>5. ASSUME NEW i \in DOMAIN devices', devices'[i].uid \in Sub
        PROVE  \E j \in DOMAIN devices' :
                  /\ devices'[j].uid \in Main
                  /\ devices'[i].uid \in SubsSet(devices'[j].uid)
                  /\ devices'[i].parent = devices'[j].ep
    <3>1. CASE i \in DOMAIN devices
      BY <1>7, <2>5, <3>1, EnterTable
    <3>2. CASE i = Len(devices) + 1
      <4>1. devices'[i].uid = todo[1] /\ todo[1] \notin Main /\ devices'[i].parent = mainEp
        BY <1>7, <2>5, <3>2, EnterTable, DevicesAssumption
      <4> QED
        BY <1>7, <2>0, <2>3, <4>1, EnterTable
    <3> QED
      BY <1>7, <2>5, <3>1, <3>2, EnterTable
  <2> QED
    BY <2>1, <2>2, <2>4, <2>5
<1>8. CASE AssignKnown
  BY <1>7, <1>8 DEF AssignKnown, TypeInv, TypeOK
<1>9. CASE AssignNew
  BY <1>7, <1>9 DEF AssignNew, TypeInv, TypeOK
<1>10. ASSUME NEW m \in Main, AddAdditionalDevice(m) PROVE Ownership'
  BY <1>1, <1>10 DEF AddAdditionalDevice
<1>11. CASE Crash
  BY <1>11 DEF Crash
<1>12. CASE \/ ForgetMap \/ Validate \/ LegacyFound \/ MigratePut \/ Lookup \/ Check
            \/ ScanStep \/ ScanDone \/ InitialInstalled \/ AdditionalInstalled
            \/ Update \/ UNCHANGED vars
  <2>1. UNCHANGED <<todo, mainEp, devices>>
    BY <1>12
    DEF ForgetMap, Validate, LegacyFound, MigratePut, Lookup, Check, ScanStep, ScanDone,
        InitialInstalled, AdditionalInstalled, Update, vars
  <2> QED
    BY <1>3, <2>1
<1> QED
  BY <1>4, <1>5, <1>6, <1>8, <1>9, <1>10, <1>11, <1>12
  DEF Next, System, InstallStep

(* The parent of an installed subdevice is the endpoint of the installed    *)
(* composed device it belongs to, however installations were interrupted by *)
(* a full table.                                                            *)
THEOREM SubdeviceParents == Spec => []ParentIsMain
<1>1. Init => TypeInv /\ Ownership
  BY InitType DEF Init, Ownership
<1>2. TypeInv /\ Ownership /\ [Next]_vars => (TypeInv /\ Ownership)'
  BY NextType, NextOwnership
<1>3. Ownership => ParentIsMain
  BY DEF Ownership, ParentIsMain, SubsSet
<1> QED
  BY <1>1, <1>2, <1>3, PTL DEF Spec

---------------------------------------------------------------------------
(* Uniqueness of ids while the counter is sound.                            *)

(* Types the steps below rely on, in the form the provers use them.         *)
LEMMA BaseFacts ==
  ASSUME Base
  PROVE  /\ \A u \in Uid : kvsEp[u] \in Id
         /\ \A u \in Uid : kvsLegacy[u] # InvalidId =>
              kvsLegacy[u] + LegacyFirst \in Id /\ kvsLegacy[u] + LegacyFirst # InvalidId
         /\ \A u \in Uid : IdOf(u) \in Id
         /\ \A i \in DOMAIN devices : devices[i].uid \in Uid /\ devices[i].ep \in Id
         /\ Installing => Head(todo) \in Uid
         /\ firstFree \in Id /\ candidate \in Id /\ kvsFirstFree \in Id
         /\ InvalidId \in Nat /\ fixedCount \in Nat /\ LegacyFirst \in Nat
         /\ Booted => firstFree # InvalidId /\ firstFree >= fixedCount
<1>1. TypeOK
  BY DEF Base, TypeInv
<1>2. /\ \A u \in Uid : kvsEp[u] \in Id
      /\ \A u \in Uid : kvsLegacy[u] # InvalidId =>
            kvsLegacy[u] + LegacyFirst \in Id /\ kvsLegacy[u] + LegacyFirst # InvalidId
  BY <1>1, IdsAssumption DEF TypeOK, Id, Idx
<1>3. \A u \in Uid : IdOf(u) \in Id
  BY <1>1, <1>2 DEF IdOf, TypeOK
<1>4. \A i \in DOMAIN devices : devices[i].uid \in Uid /\ devices[i].ep \in Id
  <2>1. devices \in Seq(Device)
    BY <1>1 DEF TypeOK
  <2>2. \A i \in DOMAIN devices : devices[i] \in Device
    BY <2>1
  <2> QED
    BY <2>2 DEF Device
<1>5. Installing => Head(todo) \in Uid
  BY <1>1, HeadTodo DEF Base, TypeInv, TypeOK, Shape
<1>7. /\ firstFree \in Id /\ candidate \in Id /\ kvsFirstFree \in Id
      /\ InvalidId \in Nat /\ fixedCount \in Nat /\ LegacyFirst \in Nat
  <2>1. firstFree \in Id /\ candidate \in Id /\ kvsFirstFree \in Id
    BY <1>1 DEF TypeOK
  <2>2. fixedCount \in MinFixed .. MaxFixed
    BY <1>1 DEF TypeOK
  <2> QED
    BY <2>1, <2>2, IdsAssumption
<1>8. Booted => firstFree # InvalidId /\ firstFree >= fixedCount
  BY DEF Base, TypeInv, Shape
<1> QED
  BY <1>2, <1>3, <1>4, <1>5, <1>7, <1>8

(* A step that moves no id and lowers no bound keeps the first two parts.   *)
LEMMA KeepIds ==
  ASSUME Base, Base', SoundInv, \A u \in Uid : IdOf(u)' = IdOf(u),
         Booted, Booted', firstFree' >= firstFree
  PROVE  Injective' /\ Bounded'
<1>1. Injective'
  BY DEF SoundInv, Injective, Owned
<1>2. ASSUME NEW u \in Uid, Owned(u)' PROVE (IdOf(u) < firstFree)'
  <2>1. Owned(u) /\ IdOf(u)' = IdOf(u) /\ IdOf(u) < firstFree
    BY <1>2 DEF SoundInv, Bounded, Owned
  <2>2. IdOf(u) \in Id /\ firstFree \in Id /\ firstFree' \in Id /\ InvalidId \in Nat
    <3>1. IdOf(u) \in Id /\ firstFree \in Id /\ InvalidId \in Nat
      BY BaseFacts
    <3>2. firstFree' \in Id
      BY DEF Base, TypeInv, TypeOK
    <3> QED
      BY <3>1, <3>2
  <2> QED
    BY <2>1, <2>2 DEF Id
<1> QED
  BY <1>1, <1>2 DEF Bounded

(* A step that leaves the table and the ids of its devices alone.           *)
LEMMA KeepTable ==
  ASSUME Base, SoundInv, UNCHANGED devices, \A u \in Uid : IdOf(u)' = IdOf(u),
         \A i \in DOMAIN devices : /\ kvsEp'[devices[i].uid] = kvsEp[devices[i].uid]
                                   /\ kvsLegacy'[devices[i].uid] = kvsLegacy[devices[i].uid],
         Booted' => Booted /\ firstFree' = firstFree
  PROVE  TableStored' /\ UniqueIds'
  BY DEF SoundInv, TableStored, UniqueIds, Newest

LEMMA NextSound ==
  ASSUME Base, Base', Sound', SoundInv, [Next]_vars
  PROVE  SoundInv'
<1> USE DEF kvs, job, search, table
<1> DEFINE h == Head(todo)
\* Steps that keep the store, the table and the counter.
<1>1. ASSUME UNCHANGED <<kvsEp, kvsLegacy, devices, firstFree>>, Booted, Booted',
             phase # "migrate", phase' # "migrate", InHand'
      PROVE  SoundInv'
  <2>1. \A u \in Uid : IdOf(u)' = IdOf(u)
    BY <1>1 DEF IdOf
  <2>2. Injective' /\ Bounded'
    BY <1>1, <2>1, KeepIds, BaseFacts DEF Id
  <2>3. TableStored' /\ UniqueIds'
    BY <1>1, <2>1, KeepTable
  <2> QED
    BY <1>1, <2>2, <2>3 DEF SoundInv
<1>2. ASSUME NEW m \in Main, NextMain(m) PROVE SoundInv'
  BY <1>1, <1>2 DEF NextMain, Booted, InHand, Installing
<1>3. CASE NoEndpoint
  BY <1>1, <1>3 DEF NoEndpoint, Booted, InHand, Installing
<1>4. CASE Lookup
  BY <1>1, <1>4 DEF Lookup, Booted, InHand, Installing
<1>5. CASE Check
  BY <1>1, <1>5 DEF Check, Booted, InHand, Installing, SoundInv
<1>6. CASE ScanDone
  BY <1>1, <1>6 DEF ScanDone, Booted, InHand, Installing, SoundInv
<1>7. CASE InitialInstalled
  BY <1>1, <1>7 DEF InitialInstalled, Booted, InHand, Installing
<1>8. ASSUME NEW m \in Main, AddAdditionalDevice(m) PROVE SoundInv'
  BY <1>1, <1>8 DEF AddAdditionalDevice, Booted, InHand, Installing
<1>9. CASE AdditionalInstalled
  BY <1>1, <1>9 DEF AdditionalInstalled, Booted, InHand, Installing
<1>10. CASE UNCHANGED vars
  <2>1. UNCHANGED <<kvsEp, kvsLegacy, devices, firstFree, phase, todo, candidate, fixedCount,
                    kvsFirstFree, kvsMap>>
    BY <1>10 DEF vars
  <2>2. \A u \in Uid : IdOf(u)' = IdOf(u)
    BY <2>1 DEF IdOf
  <2>3. Injective' /\ Bounded'
    BY <2>1, <2>2 DEF SoundInv, Injective, Bounded, Owned, Booted
  <2>4. TableStored' /\ UniqueIds'
    BY <2>1, <2>2, KeepTable DEF Booted
  <2>5. InHand'
    BY <2>1 DEF SoundInv, InHand, Installing, InTable
  <2> QED
    BY <2>3, <2>4, <2>5 DEF SoundInv
\* A migration moves the id of the device from the old key to memory to the new key.
<1>11. CASE LegacyFound
  <2>1. /\ h \in Uid /\ kvsLegacy[h] # InvalidId /\ candidate' = kvsLegacy[h] + LegacyFirst
        /\ kvsLegacy' = [kvsLegacy EXCEPT ![h] = InvalidId]
        /\ phase = "next" /\ phase' = "migrate" /\ todo' = todo
        /\ UNCHANGED <<kvsEp, firstFree, devices>>
    <3>1. todo \in Seq(Uid)
      BY DEF Base, TypeInv, TypeOK
    <3> QED
      BY <1>11, <3>1 DEF LegacyFound
  <2>2. kvsLegacy \in [Uid -> Idx \cup {InvalidId}]
    BY DEF Base, TypeInv, TypeOK
  <2>3. \A u \in Uid : IdOf(u)' = IdOf(u)
    BY <2>1, <2>2 DEF IdOf
  <2>4. Injective' /\ Bounded'
    BY <2>1, <2>3, KeepIds, BaseFacts DEF Booted, Id
  <2>4a. ~InTable(h)
    BY <2>1 DEF SoundInv, TableStored, InTable
  <2>5. TableStored' /\ UniqueIds'
    <3>1. \A i \in DOMAIN devices : kvsLegacy'[devices[i].uid] = kvsLegacy[devices[i].uid]
      BY <2>1, <2>2, <2>4a, BaseFacts DEF InTable
    <3> QED
      BY <2>1, <2>3, <3>1, KeepTable DEF Booted
  <2>6. InHand'
    BY <2>1, <2>2, <2>4a DEF InHand, Installing, InTable
  <2> QED
    BY <2>4, <2>5, <2>6 DEF SoundInv
<1>12. CASE MigratePut
  <2>1. /\ h \in Uid /\ kvsLegacy[h] = InvalidId
        /\ kvsEp' = [kvsEp EXCEPT ![h] = candidate]
        /\ phase = "migrate" /\ phase' = "check"
        /\ UNCHANGED <<kvsLegacy, firstFree, devices, todo, candidate>>
    BY <1>12, BaseFacts DEF MigratePut, SoundInv, InHand, Installing
  <2>2. kvsEp \in [Uid -> Id]
    BY DEF Base, TypeInv, TypeOK
  <2>3. \A u \in Uid : IdOf(u)' = IdOf(u)
    BY <2>1, <2>2 DEF IdOf
  <2>4. Injective' /\ Bounded'
    BY <2>1, <2>3, KeepIds, BaseFacts DEF Booted, Id
  <2>5. TableStored' /\ UniqueIds'
    <3>1. ~InTable(h)
      BY <2>1 DEF SoundInv, InHand
    <3>2. \A i \in DOMAIN devices : kvsEp'[devices[i].uid] = kvsEp[devices[i].uid]
      BY <2>1, <2>2, <3>1, BaseFacts DEF InTable
    <3> QED
      BY <2>1, <2>3, <3>2, KeepTable DEF Booted
  <2>6. InHand'
    BY <2>1, <2>2 DEF InHand, Installing
  <2> QED
    BY <2>4, <2>5, <2>6 DEF SoundInv
\* The ids of the table lie below the counter, and an entry that has h's id is h's.
<1>13. CASE ScanStep
  <2>1. /\ h \in Uid /\ scanAt \in DOMAIN devices /\ phase = "scan"
        /\ kvsLegacy[h] = InvalidId /\ candidate = kvsEp[h] /\ candidate >= fixedCount
    <3>1. scanAt \in DOMAIN devices
      <4>1. devices \in Seq(Device) /\ scanAt \in Nat
        BY DEF Base, TypeInv, TypeOK
      <4>2. scanAt <= Len(devices) /\ scanAt >= 1
        BY <1>13 DEF ScanStep, Base, ScanInv
      <4> QED
        BY <4>1, <4>2
    <3>2. phase = "scan"
      BY <1>13 DEF ScanStep
    <3>3. candidate # InvalidId
      BY <3>2 DEF Base, ScanInv
    <3>4. kvsLegacy[h] = InvalidId /\ candidate = kvsEp[h] /\ candidate >= fixedCount
      BY <3>2, <3>3 DEF SoundInv, InHand, Installing
    <3> QED
      BY <3>1, <3>2, <3>4, BaseFacts DEF Installing
  <2>2. firstFree' = firstFree
    <3>1. devices[scanAt].ep < firstFree /\ devices[scanAt].ep \in Id /\ firstFree \in Id
      BY <2>1, BaseFacts DEF SoundInv, TableStored, Booted
    <3> QED
      BY <1>13, <3>1 DEF ScanStep, Id
  <2>3. UNCHANGED <<todo, kvsEp, kvsLegacy, fixedCount, devices>>
    BY <1>13 DEF ScanStep
  <2>4. InHand' /\ phase' \in {"scan", "assign"}
    <3>1. CASE devices[scanAt].ep = candidate
      <4>1. candidate' = InvalidId /\ phase' = "assign"
        BY <1>13, <3>1 DEF ScanStep
      <4>2. IdOf(h) = candidate
        BY <2>1 DEF IdOf
      <4>3. InTable(h)
        BY <2>1, <3>1, <4>2 DEF SoundInv, TableStored, InTable
      <4> QED
        BY <2>1, <2>3, <4>1, <4>3 DEF InHand, Installing, InTable
    <3>2. CASE devices[scanAt].ep # candidate
      <4>1. UNCHANGED <<candidate, phase>>
        BY <1>13, <3>2 DEF ScanStep
      <4> QED
        BY <2>1, <2>3, <4>1 DEF InHand, Installing
    <3> QED
      BY <3>1, <3>2
  <2> QED
    BY <1>1, <2>1, <2>2, <2>3, <2>4 DEF Booted
\* A device enters the table under an id that is its own now and no entry's.
<1>15. ASSUME phase = "assign", NEW e \in Id, NEW x \in Uid, x = h, Enter(h, e),
              UNCHANGED kvsLegacy, kvsLegacy[x] = InvalidId, e # InvalidId, kvsEp'[x] = e, e < firstFree',
              firstFree' >= firstFree,
              \A u \in Uid \ {x} : kvsEp'[u] = kvsEp[u],
              \A i \in DOMAIN devices : devices[i].ep # e,
              \A u \in Uid : IdOf(u)' = e => u = x,
              \A u \in Uid \ {x} : IdOf(u)' = IdOf(u), IdOf(x)' = e
       PROVE  TableStored' /\ UniqueIds'
  <2> DEFINE n == Len(devices) + 1
  <2>1. x = todo[1]
    <3>1. todo \in Seq(Uid) /\ todo # <<>>
      BY <1>15 DEF Base, TypeInv, TypeOK, Shape, Installing
    <3> QED
      BY <1>15, <3>1
  <2>2. /\ \A i \in DOMAIN devices : i \in DOMAIN devices' /\ devices'[i] = devices[i] /\ i < n
        /\ n \in DOMAIN devices' /\ devices'[n].uid = x /\ devices'[n].ep = e
        /\ \A i \in DOMAIN devices' : i \in DOMAIN devices \/ i = n
    <3>1. \A i \in DOMAIN devices : i < n
      <4>1. devices \in Seq(Device)
        BY DEF Base, TypeInv, TypeOK
      <4> QED
        BY <4>1
    <3> QED
      BY <1>15, <2>1, <3>1, EnterTable DEF Base
  <2> HIDE DEF h, n
  <2>3. UniqueIds'
    BY <1>15, <2>2 DEF SoundInv, UniqueIds
  <2>4. ASSUME NEW i \in DOMAIN devices
        PROVE  /\ Newest(i)' => kvsEp'[devices'[i].uid] = devices'[i].ep
               /\ kvsLegacy'[devices'[i].uid] = InvalidId
               /\ devices'[i].ep # InvalidId
               /\ Booted' => devices'[i].ep < firstFree'
               /\ \A u \in Uid : IdOf(u)' = devices'[i].ep => u = devices'[i].uid
    <3>1. /\ devices[i].uid \in Uid /\ devices[i].ep \in Id /\ firstFree \in Id
          /\ devices[i].ep < firstFree
      BY <1>15, BaseFacts DEF SoundInv, TableStored, Booted
    <3>2. Newest(i)' => devices[i].uid # x /\ Newest(i)
      BY <2>2 DEF Newest
    <3>3. firstFree' \in Id
      BY DEF Base, TypeInv, TypeOK
    <3>4. devices[i].ep < firstFree'
      BY <1>15, <3>1, <3>3 DEF Id
    <3>5. Newest(i)' => kvsEp'[devices'[i].uid] = devices'[i].ep
      BY <1>15, <2>2, <3>1, <3>2 DEF SoundInv, TableStored
    <3>6. ASSUME NEW u \in Uid, IdOf(u)' = devices'[i].ep PROVE u = devices'[i].uid
      <4>1. devices'[i] = devices[i] /\ devices[i].ep # e
        BY <1>15, <2>2
      <4>1a. IdOf(u)' # e
        BY <3>6, <4>1
      <4>2. u # x
        <5> SUFFICES ASSUME u = x PROVE FALSE
          OBVIOUS
        <5>1. IdOf(x)' = e
          BY <1>15
        <5>2. IdOf(u)' = IdOf(x)'
          OBVIOUS
        <5> QED
          BY <4>1a, <5>1, <5>2
      <4>3. IdOf(u)' = IdOf(u)
        BY <1>15, <4>2
      <4>4. IdOf(u) = devices[i].ep
        BY <3>6, <4>1, <4>3
      <4> QED
        BY <4>1, <4>4 DEF SoundInv, TableStored
    <3> QED
      BY <1>15, <2>2, <3>4, <3>5, <3>6 DEF SoundInv, TableStored
  <2>5. TableStored'
    BY <1>15, <2>2, <2>4 DEF TableStored
  <2> QED
    BY <2>3, <2>5
<1>14. CASE AssignKnown
  <2>1. /\ phase = "assign" /\ phase' = "next" /\ h \in Uid /\ candidate # InvalidId
        /\ UNCHANGED <<kvsEp, kvsLegacy, firstFree>>
        /\ candidate \in Id /\ Enter(h, candidate)
    BY <1>14, BaseFacts DEF AssignKnown, Enter, Installing
  <2>2. \A u \in Uid : IdOf(u)' = IdOf(u)
    BY <2>1 DEF IdOf
  <2>3. Injective' /\ Bounded'
    BY <2>1, <2>2, KeepIds, BaseFacts DEF Booted, Id
  <2>4. TableStored' /\ UniqueIds'
    <3>0. PICK x \in Uid : x = h
      BY <2>1
    <3>1. /\ kvsLegacy[x] = InvalidId /\ candidate = kvsEp[x] /\ IdOf(x) = candidate
          /\ candidate < firstFree
      BY <2>1, <3>0 DEF SoundInv, InHand, Bounded, Installing, IdOf, Owned, Booted
    <3>2. \A i \in DOMAIN devices : devices[i].ep # candidate
      BY <2>1 DEF Base, ScanInv, KnownNeverCollides
    <3>3. \A u \in Uid : IdOf(u) = candidate => u = x
      BY <2>1, <3>1 DEF SoundInv, Injective, Owned
    <3>4. firstFree' >= firstFree /\ candidate < firstFree'
      BY <2>1, <3>1, BaseFacts DEF Id
    <3>5. kvsEp'[x] = candidate /\ \A u \in Uid \ {x} : kvsEp'[u] = kvsEp[u]
      BY <2>1, <3>1
    <3>6. \A u \in Uid : IdOf(u)' = candidate => u = x
      BY <2>2, <3>3
    <3>7. IdOf(x)' = candidate /\ \A u \in Uid \ {x} : IdOf(u)' = IdOf(u)
      BY <2>2, <3>1
    <3>8. UNCHANGED kvsLegacy
      BY <2>1
    <3> HIDE DEF h
    <3> QED
      BY <1>15, <2>1, <3>0, <3>1, <3>2, <3>4, <3>5, <3>6, <3>7, <3>8
  <2>5. InHand'
    BY <2>1 DEF InHand, Installing
  <2> QED
    BY <2>3, <2>4, <2>5 DEF SoundInv
<1>12a. CASE AssignNew
  <2>0. PICK x \in Uid : x = h
    BY <1>12a, BaseFacts DEF AssignNew, Installing
  <2>1. /\ phase = "assign" /\ phase' = "next"
        /\ kvsEp' = [kvsEp EXCEPT ![x] = firstFree] /\ UNCHANGED kvsLegacy
        /\ firstFree \in Id /\ Enter(h, firstFree)
    BY <1>12a, <2>0, BaseFacts DEF AssignNew, Enter, Installing
  <2>2. firstFree' = firstFree + 1
    BY <1>12a DEF AssignNew, Sound, NextId, WrapsAt
  <2>3. kvsEp \in [Uid -> Id]
    BY DEF Base, TypeInv, TypeOK
  <2>4. kvsLegacy[x] = InvalidId
    BY <2>0, <2>1 DEF SoundInv, InHand, Installing
  <2>5. IdOf(x)' = firstFree /\ \A u \in Uid \ {x} : IdOf(u)' = IdOf(u)
    BY <2>1, <2>3, <2>4 DEF IdOf
  <2>6. \A u \in Uid : Owned(u) => IdOf(u) < firstFree
    BY <2>1 DEF SoundInv, Bounded, Booted
  <2>7. \A u \in Uid : IdOf(u) \in Id /\ InvalidId \in Nat
    BY BaseFacts
  <2>8. ASSUME NEW u \in Uid, NEW v \in Uid, IdOf(u)' = IdOf(v)', Owned(u)'
        PROVE  u = v
    <3>1. \A w \in Uid \ {x} : Owned(w)' => Owned(w) /\ IdOf(w)' # firstFree
      BY <2>1, <2>5, <2>6, <2>7 DEF Owned, Id
    <3>2. \A w, y \in Uid \ {x} : IdOf(w)' = IdOf(y)' /\ Owned(w)' => w = y
      BY <2>5, <3>1 DEF SoundInv, Injective
    <3>3. CASE u = x /\ v # x
      BY <2>5, <2>8, <3>1, <3>3 DEF Owned
    <3>4. CASE u # x /\ v = x
      BY <2>5, <2>8, <3>1, <3>4
    <3> QED
      BY <2>8, <3>2, <3>3, <3>4
  <2>9. Bounded'
    <3>1. \A u \in Uid : Owned(u)' => (IdOf(u) < firstFree)'
      BY <2>1, <2>2, <2>5, <2>6, <2>7 DEF Owned, Id
    <3> QED
      BY <2>1, <3>1 DEF Bounded, Booted
  <2>10. TableStored' /\ UniqueIds'
    <3>1. firstFree # InvalidId /\ firstFree < firstFree' /\ firstFree <= firstFree'
      BY <2>1, <2>2, BaseFacts DEF Booted, Id
    <3>2. \A i \in DOMAIN devices : devices[i].ep # firstFree
      BY <2>1, BaseFacts DEF SoundInv, TableStored, Booted, Id
    <3>3. \A u \in Uid : IdOf(u)' = firstFree => u = x
      <4>1. ASSUME NEW u \in Uid \ {x}, IdOf(u) = firstFree PROVE FALSE
        BY <2>6, <2>7, <3>1, <4>1 DEF Owned, Id
      <4> QED
        BY <2>5, <4>1
    <3>4. kvsEp'[x] = firstFree /\ \A u \in Uid \ {x} : kvsEp'[u] = kvsEp[u]
      BY <2>1, <2>3
    <3>5. firstFree' >= firstFree
      BY <3>1, <2>2, BaseFacts DEF Id
    <3> HIDE DEF h
    <3> QED
      BY <1>15, <2>0, <2>1, <2>4, <2>5, <3>1, <3>2, <3>3, <3>4, <3>5
  <2>11. InHand'
    BY <2>1 DEF InHand, Installing
  <2> QED
    BY <2>8, <2>9, <2>10, <2>11 DEF SoundInv, Injective
\* Starting and stopping: the ids stay, the bound changes place.
<1>16. ASSUME UNCHANGED <<kvsEp, kvsLegacy>>, phase # "migrate", phase' # "migrate",
              devices' = <<>>, Bounded', ~Installing'
       PROVE  SoundInv'
  <2>1. \A u \in Uid : IdOf(u)' = IdOf(u)
    BY <1>16 DEF IdOf
  <2>2. Injective'
    BY <2>1 DEF SoundInv, Injective, Owned
  <2>3. TableStored' /\ UniqueIds'
    BY <1>16 DEF TableStored, UniqueIds
  <2>4. InHand'
    BY <1>16 DEF InHand, Installing
  <2> QED
    BY <2>2, <2>3, <2>4, <1>16 DEF SoundInv
<1>17. ASSUME NEW ds \in SUBSET Main, StartChip(ds) PROVE SoundInv'
  <2>1. /\ phase = "down" /\ phase' \in {"forget", "validate"}
        /\ UNCHANGED <<kvsEp, kvsLegacy, kvsMap>> /\ devices' = <<>>
    BY <1>17 DEF StartChip, Base, TypeInv, Shape
  <2>2. Bounded'
    <3>1. CASE UNCHANGED kvsFirstFree
      BY <2>1, <3>1 DEF SoundInv, Bounded, Booted, Owned, IdOf
    <3>2. CASE kvsFirstFree = InvalidId /\ kvsFirstFree' # InvalidId
      <4>1. \A b \in MapBounds : b <= kvsFirstFree'
        BY <1>17, <3>2 DEF StartChip
      <4>2. ASSUME NEW u \in Uid, Owned(u)' PROVE (IdOf(u) < kvsFirstFree)'
        <5>1. kvsEp[u] = InvalidId /\ (kvsLegacy[u] # InvalidId => kvsLegacy[u] \in kvsMap)
          BY <2>1, <3>2 DEF SoundInv, Bounded, Booted
        <5>2. kvsLegacy[u] \in kvsMap /\ IdOf(u)' = kvsLegacy[u] + LegacyFirst
          BY <2>1, <4>2, <5>1 DEF Owned, IdOf
        <5>3. kvsLegacy[u] + LegacyFirst + 1 <= kvsFirstFree'
          BY <4>1, <5>2 DEF MapBounds
        <5>4. kvsLegacy[u] \in Int /\ kvsFirstFree' \in Int /\ LegacyFirst \in Int
          <6>1. kvsMap \subseteq Idx /\ kvsFirstFree' \in Id
            BY DEF Base, TypeInv, TypeOK
          <6>2. kvsLegacy[u] \in Idx
            BY <5>2, <6>1
          <6> QED
            BY <6>1, <6>2, IdsAssumption DEF Idx, Id
        <5> QED
          BY <5>2, <5>3, <5>4
      <4> QED
        BY <2>1, <3>2, <4>2 DEF Bounded, Booted
    <3> QED
      BY <1>17, <3>1, <3>2 DEF StartChip
  <2> QED
    BY <1>16, <2>1, <2>2 DEF Installing
<1>21. CASE ForgetMap
  <2>1. /\ phase = "forget" /\ phase' = "validate"
        /\ UNCHANGED <<kvsEp, kvsLegacy, kvsFirstFree>> /\ devices' = <<>>
        /\ kvsFirstFree # InvalidId
    BY <1>21 DEF ForgetMap, Base, TypeInv, Shape
  <2>2. Bounded'
    BY <2>1 DEF SoundInv, Bounded, Booted, Owned, IdOf
  <2> QED
    BY <1>16, <2>1, <2>2 DEF Installing
<1>18. CASE Validate
  <2>1. /\ phase = "validate" /\ phase' = "next"
        /\ UNCHANGED <<kvsEp, kvsLegacy, fixedCount>> /\ devices' = <<>>
        /\ firstFree = kvsFirstFree /\ (firstFree = InvalidId => kvsMap = {})
    BY <1>18 DEF Validate, Base, TypeInv, Shape
  <2>2. \A u \in Uid : IdOf(u)' = IdOf(u)
    BY <2>1 DEF IdOf
  <2>3. ASSUME NEW u \in Uid, Owned(u)' PROVE (IdOf(u) < firstFree)'
    <3>1. Owned(u)
      BY <2>2, <2>3 DEF Owned
    <3>2. firstFree # InvalidId
      BY <2>1, <3>1 DEF SoundInv, Bounded, Booted, Owned, IdOf
    <3>3. IdOf(u) < firstFree
      BY <2>1, <3>1, <3>2 DEF SoundInv, Bounded, Booted
    <3>4. firstFree' = firstFree \/ (firstFree < fixedCount /\ firstFree' = fixedCount)
      BY <1>18, <3>2 DEF Validate
    <3>5. IdOf(u) \in Int /\ firstFree \in Int /\ fixedCount \in Int
      BY BaseFacts DEF Id
    <3> QED
      BY <2>2, <3>3, <3>4, <3>5
  <2> QED
    BY <1>16, <2>1, <2>3 DEF Bounded, Booted, Installing
<1>19. CASE Crash
  <2>1. /\ phase # "migrate" /\ (phase = "operational" \/ firstFree = kvsFirstFree)
        /\ phase' = "down" /\ devices' = <<>>
        /\ UNCHANGED <<kvsEp, kvsLegacy, kvsFirstFree, kvsMap>>
    BY <1>19 DEF Crash, Sound
  <2>2. firstFree = kvsFirstFree
    BY <2>1 DEF Base, TypeInv, Shape
  <2>3. Bounded'
    <3>1. CASE ~Booted
      BY <2>1, <3>1 DEF SoundInv, Bounded, Booted, Owned, IdOf
    <3>2. CASE Booted
      BY <2>1, <2>2, <3>2, BaseFacts DEF SoundInv, Bounded, Booted, Owned, IdOf
    <3> QED
      BY <3>1, <3>2
  <2> QED
    BY <1>16, <2>1, <2>3 DEF Installing
<1>20. CASE Update
  <2>1. /\ phase = "down" /\ phase' = "down"
        /\ UNCHANGED <<kvsEp, kvsLegacy, kvsFirstFree, kvsMap>> /\ devices' = <<>>
    BY <1>20 DEF Update, Base, TypeInv, Shape
  <2>2. Bounded'
    BY <2>1 DEF SoundInv, Bounded, Booted, Owned, IdOf
  <2> QED
    BY <1>16, <2>1, <2>2 DEF Installing
<1> QED
  BY <1>2, <1>3, <1>4, <1>5, <1>6, <1>7, <1>8, <1>9, <1>10, <1>11, <1>12, <1>13,
     <1>12a, <1>14, <1>17, <1>18, <1>19, <1>20, <1>21
  DEF Next, System, InstallStep

LEMMA InitIInv == Init => IInv
<1> SUFFICES ASSUME Init PROVE IInv
  OBVIOUS
<1>1. TypeInv
  BY InitType
<1>2. ScanInv /\ Ownership
  BY DEF Init, ScanInv, KnownNeverCollides, Ownership
<1>3. \A u \in Uid : kvsLegacy[u] # InvalidId =>
          kvsLegacy[u] \in Int /\ kvsLegacy[u] \in kvsMap
  BY DEF Init, LegacyStore, Idx
<1>4. \A u \in Uid :
        IdOf(u) = IF kvsLegacy[u] # InvalidId THEN kvsLegacy[u] + LegacyFirst ELSE InvalidId
  BY DEF Init, IdOf
<1>5. Injective
  <2>1. ASSUME NEW u \in Uid, NEW v \in Uid, IdOf(u) = IdOf(v), Owned(u) PROVE u = v
    <3>1. kvsLegacy[u] # InvalidId /\ IdOf(u) = kvsLegacy[u] + LegacyFirst
      BY <1>4, <2>1 DEF Owned
    <3>2. kvsLegacy[v] # InvalidId /\ IdOf(v) = kvsLegacy[v] + LegacyFirst
      BY <1>4, <2>1 DEF Owned
    <3>3. kvsLegacy[u] = kvsLegacy[v]
      <4>1. kvsLegacy[u] \in Int /\ kvsLegacy[v] \in Int /\ LegacyFirst \in Int
        BY <1>3, <3>1, <3>2, IdsAssumption
      <4>2. kvsLegacy[u] + LegacyFirst = kvsLegacy[v] + LegacyFirst
        BY <2>1, <3>1, <3>2
      <4> QED
        BY <4>1, <4>2
    <3> QED
      BY <3>1, <3>3 DEF Init, LegacyStore
  <2> QED
    BY <2>1 DEF Injective
<1>6. Bounded /\ TableStored /\ UniqueIds /\ InHand
  BY <1>3 DEF Init, Bounded, TableStored, UniqueIds, InHand, Booted, Installing
<1> QED
  BY <1>1, <1>2, <1>5, <1>6 DEF IInv, Base, SoundInv

LEMMA NextBase == Base /\ [Next]_vars => Base'
  BY NextType, NextScan, NextOwnership DEF Base

(* Wrap-arounds and torn crashes are remembered.                            *)
LEMMA SoundBefore == TypeInv /\ [Next]_vars /\ Sound' => Sound
<1> SUFFICES ASSUME TypeInv, [Next]_vars, Sound' PROVE Sound
  OBVIOUS
<1>0. torn \in BOOLEAN /\ wrapped \in BOOLEAN
  BY DEF TypeInv, TypeOK
<1>1. CASE \E ds \in SUBSET Main : StartChip(ds)
  BY <1>0, <1>1 DEF StartChip, Sound
<1>2. CASE InstallStep
  <2>1. CASE ScanStep
    BY <1>0, <2>1 DEF ScanStep, Sound
  <2>2. CASE AssignNew
    BY <1>0, <2>2 DEF AssignNew, Sound
  <2>3. CASE \/ \E m \in Main : NextMain(m)
             \/ NoEndpoint \/ LegacyFound \/ MigratePut \/ Lookup \/ Check
             \/ ScanDone \/ AssignKnown
    BY <1>0, <2>3
    DEF NextMain, NoEndpoint, LegacyFound, MigratePut, Lookup, Check, ScanDone, AssignKnown, Sound
  <2> QED
    BY <1>2, <2>1, <2>2, <2>3 DEF InstallStep
<1>3. CASE ForgetMap \/ Validate \/ InitialInstalled \/ AdditionalInstalled
  BY <1>0, <1>3 DEF ForgetMap, Validate, InitialInstalled, AdditionalInstalled, Sound
<1>4. CASE (\E m \in Main : AddAdditionalDevice(m)) \/ Update
  BY <1>0, <1>4 DEF AddAdditionalDevice, Update, Sound
<1>6. CASE Crash
  BY <1>0, <1>6 DEF Crash, Sound
<1>5. CASE UNCHANGED vars
  BY <1>5 DEF vars, Sound
<1> QED
  BY <1>1, <1>2, <1>3, <1>4, <1>5, <1>6 DEF Next, System

LEMMA NextIInv == IInv /\ [Next]_vars => IInv'
<1> SUFFICES ASSUME IInv, [Next]_vars PROVE IInv'
  OBVIOUS
<1>1. Base /\ Base'
  BY NextBase DEF IInv
<1>2. ASSUME Sound' PROVE SoundInv'
  <2>1. Sound
    BY <1>1, <1>2, SoundBefore DEF Base
  <2>2. SoundInv
    BY <2>1 DEF IInv
  <2> QED
    BY <1>1, <1>2, <2>2, NextSound
<1> QED
  BY <1>1, <1>2 DEF IInv

LEMMA InductiveInvariant == Spec => []IInv
  BY InitIInv, NextIInv, PTL DEF Spec

(* Unless a crash has left the stored counter behind or the ids have        *)
(* wrapped, no two installed devices ever have the same endpoint id:        *)
(* over migration, restarts, additions, updates and a table that is full.   *)
THEOREM EndpointIdsUnique == Spec => []UniqueWhileSound
<1>1. IInv => UniqueWhileSound
  BY DEF IInv, SoundInv, UniqueWhileSound
<1> QED
  BY <1>1, InductiveInvariant, PTL

(* Under the same condition no two devices, bridged now or remembered from  *)
(* an earlier run, own the same id in the store, and the counter lies above *)
(* all of them.                                                             *)
THEOREM StoredIdsUnique == Spec => []StoreInjective
<1>1. IInv => StoreInjective
  BY DEF IInv, SoundInv, Injective, Bounded, Owned, Booted, StoreInjective
<1> QED
  BY <1>1, InductiveInvariant, PTL

(* A step that changes the dynamic id of a device that is not installed     *)
(* either spoils the counter or does not exist.                             *)
LEMMA NextIdentity ==
  ASSUME IInv, IInv', [Next]_vars, Sound', NEW u \in Uid,
         IdOf(u) # InvalidId, IdOf(u) >= fixedCount, ~InTable(u)
  PROVE  IdOf(u)' = IdOf(u)
<1>1. SoundInv /\ Base /\ Sound
  BY SoundBefore DEF IInv, Base
<1>2. kvsEp \in [Uid -> Id] /\ kvsLegacy \in [Uid -> Idx \cup {InvalidId}]
  BY <1>1 DEF Base, TypeInv, TypeOK
<1> USE DEF IdOf, kvs, job, search, table
<1>3. CASE LegacyFound
  BY <1>2, <1>3 DEF LegacyFound
<1>4. CASE MigratePut
  BY <1>1, <1>2, <1>4 DEF MigratePut, SoundInv, InHand, Installing
<1>5. CASE AssignNew
  <2>1. /\ phase = "assign" /\ phase' = "next" /\ UNCHANGED kvsLegacy
        /\ kvsEp' = [kvsEp EXCEPT ![Head(todo)] = firstFree]
        /\ candidate = InvalidId
    BY <1>5 DEF AssignNew, Enter
  <2>2. kvsLegacy[Head(todo)] = InvalidId
    BY <1>1, <2>1 DEF SoundInv, InHand, Installing
  <2>3. \/ kvsEp[Head(todo)] = InvalidId \/ kvsEp[Head(todo)] < fixedCount
        \/ InTable(Head(todo))
    BY <1>1, <2>1 DEF SoundInv, InHand
  <2>4. u # Head(todo)
    <3>1. IdOf(u) \in Int /\ fixedCount \in Int
      BY <1>1, BaseFacts DEF Id
    <3> QED
      BY <2>1, <2>2, <2>3, <3>1
  <2> QED
    BY <1>2, <2>1, <2>4
<1>6. CASE \/ \E ds \in SUBSET Main : StartChip(ds)
           \/ ForgetMap \/ Validate \/ (\E m \in Main : NextMain(m)) \/ NoEndpoint \/ Lookup
           \/ Check \/ ScanStep \/ ScanDone \/ AssignKnown \/ InitialInstalled
           \/ AdditionalInstalled \/ (\E m \in Main : AddAdditionalDevice(m))
           \/ Crash \/ Update
  <2>1. UNCHANGED <<kvsEp, kvsLegacy>> /\ phase # "migrate" /\ phase' # "migrate"
    BY <1>6
    DEF StartChip, ForgetMap, Validate, NextMain, NoEndpoint, Lookup, Check, ScanStep, ScanDone,
        AssignKnown, Enter, InitialInstalled, AdditionalInstalled,
        AddAdditionalDevice, Crash, Update, Sound
  <2> QED
    BY <2>1
<1>7. CASE UNCHANGED vars
  BY <1>7 DEF vars
<1> QED
  BY <1>3, <1>4, <1>5, <1>6, <1>7 DEF Next, System, InstallStep

(* A device keeps the endpoint id it has, whatever other devices come, go,  *)
(* are migrated or find the table full, until an update gives the id to a   *)
(* fixed endpoint or the device is installed a second time in one run.      *)
THEOREM IdentityIsStable == Spec => IdentityStable
<1>1. IInv /\ IInv' /\ [Next]_vars =>
        [Sound' => \A u \in Uid :
            /\ IdOf(u) # InvalidId /\ IdOf(u) >= fixedCount
            /\ \A i \in DOMAIN devices : devices[i].uid # u
            => IdOf(u)' = IdOf(u)]_vars
  BY NextIdentity DEF InTable
<1> QED
  BY <1>1, InductiveInvariant, PTL DEF Spec, IdentityStable

(* The stack has the endpoints of all devices up to the handler that runs.  *)
Published ==
  /\ addFrom = 0 /\ phase # "operational" => registered = {}
  /\ addFrom # 0 => addFrom \in 1 .. Len(devices) + 1 /\ registered = 1 .. addFrom - 1
  /\ phase = "operational" => registered = DOMAIN devices

LEMMA NextPublished ==
  ASSUME IInv, IInv', [Next]_vars, Sound', Published
  PROVE  Published'
<1> USE DEF Published, kvs, job, search, table
<1>1. Base /\ Sound /\ devices \in Seq(Device) /\ addFrom \in Nat
  BY SoundBefore DEF IInv, Base, TypeInv, TypeOK
<1>2. DOMAIN devices = 1 .. Len(devices)
  BY <1>1
<1>3. UniqueIds
  BY <1>1 DEF IInv, SoundInv
<1>4. CASE AssignKnown \/ AssignNew
  <2>1. phase = "assign" /\ phase' = "next" /\ UNCHANGED <<addFrom, registered>>
    BY <1>4 DEF AssignKnown, AssignNew, Enter
  <2>2. Len(devices') = Len(devices) + 1
    BY <1>1, <1>4 DEF AssignKnown, AssignNew, Enter
  <2> QED
    BY <1>1, <2>1, <2>2
<1>5. CASE InitialInstalled
  <2>1. registered = {} /\ registered' = Accepted(DOMAIN devices) /\ phase' = "operational"
        /\ UNCHANGED <<addFrom, devices>> /\ addFrom = 0
    BY <1>5 DEF InitialInstalled
  <2>2. Accepted(DOMAIN devices) = DOMAIN devices
    BY <1>2, <1>3, <2>1 DEF Accepted, UniqueIds
  <2> QED
    BY <2>1, <2>2
<1>6. CASE AdditionalInstalled
  <2> DEFINE batch == addFrom .. Len(devices)
  <2>1. /\ addFrom # 0 /\ addFrom' = 0 /\ phase' = "operational" /\ UNCHANGED devices
        /\ registered' = registered \cup
             IF addFrom \in Accepted(batch) THEN Accepted(batch) ELSE {}
    BY <1>6 DEF AdditionalInstalled
  <2>2. addFrom \in 1 .. Len(devices) + 1 /\ registered = 1 .. addFrom - 1
    BY <2>1
  <2>3. \A i \in batch : \A j \in registered \cup {k \in batch : k < i} :
          i \in DOMAIN devices /\ j \in DOMAIN devices /\ i # j
    BY <1>1, <1>2, <2>2
  <2>4. Accepted(batch) = batch
    BY <1>3, <2>3 DEF Accepted, UniqueIds
  <2>5. registered' = registered \cup batch
    BY <2>1, <2>2, <2>4
  <2>6. registered \cup batch = 1 .. Len(devices)
    BY <1>1, <2>2
  <2> QED
    BY <1>2, <2>1, <2>5, <2>6
<1>7. CASE \E m \in Main : AddAdditionalDevice(m)
  BY <1>1, <1>2, <1>7 DEF AddAdditionalDevice
<1>8. CASE \E ds \in SUBSET Main : StartChip(ds)
  BY <1>8 DEF StartChip
<1>9. CASE ForgetMap \/ Validate \/ Crash \/ Update
  BY <1>9 DEF ForgetMap, Validate, Crash, Update
<1>10. CASE \/ (\E m \in Main : NextMain(m)) \/ NoEndpoint \/ LegacyFound \/ MigratePut
            \/ Lookup \/ Check \/ ScanStep \/ ScanDone
  BY <1>10 DEF NextMain, NoEndpoint, LegacyFound, MigratePut, Lookup, Check, ScanStep, ScanDone
<1>11. CASE UNCHANGED vars
  BY <1>11 DEF vars
<1> QED
  BY <1>4, <1>5, <1>6, <1>7, <1>8, <1>9, <1>10, <1>11 DEF Next, System, InstallStep

(* Once a handler is through, the stack has accepted the endpoint of every  *)
(* device that was installed, composed ones and those added later, or a     *)
(* second time, included, and the store has the id of the newest entry of   *)
(* each, unless a crash or a wrap-around spoiled them.                      *)
THEOREM StackMatchesStore == Spec => []OperationalMatchesStore
<1>1. Init => (Sound => Published)
  BY DEF Init, Published
<1>2. IInv /\ IInv' /\ (Sound => Published) /\ [Next]_vars => (Sound => Published)'
  BY NextPublished, SoundBefore DEF IInv, Base
<1>3. IInv /\ (Sound => Published) => OperationalMatchesStore
  BY DEF IInv, SoundInv, TableStored, Published, OperationalMatchesStore
<1> QED
  BY <1>1, <1>2, <1>3, InductiveInvariant, PTL DEF Spec

---------------------------------------------------------------------------
(* EndpointAlloc implements EndpointRegistry.                              *)

(* A set of naturals has a least element, and a greatest if it is bounded.  *)
LEMMA LeastNatural ==
  ASSUME NEW S \in SUBSET Nat, S # {}
  PROVE  \E n \in S : \A m \in S : n <= m
<1> DEFINE R == OpToRel(<, Nat)
<1>1. IsWellFoundedOn(R, Nat)
  BY NatLessThanWellFounded
<1>2. PICK n \in S : \A m \in S : ~ (<<m, n>> \in R)
  <2> HIDE DEF R
  <2> QED
    BY <1>1, WFMin
<1>3. \A m \in Nat : <<m, n>> \in R <=> m < n
  <2>1. n \in Nat
    OBVIOUS
  <2>2. ASSUME NEW m \in Nat, m < n PROVE <<m, n>> \in R
    BY <2>1, <2>2, Zenon DEF OpToRel
  <2> QED
    BY <2>1, <2>2, Zenon DEF OpToRel
<1>4. ASSUME NEW m \in S PROVE n <= m
  <2>1. m \in Nat /\ n \in Nat
    OBVIOUS
  <2>2. ~ (m < n)
    <3> HIDE DEF R
    <3> QED
      BY <1>2, <1>3, <2>1, Zenon
  <2> QED
    BY <2>1, <2>2
<1> QED
  BY <1>4

LEMMA GreatestNatural ==
  ASSUME NEW S \in SUBSET Nat, S # {}, NEW n \in Nat, \A m \in S : m <= n
  PROVE  \E g \in S : \A m \in S : m <= g
<1> DEFINE U == {b \in Nat : \A m \in S : m <= b}
<1>1. PICK g \in U : \A b \in U : g <= b
  <2>1. U \in SUBSET Nat /\ n \in U
    OBVIOUS
  <2> QED
    BY <2>1, LeastNatural
<1>2. g \in Nat /\ \A m \in S : m <= g
  OBVIOUS
<1>3. g \in S
  <2> SUFFICES ASSUME g \notin S PROVE FALSE
    OBVIOUS
  <2>1. \A m \in S : m \in Nat /\ m < g
    BY <1>2
  <2>2. g - 1 \in Nat
    <3>1. PICK m \in S : TRUE
      OBVIOUS
    <3> QED
      BY <1>2, <2>1, <3>1
  <2>3. \A m \in S : m <= g - 1
    BY <1>2, <2>1
  <2>4. g - 1 \in U
    BY <2>2, <2>3
  <2> QED
    BY <1>1, <1>2, <2>4
<1> QED
  BY <1>2, <1>3

(* The id that the legacy map makes the first start count from.             *)
Greatest(e) == e \in MapBounds /\ \A b \in MapBounds : b <= e

LEMMA MapBoundsRange ==
  ASSUME TypeOK
  PROVE  /\ MapBounds \in SUBSET Nat /\ fixedCount \in MapBounds
         /\ \A b \in MapBounds : b < InvalidId
  BY IdsAssumption DEF MapBounds, TypeOK, Idx

LEMMA GreatestExists == ASSUME TypeOK PROVE \E e \in Nat : Greatest(e)
<1>1. MapBounds \in SUBSET Nat /\ MapBounds # {} /\ \A b \in MapBounds : b <= InvalidId
  BY MapBoundsRange, IdsAssumption
<1>2. InvalidId \in Nat
  BY IdsAssumption
<1> QED
  BY <1>1, <1>2, GreatestNatural DEF Greatest

LEMMA GreatestUnique ==
  ASSUME TypeOK, NEW e, NEW f, Greatest(e), Greatest(f)
  PROVE  e = f
  BY MapBoundsRange DEF Greatest

(* What the next start will count from, with and without a stored counter.  *)
LEMMA StoredNextIs ==
  ASSUME TypeOK
  PROVE  /\ kvsFirstFree = InvalidId => Greatest(StoredNext)
         /\ kvsFirstFree # InvalidId =>
              StoredNext = IF kvsFirstFree < fixedCount THEN fixedCount ELSE kvsFirstFree
         /\ kvsFirstFree = InvalidId /\ kvsMap = {} => StoredNext = fixedCount
<1>1. kvsFirstFree = InvalidId => Greatest(StoredNext)
  BY GreatestExists DEF StoredNext, Greatest
<1>2. kvsFirstFree = InvalidId /\ kvsMap = {} => StoredNext = fixedCount
  BY <1>1 DEF Greatest, MapBounds
<1> QED
  BY <1>1, <1>2 DEF StoredNext

LEMMA NextFreeIs ==
  ASSUME TypeInv
  PROVE  /\ NextFree \in Nat /\ fixedCount \in Nat /\ NextFree >= fixedCount
         /\ Booted => NextFree = firstFree
<1> USE DEF TypeInv
<1>1. fixedCount \in Nat /\ InvalidId \in Nat /\ firstFree \in Nat /\ kvsFirstFree \in Nat
  BY IdsAssumption DEF TypeOK, Id
<1>2. StoredNext \in Nat /\ StoredNext >= fixedCount
  <2>1. CASE kvsFirstFree = InvalidId
    BY <1>1, <2>1, StoredNextIs, MapBoundsRange DEF Greatest
  <2>2. CASE kvsFirstFree # InvalidId
    BY <1>1, <2>2, StoredNextIs
  <2> QED
    BY <2>1, <2>2
<1> QED
  BY <1>1, <1>2 DEF NextFree, Booted, Shape

---------------------------------------------------------------------------

(* The stored ids as the registry has them.                                 *)
Ids == [u \in Uid |-> IdOf(u)]

LEMMA InitRegistry == Init => Registry!Init
<1> SUFFICES ASSUME Init PROVE Registry!Init
  OBVIOUS
<1>1. IInv /\ Sound /\ phase = "down" /\ kvsFirstFree = InvalidId
  BY InitIInv DEF Init, Sound
<1>2. Base /\ TypeInv /\ TypeOK /\ SoundInv
  BY <1>1 DEF IInv, Base, TypeInv
<1>3. NextFree \in Nat /\ fixedCount \in Nat /\ fixedCount <= NextFree
  BY <1>2, NextFreeIs
<1>4. Ids \in [Uid -> 0 .. InvalidId]
  BY <1>2, BaseFacts DEF Ids, Id
<1>5. ASSUME NEW u \in Uid, Ids[u] # InvalidId PROVE Ids[u] < NextFree
  <2>1. Ids[u] = kvsLegacy[u] + LegacyFirst /\ kvsLegacy[u] \in kvsMap /\ kvsLegacy[u] \in Idx
    BY <1>1, <1>5, IdsAssumption DEF Ids, IdOf, Init, LegacyStore
  <2>2. kvsLegacy[u] + LegacyFirst + 1 \in MapBounds
    BY <2>1 DEF MapBounds
  <2>3. kvsLegacy[u] + LegacyFirst + 1 <= NextFree
    BY <1>1, <1>2, <2>2, StoredNextIs DEF Greatest, NextFree
  <2> QED
    BY <1>3, <2>1, <2>3, IdsAssumption DEF Idx
<1>6. \A u, v \in Uid : Ids[u] = Ids[v] /\ Ids[u] # InvalidId => u = v
  BY <1>2 DEF Ids, SoundInv, Injective, Owned
<1> QED
  BY <1>1, <1>3, <1>4, <1>5, <1>6 DEF Registry!Init, Ids, Init

---------------------------------------------------------------------------

(* What a step that is no step of the registry leaves alone.                *)
Bridged  == {devices[i].uid : i \in DOMAIN devices}
Counts   == Ids' = Ids /\ NextFree' = NextFree /\ fixedCount' = fixedCount
Stutters == Counts /\ Bridged' = Bridged

LEMMA StartStutters ==
  ASSUME TypeInv, TypeInv', NEW ds, StartChip(ds)
  PROVE  Stutters
<1>1. /\ phase = "down" /\ phase' \in {"forget", "validate"}
      /\ UNCHANGED <<kvsEp, kvsLegacy, kvsMap, fixedCount>> /\ Bridged' = Bridged
  BY DEF StartChip, Bridged, table
<1>2. Ids' = Ids
  BY <1>1 DEF Ids, IdOf
<1>3. TypeOK /\ fixedCount \in Nat
  BY IdsAssumption DEF TypeInv, TypeOK
<1>4. CASE phase' = "validate"
  <2>1. firstFree' = kvsFirstFree /\ (kvsFirstFree # InvalidId \/ kvsMap = {})
    BY <1>4 DEF StartChip
  <2> QED
    BY <1>1, <1>2, <1>3, <1>4, <2>1, StoredNextIs DEF Stutters, Counts, NextFree
<1>5. CASE phase' = "forget"
  <2>1. kvsFirstFree = InvalidId /\ Greatest(firstFree')
    BY <1>5 DEF StartChip, Greatest
  <2>2. firstFree' = StoredNext
    BY <1>3, <2>1, StoredNextIs, GreatestUnique
  <2>3. firstFree' # InvalidId /\ firstFree' \in Nat /\ fixedCount <= firstFree'
    BY <1>3, <2>1, MapBoundsRange DEF Greatest
  <2> QED
    BY <1>1, <1>2, <1>3, <1>5, <2>2, <2>3 DEF Stutters, Counts, NextFree
<1> QED
  BY <1>1, <1>4, <1>5

LEMMA CrashRestarts ==
  ASSUME TypeInv, Crash, Sound'
  PROVE  Counts /\ Bridged' = {}
<1>1. /\ phase \notin {"down", "migrate"} /\ phase' = "down"
      /\ UNCHANGED <<kvsEp, kvsFirstFree, kvsLegacy, kvsMap, fixedCount>>
      /\ phase = "operational" \/ firstFree = kvsFirstFree
  BY DEF Crash, Sound, kvs
<1>2. firstFree = kvsFirstFree /\ (phase = "validate" /\ firstFree = InvalidId => kvsMap = {})
  BY <1>1 DEF TypeInv, Shape
<1>3. firstFree = InvalidId => phase = "validate"
  BY <1>1 DEF TypeInv, Shape, Booted
<1>4. Ids' = Ids
  BY <1>1 DEF Ids, IdOf
<1>5. NextFree' = StoredNext
  BY <1>1 DEF NextFree, StoredNext, MapBounds
<1>6. TypeOK
  BY DEF TypeInv
<1>7. Bridged' = {}
  BY DEF Crash, Bridged
<1> QED
  BY <1>1, <1>2, <1>3, <1>4, <1>5, <1>6, <1>7, StoredNextIs DEF Counts, NextFree

(* An update raises the floor, and the counter only as far as it must.      *)
LEMMA UpdateRaises ==
  ASSUME TypeInv, TypeInv', Update, Sound
  PROVE  Registry!RaiseFloor
<1>1. /\ phase = "down" /\ phase' = "down" /\ Sound' = Sound
      /\ UNCHANGED <<kvsEp, kvsFirstFree, kvsLegacy, kvsMap>>
  BY DEF Update, Sound, kvs
<1>2. TypeOK /\ TypeOK' /\ fixedCount \in Nat /\ fixedCount' \in Nat /\ fixedCount' > fixedCount
  BY IdsAssumption DEF TypeInv, TypeOK, Update
<1>3. Ids' = Ids
  BY <1>1 DEF Ids, IdOf
<1>4. StoredNext' = IF StoredNext < fixedCount' THEN fixedCount' ELSE StoredNext
  <2>1. CASE kvsFirstFree # InvalidId
    <3>1. kvsFirstFree \in Nat
      BY <1>2 DEF TypeOK, Id
    <3>2. StoredNext' = IF kvsFirstFree < fixedCount' THEN fixedCount' ELSE kvsFirstFree
      BY <1>1, <2>1 DEF StoredNext
    <3>3. StoredNext = IF kvsFirstFree < fixedCount THEN fixedCount ELSE kvsFirstFree
      BY <2>1 DEF StoredNext
    <3> QED
      BY <1>2, <3>1, <3>2, <3>3
  <2>2. CASE kvsFirstFree = InvalidId
    <3> DEFINE e == IF StoredNext < fixedCount' THEN fixedCount' ELSE StoredNext
    <3>1. Greatest(StoredNext) /\ MapBounds \in SUBSET Nat
      BY <1>2, <2>2, StoredNextIs, MapBoundsRange
    <3>2. MapBounds' = (MapBounds \ ({fixedCount} \ {i + LegacyFirst + 1 : i \in kvsMap})) \cup {fixedCount'}
      BY <1>1 DEF MapBounds
    <3>3. e \in MapBounds' /\ \A b \in MapBounds' : b <= e
      <4>1. \A b \in MapBounds : b \in Nat /\ b <= StoredNext
        BY <3>1 DEF Greatest
      <4>2. StoredNext \in MapBounds
        BY <3>1 DEF Greatest
      <4>3. CASE StoredNext < fixedCount'
        BY <1>2, <3>2, <4>1, <4>2, <4>3
      <4>4. CASE ~(StoredNext < fixedCount')
        <5>1. StoredNext # fixedCount
          BY <1>2, <4>4
        <5> QED
          BY <1>2, <3>2, <4>1, <4>2, <4>4, <5>1
      <4> QED
        BY <4>3, <4>4
    <3>4. StoredNext' \in MapBounds' /\ \A b \in MapBounds' : b <= StoredNext'
      BY <1>1, <2>2, <3>3 DEF StoredNext
    <3>5. \A b \in MapBounds' : b \in Nat
      BY <1>2, <3>1, <3>2
    <3> QED
      BY <3>3, <3>4, <3>5
  <2> QED
    BY <2>1, <2>2
<1>5. Bridged = {} /\ Bridged' = {}
  BY DEF Update, TypeInv, Shape, Bridged, table
<1> QED
  BY <1>1, <1>2, <1>3, <1>4, <1>5 DEF Registry!RaiseFloor, NextFree, Ids, Bridged

(* Installing a device makes it one of the bridged ones.                    *)
LEMMA EnterBridges ==
  ASSUME TypeInv, phase = "assign", NEW e \in Id, Enter(Head(todo), e)
  PROVE  Bridged' = Bridged \cup {Head(todo)}
<1>1. todo \in Seq(Uid) /\ todo # <<>>
  BY DEF TypeInv, TypeOK, Shape, Installing
<1>2. Head(todo) = todo[1]
  BY <1>1
<1> QED
  BY <1>2, EnterTable DEF Bridged

(* A device that returns under its id.                                      *)
LEMMA AssignKnownReuses ==
  ASSUME Base, SoundInv, Sound, Sound', AssignKnown
  PROVE  Stutters \/ \E u \in Uid : Registry!Reuse(u)
<1> DEFINE h == Head(todo)
<1>1. /\ phase = "assign" /\ phase' = "next" /\ candidate # InvalidId /\ candidate \in Id
      /\ Enter(h, candidate)
      /\ UNCHANGED <<kvsEp, kvsLegacy, kvsMap, kvsFirstFree, fixedCount, firstFree>>
  BY BaseFacts DEF AssignKnown, Enter, kvs
<1>2. h \in Uid /\ kvsLegacy[h] = InvalidId /\ candidate = kvsEp[h] /\ candidate >= fixedCount
  BY <1>1, BaseFacts DEF Installing, SoundInv, InHand
<1>3. Counts
  BY <1>1 DEF Counts, Ids, IdOf, NextFree
<1>4. Bridged' = Bridged \cup {h}
  BY <1>1, EnterBridges DEF Base
<1>5. CASE h \in Bridged
  BY <1>3, <1>4, <1>5 DEF Stutters
<1>6. CASE h \notin Bridged
  <2>1. Ids[h] = candidate
    BY <1>1, <1>2 DEF Ids, IdOf
  <2> HIDE DEF h
  <2> QED
    BY <1>1, <1>2, <1>3, <1>4, <1>6, <2>1 DEF Registry!Reuse, Counts, Ids, Bridged, Sound
<1> QED
  BY <1>5, <1>6

(* A new id is one that no device had, for a device that has none or is     *)
(* installed already.                                                       *)
LEMMA AssignNewAssigns ==
  ASSUME Base, Base', SoundInv, Sound, Sound', AssignNew
  PROVE  \E u \in Uid : Registry!Assign(u)
<1> DEFINE h == Head(todo)
<1>1. TypeInv /\ TypeInv' /\ TypeOK
  BY DEF Base, TypeInv
<1>2. /\ phase = "assign" /\ phase' = "next" /\ candidate = InvalidId
      /\ kvsEp' = [kvsEp EXCEPT ![h] = firstFree] /\ UNCHANGED <<kvsLegacy, fixedCount>>
      /\ firstFree' = NextId(firstFree) /\ ~WrapsAt(firstFree)
  BY DEF AssignNew, Enter, Sound
<1>3. h \in Uid /\ kvsLegacy[h] = InvalidId
  BY <1>1, <1>2, HeadTodo DEF TypeInv, TypeOK, Shape, Installing, SoundInv, InHand
<1>4. kvsEp[h] = InvalidId \/ kvsEp[h] < fixedCount \/ h \in Bridged
  BY <1>2 DEF SoundInv, InHand, InTable, Bridged
<1>4a. Bridged' = Bridged \cup {h}
  <2>1. Enter(h, firstFree) /\ firstFree \in Id
    BY BaseFacts DEF AssignNew
  <2> QED
    BY <1>1, <1>2, <2>1, EnterBridges
<1>5. firstFree' = firstFree + 1
  BY <1>2 DEF NextId, WrapsAt
<1>6. NextFree = firstFree /\ NextFree' = firstFree'
  <2>1. NextFree = firstFree
    BY <1>1, <1>2, NextFreeIs DEF Booted
  <2>2. Booted' /\ Shape' /\ TypeOK'
    BY <1>1, <1>2 DEF TypeInv, Booted
  <2>3. firstFree' # InvalidId /\ firstFree' >= fixedCount' /\ firstFree' \in Nat /\ fixedCount' \in Nat
    BY <2>2, IdsAssumption DEF Shape, TypeOK, Id
  <2> QED
    BY <1>2, <2>1, <2>3 DEF NextFree
<1>7. Ids[h] = kvsEp[h] /\ Ids' = [Ids EXCEPT ![h] = firstFree]
  <2>1. kvsEp \in [Uid -> Id]
    BY <1>1 DEF TypeOK
  <2>2. \A u \in Uid : Ids[u] = IF kvsLegacy[u] # InvalidId THEN kvsLegacy[u] + LegacyFirst ELSE kvsEp[u]
    BY <1>2 DEF Ids, IdOf
  <2>3. Ids' = [u \in Uid |-> IF kvsLegacy[u] # InvalidId THEN kvsLegacy[u] + LegacyFirst ELSE kvsEp'[u]]
    BY <1>2 DEF Ids, IdOf
  <2>4. Ids = [u \in Uid |-> Ids[u]]
    BY DEF Ids
  <2> QED
    BY <1>2, <1>3, <2>1, <2>2, <2>3, <2>4
<1> HIDE DEF h
<1>8. PICK x \in Uid : x = h
  BY <1>3
<1>9. Registry!Assign(x)
  BY <1>2, <1>4, <1>4a, <1>5, <1>6, <1>7, <1>8 DEF Registry!Assign, Ids, Bridged
<1> QED
  BY <1>9

(* The scan never meets the counter: all ids lie below it.                  *)
LEMMA ScanStutters ==
  ASSUME Base, SoundInv, ScanStep
  PROVE  Stutters
<1>1. /\ phase = "scan" /\ phase' \in {"scan", "assign"} /\ scanAt <= Len(devices)
      /\ UNCHANGED <<kvsEp, kvsFirstFree, kvsLegacy, kvsMap, fixedCount>>
  BY DEF ScanStep, kvs
<1>2. TypeInv /\ scanAt >= 1 /\ scanAt \in Nat /\ devices \in Seq(Device)
  BY <1>1 DEF Base, ScanInv, TypeInv, TypeOK
<1>3. scanAt \in DOMAIN devices
  BY <1>1, <1>2
<1>4. devices[scanAt].ep \in Id /\ firstFree \in Id /\ devices[scanAt].ep < firstFree
  BY <1>1, <1>3, BaseFacts DEF SoundInv, TableStored, Booted
<1>6. firstFree' = firstFree
  BY <1>4 DEF ScanStep, Id
<1>7. Bridged' = Bridged
  BY DEF ScanStep, Bridged, table
<1> QED
  BY <1>1, <1>6, <1>7 DEF Stutters, Counts, Ids, IdOf, NextFree

LEMMA MigrationStutters ==
  ASSUME Base, SoundInv, LegacyFound \/ MigratePut
  PROVE  Stutters
<1>1. TypeOK /\ (todo # <<>> => Head(todo) \in Uid)
  BY HeadTodo DEF Base, TypeInv, TypeOK
<1>2. kvsEp \in [Uid -> Id] /\ kvsLegacy \in [Uid -> Idx \cup {InvalidId}]
  BY <1>1 DEF TypeOK
<1>3. CASE LegacyFound
  <2>1. \A u \in Uid : IdOf(u)' = IdOf(u)
    BY <1>1, <1>2, <1>3 DEF LegacyFound, IdOf, job
  <2> QED
    BY <1>3, <2>1 DEF LegacyFound, Stutters, Counts, Bridged, table, Ids, NextFree
<1>4. CASE MigratePut
  <2>1. \A u \in Uid : IdOf(u)' = IdOf(u)
    BY <1>1, <1>2, <1>4 DEF MigratePut, IdOf, SoundInv, InHand, Installing
  <2> QED
    BY <1>4, <2>1 DEF MigratePut, Stutters, Counts, Bridged, table, Ids, NextFree
<1> QED
  BY <1>3, <1>4

(* All other steps leave the ids and the counter as they are.               *)
LEMMA OthersStutter ==
  ASSUME TypeInv,
         \/ ForgetMap \/ Validate \/ (\E m \in Main : NextMain(m)) \/ NoEndpoint \/ Lookup
         \/ Check \/ ScanDone \/ InitialInstalled \/ AdditionalInstalled
         \/ \E m \in Main : AddAdditionalDevice(m)
  PROVE  Stutters
<1>1. phase \notin {"down", "migrate"} /\ phase' \notin {"down", "migrate"}
      /\ UNCHANGED <<kvsEp, kvsLegacy, fixedCount, devices>>
  BY DEF ForgetMap, Validate, NextMain, NoEndpoint, Lookup, Check, ScanDone,
         InitialInstalled, AdditionalInstalled, AddAdditionalDevice, kvs, table
<1>2. \/ firstFree' = firstFree
      \/ Validate /\ (firstFree = InvalidId \/ firstFree < fixedCount) /\ firstFree' = fixedCount
  BY DEF ForgetMap, Validate, NextMain, NoEndpoint, Lookup, Check, ScanDone,
         InitialInstalled, AdditionalInstalled, AddAdditionalDevice
<1>3. NextFree' = NextFree
  <2>1. fixedCount \in Nat
    BY IdsAssumption DEF TypeInv, TypeOK
  <2> QED
    BY <1>1, <1>2, <2>1 DEF NextFree
<1> QED
  BY <1>1, <1>3 DEF Stutters, Counts, Ids, IdOf, Bridged

LEMMA NextRegistry ==
  ASSUME IInv, IInv', [Next]_vars
  PROVE  [Registry!Next]_(Registry!vars)
<1>1. CASE ~Sound'
  BY <1>1 DEF Registry!Next, Registry!Spoiled
<1>2. CASE Sound'
  <2>1. Base /\ Base' /\ Sound /\ SoundInv /\ TypeInv /\ TypeInv'
    BY <1>2, SoundBefore DEF IInv, Base
  <2>2. Sound' = Sound
    BY <1>2, <2>1 DEF Sound
  <2>3. Stutters => [Registry!Next]_(Registry!vars)
    BY <2>2 DEF Stutters, Counts, Registry!vars, Ids, Bridged
  <2>4. CASE \E ds \in SUBSET Main : StartChip(ds)
    BY <2>1, <2>3, <2>4, StartStutters
  <2>5. CASE Crash
    BY <1>2, <2>1, <2>2, <2>5, CrashRestarts
    DEF Registry!Next, Registry!Restart, Counts, Ids, Bridged
  <2>6. CASE Update
    BY <2>1, <2>6, UpdateRaises DEF Registry!Next
  <2>7. CASE AssignNew
    BY <1>2, <2>1, <2>7, AssignNewAssigns DEF Registry!Next
  <2>7a. CASE AssignKnown
    BY <1>2, <2>1, <2>3, <2>7a, AssignKnownReuses DEF Registry!Next
  <2>8. CASE ScanStep
    BY <2>1, <2>3, <2>8, ScanStutters
  <2>9. CASE LegacyFound \/ MigratePut
    BY <2>1, <2>3, <2>9, MigrationStutters
  <2>10. CASE \/ ForgetMap \/ Validate \/ (\E m \in Main : NextMain(m)) \/ NoEndpoint \/ Lookup
              \/ Check \/ ScanDone \/ InitialInstalled \/ AdditionalInstalled
              \/ \E m \in Main : AddAdditionalDevice(m)
    BY <2>1, <2>3, <2>10, OthersStutter
  <2>11. CASE UNCHANGED vars
    BY <2>3, <2>11 DEF vars, kvs, job, search, table, Stutters, Counts, Bridged, Ids, IdOf, NextFree, StoredNext, MapBounds
  <2> QED
    BY <2>4, <2>5, <2>6, <2>7, <2>7a, <2>8, <2>9, <2>10, <2>11 DEF Next, System, InstallStep
<1> QED
  BY <1>1, <1>2

(* The store, migrated or not, over crashes, starts and updates, keeps the  *)
(* promise of the registry: an id is given to one device, kept while it is  *)
(* a dynamic one and the device is not installed a second time in one run,  *)
(* and never given again, until a torn crash or wrap-around.                *)
THEOREM StoreImplementsRegistry == Spec => RegistrySpec
<1>1. Init => Registry!Init
  BY InitRegistry
<1>2. IInv /\ IInv' /\ [Next]_vars => [Registry!Next]_(Registry!vars)
  BY NextRegistry
<1> QED
  BY <1>1, <1>2, InductiveInvariant, PTL DEF Spec, RegistrySpec, Registry!Spec
=============================================================================
