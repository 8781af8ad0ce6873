---------------------------- MODULE SysfsCardsProofs ----------------------------
(***************************************************************************)
(* Proofs about SysfsCards: an enumeration serves the cards that stay, a   *)
(* driver whose node stays reports its own GPU, and one whose node is gone *)
(* reports nothing and is retired.                                         *)
(***************************************************************************)
EXTENDS SysfsCards, TLAPS

Sampling == {"device", "input", "label", "clocks", "check", "sampled"}

\* What the next step of a call takes for granted.
CallInv ==
  /\ pc = "address" => link \in {Driver[g] : g \in Gpus}
  /\ pc = "label" => index \in 1..3 /\ value \in Gpus
  /\ pc \notin Sampling => DOMAIN out = {}
  /\ pc \in Sampling => node = current.node
  /\ pc \in Sampling \ {"sampled"} => current \in drivers

\* The registry takes one driver for an address.
DriversDiffer == \A d, e \in drivers : d.address = e.address => d = e

\* "same" says what it means: the node still belongs to the GPU of the address.
Holds(r) == r.same => at[r.node] = r.address

SameInv ==
  /\ \A i \in DOMAIN devices : Holds(devices[i])
  /\ \A d \in drivers : Holds(d)
  /\ pc \in Sampling => Holds(current)

\* A reading is of the driver's own GPU, the value whose label is still to be read too.
OwnInv ==
  /\ ReadingsAreOwn
  /\ pc = "label" /\ current.same => value = current.address

\* A sample of a node that is gone has read nothing, and in the end no driver has the
\* address; an equal driver left in the registry would not do, because drivers that
\* differ become equal when the node of both changes hands.
VacantInv ==
  pc \in Sampling /\ vacant =>
    /\ at[node] = Nobody /\ pc # "label" /\ DOMAIN out = {}
    /\ pc = "sampled" => \A d \in drivers : d.address # current.address

\* A card that stays is still to be visited, being read, collected, or has its driver.
Collected(n) ==
  \E i \in DOMAIN devices : /\ devices[i].address = at[n]
                            /\ devices[i].driver = Driver[at[n]]
BeingRead(n) ==
  n = node /\ (pc = "driver" \/ (pc = "address" /\ link = Driver[at[n]]))
Served(n) == Driver[at[n]] = Wanted => \E d \in drivers : d.address = at[n]

EnumInv ==
  \A n \in Nodes \ changed : at[n] # Nobody =>
    /\ pc \in {"entries", "driver", "address"} /\ n \in visited =>
         Collected(n) \/ BeingRead(n)
    /\ pc = "probe" => Collected(n) \/ Served(n)

IInv ==
  TypeOK /\ CallInv /\ DriversDiffer /\ SameInv /\ OwnInv /\ VacantInv /\ EnumInv

(***************************************************************************)
(* Constants and the moves of a record.                                    *)
(***************************************************************************)
LEMMA ConstantFacts ==
  /\ \A g \in Gpus : g \in Nat /\ g # Nobody
  /\ \A h \in Hwmons : h # NoHwmon
  /\ AnyNode \in Nodes /\ NoDriver \in Drivers
<1>1. AnyNode \in Nodes
  BY CardsAssumption DEF AnyNode
<1>2. \E d \in Drivers : d.hwmon = NoHwmon
  <2>1. PICK n \in Nodes, g \in Gpus : TRUE
    BY CardsAssumption
  <2>2. [node |-> n, address |-> g, hwmon |-> NoHwmon, same |-> TRUE] \in Drivers
    BY DEF Drivers
  <2> QED  BY <2>2
<1>3. NoDriver \in Drivers
  BY <1>2 DEF NoDriver
<1> QED
  BY <1>1, <1>3, CardsAssumption DEF Nobody, NoHwmon

LEMMA MovedDriver ==
  ASSUME NEW d \in Drivers, NEW n
  PROVE  /\ Moved(d, n) \in Drivers
         /\ Moved(d, n).node = d.node /\ Moved(d, n).address = d.address
         /\ Moved(d, n).hwmon = d.hwmon
         /\ Moved(d, n).same => d.same /\ d.node # n
<1>1. CASE d.node = n
  <2>1. Moved(d, n) = [d EXCEPT !.same = FALSE]
    BY <1>1 DEF Moved
  <2> QED  BY <2>1 DEF Drivers
<1>2. CASE d.node # n
  <2>1. Moved(d, n) = d
    BY <1>2 DEF Moved
  <2> QED  BY <1>2, <2>1
<1> QED
  BY <1>1, <1>2

LEMMA MovedDevice ==
  ASSUME NEW d \in Devices, NEW n
  PROVE  /\ Moved(d, n) \in Devices
         /\ Moved(d, n).node = d.node /\ Moved(d, n).address = d.address
         /\ Moved(d, n).driver = d.driver
         /\ Moved(d, n).same => d.same /\ d.node # n
<1>1. CASE d.node = n
  <2>1. Moved(d, n) = [d EXCEPT !.same = FALSE]
    BY <1>1 DEF Moved
  <2> QED  BY <2>1 DEF Devices
<1>2. CASE d.node # n
  <2>1. Moved(d, n) = d
    BY <1>2 DEF Moved
  <2> QED  BY <1>2, <2>1
<1> QED
  BY <1>1, <1>2

(***************************************************************************)
(* A node changes hands.  Handed is what Unbind and Bind share.       *)
(***************************************************************************)
Handed(n, g, h) ==
  /\ n \in Nodes /\ g \in Gpus \cup {Nobody} /\ h \in Hwmons \cup {NoHwmon}
  /\ Rebind(n, g, h)
  /\ \/ g = Nobody /\ vacant' = vacant
     \/ g \in Gpus /\ at[n] = Nobody /\ vacant' = (vacant /\ node # n)

LEMMA MachineIsHanded ==
  ASSUME Machine
  PROVE  \E n \in Nodes, g \in Gpus \cup {Nobody}, h \in Hwmons \cup {NoHwmon} :
           Handed(n, g, h)
<1>1. ASSUME NEW n \in Nodes, Unbind(n)
      PROVE  Handed(n, Nobody, NoHwmon)
  BY <1>1 DEF Unbind, Handed
<1>2. ASSUME NEW n \in Nodes, NEW g \in Gpus, Bind(n, g)
      PROVE  \E h \in Hwmons \cup {NoHwmon} : Handed(n, g, h)
  BY <1>2 DEF Bind, Handed
<1> QED
  BY <1>1, <1>2 DEF Machine

LEMMA HandedDrivers ==
  ASSUME TypeOK, NEW n, NEW g, NEW h, Handed(n, g, h)
  PROVE  /\ drivers' \subseteq Drivers /\ current' \in Drivers
         /\ \A e \in drivers' : \E d \in drivers :
              /\ e = Moved(d, n) /\ e.address = d.address /\ e.node = d.node
              /\ e.same => d.same /\ d.node # n
         /\ \A d \in drivers : Moved(d, n) \in drivers' /\ Moved(d, n).address = d.address
         /\ current' = Moved(current, n)
         /\ current'.node = current.node /\ current'.address = current.address
         /\ current'.hwmon = current.hwmon
         /\ current'.same => current.same /\ current.node # n
<1>1. drivers \subseteq Drivers /\ current \in Drivers
  BY DEF TypeOK
<1>2. drivers' = {Moved(d, n) : d \in drivers} /\ current' = Moved(current, n)
  BY DEF Handed, Rebind
<1> QED
  BY <1>1, <1>2, MovedDriver

LEMMA HandedDevices ==
  ASSUME TypeOK, NEW n, NEW g, NEW h, Handed(n, g, h)
  PROVE  /\ devices' \in Seq(Devices) /\ DOMAIN devices' = DOMAIN devices
         /\ \A i \in DOMAIN devices :
              /\ devices'[i].address = devices[i].address
              /\ devices'[i].node = devices[i].node
              /\ devices'[i].driver = devices[i].driver
              /\ devices'[i].same => devices[i].same /\ devices[i].node # n
<1>1. /\ Len(devices) \in Nat /\ DOMAIN devices = 1..Len(devices)
      /\ \A i \in DOMAIN devices : devices[i] \in Devices
  BY DEF TypeOK
<1>2. devices' = [i \in DOMAIN devices |-> Moved(devices[i], n)]
  BY DEF Handed, Rebind
<1>3. \A i \in DOMAIN devices : devices'[i] = Moved(devices[i], n)
  BY <1>2
<1>4. \A i \in DOMAIN devices : devices'[i] \in Devices
  BY <1>1, <1>3, MovedDevice
<1>5. devices' \in Seq(Devices)
  BY <1>1, <1>2, <1>4
<1> QED
  BY <1>1, <1>2, <1>3, <1>5, MovedDevice

LEMMA HandedNodes ==
  ASSUME TypeOK, NEW n, NEW g, NEW h, Handed(n, g, h)
  PROVE  /\ at' \in [Nodes -> Gpus \cup {Nobody}]
         /\ hwmon' \in [Nodes -> Hwmons \cup {NoHwmon}]
         /\ at'[n] = g /\ \A m \in Nodes \ {n} : at'[m] = at[m]
BY DEF TypeOK, Handed, Rebind

(***************************************************************************)
(* The type invariant, with what the calls take for granted.               *)
(***************************************************************************)
LEMMA EmptyOut ==
  ASSUME out' = [f \in {} |-> {}]
  PROVE  DOMAIN out' = {} /\ DOMAIN out' \subseteq Fields /\ \A f \in DOMAIN out' : out'[f] \in Sources
OBVIOUS

\* What a read may put into a sample.
LEMMA SetField ==
  ASSUME TypeOK, NEW field \in Fields, NEW gpus \in SUBSET Gpus,
         Set(field, gpus, 0, FALSE)
  PROVE  /\ DOMAIN out' \subseteq Fields /\ \A f \in DOMAIN out' : out'[f] \in Sources
         /\ \A f \in DOMAIN out' : \/ f \in DOMAIN out /\ out'[f] = out[f]
                                   \/ out'[f].gpu \in gpus /\ ~out'[f].labelled
         /\ gpus = {} => out' = out
<1>1. CASE UNCHANGED out
  BY <1>1 DEF TypeOK
<1>2. ASSUME NEW g \in gpus,
             out' = [f \in DOMAIN out \cup {field} |->
                       IF f = field THEN [gpu |-> g, sensor |-> 0, labelled |-> FALSE]
                       ELSE out[f]]
      PROVE  /\ DOMAIN out' \subseteq Fields /\ \A f \in DOMAIN out' : out'[f] \in Sources
             /\ \A f \in DOMAIN out' : \/ f \in DOMAIN out /\ out'[f] = out[f]
                                       \/ out'[f].gpu \in gpus /\ ~out'[f].labelled
  <2>1. [gpu |-> g, sensor |-> 0, labelled |-> FALSE] \in Sources
    BY DEF Sources
  <2> QED  BY <1>2, <2>1 DEF TypeOK
<1> QED
  BY <1>1, <1>2 DEF Set

LEMMA ReachedAreGpus ==
  ASSUME TypeOK
  PROVE  /\ Reached \subseteq Gpus /\ ReachedHwmon \subseteq Reached
         /\ \A g \in Reached : g = at[node]
BY DEF TypeOK, Reached, ReachedHwmon

LEMMA SlotIsKind ==
  ASSUME NEW i \in 1..3, NEW label
  PROVE  Slot(i, label) \in Kinds /\ (label \in Kinds => Slot(i, label) = label)
<1>1. ByIndex[i] \in Kinds
  BY DEF ByIndex, Kinds
<1> QED
  BY <1>1 DEF Slot

LEMMA LabelField ==
  ASSUME TypeOK, CallInv, ReadLabel
  PROVE  \E label \in {Labels[g][index] : g \in ReachedHwmon} \cup {Unlabelled} :
           LET field == Slot(index, label)
               reading == [gpu |-> value, sensor |-> index, labelled |-> label # Unlabelled]
           IN  /\ field \in Fields /\ reading \in Sources
               /\ DOMAIN out' = DOMAIN out \cup {field}
               /\ out'[field] = reading
               /\ \A f \in DOMAIN out \ {field} : out'[f] = out[f]
<1>1. index \in 1..3 /\ value \in Gpus
  BY DEF ReadLabel, CallInv
<1>2. PICK label \in {Labels[g][index] : g \in ReachedHwmon} \cup {Unlabelled} :
        out' = [f \in DOMAIN out \cup {Slot(index, label)} |->
                  IF f = Slot(index, label)
                  THEN [gpu |-> value, sensor |-> index, labelled |-> label # Unlabelled]
                  ELSE out[f]]
  BY DEF ReadLabel
<1>3. Slot(index, label) \in Fields
  BY <1>1, SlotIsKind DEF Fields
<1>4. (label # Unlabelled) \in BOOLEAN
  OBVIOUS
<1>5. [gpu |-> value, sensor |-> index, labelled |-> label # Unlabelled] \in Sources
  BY <1>1, <1>4 DEF Sources
<1> QED
  BY <1>2, <1>3, <1>5

LEMMA LabelKeepsType ==
  ASSUME TypeOK, CallInv, ReadLabel
  PROVE  DOMAIN out' \subseteq Fields /\ \A f \in DOMAIN out' : out'[f] \in Sources
BY LabelField DEF TypeOK

\* A rearrangement loses no device and adds none.
LEMMA SortKeeps ==
  ASSUME NEW s \in Seq(Devices), NEW t \in Sorted(s)
  PROVE  /\ t \in Seq(Devices) /\ DOMAIN t = DOMAIN s
         /\ \A i \in DOMAIN t : \E j \in DOMAIN s : t[i] = s[j]
         /\ \A j \in DOMAIN s : \E i \in DOMAIN t : t[i] = s[j]
<1>1. Len(s) \in Nat /\ DOMAIN s = 1..Len(s) /\ \A i \in DOMAIN s : s[i] \in Devices
  OBVIOUS
<1>2. PICK p \in Bijection(DOMAIN s, DOMAIN s) : t = [i \in DOMAIN s |-> s[p[i]]]
  BY DEF Sorted
<1>3. /\ p \in [DOMAIN s -> DOMAIN s]
      /\ \A j \in DOMAIN s : \E i \in DOMAIN s : p[i] = j
  BY <1>2 DEF Bijection, Injection, Surjection
<1>4. \A i \in DOMAIN s : t[i] = s[p[i]] /\ t[i] \in Devices
  BY <1>1, <1>2, <1>3
<1>5. t \in Seq(Devices)
  BY <1>1, <1>2, <1>4
<1> QED
  BY <1>2, <1>3, <1>4, <1>5

LEMMA RestOfDevices ==
  ASSUME TypeOK, devices # <<>>, devices' = Tail(devices)
  PROVE  /\ devices' \in Seq(Devices) /\ Offered \in Devices
         /\ 1 \in DOMAIN devices /\ Offered = devices[1]
         /\ \A i \in DOMAIN devices' : i + 1 \in DOMAIN devices /\ devices'[i] = devices[i + 1]
         /\ \A i \in DOMAIN devices \ {1} :
              i - 1 \in DOMAIN devices' /\ devices'[i - 1] = devices[i]
<1>1. devices \in Seq(Devices) /\ Len(devices) \in Nat /\ Len(devices) # 0
  BY DEF TypeOK
<1>2. /\ devices' \in Seq(Devices) /\ Len(devices') = Len(devices) - 1
      /\ \A i \in 1..(Len(devices) - 1) : devices'[i] = devices[i + 1]
  BY <1>1
<1>3. Offered = devices[1] /\ Offered \in Devices
  BY <1>1 DEF Offered
<1> QED
  BY <1>1, <1>2, <1>3

LEMMA NextType == TypeOK /\ CallInv /\ [Next]_vars => TypeOK'
<1> SUFFICES ASSUME TypeOK, CallInv, [Next]_vars
             PROVE  TypeOK'
  OBVIOUS
<1> USE DEF machine, listing, sampling
<1>1. CASE Machine
  <2>1. PICK n, g, h : Handed(n, g, h)
    BY <1>1, MachineIsHanded
  <2>2. vacant' \in BOOLEAN
    BY <2>1 DEF TypeOK, Handed
  <2>3. changed' \subseteq Nodes
    BY <2>1 DEF TypeOK, Handed, Rebind
  <2>4. UNCHANGED <<pc, visited, node, link, index, value, out>>
    BY <2>1 DEF Handed, Rebind
  <2>5. /\ devices' \in Seq(Devices) /\ drivers' \subseteq Drivers /\ current' \in Drivers
        /\ at' \in [Nodes -> Gpus \cup {Nobody}] /\ hwmon' \in [Nodes -> Hwmons \cup {NoHwmon}]
    BY <2>1, HandedDrivers, HandedDevices, HandedNodes
  <2> QED
    BY <2>2, <2>3, <2>4, <2>5 DEF TypeOK
<1>2. CASE StartListing
  <2>1. devices' \in Seq(Devices)
    BY <1>2 DEF StartListing
  <2> QED  BY <1>2, <2>1 DEF StartListing, TypeOK
<1>3. ASSUME NEW n \in Nodes, NextEntry(n) PROVE TypeOK'
  BY <1>3 DEF NextEntry, TypeOK
<1>4. CASE ReadDriver
  BY <1>4 DEF ReadDriver, TypeOK
<1>5. CASE ReadAddress
  <2>1. [node |-> node, driver |-> link, address |-> at[node], same |-> TRUE] \in Devices
    BY <1>5 DEF ReadAddress, TypeOK, CallInv, Devices
  <2>2. devices' \in Seq(Devices)
    BY <1>5, <2>1 DEF ReadAddress, TypeOK
  <2> QED  BY <1>5, <2>2, ConstantFacts DEF ReadAddress, TypeOK
<1>6. CASE LinkGone
  BY <1>6, ConstantFacts DEF LinkGone, TypeOK
<1>7. CASE FinishListing
  <2>1. devices' \in Seq(Devices)
    BY <1>7, SortKeeps DEF FinishListing, TypeOK
  <2> QED  BY <1>7, <2>1 DEF FinishListing, TypeOK
<1>8. CASE SkipDevice
  <2>1. devices' \in Seq(Devices)
    BY <1>8, RestOfDevices DEF SkipDevice
  <2> QED  BY <1>8, <2>1 DEF SkipDevice, TypeOK
<1>9. CASE BuildDriver
  <2>1. devices' \in Seq(Devices) /\ Offered \in Devices
    BY <1>9, RestOfDevices DEF BuildDriver
  <2>2. [node |-> Offered.node, address |-> Offered.address,
         hwmon |-> hwmon[Offered.node], same |-> Offered.same] \in Drivers
    BY <2>1 DEF TypeOK, Devices, Drivers
  <2>3. drivers' \subseteq Drivers
    BY <1>9, <2>2 DEF BuildDriver, TypeOK
  <2> QED  BY <1>9, <2>1, <2>3 DEF BuildDriver, TypeOK
<1>10. CASE FinishProbe
  BY <1>10 DEF FinishProbe, TypeOK
<1>11. ASSUME NEW d \in drivers, StartSample(d) PROVE TypeOK'
  <2>1. DOMAIN out' \subseteq Fields /\ \A f \in DOMAIN out' : out'[f] \in Sources
    BY <1>11, EmptyOut DEF StartSample
  <2>2. d \in Drivers /\ d.node \in Nodes
    BY DEF TypeOK, Drivers
  <2>3. vacant' \in BOOLEAN
    BY <1>11 DEF StartSample
  <2> QED  BY <1>11, <2>1, <2>2, <2>3 DEF StartSample, TypeOK
<1>12. CASE ReadDevice
  <2>1. DOMAIN out' \subseteq Fields /\ \A f \in DOMAIN out' : out'[f] \in Sources
    BY <1>12, SetField, ReachedAreGpus DEF ReadDevice, Fields
  <2> QED  BY <1>12, <2>1 DEF ReadDevice, TypeOK
<1>13. CASE ReadInput
  <2>1. value' \in Gpus \cup {Nobody} /\ index' \in 1..4
    BY <1>13, ReachedAreGpus DEF ReadInput, TypeOK
  <2> QED  BY <1>13, <2>1 DEF ReadInput, TypeOK
<1>14. CASE ReadLabel
  <2>1. DOMAIN out' \subseteq Fields /\ \A f \in DOMAIN out' : out'[f] \in Sources
    BY <1>14, LabelKeepsType
  <2>2. index' \in 1..4
    BY <1>14 DEF ReadLabel, CallInv
  <2> QED  BY <1>14, <2>1, <2>2 DEF ReadLabel, TypeOK
<1>15. CASE ReadPower
  <2>1. DOMAIN out' \subseteq Fields /\ \A f \in DOMAIN out' : out'[f] \in Sources
    BY <1>15, SetField, ReachedAreGpus DEF ReadPower, Fields
  <2> QED  BY <1>15, <2>1 DEF ReadPower, TypeOK
<1>16. CASE ReadClocks
  <2>1. DOMAIN out' \subseteq Fields /\ \A f \in DOMAIN out' : out'[f] \in Sources
    <3>1. Reached \in SUBSET Gpus /\ ReachedHwmon \in SUBSET Gpus /\ "clock" \in Fields
      BY ReachedAreGpus DEF Fields
    <3> QED  BY <1>16, <3>1, SetField DEF ReadClocks
  <2> QED  BY <1>16, <2>1 DEF ReadClocks, TypeOK
<1>17. CASE FinishSample
  BY <1>17 DEF FinishSample, TypeOK
<1>18. CASE HandOver
  <2>1. DOMAIN out' \subseteq Fields /\ \A f \in DOMAIN out' : out'[f] \in Sources
    BY <1>18, EmptyOut DEF HandOver
  <2>2. node' \in Nodes /\ current' \in Drivers /\ vacant' \in BOOLEAN
    BY <1>18, ConstantFacts DEF HandOver
  <2> QED  BY <1>18, <2>1, <2>2 DEF HandOver, TypeOK
<1>19. CASE UNCHANGED vars
  BY <1>19 DEF vars, TypeOK
<1> QED
  BY <1>1, <1>2, <1>3, <1>4, <1>5, <1>6, <1>7, <1>8, <1>9, <1>10, <1>11, <1>12, <1>13,
     <1>14, <1>15, <1>16, <1>17, <1>18, <1>19 DEF Next, Listing, Probe, Sample

LEMMA NextCallInv == TypeOK /\ CallInv /\ [Next]_vars => CallInv'
<1> SUFFICES ASSUME TypeOK, CallInv, [Next]_vars
             PROVE  CallInv'
  OBVIOUS
<1> USE DEF machine, listing, sampling, Sampling
<1>1. CASE Machine
  <2>1. PICK n, g, h : Handed(n, g, h)
    BY <1>1, MachineIsHanded
  <2>2. UNCHANGED <<pc, visited, node, link, index, value, out>>
    BY <2>1 DEF Handed, Rebind
  <2>3. current'.node = current.node /\ (current \in drivers => current' \in drivers')
    BY <2>1, HandedDrivers
  <2> QED  BY <2>2, <2>3 DEF CallInv
<1>2. CASE StartListing
  BY <1>2 DEF StartListing, CallInv
<1>3. ASSUME NEW n \in Nodes, NextEntry(n) PROVE CallInv'
  BY <1>3 DEF NextEntry, CallInv
<1>4. CASE ReadDriver
  BY <1>4 DEF ReadDriver, CallInv, TypeOK
<1>5. CASE ReadAddress
  BY <1>5 DEF ReadAddress, CallInv
<1>6. CASE LinkGone
  BY <1>6 DEF LinkGone, CallInv
<1>7. CASE FinishListing
  BY <1>7 DEF FinishListing, CallInv
<1>8. CASE SkipDevice
  BY <1>8 DEF SkipDevice, CallInv
<1>9. CASE BuildDriver
  BY <1>9 DEF BuildDriver, CallInv
<1>10. CASE FinishProbe
  BY <1>10 DEF FinishProbe, CallInv
<1>11. ASSUME NEW d \in drivers, StartSample(d) PROVE CallInv'
  BY <1>11 DEF StartSample, CallInv
<1>12. CASE ReadDevice
  BY <1>12 DEF ReadDevice, CallInv
<1>13. CASE ReadInput
  <2>1. pc' = "label" => index' \in 1..3 /\ value' \in Gpus
    BY <1>13, ReachedAreGpus DEF ReadInput
  <2> QED  BY <1>13, <2>1 DEF ReadInput, CallInv
<1>14. CASE ReadLabel
  BY <1>14 DEF ReadLabel, CallInv
<1>15. CASE ReadPower
  BY <1>15 DEF ReadPower, CallInv
<1>16. CASE ReadClocks
  BY <1>16 DEF ReadClocks, CallInv
<1>17. CASE FinishSample
  BY <1>17 DEF FinishSample, CallInv
<1>18. CASE HandOver
  BY <1>18, EmptyOut DEF HandOver, CallInv
<1>19. CASE UNCHANGED vars
  BY <1>19 DEF vars, CallInv
<1> QED
  BY <1>1, <1>2, <1>3, <1>4, <1>5, <1>6, <1>7, <1>8, <1>9, <1>10, <1>11, <1>12, <1>13,
     <1>14, <1>15, <1>16, <1>17, <1>18, <1>19 DEF Next, Listing, Probe, Sample

(***************************************************************************)
(* What changes the drivers: nodes that change hands, a probe, the end of  *)
(* a sample.                                                               *)
(***************************************************************************)
LEMMA DriversChange ==
  ASSUME [Next]_vars
  PROVE  UNCHANGED drivers \/ Machine \/ BuildDriver \/ FinishSample
<1> USE DEF machine, listing, sampling
<1>1. CASE Listing
  BY <1>1 DEF Listing, StartListing, NextEntry, ReadDriver, ReadAddress, LinkGone, FinishListing
<1>2. CASE Probe
  BY <1>2 DEF Probe, SkipDevice, FinishProbe
<1>3. CASE Sample
  BY <1>3 DEF Sample, StartSample, ReadDevice, ReadInput, ReadLabel, ReadPower, ReadClocks,
              HandOver
<1> QED
  BY <1>1, <1>2, <1>3 DEF Next, vars

LEMMA Built ==
  ASSUME TypeOK, BuildDriver
  PROVE  \E new \in Drivers :
           /\ Offered \in Devices /\ 1 \in DOMAIN devices /\ Offered = devices[1]
           /\ new.address = Offered.address /\ new.node = Offered.node
           /\ new.same = Offered.same
           /\ \/ /\ drivers' = drivers \cup {new}
                 /\ \A known \in drivers : known.address # new.address
              \/ /\ drivers' = drivers
                 /\ \E known \in drivers : known.address = new.address
<1> DEFINE new == [node |-> Offered.node, address |-> Offered.address,
                   hwmon |-> hwmon[Offered.node], same |-> Offered.same]
<1>1. Offered \in Devices /\ 1 \in DOMAIN devices /\ Offered = devices[1]
  BY RestOfDevices DEF BuildDriver
<1>2. new \in Drivers
  BY <1>1 DEF TypeOK, Devices, Drivers
<1>3. drivers' = drivers \cup {d \in {new} : \A known \in drivers : known.address # d.address}
  BY DEF BuildDriver
<1>4. \/ /\ drivers' = drivers \cup {new}
         /\ \A known \in drivers : known.address # new.address
      \/ /\ drivers' = drivers
         /\ \E known \in drivers : known.address = new.address
  BY <1>3
<1>5. new.address = Offered.address /\ new.node = Offered.node /\ new.same = Offered.same
  OBVIOUS
<1> QED
  BY <1>1, <1>2, <1>4, <1>5

LEMMA NextDriversDiffer == TypeOK /\ DriversDiffer /\ [Next]_vars => DriversDiffer'
<1> SUFFICES ASSUME TypeOK, DriversDiffer, [Next]_vars
             PROVE  DriversDiffer'
  OBVIOUS
<1>1. CASE Machine
  <2>1. PICK n, g, h : Handed(n, g, h)
    BY <1>1, MachineIsHanded
  <2> QED  BY <2>1, HandedDrivers DEF DriversDiffer
<1>2. CASE BuildDriver
  BY <1>2, Built DEF DriversDiffer
<1>3. CASE FinishSample
  BY <1>3 DEF FinishSample, DriversDiffer
<1> QED
  BY <1>1, <1>2, <1>3, DriversChange DEF DriversDiffer

(***************************************************************************)
(* Nodes that have not changed hands belong to the GPU they were read of.  *)
(***************************************************************************)
LEMMA NodesStay ==
  ASSUME [Next]_vars
  PROVE  Machine \/ UNCHANGED machine
<1> USE DEF listing, sampling
<1>1. CASE Listing
  BY <1>1 DEF Listing, StartListing, NextEntry, ReadDriver, ReadAddress, LinkGone, FinishListing
<1>2. CASE Probe
  BY <1>2 DEF Probe, SkipDevice, BuildDriver, FinishProbe
<1>3. CASE Sample
  BY <1>3 DEF Sample, StartSample, ReadDevice, ReadInput, ReadLabel, ReadPower, ReadClocks,
              FinishSample, HandOver
<1> QED
  BY <1>1, <1>2, <1>3 DEF Next, vars

LEMMA DevicesChange ==
  ASSUME [Next]_vars
  PROVE  \/ UNCHANGED devices \/ Machine \/ StartListing \/ ReadAddress \/ FinishListing
         \/ SkipDevice \/ BuildDriver
<1> USE DEF machine, listing, sampling
<1>1. CASE Listing
  BY <1>1 DEF Listing, NextEntry, ReadDriver, LinkGone
<1>2. CASE Probe
  BY <1>2 DEF Probe, FinishProbe
<1>3. CASE Sample
  BY <1>3 DEF Sample, StartSample, ReadDevice, ReadInput, ReadLabel, ReadPower, ReadClocks,
              FinishSample, HandOver
<1> QED
  BY <1>1, <1>2, <1>3 DEF Next, vars

LEMMA CurrentChange ==
  ASSUME [Next]_vars
  PROVE  \/ Machine \/ pc' \notin Sampling
         \/ \E d \in drivers : StartSample(d)
         \/ pc \in Sampling /\ UNCHANGED current
<1> USE DEF machine, listing, sampling, Sampling
<1>1. CASE Listing
  BY <1>1 DEF Listing, StartListing, NextEntry, ReadDriver, ReadAddress, LinkGone, FinishListing
<1>2. CASE Probe
  BY <1>2 DEF Probe, SkipDevice, BuildDriver, FinishProbe
<1>3. CASE Sample
  BY <1>3 DEF Sample, ReadDevice, ReadInput, ReadLabel, ReadPower, ReadClocks,
              FinishSample, HandOver
<1> QED
  BY <1>1, <1>2, <1>3 DEF Next, vars

LEMMA DevicesAreRead ==
  ASSUME TypeOK
  PROVE  \A i \in DOMAIN devices :
           devices[i] \in Devices /\ devices[i].node \in Nodes /\ devices[i].address \in Gpus
<1>1. \A i \in DOMAIN devices : devices[i] \in Devices
  BY DEF TypeOK
<1> QED
  BY <1>1 DEF Devices

LEMMA NextSameInv == TypeOK /\ CallInv /\ SameInv /\ [Next]_vars => SameInv'
<1> SUFFICES ASSUME TypeOK, CallInv, SameInv, [Next]_vars
             PROVE  SameInv'
  OBVIOUS
<1>1. CASE Machine
  <2>1. PICK n, g, h : Handed(n, g, h)
    BY <1>1, MachineIsHanded
  <2>2. n \in Nodes /\ \A m \in Nodes \ {n} : at'[m] = at[m]
    BY <2>1, HandedNodes DEF Handed
  <2>3. \A i \in DOMAIN devices' : Holds(devices[i])'
    <3>1. \A i \in DOMAIN devices : devices[i].node \in Nodes
      BY DevicesAreRead
    <3> QED  BY <2>1, <2>2, <3>1, HandedDevices DEF SameInv, Holds
  <2>4. \A e \in drivers' : Holds(e)'
    <3>1. \A d \in drivers : d.node \in Nodes
      BY DEF TypeOK, Drivers
    <3> QED  BY <2>1, <2>2, <3>1, HandedDrivers DEF SameInv, Holds
  <2>5. pc' \in Sampling => Holds(current)'
    <3>1. current.node \in Nodes /\ pc' = pc
      BY <2>1 DEF TypeOK, Drivers, Handed, Rebind
    <3> QED  BY <2>1, <2>2, <3>1, HandedDrivers DEF SameInv, Holds
  <2> QED
    BY <2>3, <2>4, <2>5 DEF SameInv
<1>2. CASE UNCHANGED machine
  <2>1. at' = at
    BY <1>2 DEF machine
  <2>2. \A i \in DOMAIN devices' : Holds(devices[i])'
    <3>1. CASE StartListing
      BY <3>1 DEF StartListing
    <3>2. CASE ReadAddress
      <4> DEFINE new == [node |-> node, driver |-> link, address |-> at[node], same |-> TRUE]
      <4>1. devices' = Append(devices, new) /\ devices \in Seq(Devices) /\ Len(devices) \in Nat
        BY <3>2 DEF ReadAddress, TypeOK
      <4>2. \A i \in DOMAIN devices' :
                \/ devices'[i] = new
                \/ i \in DOMAIN devices /\ devices'[i] = devices[i]
        BY <4>1
      <4>3. new.node = node /\ new.address = at[node]
        OBVIOUS
      <4> HIDE DEF new
      <4> QED  BY <2>1, <4>2, <4>3 DEF SameInv, Holds
    <3>3. CASE FinishListing
      <4>1. \A i \in DOMAIN devices' : \E j \in DOMAIN devices : devices'[i] = devices[j]
        BY <3>3, SortKeeps DEF FinishListing, TypeOK
      <4> QED  BY <2>1, <4>1 DEF SameInv, Holds
    <3>4. CASE devices' = Tail(devices) /\ devices # <<>>
      BY <2>1, <3>4, RestOfDevices DEF SameInv, Holds
    <3>5. CASE UNCHANGED devices
      BY <2>1, <3>5 DEF SameInv, Holds
    <3> QED
      <4>1. CASE Machine
        <5>1. PICK n, g, h : Handed(n, g, h)
          BY <4>1, MachineIsHanded
        <5>2. \A i \in DOMAIN devices : devices'[i].same => devices[i].same
          BY <5>1, HandedDevices
        <5> QED  BY <2>1, <5>1, <5>2, HandedDevices DEF SameInv, Holds
      <4> QED
        BY <3>1, <3>2, <3>3, <3>4, <3>5, <4>1, DevicesChange DEF SkipDevice, BuildDriver
  <2>3. \A e \in drivers' : Holds(e)'
    <3>1. CASE Machine
      <4>1. PICK n, g, h : Handed(n, g, h)
        BY <3>1, MachineIsHanded
      <4> QED  BY <2>1, <4>1, HandedDrivers DEF SameInv, Holds
    <3>2. CASE BuildDriver
      <4>1. PICK new : /\ 1 \in DOMAIN devices /\ Offered = devices[1]
                       /\ new.address = Offered.address /\ new.node = Offered.node
                       /\ new.same = Offered.same
                       /\ drivers' \subseteq drivers \cup {new}
        BY <3>2, Built
      <4> QED  BY <2>1, <4>1 DEF SameInv, Holds
    <3>3. CASE FinishSample
      BY <2>1, <3>3 DEF FinishSample, SameInv, Holds
    <3> QED
      BY <2>1, <3>1, <3>2, <3>3, DriversChange DEF SameInv, Holds
  <2>4. pc' \in Sampling => Holds(current)'
    <3>1. CASE Machine
      <4>1. PICK n, g, h : Handed(n, g, h)
        BY <3>1, MachineIsHanded
      <4>2. pc' = pc
        BY <4>1 DEF Handed, Rebind
      <4> QED  BY <2>1, <4>1, <4>2, HandedDrivers DEF SameInv, Holds
    <3>2. ASSUME NEW d \in drivers, StartSample(d)
          PROVE  Holds(current)'
      BY <2>1, <3>2 DEF StartSample, SameInv, Holds
    <3> QED
      BY <2>1, <3>1, <3>2, CurrentChange DEF SameInv, Holds
  <2> QED
    BY <2>2, <2>3, <2>4 DEF SameInv
<1> QED
  BY <1>1, <1>2, NodesStay

LEMMA NextOwnInv ==
  TypeOK /\ CallInv /\ SameInv /\ OwnInv /\ [Next]_vars => OwnInv'
<1> SUFFICES ASSUME TypeOK, CallInv, SameInv, OwnInv, [Next]_vars
             PROVE  OwnInv'
  OBVIOUS
<1> USE DEF machine, listing, sampling, Sampling
\* What the driver's node leads to, while its GPU has it.
<1>a. pc \in Sampling /\ current.same => Reached \subseteq {current.address}
  BY ReachedAreGpus DEF CallInv, SameInv, Holds
<1>1. CASE DOMAIN out' = {} /\ pc' # "label"
  BY <1>1 DEF OwnInv, ReadingsAreOwn
<1>2. CASE UNCHANGED <<out, value, pc>> /\ (current'.same => current.same)
             /\ current'.address = current.address
  BY <1>2 DEF OwnInv, ReadingsAreOwn
<1>3. ASSUME UNCHANGED current, pc \in Sampling, pc' # "label",
             NEW gpus \in SUBSET Reached, NEW field \in Fields, Set(field, gpus, 0, FALSE)
      PROVE  OwnInv'
  <2>1. \A f \in DOMAIN out' : \/ f \in DOMAIN out /\ out'[f] = out[f]
                               \/ out'[f].gpu \in gpus /\ ~out'[f].labelled
    <3>1. gpus \in SUBSET Gpus
      BY ReachedAreGpus
    <3> QED  BY <1>3, <3>1, SetField
  <2> QED  BY <1>a, <1>3, <2>1 DEF OwnInv, ReadingsAreOwn
<1>4. CASE ReadInput
  <2>1. UNCHANGED <<out, current>>
    BY <1>4 DEF ReadInput
  <2>2. pc' = "label" => value' \in Reached
    BY <1>4, ReachedAreGpus DEF ReadInput
  <2> QED  BY <1>4, <1>a, <2>1, <2>2 DEF ReadInput, OwnInv, ReadingsAreOwn
<1>5. CASE ReadLabel
  <2>1. UNCHANGED current /\ pc' # "label" /\ pc \in Sampling /\ index \in 1..3
    BY <1>5 DEF ReadLabel, CallInv
  <2> SUFFICES ASSUME current.same PROVE OwnInv'
    BY <2>1 DEF OwnInv, ReadingsAreOwn
  <2>2. value = current.address
    BY <1>5 DEF ReadLabel, OwnInv
  <2>3. PICK label \in {Labels[g][index] : g \in ReachedHwmon} \cup {Unlabelled} :
          /\ DOMAIN out' = DOMAIN out \cup {Slot(index, label)}
          /\ out'[Slot(index, label)] =
               [gpu |-> value, sensor |-> index, labelled |-> label # Unlabelled]
          /\ \A f \in DOMAIN out \ {Slot(index, label)} : out'[f] = out[f]
    BY <1>5, LabelField
  <2>4. label # Unlabelled => label = Labels[current.address][index]
    BY <1>a, <2>1, <2>3, ReachedAreGpus
  <2>5. label \in Kinds => Slot(index, label) = label
    BY <2>1, SlotIsKind
  <2> DEFINE f0 == Slot(index, label)
  <2>6. out'[f0].gpu = value /\ out'[f0].sensor = index
        /\ (out'[f0].labelled => label # Unlabelled)
    <3> DEFINE flag == label # Unlabelled
    <3>1. out'[f0] = [gpu |-> value, sensor |-> index, labelled |-> flag]
      BY <2>3
    <3>2. flag => label # Unlabelled
      OBVIOUS
    <3> HIDE DEF flag, f0
    <3>3. out'[f0].gpu = value /\ out'[f0].sensor = index /\ out'[f0].labelled = flag
      BY <3>1
    <3> QED  BY <3>2, <3>3
  <2> HIDE DEF f0
  <2>7. DOMAIN out' = DOMAIN out \cup {f0} /\ \A f \in DOMAIN out \ {f0} : out'[f] = out[f]
    BY <2>3 DEF f0
  <2>8. \A f \in DOMAIN out' :
          /\ out'[f].gpu = current.address
          /\ out'[f].labelled => LET name == Labels[out'[f].gpu][out'[f].sensor] IN
                                   name \in Kinds => f = name
    <3>1. out'[f0].labelled =>
            (Labels[out'[f0].gpu][out'[f0].sensor] \in Kinds =>
               f0 = Labels[out'[f0].gpu][out'[f0].sensor])
      BY <2>2, <2>4, <2>5, <2>6 DEF f0
    <3> QED  BY <2>2, <2>6, <2>7, <3>1 DEF OwnInv, ReadingsAreOwn
  <2> QED  BY <2>1, <2>8 DEF OwnInv, ReadingsAreOwn
<1>6. CASE Machine
  <2>1. PICK n, g, h : Handed(n, g, h)
    BY <1>6, MachineIsHanded
  <2>2. UNCHANGED <<out, value, pc>>
    BY <2>1 DEF Handed, Rebind
  <2> QED  BY <1>2, <2>1, <2>2, HandedDrivers
<1>7. CASE Listing
  BY <1>1, <1>7 DEF Listing, StartListing, NextEntry, ReadDriver, ReadAddress, LinkGone,
                    FinishListing, CallInv
<1>8. CASE Probe
  BY <1>1, <1>8 DEF Probe, SkipDevice, BuildDriver, FinishProbe, CallInv
<1>9. ASSUME NEW d \in drivers, StartSample(d) PROVE OwnInv'
  BY <1>1, <1>9, EmptyOut DEF StartSample
<1>10. CASE ReadDevice
  BY <1>3, <1>10 DEF ReadDevice, Fields
<1>11. CASE ReadPower
  BY <1>3, <1>11, ReachedAreGpus DEF ReadPower, Fields
<1>12. CASE ReadClocks
  BY <1>3, <1>12, ReachedAreGpus DEF ReadClocks, Fields
<1>13. CASE FinishSample
  BY <1>13 DEF FinishSample, OwnInv, ReadingsAreOwn
<1>14. CASE HandOver
  BY <1>1, <1>14, EmptyOut DEF HandOver
<1>15. CASE UNCHANGED vars
  BY <1>2, <1>15 DEF vars
<1> QED
  BY <1>4, <1>5, <1>6, <1>7, <1>8, <1>9, <1>10, <1>11, <1>12, <1>13, <1>14, <1>15
     DEF Next, Sample

LEMMA NextVacantInv ==
  IInv /\ [Next]_vars => VacantInv'
<1> SUFFICES ASSUME TypeOK, CallInv, DriversDiffer, VacantInv, [Next]_vars
             PROVE  VacantInv'
  BY DEF IInv
<1> USE DEF machine, listing, sampling, Sampling
\* Nothing can be read of a node that nobody has.
<1>a. at[node] = Nobody => Reached = {} /\ ReachedHwmon = {}
  BY DEF Reached, ReachedHwmon
<1>1. CASE UNCHANGED <<at, node, out, vacant>> /\ pc \in Sampling \ {"sampled"}
             /\ pc' \in Sampling \ {"label", "sampled"}
  BY <1>1 DEF VacantInv
<1>2. ASSUME UNCHANGED <<at, node, vacant>>, pc \in Sampling \ {"sampled"},
             pc' \in Sampling \ {"label", "sampled"},
             NEW gpus \in SUBSET Reached, NEW field \in Fields, Set(field, gpus, 0, FALSE)
      PROVE  VacantInv'
  <2>1. gpus = {} => out' = out
    BY ReachedAreGpus, <1>2, SetField
  <2> QED  BY <1>a, <1>2, <2>1 DEF VacantInv
<1>3. CASE ReadInput
  BY <1>a, <1>3 DEF ReadInput, VacantInv
<1>4. CASE ReadLabel
  BY <1>4 DEF ReadLabel, VacantInv
<1>5. CASE Machine
  <2>1. PICK n, g, h : Handed(n, g, h)
    BY <1>5, MachineIsHanded
  <2> SUFFICES ASSUME pc' \in Sampling, vacant'
               PROVE  /\ at'[node'] = Nobody /\ pc' # "label" /\ DOMAIN out' = {}
                      /\ pc' = "sampled" => \A d \in drivers' : d.address # current'.address
    BY DEF VacantInv
  <2>2. UNCHANGED <<pc, out, node>> /\ vacant /\ node \in Nodes
    BY <2>1 DEF Handed, Rebind, TypeOK
  <2>3. at'[node] = Nobody
    <3>1. g = Nobody \/ node # n
      BY <2>1 DEF Handed
    <3> QED  BY <2>1, <2>2, <3>1, HandedNodes DEF VacantInv
  <2>4. pc = "sampled" => \A d \in drivers' : d.address # current'.address
    BY <2>1, <2>2, HandedDrivers DEF VacantInv
  <2> QED  BY <2>2, <2>3, <2>4 DEF VacantInv
<1>6. CASE Listing
  BY <1>6 DEF Listing, StartListing, NextEntry, ReadDriver, ReadAddress, LinkGone,
              FinishListing, VacantInv
<1>7. CASE Probe
  BY <1>7 DEF Probe, SkipDevice, BuildDriver, FinishProbe, VacantInv
<1>8. ASSUME NEW d \in drivers, StartSample(d) PROVE VacantInv'
  BY <1>8, EmptyOut DEF StartSample, VacantInv
<1>9. CASE ReadDevice
  BY <1>2, <1>9 DEF ReadDevice, Fields
<1>10. CASE ReadPower
  BY <1>2, <1>10, ReachedAreGpus DEF ReadPower, Fields
<1>11. CASE ReadClocks
  BY <1>2, <1>11, ReachedAreGpus DEF ReadClocks, Fields
<1>12. CASE FinishSample
  <2>1. vacant => at[node] = Nobody /\ DOMAIN out = {} /\ ~StillThere
    BY <1>12 DEF FinishSample, VacantInv, StillThere
  <2>2. vacant => \A d \in drivers' : d.address # current.address
    BY <1>12, <2>1 DEF FinishSample, CallInv, DriversDiffer
  <2> QED  BY <1>12, <2>1, <2>2 DEF FinishSample, VacantInv
<1>13. CASE HandOver
  BY <1>13 DEF HandOver, VacantInv
<1>14. CASE UNCHANGED vars
  BY <1>14 DEF vars, VacantInv
<1> QED
  BY <1>3, <1>4, <1>5, <1>6, <1>7, <1>8, <1>9, <1>10, <1>11, <1>12, <1>13, <1>14
     DEF Next, Sample

LEMMA NextEnumInv == IInv /\ [Next]_vars => EnumInv'
<1> SUFFICES ASSUME TypeOK, CallInv, EnumInv, [Next]_vars,
                    NEW n \in Nodes \ changed', at'[n] # Nobody
             PROVE  /\ pc' \in {"entries", "driver", "address"} /\ n \in visited' =>
                         (Collected(n) \/ BeingRead(n))'
                    /\ pc' = "probe" => (Collected(n) \/ Served(n))'
  BY DEF IInv, EnumInv
<1> USE DEF machine, listing, sampling
<1>1. CASE Machine
  <2>1. PICK m, g, h : Handed(m, g, h)
    BY <1>1, MachineIsHanded
  <2>2. UNCHANGED <<pc, visited, node, link>>
    BY <2>1 DEF Handed, Rebind
  <2> SUFFICES ASSUME pc \in Enumerating
               PROVE  /\ pc' \in {"entries", "driver", "address"} /\ n \in visited' =>
                           (Collected(n) \/ BeingRead(n))'
                      /\ pc' = "probe" => (Collected(n) \/ Served(n))'
    BY <2>2 DEF Enumerating
  <2>3. n # m /\ n \notin changed
    BY <2>1 DEF Handed, Rebind
  <2>4. at'[n] = at[n]
    BY <2>1, <2>3, HandedNodes
  <2>5. Collected(n) => Collected(n)'
    BY <2>1, <2>4, HandedDevices DEF Collected
  <2>6. BeingRead(n) => BeingRead(n)'
    BY <2>2, <2>4 DEF BeingRead
  <2>7. Served(n) => Served(n)'
    BY <2>1, <2>4, HandedDrivers DEF Served
  <2> QED
    BY <2>2, <2>3, <2>4, <2>5, <2>6, <2>7 DEF EnumInv
<1>2. CASE StartListing
  BY <1>2 DEF StartListing
<1>3. ASSUME NEW m \in Nodes, NextEntry(m)
      PROVE  n \in visited' => (Collected(n) \/ BeingRead(n))'
  BY <1>3 DEF NextEntry, EnumInv, Collected, BeingRead
<1>4. CASE ReadDriver
  BY <1>4 DEF ReadDriver, EnumInv, Collected, BeingRead
<1>5. CASE ReadAddress
  <2>1. UNCHANGED <<at, visited, changed>> /\ pc = "address" /\ pc' = "entries"
    BY <1>5 DEF ReadAddress
  <2> DEFINE new == [node |-> node, driver |-> link, address |-> at[node], same |-> TRUE]
  <2>2. devices' = Append(devices, new) /\ devices \in Seq(Devices) /\ Len(devices) \in Nat
    BY <1>5 DEF ReadAddress, TypeOK
  <2>3. new.driver = link /\ new.address = at[node]
    OBVIOUS
  <2> HIDE DEF new
  <2>4. /\ Len(devices) + 1 \in DOMAIN devices' /\ devices'[Len(devices) + 1] = new
        /\ \A i \in DOMAIN devices : i \in DOMAIN devices' /\ devices'[i] = devices[i]
    BY <2>2
  <2>5. Collected(n) \/ BeingRead(n) => Collected(n)'
    BY <2>1, <2>3, <2>4 DEF Collected, BeingRead
  <2> QED  BY <2>1, <2>5 DEF EnumInv
<1>6. CASE LinkGone
  BY <1>6 DEF LinkGone, EnumInv, Collected, BeingRead
<1>7. CASE FinishListing
  <2>1. UNCHANGED <<at, changed>> /\ pc = "entries" /\ pc' = "probe" /\ n \in visited
    BY <1>7 DEF FinishListing
  <2>2. \A j \in DOMAIN devices : \E i \in DOMAIN devices' : devices'[i] = devices[j]
    BY <1>7, SortKeeps DEF FinishListing, TypeOK
  <2>3. Collected(n) => Collected(n)'
    BY <2>1, <2>2 DEF Collected
  <2> QED  BY <2>1, <2>3 DEF EnumInv, BeingRead
<1>8. CASE SkipDevice
  <2>1. UNCHANGED <<at, changed, drivers>> /\ pc = "probe" /\ pc' = "probe"
    BY <1>8 DEF SkipDevice
  <2>2. /\ Offered = devices[1]
        /\ \A i \in DOMAIN devices \ {1} : i - 1 \in DOMAIN devices' /\ devices'[i - 1] = devices[i]
    BY <1>8, RestOfDevices DEF SkipDevice
  <2>3. Collected(n) => Collected(n)' \/ Served(n)'
    BY <1>8, <2>1, <2>2 DEF SkipDevice, Collected, Served
  <2>4. Served(n) => Served(n)'
    BY <2>1 DEF Served
  <2> QED  BY <2>1, <2>3, <2>4 DEF EnumInv
<1>9. CASE BuildDriver
  <2>1. UNCHANGED <<at, changed>> /\ pc = "probe" /\ pc' = "probe"
    BY <1>9 DEF BuildDriver
  <2>2. /\ Offered = devices[1]
        /\ \A i \in DOMAIN devices \ {1} : i - 1 \in DOMAIN devices' /\ devices'[i - 1] = devices[i]
    BY <1>9, RestOfDevices DEF BuildDriver
  <2>3. drivers \subseteq drivers' /\ \E d \in drivers' : d.address = Offered.address
    BY <1>9, Built
  <2>4. Collected(n) => Collected(n)' \/ Served(n)'
    BY <2>1, <2>2, <2>3 DEF Collected, Served
  <2>5. Served(n) => Served(n)'
    BY <2>1, <2>3 DEF Served
  <2> QED  BY <2>1, <2>4, <2>5 DEF EnumInv
<1>10. CASE FinishProbe
  BY <1>10 DEF FinishProbe
<1>11. CASE Sample
  BY <1>11 DEF Sample, StartSample, ReadDevice, ReadInput, ReadLabel, ReadPower, ReadClocks,
               FinishSample, HandOver
<1>12. CASE UNCHANGED vars
  BY <1>12 DEF vars, EnumInv, Collected, BeingRead, Served
<1> QED
  <2>1. ASSUME NEW m \in Nodes, NextEntry(m) PROVE pc' = "driver"
    BY <2>1 DEF NextEntry
  <2> QED
    BY <1>1, <1>2, <1>3, <1>4, <1>5, <1>6, <1>7, <1>8, <1>9, <1>10, <1>11, <1>12, <2>1
       DEF Next, Listing, Probe

--------------------------------------------------------------------------------
(***************************************************************************)
(* The theorems.                                                           *)
(***************************************************************************)
LEMMA InitIInv == Init => IInv
<1> SUFFICES ASSUME Init PROVE IInv
  OBVIOUS
<1>1. DOMAIN out = {}
  BY DEF Init
<1>2. /\ at \in [Nodes -> Gpus \cup {Nobody}] /\ hwmon \in [Nodes -> Hwmons \cup {NoHwmon}]
      /\ pc = "idle" /\ visited = {} /\ changed = {} /\ link = Wanted /\ vacant = FALSE
      /\ devices = <<>> /\ drivers = {} /\ index = 1 /\ value = Nobody
  BY DEF Init
<1>3. node \in Nodes /\ current \in Drivers
  BY ConstantFacts DEF Init
<1>4. TypeOK
  <2>1. devices \in Seq(Devices)
    BY <1>2
  <2>2. vacant \in BOOLEAN /\ visited \subseteq Nodes /\ changed \subseteq Nodes
    BY <1>2
  <2>3. drivers \subseteq Drivers /\ index \in 1..4 /\ value \in Gpus \cup {Nobody}
    BY <1>2
  <2> QED  BY <1>1, <1>2, <1>3, <2>1, <2>2, <2>3 DEF TypeOK
<1>5. CallInv /\ DriversDiffer /\ VacantInv /\ EnumInv
  BY <1>1, <1>2 DEF CallInv, DriversDiffer, VacantInv, EnumInv, Sampling
<1>6. SameInv
  BY <1>2 DEF SameInv, Sampling
<1>7. OwnInv
  BY <1>1, <1>2 DEF OwnInv, ReadingsAreOwn
<1> QED
  BY <1>4, <1>5, <1>6, <1>7 DEF IInv

\* The invariant of the steps: no read, probe or change of hands breaks any part of it.
THEOREM CardsInvariant == Spec => []IInv
<1>1. IInv /\ [Next]_vars => IInv'
  BY NextType, NextCallInv, NextDriversDiffer, NextSameInv, NextOwnInv, NextVacantInv,
     NextEnumInv DEF IInv
<1> QED
  BY <1>1, InitIInv, PTL DEF Spec

\* A card that stays where it is during an enumeration and the probe after it has a
\* driver of its address when they end, however many other nodes, devices and drivers
\* there are and whatever becomes of them meanwhile.
THEOREM SteadyCardsAreServed == Spec => []SteadyCardIsServed
<1>1. IInv => SteadyCardIsServed
  BY DEF IInv, EnumInv, SteadyCardIsServed, Collected, Served
<1> QED
  BY <1>1, CardsInvariant, PTL

\* A driver whose node has not changed hands reports readings of its own GPU, with each
\* temperature in the field that its label names.
THEOREM CardsReportTheirOwn == Spec => []ReadingsAreOwn
<1>1. IInv => ReadingsAreOwn
  BY DEF IInv, OwnInv
<1> QED
  BY <1>1, CardsInvariant, PTL

\* A node that is gone for the whole of a sample gives no reading, and its driver is
\* retired by the end of it.
THEOREM VacantCardsAreRetired == Spec => []VacantIsRetired
<1>1. IInv => VacantIsRetired
  BY DEF IInv, VacantInv, VacantIsRetired, Sampling
<1> QED
  BY <1>1, CardsInvariant, PTL
================================================================================
