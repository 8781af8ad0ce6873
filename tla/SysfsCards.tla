------------------------------ MODULE SysfsCards ------------------------------
(***************************************************************************)
(* The sysfs half of gtop on Linux: enumerate_drm_devices(), the probe of  *)
(* amdgpu-sysfs that filters it, and the samples of AmdgpuSysfsDriver.     *)
(* Every file is reached through a card node ("card1"), the GPU is known   *)
(* by its PCI address, and which GPU a node belongs to may change between  *)
(* any two reads: a driver is unbound, a GPU removed, another one bound.   *)
(***************************************************************************)
EXTENDS Integers, Sequences, FiniteSets, Functions

CONSTANTS
  Nodes,    \* the card nodes the kernel may give out
  Gpus,     \* the GPUs, as their PCI addresses, which sort as numbers
  Driver,   \* Driver[g]: the kernel driver that binds to g
  Labels,   \* Labels[g][i]: the label of the i-th temperature sensor of g
  Hwmons    \* the numbers of hwmon directories

Nobody == 0                     \* no GPU; also no driver to name
NoHwmon == 0
Wanted == "amdgpu"
Kinds == {"edge", "hotspot", "memory"}
Unlabelled == "none"
ByIndex == <<"edge", "hotspot", "memory">>

\* With no node or no GPU there is nothing to enumerate.
ASSUME CardsAssumption ==
  /\ IsFiniteSet(Nodes) /\ Nodes # {} /\ Gpus # {}
  /\ Gpus \subseteq Nat \ {Nobody} /\ Hwmons \subseteq Nat \ {NoHwmon}
  /\ Driver \in [Gpus -> STRING]
  /\ Labels \in [Gpus -> [1..3 -> STRING]]

VARIABLES
  at,        \* the machine: at[n], the GPU that node n belongs to, or Nobody
  hwmon,     \* the machine: hwmon[n], the hwmon directory of that GPU, or NoHwmon
  pc,        \* where the call is; "idle" between calls
  visited,   \* enumerate_drm_devices(): the entries the iteration has been through
  node,      \* the entry, or the node of the driver, being read
  link,      \* device.driver
  devices,   \* the devices collected, and then those yet to be built, in order
  drivers,   \* the drivers the registry holds
  current,   \* the driver being sampled
  index,     \* read_hwmon(): the sensor it has come to
  value,     \* millidegrees: the GPU the sensor's value was read from, or Nobody
  out,       \* this sample: what each field was read from
  changed,   \* history: nodes that changed hands since the enumeration began
  vacant     \* history: the node has been empty since the sample began

machine == <<at, hwmon>>
listing == <<visited, link, changed>>
sampling == <<current, index, value, out, vacant>>
vars == <<machine, pc, listing, node, devices, drivers, sampling>>

\* "same", a history: the node has not changed hands since the address was read.
Devices == [node : Nodes, driver : {Driver[g] : g \in Gpus}, address : Gpus, same : BOOLEAN]
Drivers == [node : Nodes, address : Gpus, hwmon : Hwmons \cup {NoHwmon}, same : BOOLEAN]
Fields == {"utilization", "power", "clock"} \cup Kinds
Sources == [gpu : Gpus, sensor : 0..3, labelled : BOOLEAN]
AnyNode == CHOOSE n \in Nodes : TRUE   \* where node is of no interest
NoDriver == CHOOSE d \in Drivers : d.hwmon = NoHwmon

Init ==
  /\ at \in {a \in [Nodes -> Gpus \cup {Nobody}] :
               \A m, n \in Nodes : a[m] = a[n] /\ a[m] # Nobody => m = n}
  /\ hwmon = [n \in Nodes |-> NoHwmon]
  /\ pc = "idle" /\ visited = {} /\ node = AnyNode
  /\ link = Wanted /\ devices = <<>> /\ drivers = {}
  /\ current = NoDriver /\ index = 1 /\ value = Nobody /\ out = [f \in {} |-> {}]
  /\ changed = {} /\ vacant = FALSE

(***************************************************************************)
(* The machine: a GPU is bound to a free node, and its sensors appear, or  *)
(* it is unbound and the node disappears.                                  *)
(***************************************************************************)
Enumerating == {"entries", "driver", "address", "probe"}

Moved(r, n) == IF r.node = n THEN [r EXCEPT !.same = FALSE] ELSE r

Rebind(n, g, h) ==
  /\ at' = [at EXCEPT ![n] = g] /\ hwmon' = [hwmon EXCEPT ![n] = h]
  /\ devices' = [i \in DOMAIN devices |-> Moved(devices[i], n)]
  /\ drivers' = {Moved(d, n) : d \in drivers}
  /\ current' = Moved(current, n)
  /\ IF pc \in Enumerating
     THEN changed' = changed \cup {n} ELSE UNCHANGED changed
  /\ UNCHANGED <<pc, visited, node, link, index, value, out>>

Unbind(n) ==
  /\ at[n] # Nobody /\ Rebind(n, Nobody, NoHwmon)
  /\ UNCHANGED vacant

Bind(n, g) ==
  /\ at[n] = Nobody /\ \A m \in Nodes : at[m] # g
  /\ \E h \in Hwmons \cup {NoHwmon} :
       /\ h # NoHwmon => \A m \in Nodes : hwmon[m] # h
       /\ Rebind(n, g, h)
  /\ vacant' = (vacant /\ node # n)

Machine == \E n \in Nodes : Unbind(n) \/ \E g \in Gpus : Bind(n, g)

(***************************************************************************)
(* enumerate_drm_devices()                                                 *)
(***************************************************************************)
StartListing ==
  /\ pc = "idle" /\ pc' = "entries"
  /\ visited' = {} /\ devices' = <<>> /\ changed' = {}
  /\ UNCHANGED <<machine, node, link, drivers, sampling>>

\* Entries come in the order of the directory, which is any.
NextEntry(n) ==
  /\ pc = "entries" /\ n \notin visited /\ at[n] # Nobody
  /\ visited' = visited \cup {n} /\ node' = n /\ pc' = "driver"
  /\ UNCHANGED <<machine, link, changed, devices, drivers, sampling>>

ReadDriver ==
  /\ pc = "driver" /\ at[node] # Nobody
  /\ link' = Driver[at[node]] /\ pc' = "address"
  /\ UNCHANGED <<machine, visited, changed, node, devices, drivers, sampling>>

ReadAddress ==
  /\ pc = "address" /\ at[node] # Nobody
  /\ devices' = Append(devices, [node |-> node, driver |-> link, address |-> at[node],
                                 same |-> TRUE])
  /\ pc' = "entries" /\ node' = AnyNode /\ link' = Wanted
  /\ UNCHANGED <<machine, visited, changed, drivers, sampling>>

\* Mutated: the entry that went away ends the enumeration.
LinkGoneEnds ==
  /\ pc \in {"driver", "address"} /\ at[node] = Nobody
  /\ visited' = Nodes /\ pc' = "entries"
  /\ UNCHANGED <<machine, link, changed, node, devices, drivers, sampling>>

\* The entry went away before its links were read: on to the next.
LinkGone ==
  /\ pc \in {"driver", "address"} /\ at[node] = Nobody
  /\ pc' = "entries" /\ node' = AnyNode /\ link' = Wanted
  /\ UNCHANGED <<machine, visited, changed, devices, drivers, sampling>>

InAddressOrder(s) == \A i, j \in DOMAIN s : i < j => s[i].address <= s[j].address

\* std::sort: some rearrangement of s that is in the order of addresses.
Sorted(s) ==
  {t \in {[i \in DOMAIN s |-> s[p[i]]] : p \in Bijection(DOMAIN s, DOMAIN s)} :
     InAddressOrder(t)}

\* The iteration is through, an entry that came meanwhile seen or not.
FinishListing ==
  /\ pc = "entries"
  /\ \A n \in Nodes \ changed : at[n] # Nobody => n \in visited
  /\ devices' \in Sorted(devices) /\ pc' = "probe"
  /\ UNCHANGED <<machine, listing, node, drivers, sampling>>

(***************************************************************************)
(* probe(): a driver for each device of the wanted kernel driver.          *)
(***************************************************************************)
Offered == Head(devices)

\* Any other device is left to its own backend.
SkipDevice ==
  /\ pc = "probe" /\ devices # <<>> /\ Offered.driver # Wanted
  /\ devices' = Tail(devices)
  /\ UNCHANGED <<machine, pc, listing, node, drivers, sampling>>

\* find_hwmon(), by whichever GPU has the node now; and the registry takes the driver
\* or drops it, when it has one of that address.
BuildDriver ==
  /\ pc = "probe" /\ devices # <<>> /\ Offered.driver = Wanted
  /\ drivers' = drivers \cup
       {d \in {[node |-> Offered.node, address |-> Offered.address,
                hwmon |-> hwmon[Offered.node], same |-> Offered.same]} :
          \A known \in drivers : known.address # d.address}
  /\ devices' = Tail(devices)
  /\ UNCHANGED <<machine, pc, listing, node, sampling>>

FinishProbe ==
  /\ pc = "probe" /\ devices = <<>>
  /\ pc' = "idle" /\ visited' = {} /\ changed' = {}
  /\ UNCHANGED <<machine, node, link, devices, drivers, sampling>>

(***************************************************************************)
(* AmdgpuSysfsDriver::sample()                                             *)
(***************************************************************************)
StartSample(d) ==
  /\ pc = "idle" /\ d \in drivers
  /\ current' = d /\ node' = d.node /\ index' = 1 /\ value' = Nobody
  /\ out' = [f \in {} |-> {}]
  /\ vacant' = (at[d.node] = Nobody)
  /\ pc' = "device"
  /\ UNCHANGED <<machine, listing, devices, drivers>>

\* Whose file is read under the device path: the GPU that has the node now.
Reached == {at[node]} \ {Nobody}

\* ... and under the hwmon path, which was found once and for all.
ReachedHwmon ==
  {g \in Reached : current.hwmon # NoHwmon /\ hwmon[node] = current.hwmon}

\* A file of one of the GPUs is read into a field, or cannot be read.
Set(field, gpus, sensor, labelled) ==
  \/ \E g \in gpus :
       out' = [f \in DOMAIN out \cup {field} |->
                 IF f = field THEN [gpu |-> g, sensor |-> sensor, labelled |-> labelled]
                 ELSE out[f]]
  \/ UNCHANGED out

\* gpu_busy_percent, mem_busy_percent, mem_info_vram_used.
ReadDevice ==
  /\ pc = "device" /\ pc' = "input"
  /\ Set("utilization", Reached, 0, FALSE)
  /\ UNCHANGED <<machine, listing, node, devices, drivers, current, index, value, vacant>>

\* read_hwmon(), a sensor: its value, ...
ReadInput ==
  /\ pc = "input" /\ index \in 1..3
  /\ \/ /\ value' \in ReachedHwmon /\ pc' = "label" /\ UNCHANGED index
     \/ /\ index' = index + 1 /\ UNCHANGED <<pc, value>>
  /\ UNCHANGED <<machine, listing, node, devices, drivers, current, out, vacant>>

\* Mutated: the label decides only where the index has nothing to say.
SlotByIndex(i, label) == ByIndex[i]

\* The label decides; the index when there is none that is known.
Slot(i, label) == IF label \in Kinds THEN label ELSE ByIndex[i]

\* ... and its label, which may not be there, or by now be that of another GPU.
ReadLabel ==
  /\ pc = "label"
  /\ \E label \in {Labels[g][index] : g \in ReachedHwmon} \cup {Unlabelled} :
       out' = [f \in DOMAIN out \cup {Slot(index, label)} |->
                 IF f = Slot(index, label)
                 THEN [gpu |-> value, sensor |-> index, labelled |-> label # Unlabelled]
                 ELSE out[f]]
  /\ value' = Nobody /\ index' = index + 1 /\ pc' = "input"
  /\ UNCHANGED <<machine, listing, node, devices, drivers, current, vacant>>

\* The rest of read_hwmon(): power, its limit, the fan.
ReadPower ==
  /\ pc = "input" /\ index > 3
  /\ pc' = "clocks" /\ Set("power", ReachedHwmon, 0, FALSE)
  /\ UNCHANGED <<machine, listing, node, devices, drivers, current, index, value, vacant>>

\* pp_dpm_sclk, or else the hwmon clock.
ReadClocks ==
  /\ pc = "clocks" /\ pc' = "check"
  /\ Set("clock", Reached, 0, FALSE) \/ Set("clock", ReachedHwmon, 0, FALSE)
  /\ UNCHANGED <<machine, listing, node, devices, drivers, current, index, value, vacant>>

\* Mutated: the node is not looked for.
NotLookedFor == TRUE

StillThere == at[node] # Nobody

\* healthy_, by the node; the registry retires a driver that is not.
FinishSample ==
  /\ pc = "check" /\ pc' = "sampled"
  /\ drivers' = IF StillThere THEN drivers ELSE drivers \ {current}
  /\ UNCHANGED <<machine, listing, node, devices, sampling>>

HandOver ==
  /\ pc = "sampled" /\ pc' = "idle"
  /\ current' = NoDriver /\ index' = 1 /\ out' = [f \in {} |-> {}] /\ vacant' = FALSE
  /\ node' = AnyNode
  /\ UNCHANGED <<machine, listing, value, devices, drivers>>

Listing == StartListing \/ (\E n \in Nodes : NextEntry(n)) \/ ReadDriver \/ ReadAddress
             \/ LinkGone \/ FinishListing
Probe == SkipDevice \/ BuildDriver \/ FinishProbe
Sample == (\E d \in drivers : StartSample(d)) \/ ReadDevice \/ ReadInput \/ ReadLabel
            \/ ReadPower \/ ReadClocks \/ FinishSample \/ HandOver

Next == Machine \/ Listing \/ Probe \/ Sample

Spec == Init /\ [][Next]_vars

--------------------------------------------------------------------------------
(***************************************************************************)
(* Properties.                                                             *)
(***************************************************************************)

\* Every variable keeps its type; no field of a sample was read from nothing.
TypeOK ==
  /\ at \in [Nodes -> Gpus \cup {Nobody}] /\ hwmon \in [Nodes -> Hwmons \cup {NoHwmon}]
  /\ pc \in {"idle", "entries", "driver", "address", "probe", "device", "input", "label",
             "clocks", "check", "sampled"}
  /\ visited \subseteq Nodes /\ node \in Nodes /\ changed \subseteq Nodes
  /\ link \in {Wanted} \cup {Driver[g] : g \in Gpus}
  /\ devices \in Seq(Devices) /\ drivers \subseteq Drivers /\ current \in Drivers
  /\ index \in 1..4 /\ value \in Gpus \cup {Nobody} /\ vacant \in BOOLEAN
  /\ DOMAIN out \subseteq Fields /\ \A f \in DOMAIN out : out[f] \in Sources

\* A card that stays where it is while enumerate_drm_devices() and the probe run ends up
\* with a driver of its address, whatever other nodes come and go meanwhile: "Enumeration
\* is best effort. Whatever was collected ... is still valid".
SteadyCardIsServed ==
  pc = "probe" /\ devices = <<>> =>
    \A n \in Nodes \ changed :
      at[n] # Nobody /\ Driver[at[n]] = Wanted => \E d \in drivers : d.address = at[n]

\* A driver whose node has not changed hands reports its own GPU, and each temperature
\* whose label could be read in the field that the label names, whatever the order of
\* the sensors: "the label decides, and the index is the fallback".
ReadingsAreOwn ==
  current.same =>
    \A f \in DOMAIN out :
      /\ out[f].gpu = current.address
      /\ out[f].labelled => LET label == Labels[out[f].gpu][out[f].sensor] IN
                              label \in Kinds => f = label

\* A node that was gone when the sample began and has not come back gives no reading
\* through either path, and its driver is retired; the hwmon path cached by the
\* constructor does not outlive it.
VacantIsRetired ==
  pc = "sampled" /\ vacant => DOMAIN out = {} /\ current \notin drivers
================================================================================
