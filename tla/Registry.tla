------------------------------- MODULE Registry -------------------------------
(***************************************************************************)
(* gtop's DriverRegistry (src/src/driver/driver_registry.cpp): discovery   *)
(* and lifecycle of the GPUs several vendor backends find, together with   *)
(* the machine it runs on (GPUs come, go, fall asleep) and the client that *)
(* calls probe() and sample_all() on a timer.                              *)
(*                                                                         *)
(* A call is single-threaded, but the hardware is not: every iteration of  *)
(* a call is its own step, and the machine may move between any two.       *)
(***************************************************************************)
EXTENDS Integers, FiniteSets, Sequences, SequencesExt

CONSTANTS
  NBackends,    \* backends are 1..NBackends, in probe order
  Gpus,         \* the physical GPUs
  Sees,         \* Sees[b]: the GPUs backend b's library supports
  Identity,     \* Identity[b][g]: the key of g as b describes it, or NoIdentity
  Forgetful,    \* backends whose query of the address may be refused for a driver
  Fallback,     \* Fallback[b][g]: the key of g without its address, or NoIdentity
  Blind,        \* backends that do not list a suspended GPU (NVML and D3cold)
  ReadsPower,   \* backends whose power_state() may know; the rest say kUnknown
  NoticesLoss,  \* backends whose sample() flips healthy() when the GPU is gone
  Erratic,      \* ... and may flip it for a GPU that is present
  Stillborn,    \* backends that may return a driver that is already unhealthy
  Hotplug,      \* the GPUs that come and go
  RuntimePM,    \* the GPUs that runtime-suspend
  InitialPower, \* InitialPower[g]: the state of g when gtop starts
  Retry,        \* kRetryInterval, in ticks
  AnonBase,     \* keys AnonBase, AnonBase + 1, ... are "anon:0", "anon:1", ...
  MaxAnon,      \* bound on anonymous_
  CountMod      \* retired_ is counted modulo CountMod

NoIdentity == 0
Never == Retry + 1                      \* TimePoint::max()
Backends == 1..NBackends
PowerStates == {"absent", "suspended", "changing", "active"}

ASSUME BackendAssumption ==
  /\ NBackends \in Nat /\ IsFiniteSet(Gpus)
  /\ Retry \in Nat \ {0}
  /\ Sees \in [Backends -> SUBSET Gpus]
  /\ {Forgetful, Blind, ReadsPower, NoticesLoss, Erratic, Stillborn} \subseteq SUBSET Backends
  /\ InitialPower \in [Gpus -> PowerStates]

ASSUME CounterAssumption == CountMod \in Nat \ {0}

\* A string key is a number, in the order of the strings: "0000:01:00.0" sorts
\* before "anon:0" and that before "uuid:...". With MaxAnon <= 10 the decimal
\* suffixes sort as numbers do. No identity collides with an anonymous key.
ASSUME IdentityAssumption ==
  /\ AnonBase \in Nat \ {0} /\ MaxAnon \in 0..10
  /\ {Identity, Fallback} \subseteq [Backends -> [Gpus -> Nat]]
  /\ \A b \in Backends, g \in Gpus :
       {Identity[b][g], Fallback[b][g]} \cap AnonBase..(AnonBase + MaxAnon - 1) = {}

AnonymousKeys == AnonBase..(AnonBase + MaxAnon - 1)
Identities == {Identity[b][g] : b \in Backends, g \in Gpus}
              \cup {Fallback[b][g] : b \in Backends, g \in Gpus}
Keys == (Identities \ {NoIdentity}) \cup AnonymousKeys

VARIABLES
  power,      \* the machine: power[g]
  devices,    \* devices_: the listed drivers, with their backend and key
  live,       \* BackendState::live
  wait,       \* BackendState::next_probe, as ticks from now
  retired,    \* retired_
  anonymous,  \* anonymous_
  pc,         \* where the current call is; "idle" between calls
  at,         \* the loop index i of probe() and of sample_all()
  found,      \* what state.backend.probe() returned and is not adopted yet
  adopted,    \* probe()'s local of that name
  seen,       \* what power_state() answered for devices_[at]
  readings,   \* sample_all()'s result
  roster      \* history: devices_ when the pass began

vars == <<power, devices, live, wait, retired, anonymous, pc, at, found,
          adopted, seen, readings, roster>>

\* addressed: the driver's static_info() has the PCI address of its GPU. It makes the
\* key, and nothing more.
Drivers == [gpu : Gpus, healthy : BOOLEAN, addressed : BOOLEAN]
Entries == [gpu : Gpus, healthy : BOOLEAN, backend : Backends, key : Keys]
Readings == [key : Keys, polled : BOOLEAN]

Entry == devices[at]                    \* devices_[i]
Listed == {devices[i] : i \in DOMAIN devices}
OwnedBy(b) == {e \in Listed : e.backend = b}

\* Mutated: de-duplication within the asking backend only.
KnownToBackend(key) == \E e \in OwnedBy(at) : e.key = key

Known(key) == \E e \in Listed : e.key = key

Init ==
  /\ power = InitialPower
  /\ devices = <<>>
  /\ live = [b \in Backends |-> 0]
  /\ wait = [b \in Backends |-> 0]      \* epoch: the first probe is always due
  /\ retired = 0 /\ anonymous = 0
  /\ pc = "idle" /\ at = 0 /\ found = {} /\ adopted = FALSE
  /\ seen = "unknown" /\ readings = <<>>
  /\ roster = <<>>

(***************************************************************************)
(* probe(now).                                                             *)
(***************************************************************************)
StartProbe ==
  /\ pc = "idle"
  /\ pc' = "probe" /\ at' = 1 /\ readings' = <<>>
  /\ UNCHANGED <<power, devices, live, wait, retired, anonymous, found, adopted,
                 seen, roster>>

Due(b) == wait[b] = 0                   \* !(now < state.next_probe)

SkipBackend ==
  /\ pc = "probe" /\ at \in Backends /\ ~Due(at)
  /\ at' = at + 1
  /\ UNCHANGED <<power, devices, live, wait, retired, anonymous, pc, found,
                 adopted, seen, readings, roster>>

\* What backend b's library lists now.
Listable(b) == {g \in Sees[b] : /\ power[g] # "absent"
                                /\ b \in Blind => power[g] # "suspended"}

\* The drivers of the vector come in the library's own order: a set. A driver
\* may be unhealthy already, which the interface allows and tests/unit/driver_test.cpp:313
\* does, and without an address if that query was refused.
AskBackend ==
  /\ pc = "probe" /\ at \in Backends /\ Due(at)
  /\ \E dead \in SUBSET (IF at \in Stillborn THEN Listable(at) ELSE {}),
        lost \in SUBSET (IF at \in Forgetful THEN Listable(at) ELSE {}) :
       found' = {[gpu |-> g, healthy |-> g \notin dead, addressed |-> g \notin lost] :
                   g \in Listable(at)}
  /\ pc' = "adopt"
  /\ UNCHANGED <<power, devices, live, wait, retired, anonymous, at, adopted,
                 seen, readings, roster>>

\* adopt()'s key, before it counts the anonymous: the address, or else the uuid.
IdentityOf(d) == IF d.addressed THEN Identity[at][d.gpu] ELSE Fallback[at][d.gpu]

\* adopt()'s tail: push_back and ++live.
Adopt(d, key) ==
  /\ devices' = Append(devices, [gpu |-> d.gpu, healthy |-> d.healthy,
                                 backend |-> at, key |-> key])
  /\ live' = [live EXCEPT ![at] = @ + 1]
  /\ adopted' = TRUE

AdoptIdentified(d) ==
  LET key == IdentityOf(d) IN
  /\ key # NoIdentity /\ ~Known(key)
  /\ Adopt(d, key)
  /\ UNCHANGED anonymous

\* Mutated: adopted = adopt(...) for adopted |= adopt(...).
DropDuplicateAndForget(d) ==
  /\ IdentityOf(d) # NoIdentity /\ Known(IdentityOf(d))
  /\ adopted' = FALSE
  /\ UNCHANGED <<devices, live, anonymous>>

DropDuplicate(d) ==
  LET key == IdentityOf(d) IN
  /\ key # NoIdentity /\ Known(key)
  /\ UNCHANGED <<devices, live, adopted, anonymous>>

\* Mutated: the suffix is the number of devices, not a counter of its own.
AdoptAnonymousByCount(d) ==
  /\ IdentityOf(d) = NoIdentity /\ anonymous < MaxAnon
  /\ Adopt(d, AnonBase + Len(devices))
  /\ anonymous' = anonymous + 1

AdoptAnonymous(d) ==
  /\ IdentityOf(d) = NoIdentity
  /\ anonymous < MaxAnon
  /\ Adopt(d, AnonBase + anonymous)
  /\ anonymous' = anonymous + 1

AdoptFound ==
  /\ pc = "adopt"
  /\ \E d \in found :
       /\ AdoptIdentified(d) \/ DropDuplicate(d) \/ AdoptAnonymous(d)
       /\ found' = found \ {d}
  /\ UNCHANGED <<power, wait, retired, pc, at, seen, readings, roster>>

\* The schedule after a backend has answered: an empty one is asked again.
\* Mutated: an empty backend is written off.
NextProbeNever(b) == Never

NextProbe(b) == IF live[b] = 0 THEN Retry ELSE Never

ScheduleBackend ==
  /\ pc = "adopt" /\ found = {}
  /\ wait' = [wait EXCEPT ![at] = NextProbe(at)]
  /\ pc' = "probe" /\ at' = at + 1
  /\ UNCHANGED <<power, devices, live, retired, anonymous, found, adopted,
                 seen, readings, roster>>

InKeyOrder(s) == \A i, j \in 1..Len(s) : i < j => s[i].key <= s[j].key

\* std::sort: some rearrangement of s that is in key order.
Sortings(s) ==
  {t \in {[i \in 1..Len(s) |-> s[p[i]]] : p \in Bijection(1..Len(s), 1..Len(s))} :
     InKeyOrder(t)}

FinishProbe ==
  /\ pc = "probe" /\ at \notin Backends
  /\ IF adopted THEN devices' \in Sortings(devices) ELSE UNCHANGED devices
  /\ pc' = "idle" /\ at' = 0 /\ adopted' = FALSE
  /\ UNCHANGED <<power, live, wait, retired, anonymous, found, seen, readings,
                 roster>>

(***************************************************************************)
(* sample_all(now).                                                        *)
(***************************************************************************)
StartPass ==
  /\ pc = "idle"
  /\ pc' = "sample" /\ at' = 1 /\ readings' = <<>>
  /\ roster' = devices
  /\ UNCHANGED <<power, devices, live, wait, retired, anonymous, found,
                 adopted, seen>>

\* power_state() says kUnknown, or else the truth: that is what gpu_driver.hpp asks of a
\* driver. The drivers of the unit tests tell; those gtop ships never do, for
\* pci_power_state() finds no address (PciAddress). kUnknown is always among the answers.
\* Mutated: a status that cannot be read is "suspended".
PowerAnswersFallback(e) == {IF power[e.gpu] = "active" THEN "active" ELSE "suspended"}

PowerAnswers(e) ==
  {"unknown"} \cup
  (IF e.backend \in ReadsPower THEN {power[e.gpu]} \cap {"suspended", "active"} ELSE {})

\* erase(i), --owner.live, owner.next_probe = again, ++retired_; i becomes next.
Retire(i, owner, again, next) ==
  /\ devices' = RemoveAt(devices, i)
  /\ live' = [live EXCEPT ![owner] = @ - 1]
  /\ wait' = [wait EXCEPT ![owner] = again]
  /\ retired' = (retired + 1) % CountMod
  /\ at' = next
  /\ UNCHANGED readings

\* Mutated: the loop index taken for the owner's; no re-probe scheduled; ++i.
RetireWrongOwner(i)  == Retire(i, i, Retry, i)
RetireUnscheduled(i) == Retire(i, devices[i].backend, wait[devices[i].backend], i)
RetireAndStep(i)     == Retire(i, devices[i].backend, Retry, i + 1)

\* Mutated: the backend is due at once; the entry is marked and left in place.
RetireAndRush(i) == Retire(i, devices[i].backend, 0, i)
RetireInPlace(i) ==
  /\ wait' = [wait EXCEPT ![devices[i].backend] = Retry]
  /\ retired' = (retired + 1) % CountMod
  /\ at' = i /\ UNCHANGED <<devices, live, readings>>

RetireAt(i) == Retire(i, devices[i].backend, Retry, i)

ReportAt(i, polled) ==
  /\ readings' = Append(readings, [key |-> devices[i].key, polled |-> polled])
  /\ at' = i + 1
  /\ UNCHANGED <<devices, live, wait, retired>>

\* The first healthy() of the iteration says the driver is dead.
RetireDead ==
  /\ pc = "sample" /\ at \in DOMAIN devices /\ ~Entry.healthy
  /\ RetireAt(at)
  /\ UNCHANGED <<power, anonymous, pc, found, adopted, seen, roster>>

AskPowerState ==
  /\ pc = "sample" /\ at \in DOMAIN devices /\ Entry.healthy
  /\ seen' \in PowerAnswers(Entry) /\ pc' = "read"
  /\ UNCHANGED <<power, devices, live, wait, retired, anonymous, at, found,
                 adopted, readings, roster>>

ReportSuspended ==
  /\ pc = "read" /\ seen = "suspended"
  /\ ReportAt(at, FALSE)
  /\ pc' = "sample" /\ seen' = "unknown"
  /\ UNCHANGED <<power, anonymous, found, adopted, roster>>

\* sample() touches the hardware, which resumes it.
Touch(g) ==
  power' = [power EXCEPT ![g] = IF @ = "absent" THEN @ ELSE "active"]

\* What healthy() may say after sample().
\* Mutated: any failed read flips healthy().
HealthAfterSampleTransient(e) == IF e.backend \in NoticesLoss THEN BOOLEAN ELSE {TRUE}

HealthAfterSample(e) ==
  IF e.backend \notin NoticesLoss THEN {TRUE}
  ELSE IF power[e.gpu] = "absent" THEN {FALSE}
  ELSE IF e.backend \in Erratic THEN BOOLEAN ELSE {TRUE}

Poll ==
  /\ pc = "read" /\ seen # "suspended"
  /\ Touch(Entry.gpu)
  /\ \E alive \in HealthAfterSample(Entry) :
       IF alive THEN ReportAt(at, TRUE) ELSE RetireAt(at)
  /\ pc' = "sample" /\ seen' = "unknown"
  /\ UNCHANGED <<anonymous, found, adopted, roster>>

FinishPass ==
  /\ pc = "sample" /\ at \notin DOMAIN devices
  /\ pc' = "idle" /\ at' = 0 /\ roster' = <<>>
  /\ UNCHANGED <<power, devices, live, wait, retired, anonymous, found,
                 adopted, seen, readings>>

(***************************************************************************)
(* The machine and the clock. A call fixes now when it starts, so time     *)
(* passes between calls; the GPUs change at any moment.                    *)
(***************************************************************************)
PowerChange(g, before, after) ==
  /\ power[g] \in before
  /\ power' = [power EXCEPT ![g] = after]
  /\ UNCHANGED <<devices, live, wait, retired, anonymous, pc, at, found,
                 adopted, seen, readings, roster>>

PlugIn(g)  == g \in Hotplug /\ PowerChange(g, {"absent"}, "active")
Unplug(g)  == g \in Hotplug /\ PowerChange(g, PowerStates \ {"absent"}, "absent")
FallAsleep(g) == g \in RuntimePM /\ PowerChange(g, {"changing"}, "suspended")
WakeUp(g)  == g \in RuntimePM /\ PowerChange(g, {"changing"}, "active")
BeginTransition(g) ==
  g \in RuntimePM /\ PowerChange(g, {"active", "suspended"}, "changing")

Machine == \E g \in Gpus :
  PlugIn(g) \/ Unplug(g) \/ FallAsleep(g) \/ WakeUp(g) \/ BeginTransition(g)

Tick ==
  /\ pc = "idle"
  /\ \E b \in Backends : wait[b] \in 1..Retry
  /\ wait' = [b \in Backends |-> IF wait[b] \in 1..Retry THEN wait[b] - 1 ELSE wait[b]]
  /\ UNCHANGED <<power, devices, live, retired, anonymous, pc, at, found,
                 adopted, seen, readings, roster>>

ProbeStep == SkipBackend \/ AskBackend \/ AdoptFound \/ ScheduleBackend \/ FinishProbe
PassStep == RetireDead \/ AskPowerState \/ ReportSuspended \/ Poll \/ FinishPass
Step == ProbeStep \/ PassStep

Next == StartProbe \/ StartPass \/ Step \/ Tick \/ Machine

Spec == Init /\ [][Next]_vars

\* Calls return, and the client keeps making both of them as time goes by. The
\* machine owes nothing.
Fairness == WF_vars(Step) /\ SF_vars(StartProbe) /\ SF_vars(StartPass) /\ SF_vars(Tick)
FairSpec == Spec /\ Fairness

(***************************************************************************)
(* Properties.                                                             *)
(***************************************************************************)

\* Every variable has its type, and a call's locals are live only inside it.
TypeOK ==
  /\ power \in [Gpus -> PowerStates]
  /\ devices \in Seq(Entries)
  /\ live \in [Backends -> Nat] /\ wait \in [Backends -> 0..Never]
  /\ retired \in 0..(CountMod - 1) /\ anonymous \in 0..MaxAnon
  /\ pc \in {"idle", "probe", "adopt", "sample", "read"}
  /\ at \in Nat
  /\ pc = "adopt" => at \in Backends
  /\ pc = "read" => at \in DOMAIN devices
  /\ found \in SUBSET Drivers /\ adopted \in BOOLEAN
  /\ seen \in {"unknown", "suspended", "active"}
  /\ readings \in Seq(Readings)
  /\ roster \in Seq(Entries)

\* One entry per identity key, at every step of every call: probe()'s
\* de-duplication across backends, re-probes and retirements.
OneEntryPerKey ==
  \A i, j \in DOMAIN devices : devices[i].key = devices[j].key => i = j

\* BackendState::live is the number of listed devices of that backend at every
\* step, so "live == 0" in probe() decides the schedule on the truth.
LiveCountsExact == \A b \in Backends : live[b] = Cardinality(OwnedBy(b))

\* A backend is written off (next_probe = max) only while it holds a device:
\* whatever is lost, and when, a backend left with nothing is asked again.
EmptyBackendAskedAgain == \A b \in Backends : wait[b] = Never => OwnedBy(b) # {}

\* Outside probe() the list is in key order: the order survives erasures, and a
\* probe that adopts from any backend re-sorts.
ListedInOrder == pc \notin {"probe", "adopt"} => InKeyOrder(devices)

\* A pass erases while it iterates. Up to the current index the readings are of the
\* listed devices, one each and in order, and what is listed is what was listed when
\* the pass began, in that order: no device is skipped, reported twice or moved.
PassCoversTheSurvivors ==
  pc \in {"sample", "read"} =>
    /\ at <= Len(devices) + 1 /\ Len(readings) = at - 1
    /\ \A i \in 1..(at - 1) : readings[i].key = devices[i].key
    /\ \A i, j \in DOMAIN devices : i <= j =>
         \E k, l \in DOMAIN roster :
           k <= l /\ roster[k] = devices[i] /\ roster[l] = devices[j]

\* What is left to do of a call: iterations, and the steps within one. found has at
\* most one driver for each GPU.
StepsPerBackend == Cardinality(Gpus) + 2
Remaining ==
  CASE pc = "probe"  -> (NBackends + 2 - at) * StepsPerBackend - 1
    [] pc = "adopt"  -> (NBackends + 1 - at) * StepsPerBackend + Cardinality(found)
    [] pc = "sample" -> 2 * (Len(devices) + 1 - at) + 1
    [] pc = "read"   -> 2 * (Len(devices) + 1 - at)
    [] pc = "idle"   -> 0

\* Every call comes to its end, whatever the machine does meanwhile: each step of
\* probe() or sample_all() leaves less to do, also one that erases an entry and stays
\* at its place, and there is always something left until the call returns.
CallsEnd ==
  [][Step => Remaining > 0 /\ Remaining' < Remaining]_vars

\* A GPU that is one physical card appears once, when every backend that sees it
\* describes it by the same address.
OneEntryPerGpu == \A e, f \in Listed : e.gpu = f.gpu => e = f

\* A driver leaves the list only in the iteration of sample_all() that examines
\* it, and only because it is dead or its GPU is gone (or its backend mistakes a
\* failed read for that); probe() never drops or replaces an incumbent.
OnlyTheDeadAreRetired ==
  [][\A e \in Listed :
       \/ e \in Listed'
       \/ /\ pc \in {"sample", "read"} /\ e = Entry
          /\ ~e.healthy \/ power[e.gpu] = "absent" \/ e.backend \in Erratic]_vars

(***************************************************************************)
(* The registry implements GpuList: a claim is an entry's key and backend, *)
(* and a backend is scheduled unless its next_probe is max.                *)
(***************************************************************************)
Claims == {[key |-> e.key, backend |-> e.backend] : e \in Listed}
Scheduled == {b \in Backends : wait[b] # Never}

Promise == INSTANCE GpuList WITH claims <- Claims, scheduled <- Scheduled

\* Every step of every call is a step of GpuList or none: claims are made only by
\* a backend being asked and for unowned keys, end only by loss, and a loss always
\* reschedules the owner.
ImplementsGpuList == Promise!Spec

IsListed(g) == \E e \in Listed : e.gpu = g

\* A GPU that stays present and awake, and is the only one its backend sees, is
\* listed again and again whatever else is lost: the re-probe finds it.
AwakeGpuGetsListed ==
  \A b \in Backends : \A g \in Sees[b] :
    Sees[b] = {g} => (<>[](power[g] = "active") => []<>IsListed(g))

\* A GPU that is gone for good leaves the list, if its backend can notice.
LostGpuGetsUnlisted ==
  \A g \in Gpus : <>[](power[g] = "absent") =>
    <>[](\A e \in Listed : e.gpu = g => e.backend \notin NoticesLoss)
================================================================================
