# A verification of gtop

gtop watches the GPUs of one machine. It loads the libraries of three GPU vendors at
run time, reads the files the Linux kernel publishes for two of them, decides which of
all those answers are about the same card, and samples each card once per interval.
It has no threads. What makes it hard is everything it does not control: cards are
plugged in and out and suspend while they are being read, libraries refuse calls,
lists grow between being sized and being filled, counters wrap, card nodes change
hands, and several vendors spell one address in several ways. A unit test reaches few
of these; the modules here are about them.

Paths below are relative to the repository's `src/` directory.

## 1. Inventory

| Part | Code | State it keeps | Operations | Hard behaviours |
|---|---|---|---|---|
| Driver registry | `driver/driver_registry.*`, `gpu_driver.hpp` | `devices_`, per backend `live` and `next_probe`, `retired_`, `anonymous_` | `probe(now)`, `sample_all(now)` | hardware moves between any two driver calls; erase during iteration; unsigned counts; retry schedule; identity across backends |
| NVML driver | `driver/nvml/nvml_driver.*` | `healthy_`, static info | constructor, `sample()` | process lists that grow between two calls, bounded retries, one buffer for two lists, a loss at any call |
| Vendor library handles | `driver/nvml/nvml_api.*`, `driver/amd/adlx_api.*`, `driver/intel/level_zero_api.*`, `platform/dynamic_library.*` | the library, whether it was initialised, who shares it | `load()`, destructors | early returns; destruction order; several API objects over one library |
| ADLX driver | `driver/amd/adlx_driver.*` | references into ADLX, `healthy_` | `sample()` | references outliving the library |
| Intel sysfs driver | `driver/intel/intel_sysfs_driver.*` | the residency baseline, `healthy_` | `sample()` | a counter that wraps or cannot be read; reasons that change between reads |
| Level Zero driver | `driver/intel/level_zero_driver.*` | handles, a baseline per engine and for power | discovery, `sample()` | lists that shrink during discovery; wrapping counters; overlapping groups, any of them silent |
| DRM sysfs, amdgpu | `driver/sysfs/*`, `driver/amd/amdgpu_sysfs_driver.*` | the paths found at construction, `healthy_` | enumeration, probe, `sample()` | a node belongs to another card at the next read |
| PCI addresses | `core/types.cpp`, `platform/*/pci_power.cpp` | none | `normalise_pci_bus_id()`, `pci_power_state()` | spellings that differ in width, case and domain |
| Terminal session | `platform/terminal_setup.*`, `platform/win32/terminal_setup.cpp` | the console as the shell left it, whether it is owed | `initialise()`, moves, `restore()`, destructor | giving back never, twice, or too early |
| Backend lists | `driver/posix/backends.cpp`, `driver/win32/backends.cpp` | none | the order of backends | – |
| Program | `main.cpp` | none of its own | `main()`, `dump_json()`, `run_interactive()` | one probe, a pass that is thrown away, a pause, a pass that counts; cards move throughout |
| Command line | `core/config.*` | the mode and the interval | `parse_arguments()` | a loop that takes values off the list it runs over; which of several words decides |
| JSON export | `core/json_export.*` | the text so far, a flag per open container | `to_json()` | texts the user chose; commas; fields that are unset |
| Process control | `platform/*/process_control.cpp` | none | `terminate_process()` | reused process ids |
| System information, render tokens, vendored headers, tests | the rest | none | – | – |

How they interact: `main.cpp` builds the registry from a platform's backend list and
calls `probe()` and `sample_all()`. `probe()` calls each backend that is due; a backend
loads its library (vendor handles) or enumerates card nodes (DRM sysfs) and returns
drivers. The registry keeps those whose address it does not know, by the key
`normalise_pci_bus_id()` gives. `sample_all()` asks each driver for its health, its
power state (through `pci_power_state()` and the same address) and, unless the card
sleeps, for a sample; it erases drivers that have become unhealthy, which destroys
them, drops their share of the library and makes their backend due again.

What makes each part correct:

* *Registry*: a card is listed once and in a stable order, a driver is dropped only if
  it is dead, no survivor is missed by a pass, a backend that lost everything is asked
  again, and a card that stays awake is found in the end. That a card known to sleep is
  not polled is one branch; that none is ever known to sleep is a finding (section 6).
* *NVML driver*: unhealthy exactly when told of a loss; no process is invented, and none
  that ran throughout is missed unless its list could not be read.
* *Library handles*: what is open and initialised is what the listed drivers account
  for; no call after unloading.
* *Intel sysfs, Level Zero*: a percentage is a true rate of some interval, or absent.
* *DRM sysfs, amdgpu*: a card that stays is served; a driver reports its own card while
  that card keeps its node; a driver with no card is retired.
* *PCI addresses*: one key for one card, never one key for two; the power state of a
  card, which is asked for under that key, is never found (section 6).
* *Terminal*: the console is given back once, as the shell had it.
* *Program, command line, JSON*: the words of the command line are obeyed as the whole
  line means them; a card that is there and awake from the probe on is in the dump with
  its rates; a dump is one JSON value in which every field is found again.

## 2. Modules

| Module | Models | Correspondence |
|---|---|---|
| `Registry` | `driver_registry.cpp`, and the machine | variables are the members and the locals that live across a driver call (`at` is the loop's `i`, `found` the vector `probe()` returned); an action is one iteration, or the part of one between two driver calls |
| `GpuList` | what the registry promises | claims of (key, backend), which only a backend being asked makes and only a loss ends |
| `MCRegistry` | a machine to check it on | a laptop |
| `Program`, `MCProgram` | `main.cpp`, on top of `Registry`, `CommandLine` and `JsonReader` | `stage` is the next statement of `main()`; a call is a `StartProbe` or `StartPass` of the registry and over when `pc` is idle again. A stage of its own, `watch`, is the client of the registry that calls both on a timer |
| `CommandLine` | `parse_arguments()` | a function of the words taken, one value per turn of the loop; `Obeys` is what a command line means, without the loop |
| `JsonText` | `to_json()` and `JsonWriter` | a writer is the text so far, as tokens, and the flags; one operator per method; a loop, and a run of calls of one method, is a fold over what it goes through |
| `JsonReader` | a reader of JSON, and the fields a dump should have | independent of the writer: it knows RFC 8259 and the names of the fields. A reader is what may come next, the open containers, the leaves found, and whether it still understands |
| `NvmlDriver`, `MCNvmlDriver` | constructor and `sample()` | one action per library call, `collect()` in its three calls size, assign, fill |
| `VendorApi` | `load()`, `probe()`, destructors | `unwinding` is the list of destructors C++ will still run; `opens`, `inits`, `refs` are what the process holds of the library |
| `IntelSysfsDriver`, `MCIntelSysfsDriver` | `sample()` | one action per file read |
| `LevelZeroDriver`, `MCLevelZeroDriver` | discovery and `sample()` | one action per engine and per temperature sensor, one for the remaining fields; the two calls of `enumerate()` apart |
| `SysfsCards`, `MCSysfsCards` | enumeration, amdgpu probe and `sample()` | one action per file or link that is read |
| `PciAddress`, `MCPciAddress` | `normalise_pci_bus_id()`, `to_sysfs_address()`, the lookup | a field of an address is the sequence of its digits; the state machine takes two spellings, makes the registry's keys of them (normalising twice, as a driver and the registry do) and asks for the power state with the address a driver keeps |
| `TerminalSession` | the session as a C++ value | a stack of scopes holding sessions; moves between them |
| `RegistryProofs`, `ProgramProofs`, `NvmlDriverProofs`, `VendorApiProofs`, `IntelSysfsDriverProofs`, `LevelZeroDriverProofs`, `SysfsCardsProofs` | theorems about the module of that name; those about the export are in `ProgramProofs` | section 5 |
| `PlatformProofs` | theorems about `TerminalSession` and `PciAddress` | section 5 |

`Program` composes: it extends `Registry`, `CommandLine` and `JsonReader` (which extends
`JsonText`), and its actions are theirs with the program's own state around them; the
readings that a dump prints are those of the registry's last pass. `Registry` instantiates
`GpuList`. Three variables of `Program` are history, read by properties only: `priming`
(the readings of the pass that is thrown away), `steady` (cards that have been awake, and
served without a fault, since the probe) and `since` (how long ago the last backend was
asked).

The drivers meet the registry through constants that say what a backend may do, and each
driver module is where such a constant is justified:

| Constant of `Registry` | Meaning | Where it comes from |
|---|---|---|
| `Blind` | does not list a card in D3cold | NVML, by the comments of `driver_registry.hpp` and the ROADMAP |
| `ReadsPower` | `power_state()` may know the answer; it may always be `kUnknown` | the interface (`gpu_driver.hpp:59`), which the drivers of `tests/mock` use so; those gtop ships always answer `kUnknown` (`PowerIsNeverKnown`), one of the behaviours checked |
| `NoticesLoss` | health ends when the card is gone | `HealthyUntilLost`, `LostSampleIsEmpty` (NVML), `GoneIsNoticed` (Intel), `VacantIsRetired` (amdgpu); Level Zero never does |
| `Erratic` | health may end without a loss | ADLX, for which any failed metrics call is a loss |
| `Stillborn` | a driver may be unhealthy on arrival | the interface allows it and `tests/unit/driver_test.cpp:313` does it; no backend here does (NVML's `probe()` drops such a driver, the others change `healthy_` only in `sample()`), so `RetireDead` is the registry's own caution |
| `Forgetful`, `Fallback` | a driver may be built without the address of its card, and goes by another key or none | the PCI query of NVML's constructor (`nvml_driver.cpp:131`), the uuid beside it |

Data are abstracted as follows. Keys are numbers in the order of the strings: a PCI
address sorts before `anon:`, and that before `uuid:`. Time in the registry is a countdown per
backend (`wait`), whose value `Never` is `TimePoint::max()`. `std::sort` is any
rearrangement that is in order. Files and library calls answer or refuse freely,
within what each module states of its machine. The driver modules call their operations
whenever the object is there and idle (`SysfsCards` may enumerate between any two
samples), which includes every order in which the registry calls them.

## 3. Runs

| Run | Question | States | What the bounds let happen |
|---|---|---|---|
| `laptop` | Do the registry's promises hold, liveness included, on a hybrid laptop? | 21 thousand | three backends, two of them on one card; a dGPU that sleeps, is removed, is hidden while asleep, is lost without cause, and may be found without its address or dead; two retry ticks |
| `workstation` | Does the program do what it is told, and the registry keep its list, whoever calls it how often? | 510 thousand | every command line of up to three of twelve words; two cards seen by two backends each, one of which never notices a removal and cannot tell who its second card is; two anonymous keys, so one after a retirement; two contents of the texts and of the samples, one with every character that is escaped |
| `nvml_sample` | Is every sample of an NVML driver sound? | 450 thousand | two processes and both lists; or four processes and one list that can grow at each of the three attempts |
| `library_lifetimes` | Is a library held for as long as it is needed, and no longer? | 500 thousand | three cards, four API objects: a probe after a loss overlaps two earlier ones; `MaxStray` initialisations that ADLX grants without handing over its system |
| `intel_sysfs` | Are utilization and throttle reasons true? | 1.3 million | a counter that wraps within a sample; two reason files and a reason without a file; any file unreadable, of a card that is there or not |
| `level_zero` | Are rates and fields taken from what they say? | 1.9 million | cards with the ALL group, without it, and with tiles; counters that wrap; a hotspot sensor asked before two edge sensors |
| `sysfs_cards` | Do drivers of card nodes serve and report their cards? | 3.6 million | two cards of different kernel drivers on two nodes: exchange, reuse and emptiness of a node at every read |
| `pci_spellings` | One key for one card? | 520 thousand | every pair of 256 spellings, long, short, padded, capitalised and nonsense |
| `console_moves` | Is the console owed by one session at most? | 200 | four scopes: a chain of moves with an empty session at either end |
| `comment_power_state` | Is a card that sleeps seen to sleep? | violation | see 6 |
| `comment_engines` | Are the engines of a process ones it used? | violation | see 6 |
| `comment_all_group` | Is utilization of the ALL group the card's? | violation | see 6 |

`TypeOK` of the modules other than `Registry` states the types of their variables and is
part of the inductive invariants of section 5; it holds in the runs above and is not among
the properties they report.

Every property of a passing run has a mutant of the code that breaks it; the mutated
operators stand in the modules, marked "Mutated", next to what they change.

Why small instances are enough: backends and cards interact in the registry through
the key and the count only, so two of each on one key give every interaction; a
rate is a function of one baseline and one reading; `collect()` has three attempts, so
four processes exhaust it; a node has a card, another one, or none; an option of the
command line looks one word ahead at most, so that three words have an option, its
value and one that comes before or after; the writer's commas depend on whether a
container is empty, and a list of two and an empty one occur at every level.

Bounds, by name. `Retry` (ticks of the retry interval), `MaxAnon` (anonymous keys; at
most 10, since beyond that decimal suffixes no longer sort as numbers), `CountMod`
(the retirement counter is kept modulo this, nothing reads it but a step that raises
it), `Wrap` and `MaxGap` (modulus of a counter, and the ticks between two readings;
the code cannot tell a longer gap from a wrap), `MaxLag` (ticks between the timestamp
and the read), `Apis` (API objects, reused when their last driver is gone),
`MaxStray` (initialisations of ADLX that came to nothing), `MaxSessions`, `Nodes`, `Hwmons`, and `CommandLines`, `Infos`, `Samples` (what the user types
and the drivers say). A behaviour that would need an anonymous key beyond `MaxAnon` is cut
off where it would.

Deadlock is checked in `laptop` and in the Level Zero, sysfs and console runs. It is off in
`nvml_sample` and `intel_sysfs` (an unhealthy driver is never sampled again), in
`library_lifetimes` and `workstation` (the program quits) and in `pci_spellings` (each pair is one
behaviour of one step).

## 4. Fairness

Only `Registry` states fairness, in `FairSpec`:

* `WF(Step)`: a call that was entered goes on; nothing in `probe()` or `sample_all()`
  waits for another actor.
* `SF(StartProbe)`, `SF(StartPass)`: the client keeps making both calls. This is the
  interactive loop that `driver_registry.hpp` describes (probing again on a timer). It
  is strong because a call of the other kind disables the start in between. The
  program of today calls each once or twice; for it the safety properties hold, the
  liveness properties are about the client the registry was written for.
* `SF(Tick)`: time goes by. Strong, because a tick happens only between calls.

The machine is never fair: cards need not come back, wake or sleep. So
`AwakeGpuGetsListed` and `LostGpuGetsUnlisted` have premises of the form "from some
time on, always".

## 5. Proofs

Every theorem below holds for all values of the constants that the assumptions allow;
TLAPS checks each to the last leaf. Of the properties that the passing runs check, all are
theorems but the two liveness properties of `Registry`.

The scheme is the same everywhere. A property that speaks of the end of a call is not
inductive, for what it says is decided by reads several steps before; an invariant `IInv`
says at each step of the call what has been established so far. TLC checked each `IInv`
on the run of its module before it was proved. There is one step per action under each
`Next...` lemma, and the theorems are consequences of the invariant.

### Assumptions

| Assumption | Says | Why the code justifies it |
|---|---|---|
| `BackendAssumption`, `CounterAssumption` (`Registry`) | types; finitely many cards | a machine has finitely many |
| `IdentityAssumption` (`Registry`) | no identity collides with an anonymous key; at most ten of those | the prefix `anon:`; with more, decimal suffixes do not sort as numbers |
| `LinesAssumption` (`Program`), `NumeralAssumption` (`CommandLine`) | types of the command lines, and of what a text reads as | – |
| `ContentsAssumption` (`Program`) | shapes of what is dumped: the texts of a reading, a process and the host are sequences, of any characters; a number is not one of the seven characters that JSON gives a meaning of their own | the members of `GpuStaticInfo`, `DeviceSample`, `ProcessInfo` and `DumpMetadata`; a number is written by `to_string` or `to_chars` |
| `FieldsAssumption`, `FieldsAreThere` (`PciAddress`) | a field is a sequence of digits, `NotHex` standing for any other character; only the domain may be missing | any characters between the separators of an address |
| `LibraryAssumption`, `SomethingIsAsked` (`NvmlDriver`) | shapes of a library; it exports some metric or process list | of a library that answers nothing but a name no sample could tell that a GPU is gone; the code looks each entry point up on its own, and every NVML has some of them |
| `VendorAssumption`, `StorageAssumption` (`VendorApi`) | there is storage for one more API object than there are cards | each listed driver holds on to at most one, and a probe makes one |
| `TimeAssumption`, `ReasonAssumption` (`IntelSysfsDriver`) | the gap between two readings is shorter than a wrap of the counter | the code cannot tell a longer one either (section 3) |
| `CardAssumption` (`LevelZeroDriver`) | shapes of a card | – |
| `CardsAssumption` (`SysfsCards`) | at least one node and one card, each card of one kernel driver | with none there is nothing to enumerate |
| `SessionsAssumption` (`TerminalSession`) | a number of scopes | – |
| `IdentitiesAgree`, in `GpusAppearOnce` alone | all backends give a card one identity whenever asked, and have its address | what `PciAddress` is about |
| `IdentitiesDiffer`, in `SteadyGpusHaveRates` alone | no two cards have one identity, whoever is asked and with an address or without | addresses and uuids are unique; the cards of `workstation` satisfy it |

### Registry (`RegistryProofs`)

`IInv` is `TypeOK` together with `ListInv`. Neither the types nor the
counts are inductive alone. `live` stays a natural number because it is exact; it
stays exact because the erased entry is the only one with its key, so that erasing it
takes one element from a set; keys stay unique because an anonymous key in the list is
below the counter (`AnonymousKeysAreOld`); and the schedule of an empty backend
(`EmptyBackendAskedAgain`) is kept by a loss only because the count tells when it is
empty. The lemmas about lists say what `push_back`, `erase` and `sort` do to the set of
entries; then there is one lemma per action that changes the list.

| Theorem | Says |
|---|---|
| `RegistryInvariant`, `TypeCorrect` | `IInv`, and so `TypeOK` |
| `KeysAreUnique` | no two entries of one key |
| `CountsAreExact` | `live` counts the entries of each backend |
| `NoBackendForgotten` | a backend with no entry is due, or will be |
| `ListIsInOrder` | outside a probe the list is sorted (`OrderInv` adds: and in a probe that has adopted nothing yet) |
| `GpusAppearOnce` | under `IdentitiesAgree`, no card is listed twice |
| `RetirementsAreJustified` | only an entry whose driver is dead is erased |
| `PassesCoverTheSurvivors` | a pass reports every entry it leaves listed, once and in order, whatever it erases on the way (`PassInv`: up to the index, readings and list agree; what is listed is a subsequence of what was) |
| `CallsComeToAnEnd` | every step of a call strictly decreases what is left of it (`LoopInv` bounds the index of `probe()`; `FoundIsFew` bounds what a backend returns by the number of cards), so that no call runs for ever |
| `RegistryImplementsGpuList` | every step of `Registry` is a step of `GpuList` or none (`AskedIsDue`) |

### Program and command line (`ProgramProofs`)

A step of the program is a step of the registry, or destroys it, which leads back to the
registry's initial state (`ProgramStep`); so what holds of `Registry` under its own client
holds under `main()` and under any other.

| Theorem | Says |
|---|---|
| `ProgramKeepsRegistry`, `ListIsKeptForEveryClient`, `CallsEndForEveryClient` | the invariants of the registry, its safety properties of section 3's `workstation`, and the end of every call, under every client |
| `BackendsAreLeftToRest` | `ReprobeIsRare`. `RestInv`: the last backend's wait and the time since it was asked make up the retry interval, at each step of each call |
| `CommandLinesAreObeyed` | `ArgumentsAreObeyed` for every command line, of any length. `LoopAt` relates the loop after `i` words to the options among them; the induction is on `i` |
| `SteadyGpusHaveRates` | `SteadyGpuHasRates`. The parts: `StageInv` (which call `main()` is in), `SteadyInv` (who is awake, is sampled), `ProbeInv` (each backend that has been asked has found the cards it sees: found, or listed once adoption has come to them), `KeysAreNames` (so that a duplicate is of the same card), `PolledInv` (both passes polled them) |

### JSON export (`ProgramProofs`)

| Theorem | Says |
|---|---|
| `DumpsReadBack` | `DumpReadsBack`. Whatever the texts are, and however many devices and processes there are, `to_json()` prints one value in which the reader finds each field under its path, once, and nothing else |

The argument follows the writer and keeps the reader beside it. `Writing(w, base, top, L)`
says that a reader of what `w` has written understands it, has the leaves `L`, stands in
the container whose frame is `top` within those of `base`, and expects what may come next
there; and that the writer's flags are what they must be: the innermost is set exactly if
the container is empty, the others are cleared. `Awaiting` says the same between a key and
its value. Each method of `JsonWriter` leads from one to the other (`ItemInObject` and its
companions, `FieldIsOpened`, `ArrayFieldIsClosed`, ...), and `InObject` and `InArray` restate
the two in terms of the names used so far, or the number of elements, and the path. A key is
new in its container because the lists of names have no name twice and none in common
(`TextKeyList`, `MetricKeyList`, ...), and the path of a leaf is its own because of that. A
string is read back as it was, character by character: `QuotedIsRead` takes the three kinds
of character apart, those with a letter for an escape, those with a code, and the rest.
(Two control characters stand in the model for the 29 that have no letter: one for each
digit that their codes may begin with, `ControlCode`.) What `main()` prints satisfies the
hypotheses (`PrintedInv`).

The recursions, over the characters of a string, the tokens of a text, the items of a run,
are all `Fold`, and the induction over each is that of `UpTo`. A function is defined by
recursion in the model, and that the definition has a solution is proved for each fold
(`PrefixFunction` does it for the command line).

### The drivers

| Module | Inductive invariant | Theorems |
|---|---|---|
| `NvmlDriver` | the vector has room for what the library was told (`CollectInv`); only a loss is taken for one (`LossInv`); in a sample of a lost device nothing has been answered, and nothing asked while `healthy_` stands (`QuietInv`); what is in the vector, and in the rows so far, bounded by who runs and who ran throughout (`SeenInv`, `BufferInv`, `MergeInv`) | `NoDriverGivenUpEarly`, `LossIsNoticedAtOnce`, `NoWritePastTheEnd`, `RowsAreOfProcesses`, `StayersAreNotMissed` |
| `VendorApi` | an account of every count at every step of every destructor (`AccountInv`): the shares of an API object, the handles on the library, its initialisations and its references are what the listed drivers, the drivers being built, the caller, and the destructors still to run add up to, and those that a load has lost (`stray`, section 6) | `ServedAsLongAsTheyLive`, `NothingIsCalledUnloaded` (an action property), `NothingIsLeaked` |
| `IntelSysfsDriver` | the counter is the baseline and what the GPU has slept since, or a turn less (`CounterInv`); the window between two timestamps, but for the lags (`WindowInv`); the reasons read, or found unreadable, so far (`ReadingInv`) | `UtilizationIsTrue`, `SteadyReasonsAreSeen`, `FlagsHaveCauses`, `RemovalIsNoticed` |
| `LevelZeroDriver` | each meter is its baseline and what it has grown by, or a turn less (`MeterInv`); a rate is of a time that is not zero (`RateInv`); nothing is measured during discovery (`ConstructInv`); until the last sensor was asked, each slot has a reading of a sensor of its kind if one has answered, and none otherwise (`SensorInv`) | `OnlyRealHandles`, `RatesTellTheTruth`, `UtilizationKnowsItsClass`, `HotspotIsAFallback` |
| `SysfsCards` | a card that stays is to be visited, being read, collected, or has its driver (`EnumInv`); a node that has not changed hands belongs to the card of the address (`SameInv`); a sample of an empty node has read nothing (`VacantInv`); one driver for an address (`DriversDiffer`: two drivers become equal when the node of both changes hands, so without it the retirement of one would leave the other) | `SteadyCardsAreServed`, `CardsReportTheirOwn`, `VacantCardsAreRetired` |
| `TerminalSession` | types with `OneSessionOwes` itself, which is inductive: a move takes from one session what it gives to the other | `OneOfThemOwes` |
| `PciAddress` | the keys and the power state are what the code makes of the spellings; the rest is arithmetic, below | `KeysAreCards`, `PowerIsNeverKnown` |

Of addresses the theorems hold for fields of any length and any digits. A field without
zeros in front is the only one of its value (`OneSpellingAValue`), zeros in front change
nothing (`ZerosInFront`), and a value below 16^n needs no more than n digits (`WideIsLarge`);
so a stripped and padded field stands for its value (`StrippedField`, `PaddedField`), the key
of a spelling that is understood stands for its card, normalising twice is normalising once
(`NormaliseTwice`). The name that `to_sysfs_address()` makes has no bus, of whatever
spelling, and no directory of the kernel has such a name (`NoDirectoryIsFound`), so that
`pci_power_state()` never knows (`PowerIsNeverKnown`).

### What stays model-checked

* Liveness (`AwakeGpuGetsListed`, `LostGpuGetsUnlisted`) and ENABLED: out of the prover's
  reach.

The inductions over words, digits, characters and tokens are had without an operator as
a parameter: `UpTo` states induction of a set of numbers, by the least one that would be
missing, and `PrefixFunction` gives the function that the recursive definition chooses.

## 6. Where the code and its comments part

Three are shown by runs, as counterexamples of the comment's claim:

* `comment_power_state`: `pci_power.hpp:30` takes an address "in any common spelling" and
  `:27` has an answer for a card that sleeps; `to_sysfs_address()` looks for the second
  colon and, finding one, goes on from there (`posix/pci_power.cpp:29-35`), so that the
  bus is lost with a domain (`0000:01:00.0` becomes `0000:00.0`) as without one. There is
  no such directory; the answer is `kUnknown` for every card, and the registry samples,
  and so wakes, the sleeping cards that `driver_registry.hpp:80` says are not polled.
* `comment_engines`: when the graphics list is refused after the compute list was
  read, `collect()` returns with the old buffer, and compute processes are absorbed as
  graphics ones (`nvml_driver.cpp:356`).
* `comment_all_group`: an engine whose properties call is refused keeps type zero, which
  is the group of all engines (`level_zero_driver.cpp:125`).

Others, met while modelling and stated in words only:

* `driver_registry.hpp:30` does not ask again a backend that returned devices; the code
  counts those adopted, so a backend of duplicates is asked every interval. `ReprobeIsRare` bounds that: not
  more often, whoever calls and whatever fails.
* After a loss, a later backend may take over a card from the preferred one
  (`driver_registry.cpp:132`, `posix/backends.cpp:35`).
* A card that suspends between `power_state()` and `sample()` is sampled
  (`driver_registry.cpp:107`; the ROADMAP says a suspended card is never woken), also
  if the driver could tell that it slept.
* An anonymous card can be adopted twice when its backend is asked again
  (`driver_registry.hpp:75`, `.cpp:47`). `OneEntryPerGpu` is checked where every card
  has an identity.
* A second terminal session made while the first owes the console would save gtop's
  settings as the shell's. `main.cpp` never does, which is a guard of the model;
  `tests/unit/platform_test.cpp:181-183` does, and says nothing of the console afterwards.
* `AdlxApi::load()` returns when `initialize()` has succeeded but handed over no system
  (`adlx_api.cpp:70-73`): `initialised_` is not set yet, so nobody calls `terminate()` and
  the initialisation is lost, each time the backend is asked. `NothingLeaks` counts these
  and says there are no others.
* A throttle reason that is cleared between the roll-up and its file, or whose file cannot
  be read (`intel_sysfs_driver.cpp:180`), is reported as the catch-all bucket (`:199`).
* Domains above `ffff` have two keys.
* `drm_sysfs.hpp:40` promises card-number order; the devices are sorted by address.
* A temperature sensor with an unknown label falls to its index, which the comment in
  `read_hwmon` keeps for sensors with no label.
* `AmdgpuSysfsDriver` asks for its node, not for whose it is: after an exchange it
  reports another card's readings. `ReadingsAreOwn` is stated for nodes that have not
  changed hands, and fails without that premise.
* `gpu_driver.hpp:15` has `healthy()` mean that a device is gone, and not that one query
  failed. ADLX takes any failed metrics call for a loss (`adlx_driver.cpp:131`), and Level
  Zero has no loss at all (`level_zero_driver.hpp:95`): its driver of a card that was
  removed is listed, and sampled in vain, until the program ends.
* `--dump-json=x` is accepted (`config.cpp:87`); `posix/process_control.cpp:76` says
  `kill(-1)` is rejected, and only zero is.

## 7. Assumptions about what is outside the code

Libraries and the kernel are modelled from how the code uses them. NVML answers a
sizing call with the number of processes at that moment; a lost card answers so to
every call. The devices a library reports identify themselves. ADLX counts a second
initialisation or refuses it. The residency counter of i915 does not restart while
its card is bound, and advances while it sleeps. A Level Zero counter that stands
still or wraps is allowed; one that jumps is not. Two cards never have one node, and a
card has one hwmon directory or none. `readdir` on an open sysfs directory does not
fail, so the exception caught at `drm_sysfs.cpp:360` is not modelled.

## 8. Not modelled

* Values and units of metrics that pass through without state, parsing of numbers, of DPM
  tables and of `pci.ids`, names and versions: conversions without a decision that the
  properties here tell apart.
* In the JSON export, layout and the digits of a number; that the texts are valid UTF-8,
  which the writer takes for granted and does not ensure.
* Process control: `terminate_process()` is not called by anything yet, so there is no
  use of a process id to be too late for.
* The detection of terminal capabilities (environment variables, no state), system
  information (one query), render tokens (constants), vendored headers and tests.

## 9. Plan

The order was: the registry first, since every reading passes through it; then the
parts whose concurrency with the machine is hardest (NVML's lists, the lifetime of
libraries, card nodes, counters); then the pure parts, and the program that puts them
together. To come:

1. A composition of `SysfsCards`' drivers with the registry's schedule, so that an
   address may outlive its card.
2. `ProcessControl` with reused ids, once the program calls it; the ADLX driver's sample;
   Level Zero's static information.
3. Abstract specifications: a process table (what a sample may say of processes) that
   `NvmlDriver` implements, and a resource that is held while somebody uses it, which
   `VendorApi` implements.
