-------------------------------- MODULE Program --------------------------------
(***************************************************************************)
(* gtop as a program (src/src/main.cpp): the command line, the registry    *)
(* and the export put together.  main() parses its arguments and makes a   *)
(* fixed sequence of calls, during each of which the machine moves on as   *)
(* Registry lets it; "watch" is the other client, the one that             *)
(* driver_registry.hpp is written for, which calls probe() and             *)
(* sample_all() in any order for as long as it likes.                      *)
(***************************************************************************)
EXTENDS Registry, CommandLine, JsonReader

CONSTANTS
  CommandLines,  \* the argument vectors, without argv[0]
  Infos,         \* what static_info() may say: texts and limits
  Samples,       \* what sample() may return
  Host           \* DumpMetadata and the version: three texts

ASSUME LinesAssumption ==
  \A line \in CommandLines : line \in Seq([name : STRING, value : STRING])

ASSUME ContentsAssumption ==
  /\ \A info \in Infos : HasTexts(info.texts, TextKeys) /\ HasNumbers(info.limits, LimitKeys)
  /\ \A sample \in Samples : IsSample(sample)
  /\ HasTexts(Host, HostKeys)

kExitOk == 0
kExitUsage == 2
Running == 255           \* no exit status yet
kMaxPriming == 250       \* ms

VARIABLES
  argv,      \* the arguments, until they are parsed
  config,    \* parse_arguments()'s result
  stage,     \* what main() does next, or "watch"
  gap,       \* ms slept between the two passes
  status,    \* the exit status
  printed,   \* the readings given to to_json()
  priming,   \* history: the readings of the discarded pass
  steady,    \* history: GPUs awake, and served without a fault, since probe()
  since      \* history: ticks since the last backend was asked (Retry: so long ago, or never)

own == <<argv, config, stage, gap, status, printed, priming, steady, since>>
progVars == <<vars, own>>

ProgramInit ==
  /\ Init
  /\ \/ stage = "parse" /\ argv \in CommandLines
     \/ stage = "watch" /\ argv = <<>>
  /\ config = ParseArguments(<<>>)
  /\ gap = 0 /\ status = Running /\ printed = <<>>
  /\ priming = <<>> /\ steady = {} /\ since = Retry

\* return from main(): the registry and its drivers are destroyed. What the machine
\* does afterwards is of no interest.
Exit(code) ==
  /\ stage' = "exit" /\ status' = code
  /\ gap' = 0 /\ priming' = <<>> /\ steady' = {} /\ argv' = <<>>
  /\ UNCHANGED since
  /\ power' = InitialPower /\ devices' = <<>>
  /\ live' = [b \in Backends |-> 0] /\ wait' = [b \in Backends |-> 0]
  /\ retired' = 0 /\ anonymous' = 0 /\ pc' = "idle" /\ at' = 0
  /\ found' = {} /\ adopted' = FALSE /\ seen' = "unknown" /\ readings' = <<>>
  /\ roster' = <<>>

Parse ==
  /\ stage = "parse"
  /\ config' = ParseArguments(argv)
  /\ IF config'.error # "none" THEN Exit(kExitUsage)
     ELSE IF config'.mode \in {"help", "version"} THEN Exit(kExitOk)
     ELSE /\ stage' = "probe" /\ argv' = <<>>
          /\ UNCHANGED <<vars, gap, status, priming, steady, since>>
  /\ UNCHANGED printed

(***************************************************************************)
(* dump_json() and run_interactive(). A call is over when pc is idle again.*)
(***************************************************************************)
CallProbe ==
  /\ stage = "probe" /\ StartProbe
  /\ stage' = IF config.mode = "dump" THEN "prime" ELSE "look"
  /\ steady' = {g \in Gpus : power[g] = "active"}
  /\ UNCHANGED <<argv, config, gap, status, printed, priming, since>>

\* Mutated: no priming pass.
SkipPriming ==
  /\ stage = "prime" /\ pc = "idle"
  /\ stage' = "pause" /\ readings' = <<>>
  /\ UNCHANGED <<power, devices, live, wait, retired, anonymous, pc, at, found, adopted, seen,
                 roster, argv, config, gap, status, printed, priming, steady, since>>

CallPrimingPass ==
  /\ stage = "prime" /\ StartPass
  /\ stage' = "pause"
  /\ UNCHANGED <<argv, config, gap, status, printed, priming, steady, since>>

\* The pass's result is dropped; sleep_for(std::min(interval, kMaxPriming)).
Pause ==
  /\ stage = "pause" /\ pc = "idle"
  /\ stage' = "sample" /\ priming' = readings
  /\ gap' = Min({config.interval, kMaxPriming})
  /\ UNCHANGED <<vars, argv, config, status, printed, steady, since>>

\* run_interactive()'s test of registry.empty().
Look ==
  /\ stage = "look" /\ pc = "idle"
  /\ IF devices = <<>> THEN Exit(kExitOk)
     ELSE /\ stage' = "sample"
          /\ UNCHANGED <<vars, argv, gap, status, priming, steady, since>>
  /\ UNCHANGED <<config, printed>>

CallPass ==
  /\ stage = "sample" /\ StartPass
  /\ stage' = "print"
  /\ UNCHANGED <<argv, config, gap, status, printed, priming, steady, since>>

\* The sample of a GPU that was reported, not polled.
Asleep ==
  [time |-> "0", power_state |-> "suspended",
   metrics |-> [k \in ToSet(MetricKeys) |-> Unset],
   throttle |-> [k \in ToSet(ThrottleNames) |-> FALSE], processes |-> <<>>]

DeviceReading(r, info, sample) ==
  [texts |-> [info.texts EXCEPT !.pci_bus_id = <<Decimal(r.key)>>],
   limits |-> info.limits, sample |-> IF r.polled THEN sample ELSE Asleep]

PrintDump ==
  /\ stage = "print" /\ pc = "idle" /\ config.mode = "dump"
  /\ \E info \in Infos, sample \in Samples :
       printed' = [i \in DOMAIN readings |-> DeviceReading(readings[i], info, sample)]
  /\ Exit(kExitOk)
  /\ UNCHANGED config

\* run_interactive() prints a line for each reading.
PrintList ==
  /\ stage = "print" /\ pc = "idle" /\ config.mode = "run"
  /\ Exit(kExitOk)
  /\ UNCHANGED <<config, printed>>

MainStep ==
  Parse \/ CallProbe \/ CallPrimingPass \/ Pause \/ Look \/ CallPass \/ PrintDump \/ PrintList

(***************************************************************************)
(* What goes on meanwhile.                                                 *)
(***************************************************************************)
\* The GPUs whose driver is born dead or gives up in this step.
Faulted == {d.gpu : d \in {f \in found' : ~f.healthy}}
           \cup {e.gpu : e \in {f \in Listed : f \notin Listed'}}

KeepSteady == steady' = {g \in steady \ Faulted : power'[g] = "active"}

CallStep ==
  /\ Step /\ KeepSteady
  /\ since' = IF AskBackend /\ at = NBackends /\ stage = "watch" THEN 0 ELSE since
  /\ UNCHANGED <<argv, config, stage, gap, status, printed, priming>>

Watch ==
  /\ stage = "watch"
  /\ \/ (StartProbe \/ StartPass) /\ UNCHANGED since
     \/ Tick /\ since' = Min({since + 1, Retry})
  /\ UNCHANGED <<argv, config, stage, gap, status, printed, priming, steady>>

MachineStep ==
  /\ stage # "exit" /\ Machine /\ KeepSteady
  /\ UNCHANGED <<argv, config, stage, gap, status, printed, priming, since>>

ProgramNext == MainStep \/ CallStep \/ Watch \/ MachineStep

ProgramSpec == ProgramInit /\ [][ProgramNext]_progVars

(***************************************************************************)
(* Properties.                                                             *)
(***************************************************************************)

\* The command line is obeyed as it stands, whatever order its words come in: the
\* loop of parse_arguments(), which takes values off the list as it goes, agrees with
\* the meaning of the whole line.
ArgumentsAreObeyed == stage = "parse" => Obeys(argv, ParseArguments(argv))

\* A GPU that was awake, and served without a fault, from the probe on is in the dump
\* and has its rates: it was read by the discarded pass too, between 50 and 250 ms
\* before, whatever happened to the other GPUs in either pass (main.cpp:50).
SteadyGpuHasRates ==
  stage = "print" /\ pc = "idle" /\ config.mode = "dump" =>
    \A g \in steady : (\E b \in Backends : g \in Sees[b]) =>
      /\ gap \in kMinInterval..kMaxPriming
      /\ \E e \in Listed : /\ e.gpu = g
                           /\ \A pass \in {priming, readings} :
                                [key |-> e.key, polled |-> TRUE] \in ToSet(pass)

\* What a dump prints is one JSON value, without a key given twice, and a script finds
\* in it every field of every reading, whatever texts are in them; a metric that is
\* unset is null and nothing else (json_export.hpp:10).
DumpReadsBack ==
  stage = "exit" /\ status = kExitOk /\ config.mode = "dump" =>
    Leaves(ToJson(printed, Host)) = {DumpLeaves(printed, Host)}

\* However often its devices fail and whenever the client probes, a backend (the last
\* one, whose devices may all be duplicates) is not asked again within the retry
\* interval: libraries are not loaded, and drivers not built, once a pass
\* (driver_registry.cpp:85, :132).
ReprobeIsRare ==
  stage = "watch" /\ pc = "probe" /\ at = NBackends /\ Due(at) => since = Retry
================================================================================
