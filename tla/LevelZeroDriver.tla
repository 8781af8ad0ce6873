---------------------------- MODULE LevelZeroDriver ----------------------------
(***************************************************************************)
(* gtop's LevelZeroDriver: the components it discovers when it is built,   *)
(* and the samples it then takes of them.  Engine activity and power are   *)
(* the growth of a counter over the growth of its timestamp between two    *)
(* samples, so every engine and the power domain is a meter with a         *)
(* baseline of its own.  Any call into the library may be refused.         *)
(***************************************************************************)
EXTENDS Integers, Sequences, FiniteSets, FiniteSetsExt, Functions

CONSTANTS
  Cards   \* the cards looked at, one in each behaviour

Classes == {"all", "compute", "render", "media", "copy"}

\* A card: the class of each engine group, whether each power domain is on a subdevice,
\* what each sensor measures, whether each memory is on the device, what each frequency
\* domain clocks, how many fans there are; the modulus of its counters and timestamps,
\* and, a bound, the ticks between two readings of a meter.
IsCard(c) ==
  /\ c.engines \in Seq(Classes) /\ c.powers \in Seq(BOOLEAN)
  /\ c.sensors \in Seq({"edge", "hotspot", "memory", "other"}) /\ c.modules \in Seq(BOOLEAN)
  /\ c.clocks \in Seq({"gpu", "memory"}) /\ c.fans \in Nat
  /\ c.wrap \in Nat /\ c.gap \in Nat /\ c.gap < c.wrap

ASSUME CardAssumption == \A c \in Cards : IsCard(c)

Power == 0                          \* the meter of the power domain
None == <<0, 0>>                    \* no rate: an unset optional
Nothing == 0                        \* no component

VARIABLES
  hardware, \* the card; never changes
  stamp,    \* the machine: the device's clock
  counter,  \* counter[m]: what meter m has counted
  truth,    \* history: growth of counter and clock since the baseline of m
  pc,       \* where construction or sample() is; "idle" between samples
  next,     \* the engine, or the sensor, a loop has come to
  count,    \* enumerate(): the number of engines announced, and then filled in
  engines,  \* engines_: their number
  types,    \* types[e]: engines_[e].type
  domain,   \* power_domain_, or Nothing
  last,     \* last[m]: the baseline of m, counter and timestamp
  have,     \* the meters with a baseline
  rates,    \* this sample: rates[m], growth over time, or None
  true,     \* history: truth[m] when m was read
  out,      \* this sample: which component each field was taken from
  warm      \* history: the sensors that answered in this sample

machine == <<hardware, stamp, counter, truth>>
card == <<count, engines, types, domain>>
meters == <<last, have, rates, true>>
vars == <<machine, pc, next, card, meters, out, warm>>

EngineTypes == hardware.engines
PowerDomains == hardware.powers
Sensors == hardware.sensors
Modules == hardware.modules
Frequencies == hardware.clocks
Wrap == hardware.wrap
MaxGap == hardware.gap
Meters == {Power} \cup DOMAIN EngineTypes

Unset == [core |-> None, media |-> None,
          edge |-> Nothing, hotspot |-> Nothing, memory |-> Nothing,
          used |-> {}, clock |-> Nothing, clockMemory |-> Nothing,
          throttle |-> Nothing, fan |-> Nothing]
NoRates == [m \in Meters |-> None]

Init ==
  /\ hardware \in Cards
  /\ stamp = 0 /\ counter \in [Meters -> {0, Wrap - 1}]
  /\ truth = NoRates /\ pc = "count" /\ next = 1
  /\ count = 0 /\ engines = 0 /\ domain = Nothing
  /\ types = [e \in DOMAIN EngineTypes |-> "all"]
  /\ last = NoRates /\ have = {}
  /\ rates = NoRates /\ true = NoRates /\ out = Unset /\ warm = {}

\* Time passes between any two calls; some engines work, and power is drawn or not.
Tick ==
  /\ pc \in {"idle", "engines", "power"} /\ have # {}
  /\ \A m \in have : truth[m][2] < MaxGap
  /\ stamp' = (stamp + 1) % Wrap
  /\ \E working \in SUBSET have :
       /\ counter' = [m \in Meters |->
                        IF m \in working THEN (counter[m] + 1) % Wrap ELSE counter[m]]
       /\ truth' = [m \in Meters |->
                      IF m \notin have THEN None
                      ELSE <<truth[m][1] + (IF m \in working THEN 1 ELSE 0), truth[m][2] + 1>>]
  /\ UNCHANGED <<hardware, pc, next, card, meters, out, warm>>

(***************************************************************************)
(* The constructor: discover_components().                                 *)
(***************************************************************************)
\* Nothing is exported, or nothing announced: no engines.
AskCount ==
  /\ pc = "count"
  /\ \/ count' = Len(EngineTypes) /\ count' > 0 /\ pc' = "fill"
     \/ count' = 0 /\ pc' = "domains"
  /\ UNCHANGED <<machine, next, engines, types, domain, meters, out, warm>>

\* Fewer may be there by now than were announced; the rest of the vector is null.
AskHandles ==
  /\ pc = "fill"
  /\ \/ \E filled \in 0..count : count' = filled /\ engines' = filled
     \/ count' = 0 /\ engines' = 0
  /\ pc' = "properties" /\ next' = 1
  /\ UNCHANGED <<machine, types, domain, meters, out, warm>>

\* Refused, the type is left as it was made: zero, which is the group of all engines.
ReadProperties ==
  /\ pc = "properties" /\ next <= engines
  /\ types' \in {types, [types EXCEPT ![next] = EngineTypes[next]]}
  /\ next' = next + 1
  /\ UNCHANGED <<machine, pc, count, engines, domain, meters, out, warm>>

FinishProperties ==
  /\ pc = "properties" /\ next > engines
  /\ pc' = "domains"
  /\ UNCHANGED <<machine, next, card, meters, out, warm>>

\* Mutated: any domain that answers is the card's.
FirstAnswer(answered) == IF answered = {} THEN Nothing ELSE Min(answered)

\* The first domain that answers and is not on a subdevice; the rest is not asked.
WholeCard(answered) ==
  LET whole == {i \in answered : ~PowerDomains[i]}
  IN  IF whole = {} THEN Nothing ELSE Min(whole)

DiscoverPower ==
  /\ pc = "domains"
  /\ \E answered \in SUBSET DOMAIN PowerDomains : domain' = WholeCard(answered)
  /\ pc' = "idle"
  /\ UNCHANGED <<machine, next, count, engines, types, meters, out, warm>>

(***************************************************************************)
(* Meters.                                                                 *)
(***************************************************************************)
\* Mutated: a counter that ran backwards has not grown; the baseline stays.
RateThroughWrap(m) ==
  IF m \notin have \/ stamp <= last[m][2] THEN None
  ELSE <<IF counter[m] < last[m][1] THEN 0 ELSE counter[m] - last[m][1], stamp - last[m][2]>>

\* rate_percent(), and read_power()'s own guard: not before there is a baseline, nor
\* when either has run backwards.
Rate(m) ==
  IF m \notin have \/ stamp <= last[m][2] \/ counter[m] < last[m][1] THEN None
  ELSE <<counter[m] - last[m][1], stamp - last[m][2]>>

Measure(m) ==
  /\ rates' = [rates EXCEPT ![m] = Rate(m)]
  /\ true' = [true EXCEPT ![m] = truth[m]]
  /\ last' = [last EXCEPT ![m] = <<counter[m], stamp>>]
  /\ truth' = [truth EXCEPT ![m] = None]
  /\ have' = have \cup {m}
  /\ UNCHANGED <<hardware, stamp, counter>>

(***************************************************************************)
(* sample()                                                                *)
(***************************************************************************)
StartSample ==
  /\ pc = "idle" /\ pc' = "engines" /\ next' = 1
  /\ rates' = NoRates /\ true' = NoRates /\ out' = Unset /\ warm' = {}
  /\ UNCHANGED <<machine, card, last, have>>

\* An engine that refuses keeps its baseline, and is left out of this sample.
ReadEngine ==
  /\ pc = "engines" /\ next <= engines
  /\ Measure(next) \/ UNCHANGED <<machine, meters>>
  /\ next' = next + 1
  /\ UNCHANGED <<pc, card, out, warm>>

Busier(a, b) == a[1] * b[2] > b[1] * a[2]

\* keep_max() over the engines of some classes that have a rate.
Busiest(of, classes) ==
  LET answered == {e \in 1..engines : of[e] \in classes /\ rates[e] # None}
  IN  IF answered = {} THEN None
      ELSE rates[CHOOSE e \in answered : \A f \in answered : ~Busier(rates[f], rates[e])]

\* Mutated: compute and render win over the group of all.
CoreOfClasses(of) ==
  IF Busiest(of, {"compute", "render"}) # None THEN Busiest(of, {"compute", "render"})
  ELSE Busiest(of, {"all"})

Core(of) ==
  IF Busiest(of, {"all"}) # None THEN Busiest(of, {"all"})
  ELSE Busiest(of, {"compute", "render"})

FinishEngines ==
  /\ pc = "engines" /\ next > engines
  /\ out' = [out EXCEPT !.core = Core(types), !.media = Busiest(types, {"media"})]
  /\ pc' = "power"
  /\ UNCHANGED <<machine, next, card, meters, warm>>

ReadPower ==
  /\ pc = "power" /\ pc' = "sensors" /\ next' = 1
  /\ \/ domain # Nothing /\ Measure(Power)
     \/ UNCHANGED <<machine, meters>>
  /\ UNCHANGED <<card, out, warm>>

\* Mutated: no break after the edge sensors, whose reading goes on to the next place.
PutFallingThrough(slots, kind) ==
  IF kind = "edge" THEN [slots EXCEPT !.edge = next, !.hotspot = next]
  ELSE IF kind = "other" THEN slots ELSE [slots EXCEPT ![kind] = next]

\* A reading goes where its sensor's kind has a place, over what an earlier sensor of the
\* kind has put there.
Put(slots, kind) == IF kind = "other" THEN slots ELSE [slots EXCEPT ![kind] = next]

\* read_temperatures(): a sensor that refuses, or reads nothing above zero, is passed over.
ReadSensor ==
  /\ pc = "sensors" /\ next <= Len(Sensors)
  /\ \/ out' = Put(out, Sensors[next]) /\ warm' = warm \cup {next}
     \/ UNCHANGED <<out, warm>>
  /\ next' = next + 1
  /\ UNCHANGED <<machine, pc, card, meters>>

\* The edge slot makes do with the hotspot.
FinishSensors ==
  /\ pc = "sensors" /\ next > Len(Sensors)
  /\ out' = [out EXCEPT !.edge = IF out.edge # Nothing THEN out.edge ELSE out.hotspot]
  /\ pc' = "rest"
  /\ UNCHANGED <<machine, next, card, meters, warm>>

LastOf(answers) == IF answers = {} THEN Nothing ELSE Max(answers)
FirstOf(answers) == IF answers = {} THEN Nothing ELSE Min(answers)

\* read_memory(), read_frequencies(), read_fan(): memory is summed, of several clocks that
\* answer the last one counts, of fans the first.
ReadRest ==
  /\ pc = "rest" /\ pc' = "sampled"
  /\ \E full \in SUBSET DOMAIN Modules, ticking \in SUBSET DOMAIN Frequencies,
        turning \in SUBSET (1..hardware.fans) :
       \E measured \in SUBSET ticking :
         LET clocks(among, of) == LastOf({i \in among : Frequencies[i] = of})
         IN  out' = [out EXCEPT
               !.used = {i \in full : Modules[i]},
               !.clock = clocks(measured, "gpu"), !.clockMemory = clocks(measured, "memory"),
               !.throttle = clocks(ticking, "gpu"), !.fan = FirstOf(turning)]
  /\ UNCHANGED <<machine, next, card, meters, warm>>

HandOver ==
  /\ pc = "sampled" /\ pc' = "idle" /\ next' = 1
  /\ rates' = NoRates /\ true' = NoRates /\ out' = Unset /\ warm' = {}
  /\ UNCHANGED <<machine, card, last, have>>

Construct == AskCount \/ AskHandles \/ ReadProperties \/ FinishProperties \/ DiscoverPower
Sample ==
  \/ StartSample \/ ReadEngine \/ FinishEngines \/ ReadPower
  \/ ReadSensor \/ FinishSensors \/ ReadRest \/ HandOver

Next == Tick \/ Construct \/ Sample

Spec == Init /\ [][Next]_vars

(***************************************************************************)
(* Properties.                                                             *)
(***************************************************************************)
Fractions == (0..MaxGap) \X (0..MaxGap)

TypeOK ==
  /\ hardware \in Cards
  /\ stamp \in 0..(Wrap - 1) /\ counter \in [Meters -> 0..(Wrap - 1)]
  /\ truth \in [Meters -> Fractions] /\ true \in [Meters -> Fractions]
  /\ pc \in {"count", "fill", "properties", "domains",
             "idle", "engines", "power", "sensors", "rest", "sampled"}
  /\ next \in Nat \ {0} /\ warm \subseteq DOMAIN Sensors
  /\ count \in 0..Len(EngineTypes) /\ engines \in 0..Len(EngineTypes)
  /\ types \in [DOMAIN EngineTypes -> Classes] /\ domain \in 0..Len(PowerDomains)
  /\ last \in [Meters -> (0..(Wrap - 1)) \X (0..(Wrap - 1))] /\ have \subseteq Meters
  /\ rates \in [Meters -> Fractions]

\* No handle is used that the library has not given out (a list that shrinks between
\* the two calls of enumerate()), nor is a meter read that was not discovered.
HandlesAreReal ==
  /\ pc # "fill" => engines <= count
  /\ have \subseteq {Power} \cup 1..engines
  /\ Power \in have => domain # Nothing /\ ~PowerDomains[domain]

\* A rate that is reported is what the meter did between its last two readings,
\* whichever other meters, or this one in between, refused, and whatever wrapped.
RatesAreTrue ==
  \A m \in Meters : rates[m] # None => rates[m] = true[m]

\* The engines of a class that have a rate, by what the card has them be.
Answered(classes) == {e \in 1..engines : EngineTypes[e] \in classes /\ rates[e] # None}
IsBusiestOf(rate, of) ==
  /\ \E e \in of : rate = true[e]
  /\ \A e \in of : ~Busier(true[e], rate)

CoreIsTheWhole ==
  out.core # None =>
    IF Answered({"all"}) # {} THEN IsBusiestOf(out.core, Answered({"all"}))
    ELSE IsBusiestOf(out.core, Answered({"compute", "render"}))

\* When every engine has told its class, utilization is that of the group of all
\* engines, or of the busiest compute or render engine when that group has no rate,
\* and never of any other engine, whatever order they come in.
UtilizationIsOfItsClass ==
  (\A e \in 1..engines : types[e] = EngineTypes[e]) =>
    /\ CoreIsTheWhole
    /\ out.media # None => IsBusiestOf(out.media, Answered({"media"}))

\* The sensors of a kind that answered.
Warm(kind) == {i \in warm : Sensors[i] = kind}
IsOneOf(slot, answers) == IF answers = {} THEN slot = Nothing ELSE slot \in answers

\* Whatever order the sensors come in and whichever answer, every slot has a reading of its
\* own kind if there is one, and only the edge slot makes do with another: with a hotspot,
\* when every edge sensor was asked and none has answered.
EdgeComesFirst ==
  pc \in {"rest", "sampled"} =>
    /\ IsOneOf(out.edge, IF Warm("edge") # {} THEN Warm("edge") ELSE Warm("hotspot"))
    /\ IsOneOf(out.hotspot, Warm("hotspot"))
    /\ IsOneOf(out.memory, Warm("memory"))
================================================================================
