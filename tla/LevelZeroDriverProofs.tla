------------------------- MODULE LevelZeroDriverProofs -------------------------
(***************************************************************************)
(* That a LevelZeroDriver uses the handles it was given and reports what   *)
(* its meters did, for every card: any number of engines, power domains,   *)
(* sensors, memories and clocks, any modulus of the counters.              *)
(***************************************************************************)
EXTENDS LevelZeroDriver, WellFoundedInduction, TLAPS

(***************************************************************************)
(* The inductive invariant.                                                *)
(***************************************************************************)
\* A counter, or the clock, is its baseline and what it has grown by since, or a whole
\* turn less than that.
Counting(m) ==
  /\ truth[m][1] <= truth[m][2]
  /\ counter[m] \in {last[m][1] + truth[m][1], last[m][1] + truth[m][1] - Wrap}
  /\ stamp \in {last[m][2] + truth[m][2], last[m][2] + truth[m][2] - Wrap}

MeterInv == \A m \in have : Counting(m)

\* out is a record of these fields.
Fields == {"core", "media", "edge", "hotspot", "memory", "used", "clock", "clockMemory",
           "throttle", "fan"}
OutInv == DOMAIN out = Fields

\* A rate is the truth, over a time that is not zero.
RateInv ==
  \A m \in Meters : rates[m] # None => rates[m] = true[m] /\ rates[m][2] > 0

\* Nothing is measured before the components have been discovered, a sample says nothing
\* of the engines before all of them have been asked, and the power domain, when there is
\* one, is the whole card's before it is ever read.
Constructing == {"count", "fill", "properties", "domains"}
ConstructInv ==
  /\ pc \in Constructing => have = {}
  /\ pc \in {"count", "fill"} => engines = 0
  /\ pc \notin {"power", "sensors", "rest", "sampled"} => out.core = None /\ out.media = None
  /\ domain # Nothing => ~PowerDomains[domain]

\* As long as there are sensors to ask, every slot is of its own kind, the edge slot too.
SensorInv ==
  pc \notin {"rest", "sampled"} =>
    /\ IsOneOf(out.edge, Warm("edge")) /\ IsOneOf(out.hotspot, Warm("hotspot"))
    /\ IsOneOf(out.memory, Warm("memory"))

IInv ==
  /\ TypeOK
  /\ MeterInv /\ RateInv
  /\ OutInv /\ ConstructInv /\ HandlesAreReal
  /\ UtilizationIsOfItsClass /\ SensorInv /\ EdgeComesFirst

(***************************************************************************)
(* The least and the greatest of a set of numbers.                         *)
(***************************************************************************)
LEMMA MinOfSet ==
  ASSUME NEW S, S \subseteq Nat, S # {}
  PROVE  Min(S) \in S /\ \A n \in S : Min(S) <= n
<1>1. PICK m \in S : \A n \in S : <<n, m>> \notin OpToRel(<, Nat)
  BY WFMin, NatLessThanWellFounded, Zenon
<1>2. \A n \in S : ~(n < m)
  BY <1>1 DEF OpToRel
<1>3. \A n \in S : m <= n
  BY <1>2
<1> QED  BY <1>3 DEF Min

(***************************************************************************)
(* The card.                                                               *)
(***************************************************************************)
LEMMA CardIs ==
  ASSUME TypeOK
  PROVE  /\ Wrap \in Nat /\ MaxGap \in Nat /\ MaxGap < Wrap
         /\ EngineTypes \in Seq(Classes) /\ PowerDomains \in Seq(BOOLEAN)
         /\ Sensors \in Seq({"edge", "hotspot", "memory", "other"})
         /\ DOMAIN EngineTypes = 1..Len(EngineTypes) /\ Len(EngineTypes) \in Nat
         /\ DOMAIN PowerDomains = 1..Len(PowerDomains) /\ Len(PowerDomains) \in Nat
         /\ Meters = 0..Len(EngineTypes)
<1>1. IsCard(hardware)
  BY CardAssumption DEF TypeOK
<1>2. /\ Wrap \in Nat /\ MaxGap \in Nat /\ MaxGap < Wrap
      /\ EngineTypes \in Seq(Classes) /\ PowerDomains \in Seq(BOOLEAN)
      /\ Sensors \in Seq({"edge", "hotspot", "memory", "other"})
  BY <1>1 DEF IsCard, Wrap, MaxGap, EngineTypes, PowerDomains, Sensors
<1>3. /\ DOMAIN EngineTypes = 1..Len(EngineTypes) /\ Len(EngineTypes) \in Nat
      /\ DOMAIN PowerDomains = 1..Len(PowerDomains) /\ Len(PowerDomains) \in Nat
  BY <1>2
<1>4. Meters = 0..Len(EngineTypes)
  BY <1>3 DEF Meters, Power
<1> QED  BY <1>2, <1>3, <1>4

LEMMA SameCard ==
  ASSUME [Next]_vars
  PROVE  /\ hardware' = hardware
         /\ Wrap' = Wrap /\ MaxGap' = MaxGap /\ Meters' = Meters /\ Fractions' = Fractions
         /\ EngineTypes' = EngineTypes /\ PowerDomains' = PowerDomains /\ Sensors' = Sensors
         /\ NoRates' = NoRates
<1>1. hardware' = hardware
  BY DEF Next, vars, machine, Tick, Construct, AskCount, AskHandles, ReadProperties,
         FinishProperties, DiscoverPower, Sample, StartSample, ReadEngine, FinishEngines,
         ReadPower, ReadSensor, FinishSensors, ReadRest, HandOver, Measure
<1> QED
  BY <1>1 DEF Wrap, MaxGap, Meters, Fractions, EngineTypes, PowerDomains, Sensors, NoRates

(***************************************************************************)
(* Meters.                                                                 *)
(***************************************************************************)
\* One more tick either counts or turns the counter back to 0.
LEMMA OneMore ==
  ASSUME NEW w \in Nat, NEW n \in 0..(w - 1)
  PROVE  /\ (n + 1) % w \in 0..(w - 1)
         /\ (n + 1) % w = n + 1 \/ (n + 1) % w = n + 1 - w
OBVIOUS

LEMMA RateIsTrue ==
  ASSUME TypeOK, MeterInv, NEW m \in Meters
  PROVE  /\ Rate(m) \in Fractions
         /\ Rate(m) # None => Rate(m) = truth[m] /\ Rate(m)[2] > 0
<1> DEFINE g == truth[m][1]
           t == truth[m][2]
<1>1. /\ truth[m] \in Fractions /\ None \in Fractions
      /\ truth[m] = <<g, t>> /\ g \in 0..MaxGap /\ t \in 0..MaxGap
      /\ Wrap \in Nat /\ MaxGap \in Nat /\ MaxGap < Wrap
      /\ counter[m] \in Nat /\ stamp \in Nat /\ last[m][1] \in Nat /\ last[m][2] \in Nat
  <2>1. Wrap \in Nat /\ MaxGap \in Nat /\ MaxGap < Wrap
    BY CardIs
  <2>2. truth[m] \in Fractions /\ counter[m] \in 0..(Wrap - 1) /\ stamp \in 0..(Wrap - 1)
        /\ last[m] \in (0..(Wrap - 1)) \X (0..(Wrap - 1))
    BY DEF TypeOK
  <2>3. None \in Fractions
    BY <2>1 DEF Fractions, None
  <2>4. truth[m] = <<g, t>> /\ g \in 0..MaxGap /\ t \in 0..MaxGap
    BY <2>2 DEF Fractions
  <2>5. last[m][1] \in 0..(Wrap - 1) /\ last[m][2] \in 0..(Wrap - 1)
    BY <2>2
  <2> QED  BY <2>1, <2>2, <2>3, <2>4, <2>5
<1>2. CASE Rate(m) # None
  <2>1. /\ m \in have /\ stamp > last[m][2] /\ counter[m] >= last[m][1]
        /\ Rate(m) = <<counter[m] - last[m][1], stamp - last[m][2]>>
    BY <1>1, <1>2 DEF Rate
  <2>2. Counting(m)
    BY <2>1 DEF MeterInv
  <2>3. counter[m] - last[m][1] = g /\ stamp - last[m][2] = t
    BY <1>1, <2>1, <2>2 DEF Counting
  <2>4. Rate(m) = <<g, t>> /\ t > 0
    BY <1>1, <2>1, <2>3
  <2> HIDE DEF g, t
  <2> QED  BY <1>1, <2>4
<1>3. CASE Rate(m) = None
  BY <1>1, <1>3
<1> QED  BY <1>2, <1>3

\* What a reading leaves of the meters.
LEMMA MeasureKeeps ==
  ASSUME TypeOK, MeterInv, RateInv, [Next]_vars, NEW m \in Meters, Measure(m)
  PROVE  /\ MeterInv' /\ RateInv'
         /\ stamp' = stamp /\ counter' = counter
         /\ truth' \in [Meters -> Fractions] /\ rates' \in [Meters -> Fractions]
         /\ true' \in [Meters -> Fractions]
         /\ last' \in [Meters -> (0..(Wrap - 1)) \X (0..(Wrap - 1))]
         /\ have' = have \cup {m}
         /\ \A n \in Meters : n # m => rates'[n] = rates[n] /\ true'[n] = true[n]
<1>1. /\ rates \in [Meters -> Fractions] /\ truth \in [Meters -> Fractions]
      /\ true \in [Meters -> Fractions]
      /\ last \in [Meters -> (0..(Wrap - 1)) \X (0..(Wrap - 1))]
      /\ counter \in [Meters -> 0..(Wrap - 1)] /\ stamp \in 0..(Wrap - 1) /\ have \subseteq Meters
  BY DEF TypeOK
<1>2. None \in Fractions
  BY CardIs DEF Fractions, None
<1>3. /\ rates' = [rates EXCEPT ![m] = Rate(m)] /\ true' = [true EXCEPT ![m] = truth[m]]
      /\ last' = [last EXCEPT ![m] = <<counter[m], stamp>>]
      /\ truth' = [truth EXCEPT ![m] = None] /\ have' = have \cup {m}
      /\ stamp' = stamp /\ counter' = counter
  BY DEF Measure
<1>4. rates' \in [Meters -> Fractions]
  BY <1>1, <1>3, RateIsTrue
<1>5. true' \in [Meters -> Fractions]
  BY <1>1, <1>3
<1>6. truth' \in [Meters -> Fractions]
  BY <1>1, <1>2, <1>3
<1>7. last' \in [Meters -> (0..(Wrap - 1)) \X (0..(Wrap - 1))]
  BY <1>1, <1>3
<1>8. \A n \in Meters : n # m => /\ rates'[n] = rates[n] /\ true'[n] = true[n]
                                 /\ truth'[n] = truth[n] /\ last'[n] = last[n]
  BY <1>1, <1>3
<1>9. MeterInv'
  <2> SUFFICES ASSUME NEW n \in have'  PROVE Counting(n)'
    BY DEF MeterInv
  <2>1. CASE n = m
    <3>1. truth'[n] = <<0, 0>> /\ last'[n] = <<counter[m], stamp>> /\ counter'[n] = counter[m]
      BY <1>1, <1>3, <2>1 DEF None
    <3>2. counter[m] \in Int /\ stamp \in Int
      BY <1>1, CardIs
    <3> QED  BY <1>3, <3>1, <3>2 DEF Counting
  <2>2. CASE n # m
    <3>1. n \in have /\ n \in Meters
      BY <1>1, <1>3, <2>2
    <3> QED  BY <1>3, <1>8, <2>2, <3>1, SameCard DEF MeterInv, Counting
  <2> QED  BY <2>1, <2>2
<1>10. RateInv'
  <2>1. ASSUME NEW n \in Meters, rates'[n] # None  PROVE rates'[n] = true'[n] /\ rates'[n][2] > 0
    <3>1. CASE n = m
      <4>1. rates'[n] = Rate(m) /\ true'[n] = truth[m]
        BY <1>1, <1>3, <3>1
      <4> QED  BY <2>1, <4>1, RateIsTrue
    <3>2. CASE n # m
      BY <1>8, <2>1, <3>2 DEF RateInv
    <3> QED  BY <3>1, <3>2
  <2> QED  BY <2>1, SameCard DEF RateInv
<1> QED  BY <1>3, <1>4, <1>5, <1>6, <1>7, <1>8, <1>9, <1>10

(***************************************************************************)
(* The busiest of several: fractions are compared by cross-multiplication, *)
(* which is an order as long as no denominator is zero.                    *)
(***************************************************************************)
LEMMA Products ==
  ASSUME NEW x \in Nat, NEW y \in Nat, NEW z \in Nat
  PROVE  /\ x <= y => x * z <= y * z
         /\ z > 0 /\ x * z <= y * z => x <= y
<1>1. ASSUME x <= y  PROVE x * z <= y * z
  <2>1. PICK d \in Nat : y = x + d
    <3>1. y - x \in Nat /\ y = x + (y - x)
      BY <1>1
    <3> QED  BY <3>1
  <2>2. y * z = x * z + d * z /\ d * z \in Nat /\ x * z \in Nat
    BY <2>1
  <2> QED  BY <2>2
<1>2. ASSUME z > 0, x * z <= y * z  PROVE x <= y
  <2> SUFFICES ASSUME x > y  PROVE FALSE
    OBVIOUS
  <2>1. PICK d \in Nat : x = y + d /\ d > 0
    <3>1. x - y \in Nat /\ x = y + (x - y) /\ x - y > 0
      OBVIOUS
    <3> QED  BY <3>1
  <2>2. x * z = y * z + d * z /\ d * z \in Nat /\ y * z \in Nat
    BY <2>1
  <2>3. d * z > 0
    BY <1>2, <2>1
  <2> QED  BY <1>2, <2>2, <2>3
<1> QED  BY <1>1, <1>2

LEMMA BusierIsTransitive ==
  ASSUME NEW a1 \in Nat, NEW a2 \in Nat, NEW b1 \in Nat, NEW b2 \in Nat, b2 > 0,
         NEW c1 \in Nat, NEW c2 \in Nat,
         a1 * b2 <= b1 * a2, b1 * c2 <= c1 * b2
  PROVE  a1 * c2 <= c1 * a2
<1>1. /\ a1 * b2 \in Nat /\ b1 * a2 \in Nat /\ b1 * c2 \in Nat /\ c1 * b2 \in Nat
      /\ a1 * c2 \in Nat /\ c1 * a2 \in Nat
  OBVIOUS
<1>2. (a1 * b2) * c2 <= (b1 * a2) * c2
  BY <1>1, Products
<1>3. (b1 * c2) * a2 <= (c1 * b2) * a2
  BY <1>1, Products
<1>4. /\ (a1 * b2) * c2 = (a1 * c2) * b2 /\ (b1 * a2) * c2 = (b1 * c2) * a2
      /\ (c1 * b2) * a2 = (c1 * a2) * b2
  OBVIOUS
<1>5. (a1 * c2) * b2 <= (c1 * a2) * b2
  <2>1. /\ (a1 * c2) * b2 \in Nat /\ (b1 * c2) * a2 \in Nat /\ (c1 * a2) * b2 \in Nat
    OBVIOUS
  <2> DEFINE x == (a1 * c2) * b2
             y == (b1 * c2) * a2
             z == (c1 * a2) * b2
  <2>2. x <= y /\ y <= z /\ x \in Nat /\ y \in Nat /\ z \in Nat
    BY <1>2, <1>3, <1>4, <2>1
  <2> HIDE DEF x, y, z
  <2>3. x <= z
    BY <2>2
  <2> QED  BY <2>3 DEF x, z
<1> QED  BY <1>1, <1>5, Products

\* Among the readings of a set of engines that have one, one is not exceeded.
LEMMA SomeIsBusiest ==
  ASSUME NEW n \in Nat, NEW S, S \subseteq 1..n, S # {}, NEW r,
         \A e \in S : r[e][1] \in Nat /\ r[e][2] \in Nat /\ r[e][2] > 0
  PROVE  \E b \in S : \A f \in S : ~Busier(r[f], r[b])
<1> DEFINE Upto(k) == S \cap 1..k
           Good(T) == \E b \in T : \A f \in T : ~Busier(r[f], r[b])
           Bad == {k \in Nat : Upto(k) # {} /\ ~Good(Upto(k))}
<1>1. ASSUME Bad # {}  PROVE FALSE
  <2>1. PICK m \in Bad : \A k \in Bad : m <= k
    <3>1. Bad \subseteq Nat
      OBVIOUS
    <3> HIDE DEF Bad
    <3> QED  BY <1>1, <3>1, MinOfSet
  <2>2. m \in Nat /\ m # 0 /\ Upto(m) # {} /\ ~Good(Upto(m))
    BY <2>1
  <2>3. m - 1 \in Nat /\ ~(m <= m - 1)
    BY <2>2
  <2>4. m - 1 \notin Bad
    BY <2>1, <2>3
  <2>5. Upto(m - 1) # {} => Good(Upto(m - 1))
    BY <2>3, <2>4
  <2>6. Upto(m) = Upto(m - 1) \cup (S \cap {m})
    BY <2>2
  <2>7. CASE m \notin S
    <3>1. Upto(m) = Upto(m - 1)
      BY <2>6, <2>7
    <3> HIDE DEF Upto, Good
    <3> QED  BY <2>2, <2>5, <3>1
  <2>8. CASE m \in S /\ Upto(m - 1) = {}
    <3>1. Upto(m) = {m}
      BY <2>6, <2>8
    <3>2. ~Busier(r[m], r[m])
      <4>1. r[m][1] * r[m][2] \in Int
        BY <2>8
      <4> QED  BY <4>1 DEF Busier
    <3>3. Good({m})
      BY <3>2
    <3> HIDE DEF Upto, Good
    <3> QED  BY <2>2, <3>1, <3>3
  <2>9. CASE m \in S /\ Upto(m - 1) # {}
    <3>1. PICK b \in Upto(m - 1) : \A f \in Upto(m - 1) : ~Busier(r[f], r[b])
      BY <2>5, <2>9
    <3>2. Upto(m) = Upto(m - 1) \cup {m} /\ Upto(m - 1) \subseteq S
      BY <2>6, <2>9
    <3> HIDE DEF Upto
    <3>3. CASE ~Busier(r[m], r[b])
      <4>1. b \in Upto(m) /\ \A f \in Upto(m) : ~Busier(r[f], r[b])
        BY <3>1, <3>2, <3>3
      <4>2. Good(Upto(m))
        BY <4>1
      <4> HIDE DEF Good
      <4> QED  BY <2>2, <4>2
    <3>4. CASE Busier(r[m], r[b])
      <4>1. ASSUME NEW f \in Upto(m - 1)  PROVE ~Busier(r[f], r[m])
        <5>1. /\ r[f][1] \in Nat /\ r[f][2] \in Nat /\ r[b][1] \in Nat /\ r[b][2] \in Nat
              /\ r[m][1] \in Nat /\ r[m][2] \in Nat /\ r[b][2] > 0
          BY <2>9, <3>1, <3>2
        <5>2. /\ r[f][1] * r[b][2] \in Nat /\ r[b][1] * r[f][2] \in Nat
              /\ r[b][1] * r[m][2] \in Nat /\ r[m][1] * r[b][2] \in Nat
              /\ r[f][1] * r[m][2] \in Nat /\ r[m][1] * r[f][2] \in Nat
          BY <5>1
        <5>3. /\ r[f][1] * r[b][2] <= r[b][1] * r[f][2]
              /\ r[b][1] * r[m][2] <= r[m][1] * r[b][2]
          BY <3>1, <3>4, <5>2 DEF Busier
        <5>4. r[f][1] * r[m][2] <= r[m][1] * r[f][2]
          BY <5>1, <5>3, BusierIsTransitive
        <5> QED  BY <5>2, <5>4 DEF Busier
      <4>2. ~Busier(r[m], r[m])
        <5>1. r[m][1] * r[m][2] \in Int
          BY <2>9
        <5> QED  BY <5>1 DEF Busier
      <4>3. m \in Upto(m) /\ \A f \in Upto(m) : ~Busier(r[f], r[m])
        BY <3>2, <4>1, <4>2
      <4>4. Good(Upto(m))
        BY <4>3
      <4> HIDE DEF Good
      <4> QED  BY <2>2, <4>4
    <3> QED  BY <3>3, <3>4
  <2> QED  BY <2>7, <2>8, <2>9
<1>2. Upto(n) = S
  OBVIOUS
<1>3. n \notin Bad
  BY <1>1
<1> QED  BY <1>2, <1>3

\* So the fields that keep_max() fills are the busiest of the engines asked for.
Rated(of, classes) == {e \in 1..engines : of[e] \in classes /\ rates[e] # None}

LEMMA BusiestIsOfThem ==
  ASSUME TypeOK, RateInv, NEW of, NEW classes
  PROVE  /\ Rated(of, classes) = {} => Busiest(of, classes) = None
         /\ Rated(of, classes) # {} =>
              \E b \in Rated(of, classes) :
                /\ Busiest(of, classes) = rates[b]
                /\ \A f \in Rated(of, classes) : ~Busier(rates[f], rates[b])
<1> DEFINE S == Rated(of, classes)
<1>1. Busiest(of, classes) =
        IF S = {} THEN None
        ELSE rates[CHOOSE e \in S : \A f \in S : ~Busier(rates[f], rates[e])]
  BY DEF Busiest, Rated
<1>2. ASSUME S # {}  PROVE \E b \in S : \A f \in S : ~Busier(rates[f], rates[b])
  <2>1. S \subseteq 1..engines /\ engines \in Nat
    BY CardIs DEF Rated, TypeOK
  <2>2. ASSUME NEW e \in S  PROVE rates[e][1] \in Nat /\ rates[e][2] \in Nat /\ rates[e][2] > 0
    <3>1. e \in Meters /\ rates[e] # None
      BY <2>1, CardIs DEF Rated, TypeOK
    <3>2. rates[e] \in Fractions /\ rates[e][2] > 0
      BY <3>1 DEF TypeOK, RateInv
    <3> QED  BY <3>2, CardIs DEF Fractions
  <2> HIDE DEF S
  <2> QED  BY <1>2, <2>1, <2>2, SomeIsBusiest
<1> HIDE DEF S
<1>3. S # {} => \E b \in S : /\ Busiest(of, classes) = rates[b]
                             /\ \A f \in S : ~Busier(rates[f], rates[b])
  BY <1>1, <1>2
<1>4. S = {} => Busiest(of, classes) = None
  BY <1>1
<1> QED  BY <1>3, <1>4 DEF S

(***************************************************************************)
(* The steps.                                                              *)
(***************************************************************************)
\* A step measures, lets time pass, clears the sample or leaves the meters alone.
LEMMA MeterSteps ==
  ASSUME TypeOK, [Next]_vars
  PROVE  \/ UNCHANGED <<machine, meters>>
         \/ Tick
         \/ UNCHANGED <<machine, last, have>> /\ rates' = NoRates /\ true' = NoRates
         \/ \E m \in Meters : Measure(m) /\ (m = Power \/ (pc = "engines" /\ m = next))
<1>1. CASE Construct \/ FinishEngines \/ ReadSensor \/ FinishSensors \/ ReadRest \/ UNCHANGED vars
  BY <1>1 DEF Construct, AskCount, AskHandles, ReadProperties, FinishProperties, DiscoverPower,
              FinishEngines, ReadSensor, FinishSensors, ReadRest, vars
<1>2. CASE StartSample \/ HandOver
  BY <1>2 DEF StartSample, HandOver
<1>3. CASE ReadEngine
  <2>1. next \in Meters
    BY <1>3, CardIs DEF ReadEngine, TypeOK
  <2> QED  BY <1>3, <2>1 DEF ReadEngine
<1>4. CASE ReadPower
  <2>1. Power \in Meters
    BY DEF Meters
  <2> QED  BY <1>4, <2>1 DEF ReadPower
<1> QED  BY <1>1, <1>2, <1>3, <1>4 DEF Next, Sample

LEMMA TickKeeps ==
  ASSUME TypeOK, MeterInv, Tick
  PROVE  /\ MeterInv'
         /\ stamp' \in 0..(Wrap - 1) /\ counter' \in [Meters -> 0..(Wrap - 1)]
         /\ truth' \in [Meters -> Fractions]
<1>1. PICK working \in SUBSET have :
        /\ counter' = [m \in Meters |->
                         IF m \in working THEN (counter[m] + 1) % Wrap ELSE counter[m]]
        /\ truth' = [m \in Meters |->
                       IF m \notin have THEN None
                       ELSE <<truth[m][1] + (IF m \in working THEN 1 ELSE 0), truth[m][2] + 1>>]
  BY DEF Tick
<1>2. /\ Wrap \in Nat /\ MaxGap \in Nat /\ MaxGap < Wrap
      /\ stamp \in 0..(Wrap - 1) /\ counter \in [Meters -> 0..(Wrap - 1)]
      /\ truth \in [Meters -> Fractions] /\ have \subseteq Meters
      /\ last \in [Meters -> (0..(Wrap - 1)) \X (0..(Wrap - 1))]
  BY CardIs DEF TypeOK
<1>3. /\ stamp' = (stamp + 1) % Wrap /\ have' = have /\ last' = last /\ hardware' = hardware
      /\ \A m \in have : truth[m][2] < MaxGap
  BY DEF Tick, meters
<1>4. stamp' \in 0..(Wrap - 1) /\ stamp' \in {stamp + 1, stamp + 1 - Wrap}
  BY <1>2, <1>3, OneMore
<1>5. \A m \in Meters : (counter[m] + 1) % Wrap \in 0..(Wrap - 1)
  BY <1>2, OneMore
<1>6. counter' \in [Meters -> 0..(Wrap - 1)]
  BY <1>1, <1>2, <1>5
<1>7. ASSUME NEW m \in have
      PROVE  /\ Counting(m)'
             /\ truth'[m] \in Fractions
  <2> DEFINE g == truth[m][1]
             t == truth[m][2]
             more == IF m \in working THEN 1 ELSE 0
  <2>1. /\ m \in Meters /\ truth[m] \in Fractions /\ Counting(m) /\ t < MaxGap
        /\ last[m][1] \in Nat /\ last[m][2] \in Nat /\ counter[m] \in 0..(Wrap - 1)
    BY <1>2, <1>3 DEF MeterInv
  <2>2. g \in 0..MaxGap /\ t \in 0..MaxGap /\ g <= t
    BY <2>1 DEF Fractions, Counting
  <2>3. more \in {0, 1}
    OBVIOUS
  <2>4. truth'[m] = <<g + more, t + 1>>
    BY <1>1, <2>1
  <2>5. counter'[m] \in {counter[m] + more, counter[m] + more - Wrap}
    <3>1. CASE m \in working
      BY <1>1, <1>2, <2>1, <3>1, OneMore
    <3>2. CASE m \notin working
      <4>1. counter'[m] = counter[m] /\ more = 0 /\ counter[m] \in Int
        BY <1>1, <1>2, <2>1, <3>2
      <4> HIDE DEF more
      <4> QED  BY <4>1
    <3> QED  BY <3>1, <3>2
  <2>6. /\ counter[m] \in {last[m][1] + g, last[m][1] + g - Wrap}
        /\ stamp \in {last[m][2] + t, last[m][2] + t - Wrap}
    BY <2>1 DEF Counting
  <2>7. counter'[m] \in 0..(Wrap - 1)
    BY <1>6, <2>1
  <2> HIDE DEF g, t, more
  <2>8. g + more \in 0..MaxGap /\ t + 1 \in 0..MaxGap /\ g + more <= t + 1
    BY <1>2, <2>1, <2>2, <2>3
  <2>9. counter'[m] \in {last[m][1] + (g + more), last[m][1] + (g + more) - Wrap}
    BY <1>2, <2>1, <2>2, <2>3, <2>5, <2>6, <2>7
  <2>10. stamp' \in {last[m][2] + (t + 1), last[m][2] + (t + 1) - Wrap}
    BY <1>2, <1>4, <2>1, <2>2, <2>6
  <2>11. truth'[m] \in Fractions
    BY <2>4, <2>8 DEF Fractions
  <2>12. Wrap' = Wrap /\ truth'[m][1] = g + more /\ truth'[m][2] = t + 1
    BY <1>3, <2>4 DEF Wrap
  <2> QED  BY <1>3, <2>8, <2>9, <2>10, <2>11, <2>12 DEF Counting
<1>8. truth' \in [Meters -> Fractions]
  <2>1. None \in Fractions
    BY <1>2 DEF Fractions, None
  <2>2. \A m \in Meters : truth'[m] \in Fractions
    BY <1>1, <1>7, <2>1
  <2> QED  BY <1>1, <2>2
<1> QED  BY <1>3, <1>4, <1>6, <1>7, <1>8 DEF MeterInv

LEMMA NextMeters == TypeOK /\ MeterInv /\ RateInv /\ [Next]_vars => MeterInv' /\ RateInv'
<1> SUFFICES ASSUME TypeOK, MeterInv, RateInv, [Next]_vars  PROVE MeterInv' /\ RateInv'
  OBVIOUS
<1>1. CASE UNCHANGED <<machine, meters>>
  BY <1>1, SameCard DEF MeterInv, RateInv, Counting, machine, meters
<1>2. CASE Tick
  <2>1. MeterInv'
    BY <1>2, TickKeeps
  <2>2. rates' = rates /\ true' = true
    BY <1>2 DEF Tick, meters
  <2> QED  BY <2>1, <2>2, SameCard DEF RateInv
<1>3. CASE UNCHANGED <<machine, last, have>> /\ rates' = NoRates /\ true' = NoRates
  <2>1. MeterInv'
    BY <1>3, SameCard DEF MeterInv, Counting, machine
  <2>2. \A m \in Meters : rates'[m] = None
    BY <1>3 DEF NoRates
  <2> QED  BY <2>1, <2>2, SameCard DEF RateInv
<1>4. ASSUME NEW m \in Meters, Measure(m)  PROVE MeterInv' /\ RateInv'
  BY <1>4, MeasureKeeps
<1> QED  BY <1>1, <1>2, <1>3, <1>4, MeterSteps

\* The power domain is one of the card's, and the whole card's, or there is none.
LEMMA WholeCardIsWhole ==
  ASSUME TypeOK, NEW answered \in SUBSET DOMAIN PowerDomains
  PROVE  \/ WholeCard(answered) = Nothing
         \/ /\ WholeCard(answered) \in DOMAIN PowerDomains
            /\ ~PowerDomains[WholeCard(answered)]
<1> DEFINE whole == {i \in answered : ~PowerDomains[i]}
<1>1. WholeCard(answered) = IF whole = {} THEN Nothing ELSE Min(whole)
  BY DEF WholeCard
<1>2. whole \subseteq DOMAIN PowerDomains /\ whole \subseteq Nat
      /\ \A i \in whole : ~PowerDomains[i]
  BY CardIs
<1>3. whole # {} => Min(whole) \in whole
  <2> HIDE DEF whole
  <2> QED  BY <1>2, MinOfSet
<1> HIDE DEF whole
<1> QED  BY <1>1, <1>2, <1>3

LEMMA NextOutInv == OutInv /\ [Next]_vars => OutInv'
<1> SUFFICES ASSUME OutInv, [Next]_vars  PROVE OutInv'
  OBVIOUS
<1>1. CASE StartSample \/ HandOver
  <2>1. DOMAIN Unset = Fields
    BY DEF Unset, Fields
  <2> QED  BY <1>1, <2>1 DEF StartSample, HandOver, OutInv
<1>2. CASE FinishEngines
  <2>1. out' = [out EXCEPT !.core = Core(types), !.media = Busiest(types, {"media"})]
    BY <1>2 DEF FinishEngines
  <2>2. DOMAIN out' = DOMAIN out
    BY <2>1
  <2> QED  BY <2>2 DEF OutInv
<1>3. CASE ReadRest
  <2>1. DOMAIN out' = DOMAIN out
    BY <1>3 DEF ReadRest
  <2> QED  BY <2>1 DEF OutInv
<1>5. CASE ReadSensor
  <2>1. DOMAIN out' = DOMAIN out
    BY <1>5 DEF ReadSensor, Put
  <2> QED  BY <2>1 DEF OutInv
<1>6. CASE FinishSensors
  <2>1. DOMAIN out' = DOMAIN out
    BY <1>6 DEF FinishSensors
  <2> QED  BY <2>1 DEF OutInv
<1>4. CASE Construct \/ Tick \/ ReadEngine \/ ReadPower \/ UNCHANGED vars
  BY <1>4 DEF Construct, AskCount, AskHandles, ReadProperties, FinishProperties, DiscoverPower,
              Tick, ReadEngine, ReadPower, vars, OutInv
<1> QED  BY <1>1, <1>2, <1>3, <1>4, <1>5, <1>6 DEF Next, Sample

LEMMA NextConstructInv == TypeOK /\ ConstructInv /\ [Next]_vars => ConstructInv'
<1> SUFFICES ASSUME TypeOK, ConstructInv, [Next]_vars  PROVE ConstructInv'
  OBVIOUS
<1>0. PowerDomains' = PowerDomains
  BY SameCard
<1>1. CASE AskCount \/ AskHandles \/ ReadProperties \/ FinishProperties
  <2>1. have' = have /\ out' = out /\ domain' = domain /\ pc \in Constructing /\ have = {}
    BY <1>1 DEF AskCount, AskHandles, ReadProperties, FinishProperties, meters, card,
                Constructing, ConstructInv
  <2>2. pc' \in {"count", "fill"} => engines' = engines /\ pc \in {"count", "fill"}
    BY <1>1 DEF AskCount, AskHandles, ReadProperties, FinishProperties
  <2> QED  BY <1>0, <2>1, <2>2 DEF ConstructInv, Constructing
<1>2. CASE DiscoverPower
  <2>1. PICK answered \in SUBSET DOMAIN PowerDomains : domain' = WholeCard(answered)
    BY <1>2 DEF DiscoverPower
  <2>2. domain' # Nothing => ~PowerDomains[domain']
    BY <2>1, WholeCardIsWhole
  <2>3. have' = have /\ out' = out /\ pc = "domains" /\ pc' = "idle"
    BY <1>2 DEF DiscoverPower, meters
  <2> QED  BY <1>0, <2>2, <2>3 DEF ConstructInv, Constructing
<1>3. CASE Tick \/ UNCHANGED vars
  BY <1>0, <1>3 DEF Tick, meters, card, vars, ConstructInv
<1>4. CASE StartSample \/ HandOver
  BY <1>0, <1>4 DEF StartSample, HandOver, card, ConstructInv, Constructing, Unset
<1>5. CASE ReadEngine \/ ReadPower
  BY <1>0, <1>5 DEF ReadEngine, ReadPower, card, ConstructInv, Constructing
<1>6. CASE FinishEngines \/ ReadRest
  BY <1>0, <1>6 DEF FinishEngines, ReadRest, card, ConstructInv, Constructing
<1>7. CASE ReadSensor \/ FinishSensors
  BY <1>0, <1>7 DEF ReadSensor, FinishSensors, card, ConstructInv, Constructing, meters
<1> QED  BY <1>1, <1>2, <1>3, <1>4, <1>5, <1>6, <1>7 DEF Next, Construct, Sample

LEMMA NextTypeOK == IInv /\ [Next]_vars => TypeOK'
<1> SUFFICES ASSUME IInv, [Next]_vars  PROVE TypeOK'
  OBVIOUS
<1> DEFINE Ticks == (0..(Wrap - 1)) \X (0..(Wrap - 1))
<1>1. TypeOK /\ MeterInv /\ RateInv /\ hardware' = hardware /\ Meters' = Meters
      /\ Wrap' = Wrap /\ Fractions' = Fractions /\ EngineTypes' = EngineTypes
      /\ PowerDomains' = PowerDomains
  BY SameCard DEF IInv
<1>2. /\ stamp' \in 0..(Wrap - 1) /\ counter' \in [Meters -> 0..(Wrap - 1)]
      /\ truth' \in [Meters -> Fractions] /\ true' \in [Meters -> Fractions]
      /\ last' \in [Meters -> Ticks] /\ have' \subseteq Meters
      /\ rates' \in [Meters -> Fractions]
  <2>1. /\ stamp \in 0..(Wrap - 1) /\ counter \in [Meters -> 0..(Wrap - 1)]
        /\ truth \in [Meters -> Fractions] /\ true \in [Meters -> Fractions]
        /\ last \in [Meters -> Ticks] /\ have \subseteq Meters
        /\ rates \in [Meters -> Fractions]
    BY <1>1 DEF TypeOK
  <2> HIDE DEF Ticks
  <2>2. CASE UNCHANGED <<machine, meters>>
    BY <2>1, <2>2 DEF machine, meters
  <2>3. CASE Tick
    BY <1>1, <2>1, <2>3, TickKeeps DEF Tick, meters
  <2>4. CASE UNCHANGED <<machine, last, have>> /\ rates' = NoRates /\ true' = NoRates
    <3>1. NoRates \in [Meters -> Fractions]
      BY <1>1, CardIs DEF NoRates, None, Fractions
    <3> QED  BY <2>1, <2>4, <3>1 DEF machine
  <2>5. ASSUME NEW m \in Meters, Measure(m)
        PROVE  /\ stamp' \in 0..(Wrap - 1) /\ counter' \in [Meters -> 0..(Wrap - 1)]
               /\ truth' \in [Meters -> Fractions] /\ true' \in [Meters -> Fractions]
               /\ last' \in [Meters -> Ticks] /\ have' \subseteq Meters
               /\ rates' \in [Meters -> Fractions]
    BY <1>1, <2>1, <2>5, MeasureKeeps DEF Ticks
  <2> QED  BY <1>1, <2>2, <2>3, <2>4, <2>5, MeterSteps
<1>3. /\ pc' \in {"count", "fill", "properties", "domains",
                  "idle", "engines", "power", "sensors", "rest", "sampled"}
      /\ next' \in Nat \ {0} /\ warm' \subseteq DOMAIN Sensors'
      /\ count' \in 0..Len(EngineTypes) /\ engines' \in 0..Len(EngineTypes)
      /\ types' \in [DOMAIN EngineTypes -> Classes] /\ domain' \in 0..Len(PowerDomains)
  <2>1. /\ pc \in {"count", "fill", "properties", "domains",
                   "idle", "engines", "power", "sensors", "rest", "sampled"}
        /\ next \in Nat \ {0} /\ warm \subseteq DOMAIN Sensors /\ Sensors' = Sensors
        /\ DOMAIN Sensors = 1..Len(Sensors)
        /\ count \in 0..Len(EngineTypes) /\ engines \in 0..Len(EngineTypes)
        /\ types \in [DOMAIN EngineTypes -> Classes] /\ domain \in 0..Len(PowerDomains)
        /\ Len(EngineTypes) \in Nat /\ Len(PowerDomains) \in Nat
        /\ DOMAIN EngineTypes = 1..Len(EngineTypes) /\ EngineTypes \in Seq(Classes)
        /\ DOMAIN PowerDomains = 1..Len(PowerDomains)
    BY <1>1, CardIs, SameCard DEF TypeOK
  <2>2. CASE AskCount \/ AskHandles \/ FinishProperties
    BY <2>1, <2>2 DEF AskCount, AskHandles, FinishProperties, card
  <2>3. CASE ReadProperties
    <3>1. next \in DOMAIN EngineTypes /\ EngineTypes[next] \in Classes
      BY <2>1, <2>3 DEF ReadProperties
    <3>2. types' \in [DOMAIN EngineTypes -> Classes]
      BY <2>1, <2>3, <3>1 DEF ReadProperties
    <3> QED  BY <2>1, <2>3, <3>2 DEF ReadProperties
  <2>4. CASE DiscoverPower
    <3>1. PICK answered \in SUBSET DOMAIN PowerDomains : domain' = WholeCard(answered)
      BY <2>4 DEF DiscoverPower
    <3>2. domain' \in 0..Len(PowerDomains)
      BY <1>1, <2>1, <3>1, WholeCardIsWhole DEF Nothing
    <3> QED  BY <2>1, <2>4, <3>2 DEF DiscoverPower
  <2>5. CASE Tick \/ UNCHANGED vars
    BY <2>1, <2>5 DEF Tick, vars, card
  <2>6. CASE StartSample \/ HandOver
    BY <2>1, <2>6 DEF StartSample, HandOver, card
  <2>7. CASE ReadEngine
    BY <2>1, <2>7 DEF ReadEngine, card
  <2>8. CASE FinishEngines
    BY <2>1, <2>8 DEF FinishEngines, card
  <2>11. CASE ReadRest
    <3>1. UNCHANGED <<next, card, warm>> /\ pc' = "sampled"
      BY <2>11 DEF ReadRest
    <3> QED  BY <2>1, <3>1 DEF card
  <2>12. CASE ReadPower
    <3>1. UNCHANGED <<card, warm>> /\ pc' = "sensors" /\ next' = 1
      BY <2>12 DEF ReadPower
    <3> QED  BY <2>1, <3>1 DEF card
  <2>9. CASE ReadSensor
    <3>1. warm' \subseteq warm \cup {next} /\ next \in DOMAIN Sensors
      BY <2>1, <2>9 DEF ReadSensor
    <3> QED  BY <2>1, <2>9, <3>1 DEF ReadSensor, card
  <2>10. CASE FinishSensors
    BY <2>1, <2>10 DEF FinishSensors, card
  <2> QED  BY <2>2, <2>3, <2>4, <2>5, <2>6, <2>7, <2>8, <2>9, <2>10,
           <2>11, <2>12 DEF Next, Construct, Sample
<1> HIDE DEF Ticks
<1> QED  BY <1>1, <1>2, <1>3 DEF TypeOK, Ticks

LEMMA NextHandlesAreReal == IInv /\ [Next]_vars => HandlesAreReal'
<1> SUFFICES ASSUME IInv, [Next]_vars  PROVE HandlesAreReal'
  OBVIOUS
<1>1. /\ TypeOK /\ ConstructInv /\ HandlesAreReal /\ PowerDomains' = PowerDomains
      /\ count \in Nat /\ engines \in Nat
  <2>1. TypeOK /\ ConstructInv /\ HandlesAreReal
    BY DEF IInv
  <2>2. Len(EngineTypes) \in Nat
    BY <2>1, CardIs
  <2> QED  BY <2>1, <2>2, SameCard DEF TypeOK
<1>2. CASE Construct
  <2>1. have' = {}
    BY <1>1, <1>2 DEF Construct, AskCount, AskHandles, ReadProperties, FinishProperties,
                      DiscoverPower, meters, ConstructInv, Constructing
  <2>2. pc' # "fill" => engines' <= count'
    BY <1>1, <1>2 DEF Construct, AskCount, AskHandles, ReadProperties, FinishProperties,
                      DiscoverPower, card, ConstructInv, HandlesAreReal
  <2> QED  BY <2>1, <2>2 DEF HandlesAreReal
<1>3. CASE \/ Tick \/ StartSample \/ FinishEngines \/ ReadSensor \/ FinishSensors
           \/ ReadRest \/ HandOver \/ UNCHANGED vars
  <2>1. /\ UNCHANGED <<count, engines, domain, have>>
        /\ pc # "fill"  \/ pc' = pc
    BY <1>3 DEF Tick, StartSample, FinishEngines, ReadSensor, FinishSensors, ReadRest, HandOver,
                vars, card, meters
  <2> QED  BY <1>1, <2>1 DEF HandlesAreReal
<1>4. CASE ReadEngine
  <2>1. /\ UNCHANGED <<count, engines, domain>> /\ pc = "engines"
        /\ have' \in {have, have \cup {next}} /\ next \in 1..engines
    BY <1>1, <1>4, CardIs DEF ReadEngine, card, Measure, meters, TypeOK
  <2>2. Power # next
    BY <2>1 DEF Power
  <2> QED  BY <1>1, <2>1, <2>2 DEF HandlesAreReal
<1>5. CASE ReadPower
  <2>1. /\ UNCHANGED <<count, engines, domain>> /\ pc = "power"
        /\ \/ have' = have
           \/ have' = have \cup {Power} /\ domain # Nothing
    BY <1>5 DEF ReadPower, card, Measure, meters
  <2>2. domain # Nothing => ~PowerDomains[domain]
    BY <1>1 DEF ConstructInv
  <2> QED  BY <1>1, <2>1, <2>2 DEF HandlesAreReal
<1> QED  BY <1>2, <1>3, <1>4, <1>5 DEF Next, Sample

(***************************************************************************)
(* What a sample says.                                                     *)
(***************************************************************************)
\* Of the engines rated so far, one of a class that is asked for; when each has told its
\* class, that is one of the card's engines of the class.
LEMMA BusiestIsTrue ==
  ASSUME TypeOK, RateInv, NEW classes, \A e \in 1..engines : types[e] = EngineTypes[e]
  PROVE  /\ Answered(classes) = {} <=> Busiest(types, classes) = None
         /\ Busiest(types, classes) # None =>
              IsBusiestOf(Busiest(types, classes), Answered(classes))
<1>1. Answered(classes) = Rated(types, classes)
  BY DEF Answered, Rated
<1>2. \A e \in Answered(classes) : e \in Meters /\ rates[e] # None /\ rates[e] = true[e]
  <2>1. \A e \in Answered(classes) : e \in Meters /\ rates[e] # None
    BY CardIs DEF Answered, TypeOK
  <2> QED  BY <2>1 DEF RateInv
<1>3. CASE Answered(classes) = {}
  BY <1>1, <1>3, BusiestIsOfThem
<1>4. CASE Answered(classes) # {}
  <2>1. PICK b \in Answered(classes) :
          /\ Busiest(types, classes) = rates[b]
          /\ \A f \in Answered(classes) : ~Busier(rates[f], rates[b])
    BY <1>1, <1>4, BusiestIsOfThem
  <2>2. Busiest(types, classes) = true[b] /\ Busiest(types, classes) # None
    BY <1>2, <2>1
  <2>3. \A f \in Answered(classes) : ~Busier(true[f], rates[b])
    BY <1>2, <2>1
  <2> QED  BY <1>4, <2>1, <2>2, <2>3 DEF IsBusiestOf
<1> QED  BY <1>3, <1>4

\* What has been said of the engines stays said while they are not asked again.
LEMMA SaidIsSaid ==
  ASSUME IInv, [Next]_vars, UNCHANGED <<engines, types>>,
         out'.core = out.core, out'.media = out.media,
         \A e \in 1..engines : rates'[e] = rates[e] /\ true'[e] = true[e]
  PROVE  UtilizationIsOfItsClass'
<1>1. UtilizationIsOfItsClass /\ EngineTypes' = EngineTypes
  BY SameCard DEF IInv
<1>2. ASSUME NEW classes
      PROVE  /\ Answered(classes)' = Answered(classes)
             /\ \A rate : IsBusiestOf(rate, Answered(classes))
                            => IsBusiestOf(rate, Answered(classes))'
  <2>1. Answered(classes)' = Answered(classes)
    BY <1>1 DEF Answered
  <2>2. \A e \in Answered(classes) : true'[e] = true[e]
    BY DEF Answered
  <2> QED  BY <2>1, <2>2 DEF IsBusiestOf
<1> QED  BY <1>1, <1>2 DEF UtilizationIsOfItsClass, CoreIsTheWhole

LEMMA NextUtilization == IInv /\ [Next]_vars => UtilizationIsOfItsClass'
<1> SUFFICES ASSUME IInv, [Next]_vars  PROVE UtilizationIsOfItsClass'
  OBVIOUS
<1>1. /\ TypeOK /\ MeterInv /\ RateInv /\ OutInv /\ ConstructInv'
      /\ EngineTypes' = EngineTypes
  BY SameCard, NextConstructInv DEF IInv
<1>2. CASE pc' \notin {"power", "sensors", "rest", "sampled"}
  <2>1. out'.core = None /\ out'.media = None
    BY <1>1, <1>2 DEF ConstructInv
  <2> QED  BY <2>1 DEF UtilizationIsOfItsClass, CoreIsTheWhole
<1>3. CASE FinishEngines
  <2>1. /\ UNCHANGED <<rates, true, engines, types>>
        /\ out' = [out EXCEPT !.core = Core(types), !.media = Busiest(types, {"media"})]
    BY <1>3 DEF FinishEngines, card, meters
  <2>2. /\ EngineTypes' = EngineTypes
        /\ out'.core = Core(types) /\ out'.media = Busiest(types, {"media"})
    <3>1. "core" \in DOMAIN out /\ "media" \in DOMAIN out
      BY <1>1 DEF OutInv, Fields
    <3> QED  BY <1>1, <2>1, <3>1
  <2>3. ASSUME NEW classes
        PROVE  /\ Answered(classes)' = Answered(classes)
               /\ \A rate : IsBusiestOf(rate, Answered(classes))'
                             <=> IsBusiestOf(rate, Answered(classes))
    <3>1. Answered(classes)' = Answered(classes)
      BY <2>1, <2>2 DEF Answered
    <3> QED  BY <2>1, <3>1 DEF IsBusiestOf
  <2>4. ASSUME \A e \in 1..engines : types[e] = EngineTypes[e]
        PROVE  /\ out'.core # None =>
                    IF Answered({"all"}) # {} THEN IsBusiestOf(out'.core, Answered({"all"}))
                    ELSE IsBusiestOf(out'.core, Answered({"compute", "render"}))
               /\ out'.media # None => IsBusiestOf(out'.media, Answered({"media"}))
    <3>1. \A classes :
            /\ Answered(classes) = {} <=> Busiest(types, classes) = None
            /\ Busiest(types, classes) # None =>
                 IsBusiestOf(Busiest(types, classes), Answered(classes))
      BY <1>1, <2>4, BusiestIsTrue
    <3>2. out'.core = IF Busiest(types, {"all"}) # None THEN Busiest(types, {"all"})
                      ELSE Busiest(types, {"compute", "render"})
      BY <2>2 DEF Core
    <3> QED  BY <2>2, <3>1, <3>2
  <2> QED  BY <2>1, <2>2, <2>3, <2>4 DEF UtilizationIsOfItsClass, CoreIsTheWhole
<1>4. CASE Tick \/ ReadRest \/ UNCHANGED vars
  <2>1. UNCHANGED <<rates, true, engines, types>>
    BY <1>4 DEF Tick, ReadRest, vars, card, meters
  <2>2. out'.core = out.core /\ out'.media = out.media
    <3>1. "core" \in DOMAIN out /\ "media" \in DOMAIN out
      BY <1>1 DEF OutInv, Fields
    <3> QED  BY <1>4, <3>1 DEF Tick, ReadRest, vars
  <2> QED  BY <2>1, <2>2, SaidIsSaid
<1>7. CASE ReadSensor \/ FinishSensors
  <2>1. UNCHANGED <<rates, true, engines, types>>
    BY <1>7 DEF ReadSensor, FinishSensors, card, meters
  <2>2. out'.core = out.core /\ out'.media = out.media
    <3>1. DOMAIN out = Fields
      BY <1>1 DEF OutInv
    <3>2. Sensors \in Seq({"edge", "hotspot", "memory", "other"}) /\ next \in Nat \ {0}
      BY <1>1, CardIs DEF TypeOK
    <3>3. CASE ReadSensor
      <4>1. out' \in {out, Put(out, Sensors[next])}
            /\ Sensors[next] \in {"edge", "hotspot", "memory", "other"}
        BY <3>2, <3>3 DEF ReadSensor
      <4> QED  BY <3>1, <4>1 DEF Put, Fields
    <3>4. CASE FinishSensors
      BY <3>1, <3>4 DEF FinishSensors, Fields
    <3> QED  BY <1>7, <3>3, <3>4
  <2> QED  BY <2>1, <2>2, SaidIsSaid
<1>5. CASE ReadPower
  <2>1. UNCHANGED <<engines, types, out>>
    BY <1>5 DEF ReadPower, card
  <2>2. ASSUME NEW e \in 1..engines  PROVE rates'[e] = rates[e] /\ true'[e] = true[e]
    <3>1. e \in Meters /\ e # Power /\ Power \in Meters
      <4>1. Meters = 0..Len(EngineTypes) /\ Len(EngineTypes) \in Nat
        BY <1>1, CardIs
      <4>2. engines \in 0..Len(EngineTypes)
        BY <1>1 DEF TypeOK
      <4> QED  BY <4>1, <4>2 DEF Power
    <3>2. CASE Measure(Power)
      BY <1>1, <3>1, <3>2, MeasureKeeps
    <3>3. CASE UNCHANGED meters
      BY <3>3 DEF meters
    <3> QED  BY <1>5, <3>2, <3>3 DEF ReadPower
  <2> QED  BY <2>1, <2>2, SaidIsSaid
<1>6. CASE Construct \/ StartSample \/ ReadEngine \/ HandOver
  <2>1. pc' \notin {"power", "sensors", "rest", "sampled"}
    BY <1>6 DEF Construct, AskCount, AskHandles, ReadProperties, FinishProperties, DiscoverPower,
                StartSample, ReadEngine, HandOver
  <2> QED  BY <1>2, <2>1
<1> QED  BY <1>3, <1>4, <1>5, <1>6, <1>7 DEF Next, Sample

\* A step keeps a slot that it leaves alone, and its kind's answers with it.
LEMMA NextSensors == IInv /\ [Next]_vars => SensorInv' /\ EdgeComesFirst'
<1> SUFFICES ASSUME IInv, [Next]_vars  PROVE SensorInv' /\ EdgeComesFirst'
  OBVIOUS
<1> DEFINE Kinds == {"edge", "hotspot", "memory"}
<1>1. /\ OutInv /\ SensorInv /\ EdgeComesFirst /\ Sensors' = Sensors
      /\ Sensors \in Seq({"edge", "hotspot", "memory", "other"})
      /\ next \in Nat \ {0} /\ warm \subseteq DOMAIN Sensors
  BY SameCard, CardIs DEF IInv, TypeOK
<1>2. DOMAIN out = Fields /\ Kinds \subseteq Fields
  BY <1>1 DEF OutInv, Fields
<1>4. CASE StartSample \/ HandOver
  <2>1. warm' = {} /\ out' = Unset /\ pc' \notin {"rest", "sampled"}
    BY <1>4 DEF StartSample, HandOver
  <2>2. \A k \in Kinds : Warm(k)' = {} /\ out'[k] = Nothing
    BY <2>1 DEF Warm, Unset
  <2> QED  BY <2>1, <2>2 DEF SensorInv, EdgeComesFirst, IsOneOf
<1>5. CASE ReadSensor
  <2>1. pc = "sensors" /\ pc' = pc /\ Sensors[next] \in Kinds \cup {"other"}
        /\ next \in DOMAIN Sensors
    BY <1>1, <1>5 DEF ReadSensor
  <2>2. CASE UNCHANGED <<out, warm>>
    BY <1>1, <2>1, <2>2 DEF SensorInv, EdgeComesFirst, Warm, IsOneOf
  <2>3. CASE out' = Put(out, Sensors[next]) /\ warm' = warm \cup {next}
    <3>1. ASSUME NEW k \in Kinds, IsOneOf(out[k], Warm(k))
          PROVE  IsOneOf(out'[k], Warm(k)')
      <4>1. CASE Sensors[next] = k
        <5>1. out'[k] = next /\ next \in Warm(k)'
          BY <1>1, <1>2, <2>3, <4>1 DEF Put, Warm
        <5> QED  BY <5>1 DEF IsOneOf
      <4>2. CASE Sensors[next] # k
        <5>1. out'[k] = out[k] /\ Warm(k)' = Warm(k)
          BY <1>1, <1>2, <2>3, <4>2 DEF Put, Warm
        <5> QED  BY <3>1, <5>1
      <4> QED  BY <4>1, <4>2
    <3> QED  BY <1>1, <2>1, <3>1 DEF SensorInv, EdgeComesFirst, IsOneOf
  <2> QED  BY <1>5, <2>2, <2>3 DEF ReadSensor
<1>6. CASE FinishSensors
  <2>1. /\ pc = "sensors" /\ pc' = "rest" /\ warm' = warm
        /\ out'.edge = IF out.edge # Nothing THEN out.edge ELSE out.hotspot
        /\ out'.hotspot = out.hotspot /\ out'.memory = out.memory
    BY <1>2, <1>6 DEF FinishSensors
  <2>2. \A k \in Kinds : Warm(k)' = Warm(k) /\ Nothing \notin Warm(k)
    <3>1. Nothing \notin DOMAIN Sensors
      BY <1>1 DEF Nothing
    <3> QED  BY <1>1, <2>1, <3>1 DEF Warm
  <2>3. /\ IsOneOf(out.edge, Warm("edge")) /\ IsOneOf(out.hotspot, Warm("hotspot"))
        /\ IsOneOf(out.memory, Warm("memory"))
    BY <1>1, <2>1 DEF SensorInv
  <2>4. IsOneOf(out'.edge, IF Warm("edge") # {} THEN Warm("edge") ELSE Warm("hotspot"))
    BY <2>1, <2>2, <2>3 DEF IsOneOf
  <2>5. IsOneOf(out'.hotspot, Warm("hotspot")) /\ IsOneOf(out'.memory, Warm("memory"))
    BY <2>1, <2>3
  <2> HIDE DEF Kinds
  <2>6. Warm("edge")' = Warm("edge") /\ Warm("hotspot")' = Warm("hotspot")
        /\ Warm("memory")' = Warm("memory")
    BY <2>2 DEF Kinds
  <2> QED  BY <2>1, <2>4, <2>5, <2>6 DEF SensorInv, EdgeComesFirst, IsOneOf
<1>7. CASE \/ Construct \/ Tick \/ ReadEngine \/ ReadPower \/ FinishEngines \/ ReadRest
           \/ UNCHANGED vars
  <2>1. /\ warm' = warm
        /\ pc' \in {"rest", "sampled"} <=> pc \in {"rest", "sampled"}
    BY <1>7 DEF Construct, AskCount, AskHandles, ReadProperties, FinishProperties, DiscoverPower,
                Tick, ReadEngine, ReadPower, FinishEngines, ReadRest, vars
  <2>2. \A k \in Kinds : out'[k] = out[k]
    <3>1. CASE FinishEngines
      BY <1>2, <3>1 DEF FinishEngines
    <3>2. CASE ReadRest
      BY <1>2, <3>2 DEF ReadRest
    <3>3. CASE Construct \/ Tick \/ ReadEngine \/ ReadPower \/ UNCHANGED vars
      <4>1. out' = out
        BY <3>3 DEF Construct, AskCount, AskHandles, ReadProperties, FinishProperties,
                    DiscoverPower, Tick, ReadEngine, ReadPower, vars
      <4> QED  BY <4>1
    <3> QED  BY <1>7, <3>1, <3>2, <3>3
  <2>3. \A k \in Kinds : Warm(k)' = Warm(k)
    BY <1>1, <2>1 DEF Warm
  <2>4. /\ Warm("edge")' = Warm("edge") /\ Warm("hotspot")' = Warm("hotspot")
        /\ Warm("memory")' = Warm("memory")
        /\ out'.edge = out.edge /\ out'.hotspot = out.hotspot /\ out'.memory = out.memory
    BY <2>2, <2>3
  <2> QED  BY <1>1, <2>1, <2>4 DEF SensorInv, EdgeComesFirst, IsOneOf
<1> QED  BY <1>4, <1>5, <1>6, <1>7 DEF Next, Sample

LEMMA InitIInv == Init => IInv
<1> SUFFICES ASSUME Init  PROVE IInv
  OBVIOUS
<1>1. TypeOK
  <2>1. IsCard(hardware)
    BY CardAssumption DEF Init
  <2>2. /\ Wrap \in Nat /\ MaxGap \in Nat /\ MaxGap < Wrap
        /\ EngineTypes \in Seq(Classes) /\ PowerDomains \in Seq(BOOLEAN)
    BY <2>1 DEF IsCard, Wrap, MaxGap, EngineTypes, PowerDomains
  <2>3. Len(EngineTypes) \in Nat /\ Len(PowerDomains) \in Nat
    BY <2>2
  <2>4. None \in Fractions /\ None \in (0..(Wrap - 1)) \X (0..(Wrap - 1))
    BY <2>2 DEF None, Fractions
  <2>5. counter \in [Meters -> 0..(Wrap - 1)]
    <3>1. {0, Wrap - 1} \subseteq 0..(Wrap - 1)
      BY <2>2
    <3> QED  BY <3>1 DEF Init
  <2>6. /\ truth \in [Meters -> Fractions] /\ true \in [Meters -> Fractions]
        /\ rates \in [Meters -> Fractions]
        /\ last \in [Meters -> (0..(Wrap - 1)) \X (0..(Wrap - 1))]
    BY <2>4 DEF Init, NoRates
  <2>7. types \in [DOMAIN EngineTypes -> Classes]
    BY DEF Init, Classes
  <2>8. /\ hardware \in Cards /\ stamp = 0 /\ pc = "count" /\ next = 1 /\ count = 0 /\ engines = 0
        /\ domain = 0 /\ have = {} /\ warm = {}
    BY DEF Init, Nothing
  <2>9. stamp \in 0..(Wrap - 1)
    BY <2>2, <2>8
  <2> QED  BY <2>3, <2>5, <2>6, <2>7, <2>8, <2>9 DEF TypeOK
<1>2. MeterInv /\ RateInv
  BY DEF Init, MeterInv, RateInv, NoRates
<1>3. OutInv
  BY DEF Init, OutInv, Unset, Fields
<1>4. ConstructInv
  BY DEF Init, ConstructInv, Unset, Constructing
<1>5. HandlesAreReal
  <2>1. engines = 0 /\ count = 0 /\ have = {}
    BY DEF Init
  <2> QED  BY <2>1 DEF HandlesAreReal
<1>6. UtilizationIsOfItsClass
  <2>1. out.core = None /\ out.media = None
    BY DEF Init, Unset
  <2> QED  BY <2>1 DEF UtilizationIsOfItsClass, CoreIsTheWhole
<1>7. SensorInv /\ EdgeComesFirst
  <2>1. \A k : Warm(k) = {}
    BY DEF Init, Warm
  <2>2. out.edge = Nothing /\ out.hotspot = Nothing /\ out.memory = Nothing /\ pc = "count"
    BY DEF Init, Unset
  <2> QED  BY <2>1, <2>2 DEF SensorInv, EdgeComesFirst, IsOneOf
<1> QED  BY <1>1, <1>2, <1>3, <1>4, <1>5, <1>6, <1>7 DEF IInv

(***************************************************************************)
(* The theorems.                                                           *)
(***************************************************************************)
\* The counters, the baselines and the components of a card, at every step of the
\* constructor and of a sample.
THEOREM LevelZeroInvariant == Spec => []IInv
<1>1. IInv /\ [Next]_vars => IInv'
  BY NextTypeOK, NextMeters, NextOutInv, NextConstructInv, NextHandlesAreReal, NextUtilization,
     NextSensors DEF IInv
<1> QED  BY <1>1, InitIInv, PTL DEF Spec

\* No handle is used that enumerate() has not been given, and power is the whole card's.
THEOREM OnlyRealHandles == Spec => []HandlesAreReal
<1>1. IInv => HandlesAreReal
  BY DEF IInv
<1> QED  BY <1>1, LevelZeroInvariant, PTL

\* rate_percent() and read_power() report what the meter did between its last two readings.
THEOREM RatesTellTheTruth == Spec => []RatesAreTrue
<1>1. IInv => RatesAreTrue
  BY DEF IInv, RateInv, RatesAreTrue
<1> QED  BY <1>1, LevelZeroInvariant, PTL

\* read_utilization() takes each field from the busiest engine of the field's class.
THEOREM UtilizationKnowsItsClass == Spec => []UtilizationIsOfItsClass
<1>1. IInv => UtilizationIsOfItsClass
  BY DEF IInv
<1> QED  BY <1>1, LevelZeroInvariant, PTL

\* read_temperatures() fills each slot from a sensor of its kind when one answers, and the
\* edge slot from a hotspot only when no edge sensor does.
THEOREM HotspotIsAFallback == Spec => []EdgeComesFirst
<1>1. IInv => EdgeComesFirst
  BY DEF IInv
<1> QED  BY <1>1, LevelZeroInvariant, PTL
================================================================================
