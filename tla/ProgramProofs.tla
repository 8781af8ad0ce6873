----------------------------- MODULE ProgramProofs -----------------------------
(***************************************************************************)
(* Proofs about Program: what the registry keeps it keeps under main() and *)
(* under any client, a client's rate of asking is bounded, a GPU that was  *)
(* there throughout is in the dump with its rates, every command line is   *)
(* obeyed, and every dump reads back.                                      *)
(***************************************************************************)
EXTENDS Program, RegistryProofs, WellFoundedInduction

(***************************************************************************)
(* What main() is about to do, and what the registry is doing then.        *)
(***************************************************************************)
InCall == pc \in {"probe", "adopt"}
InPass == pc \in {"sample", "read"}

StageInv ==
  /\ stage \in {"parse", "probe", "prime", "pause", "look", "sample", "print", "exit", "watch"}
  /\ stage = "parse" => argv \in CommandLines
  /\ stage \in {"parse", "probe", "exit", "sample"} => pc = "idle"
  /\ stage \in {"prime", "look"} => ~InPass
  /\ stage \in {"pause", "print"} => ~InCall
  /\ stage \in {"parse", "probe"} =>
       devices = <<>> /\ found = {} /\ \A b \in Backends : wait[b] = 0
  /\ config.interval \in kMinInterval..kMaxInterval
  /\ stage \in {"prime", "pause"} => config.mode = "dump"
  /\ stage = "look" => config.mode # "dump"
  /\ stage \in {"sample", "print"} /\ config.mode = "dump" => gap \in kMinInterval..kMaxPriming

(***************************************************************************)
(* Steady GPUs are awake and their drivers in order.                       *)
(***************************************************************************)
SteadyInv ==
  /\ steady \subseteq {g \in Gpus : power[g] = "active"}
  /\ \A d \in found : d.gpu \in steady => d.healthy
  /\ \A e \in Listed : e.gpu \in steady => e.healthy

\* Whoever sees a GPU has found it once it has been asked, and it is listed once what
\* was found is adopted; it was asked, because nothing had been yet.
FoundOrListed(g, b) ==
  IsListed(g) \/ (pc = "adopt" /\ b = at /\ \E d \in found : d.gpu = g)

ProbeInv ==
  /\ stage \in {"prime", "look"} /\ InCall =>
       \A b \in Backends :
         /\ b > at \/ (b = at /\ pc = "probe") => wait[b] = 0
         /\ b < at \/ (b = at /\ pc = "adopt") =>
              \A g \in steady \cap Sees[b] : FoundOrListed(g, b)
  /\ stage \in {"prime", "pause", "sample", "print"} /\ ~InCall /\ config.mode = "dump" =>
       \A b \in Backends : \A g \in steady \cap Sees[b] : IsListed(g)

\* A pass polls the steady, up to where it is and, when it is over, all of them; and so
\* did the one before it.
PolledIn(e, pass) == [key |-> e.key, polled |-> TRUE] \in ToSet(pass)

PolledInv ==
  /\ InPass => \A i \in 1..(at - 1) : devices[i].gpu \in steady => readings[i].polled
  /\ pc = "read" /\ seen = "suspended" => Entry.gpu \notin steady
  /\ stage \in {"pause", "print"} /\ pc = "idle" =>
       \A e \in Listed : e.gpu \in steady => PolledIn(e, readings)
  /\ stage \in {"sample", "print"} /\ config.mode = "dump" =>
       \A e \in Listed : e.gpu \in steady => PolledIn(e, priming)

\* No two GPUs have one identity, by whichever backend and with or without an address.
Names(g) == {Identity[b][g] : b \in Backends} \cup {Fallback[b][g] : b \in Backends}
IdentitiesDiffer == \A g, h \in Gpus : Names(g) \cap Names(h) \subseteq {NoIdentity} \/ g = h

KeysAreNames == \A e \in Listed : e.key \in Names(e.gpu) \cup AnonymousKeys

\* The last backend waits for what is missing of the interval since it was asked.
RestInv ==
  /\ since \in 0..Retry
  /\ stage = "watch" /\ NBackends \in Backends =>
       \/ pc = "adopt" /\ at = NBackends
       \/ wait[NBackends] + since >= Retry

(***************************************************************************)
(* A step of the program is one of the registry, or destroys it.           *)
(***************************************************************************)
LEMMA ExitIsInit ==
  ASSUME NEW code, Exit(code)
  PROVE  Init'
BY DEF Exit, Init

LEMMA ProgramStep ==
  ASSUME [ProgramNext]_progVars
  PROVE  [Next]_vars \/ Init'
<1>1. CASE MainStep
  BY <1>1, ExitIsInit
     DEF MainStep, Parse, CallProbe, CallPrimingPass, Pause, Look, CallPass, PrintDump,
         PrintList, Next
<1>2. CASE CallStep \/ Watch \/ MachineStep
  BY <1>2 DEF CallStep, Watch, MachineStep, Next
<1>3. CASE UNCHANGED progVars
  BY <1>3 DEF progVars
<1> QED
  BY <1>1, <1>2, <1>3 DEF ProgramNext

LEMMA ProgramInitIsInit == ProgramInit => Init
BY DEF ProgramInit

\* What the registry keeps under its own client it keeps under this one.
THEOREM ProgramKeepsRegistry == ProgramSpec => [](IInv /\ LoopInv /\ PassInv /\ FoundIsFinite)
<1> DEFINE Kept == IInv /\ LoopInv /\ PassInv /\ FoundIsFinite
<1>1. Init => Kept
  BY InitIInv, FS_EmptySet DEF Init, LoopInv, PassInv, FoundIsFinite
<1>2. (Init => Kept)'
  BY <1>1, PTL
<1>3. Kept /\ [Next]_vars => Kept'
  BY NextIInv, NextLoopInv, NextPassInv, NextFoundIsFinite
<1>4. Kept /\ [ProgramNext]_progVars => Kept'
  BY <1>2, <1>3, ProgramStep
<1> HIDE DEF Kept
<1>5. ProgramSpec => []Kept
  BY <1>1, <1>4, ProgramInitIsInit, PTL DEF ProgramSpec
<1> QED
  BY <1>5, PTL DEF Kept

\* No client, and no destruction at the end, makes the registry list a key twice or lose
\* count of its devices, or a pass miss a survivor.
THEOREM ListIsKeptForEveryClient ==
  ProgramSpec => [](OneEntryPerKey /\ LiveCountsExact /\ PassCoversTheSurvivors)
<1>1. IInv /\ PassInv => OneEntryPerKey /\ LiveCountsExact /\ PassCoversTheSurvivors
  BY ListedAreEntries DEF IInv, TypeOK, ListInv, PassInv, Reported, InRosterOrder,
                          PassCoversTheSurvivors
<1> QED
  BY <1>1, ProgramKeepsRegistry, PTL

\* Every call that main() or another client makes comes to its end.
THEOREM CallsEndForEveryClient == ProgramSpec => CallsEnd
<1>1. IInv /\ LoopInv /\ PassInv /\ FoundIsFinite => [Step => Less]_vars
  BY ProbeStepIsProgress, PassStepIsProgress DEF Step
<1> QED
  BY <1>1, ProgramKeepsRegistry, PTL DEF CallsEnd, Less

(***************************************************************************)
(* Least and greatest numbers.                                             *)
(***************************************************************************)
LEMMA LesserOf ==
  ASSUME NEW a \in Nat, NEW b \in Nat
  PROVE  /\ Min({a, b}) \in {a, b} /\ Min({a, b}) <= a /\ Min({a, b}) <= b
<1>1. CASE a <= b
  BY <1>1 DEF Min
<1>2. CASE b < a
  BY <1>2 DEF Min
<1> QED
  BY <1>1, <1>2

(***************************************************************************)
(* How often a backend is asked.                                           *)
(***************************************************************************)
\* What a step of a call does to the wait of the last backend.
LEMMA WaitOfLast ==
  ASSUME IInv, Step, NBackends \in Backends,
         ~(pc = "adopt" /\ at = NBackends), ~(AskBackend /\ at = NBackends)
  PROVE  wait'[NBackends] = wait[NBackends] \/ wait'[NBackends] = Retry
<1>1. wait \in [Backends -> 0..Never]
  BY DEF IInv, TypeOK
<1>2. CASE ScheduleBackend
  <2>1. at # NBackends /\ wait' = [wait EXCEPT ![at] = NextProbe(at)]
    BY <1>2 DEF ScheduleBackend
  <2> QED  BY <1>1, <2>1
<1>3. CASE at \in DOMAIN devices /\ RetireAt(at)
  <2>1. wait' = [wait EXCEPT ![devices[at].backend] = Retry]
    BY <1>3 DEF RetireAt, Retire
  <2> QED  BY <1>1, <2>1
<1>4. CASE RetireDead
  BY <1>3, <1>4 DEF RetireDead
<1>5. CASE Poll
  <2>1. at \in DOMAIN devices /\ (RetireAt(at) \/ ReportAt(at, TRUE))
    BY <1>5 DEF Poll, IInv, TypeOK
  <2> QED  BY <1>3, <2>1 DEF ReportAt
<1> QED
  BY <1>2, <1>4, <1>5
     DEF Step, ProbeStep, PassStep, SkipBackend, AskBackend, AdoptFound, FinishProbe,
         AskPowerState, ReportSuspended, ReportAt, FinishPass

LEMMA NextRestInv == IInv /\ RestInv /\ [ProgramNext]_progVars => RestInv'
<1> SUFFICES ASSUME IInv, RestInv, [ProgramNext]_progVars
             PROVE  RestInv'
  OBVIOUS
<1>a. Retry \in Nat /\ Retry > 0 /\ Never = Retry + 1 /\ NBackends \in Nat
  BY ConstantFacts
<1>b. wait \in [Backends -> 0..Never] /\ (NBackends \in Backends => wait[NBackends] \in 0..Never)
  BY DEF IInv, TypeOK
<1>1. CASE MainStep
  BY <1>1 DEF MainStep, Parse, CallProbe, CallPrimingPass, Pause, Look, CallPass, PrintDump,
              PrintList, Exit, RestInv
<1>2. CASE CallStep
  <2>1. stage' = stage /\ Step
        /\ since' = IF AskBackend /\ at = NBackends /\ stage = "watch" THEN 0 ELSE since
    BY <1>2 DEF CallStep
  <2>2. since' \in 0..Retry
    BY <1>a, <2>1 DEF RestInv
  <2> SUFFICES ASSUME stage = "watch", NBackends \in Backends,
                      ~(pc' = "adopt" /\ at' = NBackends)
               PROVE  wait'[NBackends] + since' >= Retry
    BY <2>1, <2>2 DEF RestInv
  <2>3. CASE AskBackend /\ at = NBackends
    BY <2>3 DEF AskBackend
  <2>4. CASE pc = "adopt" /\ at = NBackends
    <3>1. ScheduleBackend
      BY <2>1, <2>4 DEF Step, ProbeStep, PassStep, SkipBackend, AskBackend, AdoptFound,
           FinishProbe, RetireDead, AskPowerState, ReportSuspended, Poll, FinishPass
    <3>2. wait' = [wait EXCEPT ![NBackends] = NextProbe(NBackends)]
      BY <2>4, <3>1 DEF ScheduleBackend
    <3>3. wait'[NBackends] \in {Retry, Never}
      BY <1>b, <3>2 DEF NextProbe
    <3> QED  BY <1>a, <2>2, <3>3
  <2>5. CASE ~(AskBackend /\ at = NBackends) /\ ~(pc = "adopt" /\ at = NBackends)
    <3>1. wait'[NBackends] = wait[NBackends] \/ wait'[NBackends] = Retry
      BY <2>1, <2>5, WaitOfLast
    <3>2. since' = since /\ since \in 0..Retry /\ wait[NBackends] + since >= Retry
      BY <2>1, <2>5 DEF RestInv
    <3> QED  BY <1>a, <1>b, <3>1, <3>2
  <2> QED  BY <2>3, <2>4, <2>5
<1>3. CASE Watch
  <2>1. CASE (StartProbe \/ StartPass) /\ UNCHANGED since
    <3>1. UNCHANGED <<stage, wait, since>> /\ pc = "idle"
      BY <1>3, <2>1 DEF Watch, StartProbe, StartPass
    <3> QED  BY <3>1 DEF RestInv
  <2>2. CASE Tick /\ since' = Min({since + 1, Retry})
    <3>1. stage' = stage /\ pc = "idle"
          /\ wait' = [b \in Backends |-> IF wait[b] \in 1..Retry THEN wait[b] - 1 ELSE wait[b]]
      BY <1>3, <2>2 DEF Watch, Tick
    <3>2. since \in 0..Retry
      BY DEF RestInv
    <3>3. since' \in {since + 1, Retry} /\ since' <= Retry /\ since' <= since + 1
      BY <1>a, <2>2, <3>2, LesserOf
    <3>4. since' \in 0..Retry
      BY <1>a, <3>2, <3>3
    <3>5. ASSUME stage = "watch", NBackends \in Backends
          PROVE  wait'[NBackends] + since' >= Retry
      <4>1. wait[NBackends] + since >= Retry
        BY <3>1, <3>5 DEF RestInv
      <4>2. wait'[NBackends] \in {wait[NBackends], wait[NBackends] - 1}
            /\ (wait[NBackends] = 0 => wait'[NBackends] = 0)
        BY <1>a, <1>b, <3>1, <3>5
      <4> QED  BY <1>a, <1>b, <3>2, <3>3, <3>5, <4>1, <4>2
    <3> QED  BY <3>1, <3>4, <3>5 DEF RestInv
  <2> QED  BY <1>3, <2>1, <2>2 DEF Watch
<1>4. CASE MachineStep
  <2>1. UNCHANGED <<stage, since, pc, at, wait>>
    BY <1>4 DEF MachineStep, Machine, PlugIn, Unplug, FallAsleep, WakeUp, BeginTransition,
                PowerChange
  <2> QED  BY <2>1 DEF RestInv
<1>5. CASE UNCHANGED progVars
  BY <1>5 DEF progVars, own, vars, RestInv
<1> QED
  BY <1>1, <1>2, <1>3, <1>4, <1>5 DEF ProgramNext

\* A client that watches, whenever it probes and however often devices fail, asks the last
\* backend at most once in a retry interval.
THEOREM BackendsAreLeftToRest == ProgramSpec => []ReprobeIsRare
<1>1. ProgramInit /\ IInv => RestInv
  <2> SUFFICES ASSUME ProgramInit PROVE RestInv
    OBVIOUS
  <2>1. since = Retry /\ wait = [b \in Backends |-> 0]
    BY DEF ProgramInit, Init
  <2> QED  BY <2>1, ConstantFacts DEF RestInv
<1>2. IInv /\ LoopInv /\ RestInv => ReprobeIsRare
  <2> SUFFICES ASSUME LoopInv, RestInv, stage = "watch", pc = "probe", at = NBackends, Due(at)
               PROVE  since = Retry
    BY DEF ReprobeIsRare
  <2>1. NBackends \in Backends
    BY ConstantFacts DEF LoopInv, Backends
  <2> QED  BY <2>1, ConstantFacts DEF RestInv, Due
<1>3. ProgramInit => IInv
  BY ProgramInitIsInit, InitIInv
<1> QED
  BY <1>1, <1>2, <1>3, NextRestInv, ProgramKeepsRegistry, PTL DEF ProgramSpec

(***************************************************************************)
(* The loop of parse_arguments(), as a function of the words it has taken. *)
(***************************************************************************)
\* What holds of 0, and of n + 1 when it holds of n, holds up to any number.
LEMMA UpTo ==
  ASSUME NEW n \in Nat, NEW S, 0 \in S, \A i \in 0..n : i \in S /\ i < n => i + 1 \in S
  PROVE  0..n \subseteq S
<1> DEFINE C == {i \in 0..n : i \notin S}
<1>1. SUFFICES ASSUME C # {} PROVE FALSE
  OBVIOUS
<1>2. PICK m \in C : \A i \in C : <<i, m>> \notin OpToRel(<, Nat)
  <2>1. C \subseteq Nat
    OBVIOUS
  <2> HIDE DEF C
  <2> QED  BY <1>1, <2>1, WFMin, NatLessThanWellFounded, Zenon
<1>3. m \in 0..n /\ m \notin S
  OBVIOUS
<1>4. m \in 1..n
  BY <1>3
<1>5. m - 1 \in 0..n /\ m - 1 < n /\ m - 1 \notin C
  <2>1. m - 1 \in Nat /\ m \in Nat /\ m - 1 < m /\ m - 1 < n /\ m - 1 \in 0..n
    BY <1>4
  <2>2. <<m - 1, m>> \in OpToRel(<, Nat)
    BY <2>1 DEF OpToRel
  <2> HIDE DEF C
  <2> QED  BY <1>2, <2>1, <2>2
<1>6. m - 1 \in S
  BY <1>5
<1>7. m - 1 + 1 \in S /\ m - 1 + 1 = m
  BY <1>4, <1>5, <1>6
<1> QED
  BY <1>3, <1>7

\* A function on 0..n may be defined by its value at 0 and that at i by that at i - 1.
Starts(f, n, base, next) == f[0] = base /\ \A i \in 1..n : f[i] = next[i][f[i - 1]]

LEMMA PrefixFunction ==
  ASSUME NEW n \in Nat, NEW R, NEW base \in R, NEW next \in [1..n -> [R -> R]]
  PROVE  \E f \in [0..n -> R] : Starts(f, n, base, next)
<1> DEFINE S == {m \in 0..n : \E f \in [0..m -> R] : Starts(f, m, base, next)}
<1>1. 0 \in S
  <2> DEFINE f == [i \in 0..0 |-> base]
  <2>1. f \in [0..0 -> R] /\ f[0] = base /\ 1..0 = {}
    OBVIOUS
  <2> HIDE DEF f
  <2>2. Starts(f, 0, base, next)
    BY <2>1 DEF Starts
  <2>3. 0 \in 0..n
    OBVIOUS
  <2> QED  BY <2>1, <2>2, <2>3
<1>2. ASSUME NEW m \in 0..n, m \in S, m < n
      PROVE  m + 1 \in S
  <2>1. PICK f \in [0..m -> R] : Starts(f, m, base, next)
    BY <1>2
  <2> DEFINE g == [i \in 0..(m + 1) |-> IF i <= m THEN f[i] ELSE next[m + 1][f[m]]]
  <2>2. next[m + 1][f[m]] \in R
    BY <1>2
  <2>3. g \in [0..(m + 1) -> R]
    BY <2>2
  <2>4. /\ g[0] = f[0] /\ g[m + 1] = next[m + 1][f[m]] /\ g[m] = f[m]
        /\ \A i \in 1..m : g[i] = f[i] /\ g[i - 1] = f[i - 1]
    OBVIOUS
  <2> HIDE DEF g
  <2>5. Starts(g, m + 1, base, next)
    <3>1. ASSUME NEW i \in 1..(m + 1) PROVE g[i] = next[i][g[i - 1]]
      <4>1. CASE i \in 1..m
        BY <2>1, <2>4, <4>1 DEF Starts
      <4>2. CASE i = m + 1
        BY <2>4, <4>2
      <4> QED  BY <4>1, <4>2
    <3> QED  BY <2>1, <2>4, <3>1 DEF Starts
  <2> QED
    BY <1>2, <2>3, <2>5
<1>3. n \in S
  <2> HIDE DEF S
  <2>1. \A m \in 0..n : m \in S /\ m < n => m + 1 \in S
    BY <1>2
  <2>2. 0..n \subseteq S
    BY <1>1, <2>1, UpTo
  <2> QED  BY <2>2
<1> QED
  BY <1>3

Lines == Seq([name : STRING, value : STRING])
Results ==
  [mode : {"run", "dump", "help", "version"}, interval : kMinInterval..kMaxInterval,
   error : {"none", "not a number", "out of range", "unrecognised", "needs a value"},
   wants : BOOLEAN, returned : BOOLEAN]

LEMMA TakenValue ==
  ASSUME NEW r \in Results, NEW text
  PROVE  /\ TakeValue(r, text) \in Results
         /\ IntervalError(text) # "none" =>
              /\ TakeValue(r, text).error = IntervalError(text)
              /\ TakeValue(r, text).returned
         /\ IntervalError(text) = "none" =>
              /\ TakeValue(r, text).interval = Numeral[text]
              /\ TakeValue(r, text).mode = r.mode /\ TakeValue(r, text).error = r.error
              /\ ~TakeValue(r, text).wants
              /\ TakeValue(r, text).returned = r.returned
<1>1. CASE IntervalError(text) # "none"
  <2>1. TakeValue(r, text) = [r EXCEPT !.error = IntervalError(text), !.returned = TRUE]
    BY <1>1 DEF TakeValue, Rejected
  <2>2. IntervalError(text) \in {"none", "not a number", "out of range"}
    BY DEF IntervalError
  <2> QED  BY <1>1, <2>1, <2>2 DEF Results
<1>2. CASE IntervalError(text) = "none"
  <2>1. Numeral[text] \in kMinInterval..kMaxInterval
    BY <1>2 DEF IntervalError
  <2>2. TakeValue(r, text) = [r EXCEPT !.interval = Numeral[text], !.wants = FALSE]
    BY <1>2 DEF TakeValue
  <2> QED  BY <1>2, <2>1, <2>2 DEF Results
<1> QED
  BY <1>1, <1>2

LEMMA TakeWordType ==
  ASSUME NEW r \in Results, NEW w
  PROVE  TakeWord(r, w) \in Results
<1>1. \A text : TakeValue(r, text) \in Results
  BY TakenValue
<1>2. /\ [r EXCEPT !.mode = "help", !.returned = TRUE] \in Results
      /\ [r EXCEPT !.mode = "version", !.returned = TRUE] \in Results
      /\ [r EXCEPT !.mode = "dump"] \in Results
      /\ [r EXCEPT !.error = "unrecognised", !.returned = TRUE] \in Results
      /\ [r EXCEPT !.wants = TRUE] \in Results
  BY DEF Results
<1>3. TakeOption(r, w) \in Results
  BY <1>1, <1>2 DEF TakeOption, Rejected
<1> QED
  BY <1>1, <1>3 DEF TakeWord, TakeNext

\* What parse_arguments() has made of the first i words.
After(line) ==
  LET after[i \in 0..Len(line)] == IF i = 0 THEN Parsing ELSE TakeWord(after[i - 1], line[i])
  IN  after

LEMMA AfterWords ==
  ASSUME NEW line \in Lines
  PROVE  /\ After(line) \in [0..Len(line) -> Results]
         /\ After(line)[0] = Parsing
         /\ \A i \in 1..Len(line) : After(line)[i] = TakeWord(After(line)[i - 1], line[i])
<1> DEFINE n == Len(line)
           next == [i \in 1..n |-> [r \in Results |-> TakeWord(r, line[i])]]
           Equation(f) ==
             f = [i \in 0..n |-> IF i = 0 THEN Parsing ELSE TakeWord(f[i - 1], line[i])]
<1>1. n \in Nat /\ Parsing \in Results /\ next \in [1..n -> [Results -> Results]]
  <2>1. n \in Nat
    BY DEF Lines
  <2>2. Parsing \in Results
    BY DEF Parsing, Results, kDefaultInterval, kMinInterval, kMaxInterval
  <2> QED  BY <2>1, <2>2, TakeWordType
<1>2. PICK f \in [0..n -> Results] : Starts(f, n, Parsing, next)
  <2> HIDE DEF n, next, Equation
  <2> QED  BY <1>1, PrefixFunction
<1>3. \A i \in 1..n : f[i] = TakeWord(f[i - 1], line[i])
  BY <1>1, <1>2 DEF Starts
<1>4. Equation(f)
  BY <1>1, <1>2, <1>3 DEF Starts
<1>5. Equation(After(line))
  <2>1. After(line) = CHOOSE g : Equation(g)
    BY DEF After
  <2> HIDE DEF Equation
  <2> QED  BY <1>4, <2>1
<1>6. /\ After(line)[0] = Parsing
      /\ \A i \in 1..n : After(line)[i] = TakeWord(After(line)[i - 1], line[i])
  BY <1>1, <1>5
<1>7. 0..n \subseteq {i \in 0..n : After(line)[i] \in Results}
  <2>1. \A i \in 0..n : After(line)[i] \in Results /\ i < n => After(line)[i + 1] \in Results
    <3> SUFFICES ASSUME NEW i \in 0..n, After(line)[i] \in Results, i < n
                 PROVE  After(line)[i + 1] \in Results
      OBVIOUS
    <3>1. i + 1 \in 1..n /\ i + 1 - 1 = i
      BY <1>1
    <3>2. After(line)[i + 1] = TakeWord(After(line)[i], line[i + 1])
      BY <1>6, <3>1
    <3> QED  BY <3>2, TakeWordType
  <2> DEFINE S == {i \in 0..n : After(line)[i] \in Results}
  <2>2. 0 \in S /\ \A i \in 0..n : i \in S /\ i < n => i + 1 \in S
    BY <1>1, <1>6, <2>1
  <2> HIDE DEF S
  <2>3. 0..n \subseteq S
    BY <1>1, <2>2, UpTo
  <2> QED  BY <2>3 DEF S
<1> QED
  BY <1>5, <1>6, <1>7

LEMMA ParseIsAfter ==
  ASSUME NEW line \in Lines
  PROVE  LET end == After(line)[Len(line)]
             r == IF end.wants /\ ~end.returned THEN Rejected(end, "needs a value") ELSE end
         IN  /\ end \in Results
             /\ ParseArguments(line) =
                  [mode |-> r.mode, interval |-> r.interval, error |-> r.error]
<1>1. After(line)[Len(line)] \in Results
  <2>1. Len(line) \in 0..Len(line)
    BY DEF Lines
  <2> QED  BY <2>1, AfterWords
<1> QED
  BY <1>1 DEF ParseArguments, After

\* The interval is always one that the rest of the program may use.
LEMMA IntervalIsInRange ==
  ASSUME NEW line \in Lines
  PROVE  ParseArguments(line).interval \in kMinInterval..kMaxInterval
<1> DEFINE end == After(line)[Len(line)]
           r == IF end.wants /\ ~end.returned THEN Rejected(end, "needs a value") ELSE end
<1>1. end \in Results /\ ParseArguments(line).interval = r.interval
  <2>1. end \in Results /\ ParseArguments(line) = [mode |-> r.mode, interval |-> r.interval,
                                                  error |-> r.error]
    BY ParseIsAfter
  <2> HIDE DEF r
  <2> QED  BY <2>1
<1>2. r.interval = end.interval
  <2> HIDE DEF end
  <2> QED  BY <1>1 DEF Rejected, Results
<1>3. end.interval \in kMinInterval..kMaxInterval
  <2> HIDE DEF end
  <2> QED  BY <1>1 DEF Results
<1> QED
  BY <1>1, <1>2, <1>3

(***************************************************************************)
(* Which words are options.                                                *)
(***************************************************************************)
LEMMA OptionFacts ==
  ASSUME NEW line \in Lines
  PROVE  /\ Len(line) \in Nat /\ DOMAIN line = 1..Len(line)
         /\ Options(line) \subseteq 1..Len(line)
         /\ \A i \in 1..Len(line) :
              i \in Options(line) <=> ~(i > 1 /\ WantsNext(line[i - 1]) /\ i - 1 \in Options(line))
<1> DEFINE n == Len(line)
           next == [i \in 1..n |-> [v \in BOOLEAN |-> i > 1 /\ WantsNext(line[i - 1]) /\ ~v]]
           Equation(g) ==
             g = [i \in 1..n |-> i > 1 /\ WantsNext(line[i - 1]) /\ ~g[i - 1]]
           isValue == CHOOSE g : Equation(g)
<1>1. n \in Nat /\ DOMAIN line = 1..n
  BY DEF Lines
<1>2. next \in [1..n -> [BOOLEAN -> BOOLEAN]]
  BY DEF WantsNext
<1>3. PICK f \in [0..n -> BOOLEAN] : Starts(f, n, FALSE, next)
  <2> HIDE DEF n, next, Equation, isValue
  <2> QED  BY <1>1, <1>2, PrefixFunction
<1> DEFINE g == [i \in 1..n |-> f[i]]
<1>4. \A i \in 1..n : g[i] = (i > 1 /\ WantsNext(line[i - 1]) /\ ~g[i - 1])
  <2> SUFFICES ASSUME NEW i \in 1..n
               PROVE  g[i] = (i > 1 /\ WantsNext(line[i - 1]) /\ ~g[i - 1])
    OBVIOUS
  <2>1. f[i - 1] \in BOOLEAN /\ f[i] = next[i][f[i - 1]]
    BY <1>1, <1>3 DEF Starts
  <2>2. g[i] = (i > 1 /\ WantsNext(line[i - 1]) /\ ~f[i - 1])
    BY <2>1
  <2>3. i > 1 => g[i - 1] = f[i - 1]
    BY <1>1
  <2> QED  BY <2>2, <2>3
<1>5. Equation(g)
  BY <1>4
<1>6. Equation(isValue)
  <2> HIDE DEF g, Equation
  <2> QED  BY <1>5
<1>7. Options(line) = {i \in DOMAIN line : ~isValue[i]}
  BY DEF Options
<1>8. \A i \in 1..n : isValue[i] = (i > 1 /\ WantsNext(line[i - 1]) /\ ~isValue[i - 1])
  <2> HIDE DEF isValue
  <2> QED  BY <1>6
<1> HIDE DEF isValue
<1>9. ASSUME NEW i \in 1..n
      PROVE  i \in Options(line) <=> ~(i > 1 /\ WantsNext(line[i - 1]) /\ i - 1 \in Options(line))
  <2>1. i > 1 => i - 1 \in 1..n
    BY <1>1
  <2> QED  BY <1>1, <1>7, <1>8, <2>1
<1> QED
  BY <1>1, <1>7, <1>9

\* The options before the word i, those that decide, and what the words say so far.
Before(line, i) == {j \in Options(line) : j < i}
Ends(line) == {i \in Options(line) : \/ line[i].name \in HelpFlags \cup VersionFlags
                                     \/ ErrorAt(line, i) # "none"}
Intervals(line, S) == {j \in S : line[j].name \in IntervalFlags}

IntervalOf(line, S, interval) ==
  \/ S = {} /\ interval = kDefaultInterval
  \/ \E i \in S : (\A j \in S : j <= i) /\ interval = Numeral[GivenInterval(line, i)]

GoesOn(line, r, S) ==
  /\ r.error = "none" /\ S \cap Ends(line) = {}
  /\ r.mode = IF \E j \in S : line[j].name \in DumpFlags THEN "dump" ELSE "run"
  /\ IntervalOf(line, Intervals(line, S), r.interval)

StopsAt(line, r, i) ==
  /\ i \in Ends(line) /\ \A j \in Ends(line) : i <= j
  /\ ErrorAt(line, i) # "none" => r.error = ErrorAt(line, i)
  /\ ErrorAt(line, i) = "none" =>
       /\ r.error = "none"
       /\ r.mode = IF line[i].name \in HelpFlags THEN "help" ELSE "version"
       /\ IntervalOf(line, Intervals(line, Before(line, i)), r.interval)

LEMMA FlagsDiffer ==
  ASSUME NEW name
  PROVE  /\ name \in IntervalFlags => name \notin HelpFlags \cup VersionFlags \cup DumpFlags
         /\ name \in DumpFlags => name \notin HelpFlags \cup VersionFlags
         /\ name \in HelpFlags => name \notin VersionFlags
BY DEF HelpFlags, VersionFlags, DumpFlags, IntervalFlags

\* What comes first of the options that decide is where the loop returns.
LEMMA FirstEnd ==
  ASSUME NEW line \in Lines, NEW i \in Ends(line), Before(line, i) \cap Ends(line) = {}
  PROVE  \A j \in Ends(line) : i <= j
<1>1. Ends(line) \subseteq Options(line) /\ Options(line) \subseteq Nat
  BY OptionFacts DEF Ends
<1>2. \A j \in Ends(line) : j < i => j \in Before(line, i)
  BY <1>1 DEF Before
<1> QED
  BY <1>1, <1>2

LEMMA BeforeNext ==
  ASSUME NEW line \in Lines, NEW i \in Nat
  PROVE  /\ i \in Options(line) => Before(line, i + 1) = Before(line, i) \cup {i}
         /\ i \notin Options(line) => Before(line, i + 1) = Before(line, i)
<1>1. Options(line) \subseteq Nat
  BY OptionFacts
<1> QED
  BY <1>1 DEF Before

\* An interval's value, in its own word or the next.
LEMMA ValueIsTaken ==
  ASSUME NEW line \in Lines, NEW i \in Options(line), NEW r \in Results,
         line[i].name \in IntervalFlags, ~r.returned,
         ErrorAt(line, i) = IntervalError(GivenInterval(line, i)),
         GoesOn(line, r, Before(line, i))
  PROVE  LET q == TakeValue(r, GivenInterval(line, i))
         IN  /\ q.returned => StopsAt(line, q, i)
             /\ ~q.returned => ~q.wants /\ GoesOn(line, q, Before(line, i + 1))
<1> DEFINE text == GivenInterval(line, i)
           q == TakeValue(r, text)
<1>1. i \in Nat /\ Options(line) \subseteq Nat
  BY OptionFacts
<1>2. CASE IntervalError(text) # "none"
  <2>1. q.error = IntervalError(text) /\ q.returned
    BY <1>2, TakenValue
  <2>2. i \in Ends(line) /\ \A j \in Ends(line) : i <= j
    <3>1. i \in Ends(line)
      BY <1>2 DEF Ends
    <3> QED  BY <3>1, FirstEnd DEF GoesOn
  <2>3. StopsAt(line, q, i)
    <3> HIDE DEF q, text
    <3> QED  BY <1>2, <2>1, <2>2 DEF StopsAt, text
  <2> QED
    BY <2>1, <2>3
<1>3. CASE IntervalError(text) = "none"
  <2>1. /\ q.interval = Numeral[text] /\ q.mode = r.mode /\ q.error = r.error
        /\ ~q.wants /\ q.returned = r.returned
    BY <1>3, TakenValue
  <2>2. /\ line[i].name \notin HelpFlags \cup VersionFlags /\ line[i].name \notin DumpFlags
        /\ Before(line, i + 1) = Before(line, i) \cup {i}
    BY <1>1, FlagsDiffer, BeforeNext
  <2>3. i \notin Ends(line)
    BY <1>3, <2>2 DEF Ends
  <2>4. IntervalOf(line, Intervals(line, Before(line, i + 1)), q.interval)
    <3>1. i \in Intervals(line, Before(line, i + 1))
      BY <2>2 DEF Intervals
    <3>2. \A j \in Intervals(line, Before(line, i + 1)) : j <= i
      BY <1>1 DEF Intervals, Before
    <3> HIDE DEF q
    <3> QED  BY <2>1, <3>1, <3>2 DEF IntervalOf, text
  <2>5. GoesOn(line, q, Before(line, i + 1))
    <3> HIDE DEF q, text
    <3> QED  BY <2>1, <2>2, <2>3, <2>4 DEF GoesOn
  <2> QED
    BY <2>1, <2>5
<1> QED
  BY <1>2, <1>3

\* An option that is not the end of the line for an interval.
LEMMA OptionIsTaken ==
  ASSUME NEW line \in Lines, NEW i \in Options(line), NEW r \in Results, ~r.returned, ~r.wants,
         GoesOn(line, r, Before(line, i))
  PROVE  LET q == TakeOption(r, line[i])
         IN  /\ q.returned => StopsAt(line, q, i)
             /\ ~q.returned =>
                  /\ q.wants <=> WantsNext(line[i])
                  /\ q.wants => GoesOn(line, q, Before(line, i))
                  /\ ~q.wants => GoesOn(line, q, Before(line, i + 1))
<1> DEFINE w == line[i]
           q == TakeOption(r, w)
<1>1. i \in Nat /\ Before(line, i + 1) = Before(line, i) \cup {i}
  <2>1. i \in Nat
    BY OptionFacts
  <2> QED  BY <2>1, BeforeNext
<1>2. i \in Ends(line) => \A j \in Ends(line) : i <= j
  BY FirstEnd DEF GoesOn
<1>3. CASE w.name \in HelpFlags \cup VersionFlags
  <2>1. w.name \notin IntervalFlags /\ w.name \notin DumpFlags
    BY <1>3, FlagsDiffer
  <2>2. i \in Ends(line) /\ ErrorAt(line, i) = "none"
    BY <1>3 DEF Ends, ErrorAt
  <2>3. q = [r EXCEPT !.mode = IF w.name \in HelpFlags THEN "help" ELSE "version",
                      !.returned = TRUE]
    BY <1>3 DEF TakeOption
  <2>4. /\ q.mode = IF w.name \in HelpFlags THEN "help" ELSE "version"
        /\ q.error = r.error /\ q.interval = r.interval /\ q.returned
    <3> HIDE DEF w
    <3> QED  BY <2>3 DEF Results
  <2>5. StopsAt(line, q, i)
    <3> HIDE DEF q
    <3> QED  BY <1>2, <2>2, <2>4 DEF StopsAt, GoesOn
  <2> QED
    BY <2>4, <2>5
<1>4. CASE w.name \in DumpFlags
  <2>1. w.name \notin IntervalFlags /\ w.name \notin HelpFlags \cup VersionFlags
    BY <1>4, FlagsDiffer
  <2>2. i \notin Ends(line) /\ ~WantsNext(w)
    BY <1>4, <2>1 DEF Ends, ErrorAt, WantsNext
  <2>3. q = [r EXCEPT !.mode = "dump"]
    BY <1>4, <2>1 DEF TakeOption
  <2>4. q.mode = "dump" /\ q.error = r.error /\ q.interval = r.interval
    <3> HIDE DEF w
    <3> QED  BY <2>3 DEF Results
  <2>5. ~q.returned /\ ~q.wants
    <3> HIDE DEF w
    <3> QED  BY <2>3 DEF Results
  <2>6. Intervals(line, Before(line, i + 1)) = Intervals(line, Before(line, i))
    BY <1>1, <2>1 DEF Intervals
  <2>7. GoesOn(line, q, Before(line, i + 1))
    <3> HIDE DEF q
    <3> QED  BY <1>1, <1>4, <2>2, <2>4, <2>6 DEF GoesOn
  <2> QED
    BY <2>2, <2>5, <2>7
<1>5. CASE w.name \notin HelpFlags \cup VersionFlags \cup DumpFlags \cup IntervalFlags
  <2>1. q = Rejected(r, "unrecognised") /\ ErrorAt(line, i) = "unrecognised"
    BY <1>5 DEF TakeOption, ErrorAt
  <2>2. q.error = "unrecognised" /\ q.returned
    <3> HIDE DEF w
    <3> QED  BY <2>1 DEF Results, Rejected
  <2>3. i \in Ends(line)
    BY <2>1 DEF Ends
  <2>4. StopsAt(line, q, i)
    <3> HIDE DEF q
    <3> QED  BY <1>2, <2>1, <2>2, <2>3 DEF StopsAt
  <2> QED
    BY <2>2, <2>4
<1>6. CASE w.name \in IntervalFlags
  <2>1. w.name \notin HelpFlags \cup VersionFlags \cup DumpFlags
    BY <1>6, FlagsDiffer
  <2>2. CASE w.value = NoValue
    <3>1. q = [r EXCEPT !.wants = TRUE] /\ WantsNext(w)
      BY <1>6, <2>1, <2>2 DEF TakeOption, WantsNext
    <3>2. q.mode = r.mode /\ q.error = r.error /\ q.interval = r.interval
      <4> HIDE DEF w
      <4> QED  BY <3>1 DEF Results
    <3>3. ~q.returned /\ q.wants
      <4> HIDE DEF w
      <4> QED  BY <3>1 DEF Results
    <3>4. GoesOn(line, q, Before(line, i))
      <4> HIDE DEF q
      <4> QED  BY <3>2 DEF GoesOn
    <3> QED
      BY <3>1, <3>3, <3>4
  <2>3. CASE w.value # NoValue
    <3>1. q = TakeValue(r, GivenInterval(line, i)) /\ ~WantsNext(w)
      BY <1>6, <2>1, <2>3 DEF TakeOption, WantsNext, GivenInterval
    <3>2. ErrorAt(line, i) = IntervalError(GivenInterval(line, i))
      BY <1>6, <2>1, <3>1 DEF ErrorAt
    <3>3. /\ q.returned => StopsAt(line, q, i)
          /\ ~q.returned => ~q.wants /\ GoesOn(line, q, Before(line, i + 1))
      <4> HIDE DEF q
      <4> QED  BY <1>6, <3>1, <3>2, ValueIsTaken
    <3> QED
      BY <3>1, <3>3
  <2> QED
    BY <2>2, <2>3
<1> QED
  BY <1>3, <1>4, <1>5, <1>6

\* The loop after i words: it has stopped where the line says, or it has obeyed the
\* options so far, all but one that still wants its value.
LoopAt(line, i) ==
  LET r == After(line)[i]
  IN  /\ r.returned => \E f \in Options(line) : StopsAt(line, r, f)
      /\ ~r.returned =>
           /\ r.wants <=> i \in Options(line) /\ WantsNext(line[i])
           /\ r.wants => GoesOn(line, r, Before(line, i))
           /\ ~r.wants => GoesOn(line, r, Before(line, i + 1))

LEMMA LoopStarts ==
  ASSUME NEW line \in Lines
  PROVE  LoopAt(line, 0)
<1>1. After(line)[0] = Parsing
  BY AfterWords
<1>2. 0 \notin Options(line) /\ Before(line, 0 + 1) = {}
  BY OptionFacts DEF Before
<1>3. IntervalOf(line, Intervals(line, {}), kDefaultInterval)
  BY DEF IntervalOf, Intervals
<1>4. GoesOn(line, Parsing, {})
  BY <1>3 DEF GoesOn, Parsing
<1> QED
  BY <1>1, <1>2, <1>4 DEF LoopAt, Parsing

LEMMA LoopTakesWord ==
  ASSUME NEW line \in Lines, NEW i \in 0..Len(line), LoopAt(line, i), i < Len(line)
  PROVE  LoopAt(line, i + 1)
<1> DEFINE r == After(line)[i]
           q == After(line)[i + 1]
           w == line[i + 1]
<1>1. Len(line) \in Nat /\ i + 1 \in 1..Len(line) /\ i + 1 - 1 = i
  BY OptionFacts
<1>2. r \in Results /\ q = TakeWord(r, w)
  BY <1>1, AfterWords
<1>3. i + 1 \in Options(line) <=> ~(i \in Options(line) /\ WantsNext(line[i]))
  <2>1. i + 1 > 1 <=> i # 0
    BY <1>1
  <2>2. 0 \notin Options(line)
    BY OptionFacts
  <2> QED  BY <1>1, <2>1, <2>2, OptionFacts
<1>4. CASE r.returned
  <2>1. q = r
    BY <1>2, <1>4 DEF TakeWord
  <2> QED  BY <1>4, <2>1 DEF LoopAt
<1>5. CASE ~r.returned /\ r.wants
  <2>1. /\ i \in Options(line) /\ WantsNext(line[i]) /\ i + 1 \notin Options(line)
        /\ GoesOn(line, r, Before(line, i))
    BY <1>3, <1>5 DEF LoopAt
  <2>2. q = TakeValue(r, GivenInterval(line, i))
    BY <1>2, <1>5, <2>1 DEF TakeWord, TakeNext, GivenInterval, WantsNext
  <2>3. line[i].name \in IntervalFlags
    BY <2>1 DEF WantsNext
  <2>4. ErrorAt(line, i) = IntervalError(GivenInterval(line, i))
    <3>1. line[i].name \notin HelpFlags \cup VersionFlags \cup DumpFlags
      BY <2>3, FlagsDiffer
    <3>2. i # Len(line)
      BY <1>1
    <3> HIDE DEF r, q, w
    <3> QED  BY <2>3, <3>1, <3>2, Zenon DEF ErrorAt
  <2>5. /\ q.returned => StopsAt(line, q, i)
        /\ ~q.returned => ~q.wants /\ GoesOn(line, q, Before(line, i + 1))
    <3> HIDE DEF q, r
    <3> QED  BY <1>2, <1>5, <2>1, <2>2, <2>3, <2>4, ValueIsTaken
  <2>6. Before(line, i + 1 + 1) = Before(line, i + 1)
    BY <1>1, <2>1, BeforeNext
  <2> HIDE DEF r
  <2> QED  BY <2>1, <2>5, <2>6 DEF LoopAt
<1>6. CASE ~r.returned /\ ~r.wants
  <2>1. i + 1 \in Options(line) /\ GoesOn(line, r, Before(line, i + 1))
    BY <1>3, <1>6 DEF LoopAt
  <2>2. q = TakeOption(r, w)
    BY <1>2, <1>6 DEF TakeWord
  <2>3. /\ q.returned => StopsAt(line, q, i + 1)
        /\ ~q.returned =>
             /\ q.wants <=> WantsNext(line[i + 1])
             /\ q.wants => GoesOn(line, q, Before(line, i + 1))
             /\ ~q.wants => GoesOn(line, q, Before(line, i + 1 + 1))
    <3> HIDE DEF q, r
    <3> QED  BY <1>2, <1>6, <2>1, <2>2, OptionIsTaken
  <2> HIDE DEF r
  <2> QED  BY <2>1, <2>3 DEF LoopAt
<1> QED
  BY <1>4, <1>5, <1>6

LEMMA LoopEnds ==
  ASSUME NEW line \in Lines
  PROVE  LoopAt(line, Len(line))
<1> DEFINE S == {i \in 0..Len(line) : LoopAt(line, i)}
<1>1. Len(line) \in Nat
  BY OptionFacts
<1>2. 0 \in S /\ \A i \in 0..Len(line) : i \in S /\ i < Len(line) => i + 1 \in S
  BY <1>1, LoopStarts, LoopTakesWord
<1>3. 0..Len(line) \subseteq S
  <2> HIDE DEF S
  <2> QED  BY <1>1, <1>2, UpTo
<1> QED
  BY <1>1, <1>3

LEMMA IntervalOfIsLast ==
  ASSUME NEW line \in Lines, NEW S \in SUBSET Nat, NEW interval, IntervalOf(line, S, interval)
  PROVE  interval = IF S = {} THEN kDefaultInterval ELSE Numeral[GivenInterval(line, Max(S))]
<1>1. CASE S = {}
  BY <1>1 DEF IntervalOf
<1>2. CASE S # {}
  <2>1. PICK i \in S : (\A j \in S : j <= i) /\ interval = Numeral[GivenInterval(line, i)]
    BY <1>2 DEF IntervalOf
  <2>2. Max(S) \in S /\ \A j \in S : Max(S) >= j
    <3>1. \A j \in S : i >= j
      BY <2>1
    <3> QED  BY <2>1, <3>1, Zenon DEF Max
  <2>3. Max(S) = i
    <3>1. i \in Nat /\ Max(S) \in Nat /\ Max(S) <= i /\ Max(S) >= i
      BY <2>1, <2>2
    <3> QED  BY <3>1
  <2> QED  BY <1>2, <2>1, <2>3
<1> QED
  BY <1>1, <1>2

\* A line on which the loop stopped is obeyed.
LEMMA StoppedIsObeyed ==
  ASSUME NEW line \in Lines, NEW made, NEW f \in Options(line), StopsAt(line, made, f)
  PROVE  Obeys(line, made)
<1>1. Options(line) \subseteq Nat /\ Ends(line) \subseteq Options(line)
  BY OptionFacts DEF Ends
<1>2. f \in Ends(line) /\ \A j \in Ends(line) : f <= j
  BY DEF StopsAt
<1>3. Min(Ends(line)) = f
  <2>1. Min(Ends(line)) \in Ends(line) /\ \A j \in Ends(line) : Min(Ends(line)) <= j
    BY <1>2, Zenon DEF Min
  <2> QED  BY <1>1, <1>2, <2>1
<1> DEFINE S == Intervals(line, Before(line, f))
<1>4. S \subseteq Nat
  BY <1>1 DEF Intervals, Before
<1>5. ErrorAt(line, f) = "none" =>
        made.interval = IF S = {} THEN kDefaultInterval ELSE Numeral[GivenInterval(line, Max(S))]
  <2> HIDE DEF S
  <2>1. ASSUME ErrorAt(line, f) = "none" PROVE IntervalOf(line, S, made.interval)
    BY <2>1 DEF StopsAt, S
  <2> QED  BY <1>4, <2>1, IntervalOfIsLast
<1>6. Ends(line) # {}
  BY <1>2
<1>7. /\ ErrorAt(line, f) # "none" => made.error = ErrorAt(line, f)
      /\ ErrorAt(line, f) = "none" =>
           /\ made.error = "none"
           /\ made.mode = IF line[f].name \in HelpFlags THEN "help" ELSE "version"
  BY DEF StopsAt
<1> QED
  BY <1>3, <1>5, <1>6, <1>7, Zenon DEF Obeys, Ends, Intervals, Before

\* So is one that went on to the end of its words, all its options taken.
LEMMA FinishedIsObeyed ==
  ASSUME NEW line \in Lines, NEW made, GoesOn(line, made, Options(line))
  PROVE  Obeys(line, made)
<1>1. Options(line) \subseteq 1..Len(line) /\ Len(line) \in Nat
  BY OptionFacts
<1>2. Ends(line) = {}
  BY DEF GoesOn, Ends
<1>3. {j \in Options(line) : j < Len(line) + 1} = Options(line)
  BY <1>1
<1> DEFINE S == Intervals(line, Options(line))
<1>4. S \in SUBSET Nat
  BY <1>1 DEF Intervals
<1>5. made.interval = IF S = {} THEN kDefaultInterval
                      ELSE Numeral[GivenInterval(line, Max(S))]
  <2> HIDE DEF S
  <2>1. IntervalOf(line, S, made.interval)
    BY DEF GoesOn, S
  <2> QED  BY <1>4, <2>1, IntervalOfIsLast
<1>6. /\ made.error = "none"
      /\ made.mode = IF \E j \in Options(line) : line[j].name \in DumpFlags
                     THEN "dump" ELSE "run"
  BY DEF GoesOn
<1> QED
  BY <1>2, <1>3, <1>5, <1>6, Zenon DEF Obeys, Ends, Intervals

\* Whatever the words of a command line, and whatever a number is, the loop over them
\* does what the whole line means.
LEMMA LinesAreObeyed ==
  ASSUME NEW line \in Lines
  PROVE  Obeys(line, ParseArguments(line))
<1> DEFINE n == Len(line)
           end == After(line)[n]
           r == IF end.wants /\ ~end.returned THEN Rejected(end, "needs a value") ELSE end
           made == ParseArguments(line)
<1>1. end \in Results /\ made = [mode |-> r.mode, interval |-> r.interval, error |-> r.error]
  BY ParseIsAfter
<1>2. made.mode = r.mode /\ made.interval = r.interval /\ made.error = r.error
  <2> HIDE DEF r
  <2> QED  BY <1>1
<1>3. n \in Nat /\ Options(line) \subseteq 1..n
  BY OptionFacts
<1>4. LoopAt(line, n)
  BY LoopEnds
<1>5. CASE end.returned
  <2>1. PICK f \in Options(line) : StopsAt(line, end, f)
    BY <1>4, <1>5 DEF LoopAt
  <2>2. r = end
    BY <1>5
  <2>3. StopsAt(line, made, f)
    <3> HIDE DEF r, end, made
    <3> QED  BY <1>2, <2>1, <2>2 DEF StopsAt
  <2> HIDE DEF r, end, made
  <2>4. Obeys(line, made)
    BY <2>3, StoppedIsObeyed
  <2> QED  BY <2>4 DEF made
<1>6. CASE ~end.returned /\ end.wants
  <2>1. n \in Options(line) /\ WantsNext(line[n]) /\ GoesOn(line, end, Before(line, n))
    BY <1>4, <1>6 DEF LoopAt
  <2>2. r = Rejected(end, "needs a value")
    BY <1>6
  <2>3. r.error = "needs a value"
    <3> HIDE DEF r, end
    <3> QED  BY <1>1, <2>2 DEF Rejected, Results
  <2>4. ErrorAt(line, n) = "needs a value"
    <3>1. line[n].name \in IntervalFlags
      BY <2>1 DEF WantsNext
    <3>2. line[n].name \notin HelpFlags \cup VersionFlags \cup DumpFlags
      BY <3>1, FlagsDiffer
    <3> HIDE DEF r, end, made
    <3> QED  BY <2>1, <3>1, <3>2, Zenon DEF ErrorAt
  <2>5. n \in Ends(line) /\ \A j \in Ends(line) : n <= j
    <3>1. n \in Ends(line)
      BY <2>1, <2>4 DEF Ends
    <3> QED  BY <2>1, <3>1, FirstEnd DEF GoesOn
  <2> HIDE DEF r, end, made, n
  <2>6. StopsAt(line, made, n)
    BY <1>2, <2>3, <2>4, <2>5 DEF StopsAt
  <2>7. Obeys(line, made)
    BY <2>1, <2>6, StoppedIsObeyed
  <2> QED  BY <2>7 DEF made
<1>7. CASE ~end.returned /\ ~end.wants
  <2>1. r = end /\ GoesOn(line, end, Before(line, n + 1))
    BY <1>4, <1>7 DEF LoopAt
  <2>2. Before(line, n + 1) = Options(line)
    BY <1>3 DEF Before
  <2> HIDE DEF r, end, made, n
  <2>3. GoesOn(line, made, Options(line))
    BY <1>2, <2>1, <2>2 DEF GoesOn
  <2>4. Obeys(line, made)
    BY <2>3, FinishedIsObeyed
  <2> QED  BY <2>4 DEF made
<1> QED
  BY <1>5, <1>6, <1>7

\* The command line is obeyed, whichever it is: any words, in any order.
THEOREM CommandLinesAreObeyed == ProgramSpec => []ArgumentsAreObeyed
<1> DEFINE Unread == stage = "parse" => argv \in CommandLines
<1>1. ProgramInit => Unread
  BY DEF ProgramInit
<1>2. Unread /\ [ProgramNext]_progVars => Unread'
  BY DEF ProgramNext, MainStep, Parse, CallProbe, CallPrimingPass, Pause, Look, CallPass,
         PrintDump, PrintList, Exit, CallStep, Watch, MachineStep, progVars, own
<1>3. Unread => ArgumentsAreObeyed
  BY LinesAssumption, LinesAreObeyed DEF ArgumentsAreObeyed, Lines
<1> QED
  BY <1>1, <1>2, <1>3, PTL DEF ProgramSpec

(***************************************************************************)
(* A GPU that is there throughout is in the dump with its rates. First     *)
(* what main() does and when.                                              *)
(***************************************************************************)
LEMMA StepStaysInCall ==
  ASSUME Step
  PROVE  /\ pc # "idle"
         /\ InCall => pc' \in {"probe", "adopt", "idle"} /\ (pc' = "idle" => FinishProbe)
         /\ InPass => pc' \in {"sample", "read", "idle"} /\ (pc' = "idle" => FinishPass)
         /\ InCall \/ InPass
BY DEF Step, ProbeStep, PassStep, SkipBackend, AskBackend, AdoptFound, ScheduleBackend,
       FinishProbe, RetireDead, AskPowerState, ReportSuspended, Poll, FinishPass, InCall, InPass

LEMMA MachineLeaves ==
  ASSUME MachineStep
  PROVE  /\ UNCHANGED <<devices, live, wait, anonymous, pc, at, found, adopted, seen, readings>>
         /\ UNCHANGED <<argv, config, stage, gap, priming>>
         /\ stage # "exit" /\ steady' \subseteq steady /\ Listed' = Listed
<1>1. UNCHANGED <<devices, live, wait, anonymous, pc, at, found, adopted, seen, readings>>
  BY DEF MachineStep, Machine, PlugIn, Unplug, FallAsleep, WakeUp, BeginTransition, PowerChange
<1> QED
  BY <1>1 DEF MachineStep, KeepSteady, Listed

LEMMA NextStageInv == StageInv /\ [ProgramNext]_progVars => StageInv'
<1> SUFFICES ASSUME StageInv, [ProgramNext]_progVars
             PROVE  StageInv'
  OBVIOUS
<1>1. CASE Parse
  <2>1. config' = ParseArguments(argv) /\ argv \in CommandLines /\ pc = "idle"
        /\ devices = <<>> /\ found = {} /\ \A b \in Backends : wait[b] = 0
    BY <1>1 DEF Parse, StageInv
  <2>2. config'.interval \in kMinInterval..kMaxInterval
    BY <2>1, LinesAssumption, IntervalIsInRange DEF Lines
  <2>3. CASE stage' = "exit" /\ pc' = "idle"
    BY <2>2, <2>3 DEF StageInv
  <2>4. CASE stage' = "probe" /\ UNCHANGED vars
    BY <2>1, <2>2, <2>4 DEF StageInv, vars
  <2> QED  BY <1>1, <2>3, <2>4 DEF Parse, Exit
<1>2. CASE CallProbe
  BY <1>2 DEF CallProbe, StartProbe, StageInv, InCall, InPass
<1>3. CASE CallPrimingPass
  BY <1>3 DEF CallPrimingPass, StartPass, StageInv, InCall, InPass
<1>4. CASE Pause
  <2>1. config.interval \in Nat /\ config.interval >= kMinInterval
    <3>1. config.interval \in kMinInterval..kMaxInterval
      BY DEF StageInv
    <3>2. \A n \in kMinInterval..kMaxInterval : n \in Nat /\ n >= kMinInterval
      BY DEF kMinInterval, kMaxInterval
    <3> QED  BY <3>1, <3>2, Zenon
  <2>2. gap' = Min({config.interval, kMaxPriming})
    BY <1>4 DEF Pause
  <2>3. gap' \in kMinInterval..kMaxPriming
    <3>1. kMaxPriming \in Nat /\ kMinInterval <= kMaxPriming /\ kMinInterval \in Nat
      BY DEF kMaxPriming, kMinInterval
    <3> DEFINE m == Min({config.interval, kMaxPriming})
    <3>2. m \in {config.interval, kMaxPriming} /\ m <= kMaxPriming
      BY ONLY <2>1, <3>1, LesserOf
    <3> HIDE DEF m
    <3>3. m \in kMinInterval..kMaxPriming
      BY ONLY <2>1, <3>1, <3>2
    <3> QED  BY <2>2, <3>3 DEF m
  <2>4. stage' = "sample" /\ pc' = "idle" /\ config' = config
    BY <1>4 DEF Pause, vars
  <2> QED  BY <2>3, <2>4 DEF StageInv
<1>5. CASE Look
  <2>1. config' = config /\ config.mode # "dump" /\ pc' = "idle" /\ stage' \in {"exit", "sample"}
    BY <1>5 DEF Look, Exit, StageInv, vars
  <2> QED  BY <2>1 DEF StageInv
<1>6. CASE CallPass
  BY <1>6 DEF CallPass, StartPass, StageInv, InCall, InPass
<1>7. CASE PrintDump \/ PrintList
  <2>1. stage' = "exit" /\ pc' = "idle" /\ config' = config
    BY <1>7 DEF PrintDump, PrintList, Exit
  <2> QED  BY <2>1 DEF StageInv
<1>8. CASE CallStep
  <2>1. UNCHANGED <<argv, config, stage, gap>> /\ Step
    BY <1>8 DEF CallStep
  <2> QED  BY <2>1, StepStaysInCall DEF StageInv, InCall, InPass
<1>9. CASE Watch
  <2>1. UNCHANGED <<argv, config, stage, gap>> /\ stage = "watch"
    BY <1>9 DEF Watch
  <2> QED  BY <2>1 DEF StageInv
<1>10. CASE MachineStep
  BY <1>10, MachineLeaves DEF StageInv, InCall, InPass
<1>11. CASE UNCHANGED progVars
  BY <1>11 DEF progVars, own, vars, StageInv, InCall, InPass
<1> QED
  BY <1>1, <1>2, <1>3, <1>4, <1>5, <1>6, <1>7, <1>8, <1>9, <1>10, <1>11 DEF ProgramNext, MainStep

(***************************************************************************)
(* Who is listed, under which name, and who of them is steady.             *)
(***************************************************************************)
LEMMA ListGrowth ==
  ASSUME IInv, [Next]_vars
  PROVE  AdoptFound \/ Listed' \subseteq Listed
BY StepCases, RetirementErases

LEMMA AdoptionLists ==
  ASSUME IInv, AdoptFound
  PROVE  \E d \in found :
           /\ found' = found \ {d} /\ d \in Drivers /\ at \in Backends
           /\ \/ \E key : /\ Listed' = Listed \cup {[gpu |-> d.gpu, healthy |-> d.healthy,
                                 backend |-> at, key |-> key]}
                          /\ key \in Names(d.gpu) \cup AnonymousKeys
              \/ /\ Listed' = Listed /\ Known(IdentityOf(d))
                 /\ IdentityOf(d) # NoIdentity
<1>1. PICK d \in found : /\ AdoptIdentified(d) \/ DropDuplicate(d) \/ AdoptAnonymous(d)
                         /\ found' = found \ {d}
  BY DEF AdoptFound
<1>2. d \in Drivers /\ at \in Backends /\ devices \in Seq(Entries)
  BY DEF AdoptFound, IInv, TypeOK
<1>3. d.gpu \in Gpus /\ d.healthy \in BOOLEAN /\ d.addressed \in BOOLEAN
  BY <1>2 DEF Drivers
<1>4. ASSUME NEW key \in Keys, Adopt(d, key)
      PROVE  Listed' = Listed \cup {[gpu |-> d.gpu, healthy |-> d.healthy,
                            backend |-> at, key |-> key]}
  <2> DEFINE e == [gpu |-> d.gpu, healthy |-> d.healthy,
                   backend |-> at, key |-> key]
  <2>1. e \in Entries /\ devices' = Append(devices, e)
    BY <1>2, <1>3, <1>4 DEF Entries, Adopt
  <2> HIDE DEF e
  <2>2. Listed' = Listed \cup {e}
    BY <1>2, <2>1, ListedAfterPush
  <2> QED  BY <2>2 DEF e
<1>5. CASE AdoptIdentified(d)
  <2>1. IdentityOf(d) # NoIdentity /\ Adopt(d, IdentityOf(d))
    BY <1>5 DEF AdoptIdentified
  <2>2. IdentityOf(d) \in Keys
    BY <1>2, <1>3, <2>1, IdentityIsKey
  <2>3. IdentityOf(d) \in Names(d.gpu)
    BY <1>2 DEF IdentityOf, Names
  <2> QED  BY <1>1, <1>2, <1>4, <2>1, <2>2, <2>3
<1>6. CASE DropDuplicate(d)
  <2>1. devices' = devices /\ Known(IdentityOf(d)) /\ IdentityOf(d) # NoIdentity
    BY <1>6 DEF DropDuplicate
  <2>2. Listed' = Listed
    BY <2>1 DEF Listed
  <2> QED  BY <1>1, <1>2, <2>1, <2>2
<1>7. CASE AdoptAnonymous(d)
  <2>1. Adopt(d, AnonBase + anonymous) /\ anonymous < MaxAnon /\ anonymous \in Nat
    BY <1>7, ConstantFacts DEF AdoptAnonymous, IInv, TypeOK
  <2>2. AnonBase + anonymous \in AnonymousKeys
    BY <2>1, ConstantFacts DEF AnonymousKeys
  <2>3. AnonBase + anonymous \in Keys
    BY <2>2 DEF Keys
  <2> QED  BY <1>1, <1>2, <1>4, <2>1, <2>2, <2>3
<1> QED
  BY <1>1, <1>5, <1>6, <1>7

LEMMA NextKeysAreNames == IInv /\ KeysAreNames /\ [ProgramNext]_progVars => KeysAreNames'
<1> SUFFICES ASSUME IInv, KeysAreNames, [ProgramNext]_progVars
             PROVE  KeysAreNames'
  OBVIOUS
<1>1. CASE Init'
  BY <1>1 DEF Init, KeysAreNames, Listed
<1>2. CASE [Next]_vars
  <2>1. CASE Listed' \subseteq Listed
    BY <2>1 DEF KeysAreNames, Names
  <2>2. CASE AdoptFound
    <3>1. ASSUME NEW e \in Listed', e \notin Listed
          PROVE  e.key \in Names(e.gpu) \cup AnonymousKeys
      BY <2>2, <3>1, AdoptionLists
    <3> QED  BY <3>1 DEF KeysAreNames, Names
  <2> QED  BY <1>2, <2>1, <2>2, ListGrowth
<1> QED
  BY <1>1, <1>2, ProgramStep

\* A step of a call faults whom it retires: who stays steady stays listed.
LEMMA SteadyStayListed ==
  ASSUME CallStep, NEW g \in steady'
  PROVE  /\ g \in steady /\ power'[g] = "active"
         /\ IsListed(g) => IsListed(g)'
         /\ \A d \in found' : d.gpu = g => d.healthy
BY DEF CallStep, KeepSteady, Faulted, IsListed

\* What main() does between its calls leaves the list and the steady GPUs alone, but for
\* the probe, before which nothing is listed, and the end, after which nothing is.
LEMMA BetweenCalls ==
  ASSUME StageInv, MainStep
  PROVE  /\ pc = "idle"
         /\ \/ stage' = "exit" /\ devices' = <<>> /\ found' = {} /\ steady' = {} /\ pc' = "idle"
            \/ CallProbe /\ devices = <<>> /\ found = {}
            \/ /\ UNCHANGED <<power, devices, found, steady, wait>> /\ stage' # "exit"
               /\ Parse \/ CallPrimingPass \/ Pause \/ Look \/ CallPass
<1>1. pc = "idle"
  BY DEF MainStep, Parse, CallProbe, CallPrimingPass, Pause, Look, CallPass, PrintDump,
         PrintList, StartProbe, StartPass, StageInv
<1>2. CASE Parse \/ CallPrimingPass \/ Pause \/ Look \/ CallPass
  BY <1>1, <1>2 DEF Parse, CallPrimingPass, Pause, Look, CallPass, StartPass, Exit, vars
<1>3. CASE CallProbe
  BY <1>1, <1>3 DEF CallProbe, StageInv
<1>4. CASE PrintDump \/ PrintList
  BY <1>1, <1>4 DEF PrintDump, PrintList, Exit
<1> QED
  BY <1>2, <1>3, <1>4 DEF MainStep

LEMMA NextSteadyInv ==
  IInv /\ StageInv /\ SteadyInv /\ [ProgramNext]_progVars => SteadyInv'
<1> SUFFICES ASSUME IInv, StageInv, SteadyInv, [ProgramNext]_progVars
             PROVE  SteadyInv'
  OBVIOUS
<1>1. CASE MainStep
  <2>1. CASE devices' = <<>> /\ found' = {} /\ steady' = {}
    BY <2>1 DEF SteadyInv, Listed
  <2>2. CASE CallProbe /\ devices = <<>> /\ found = {}
    <3>1. /\ devices' = <<>> /\ found' = {} /\ power' = power
          /\ steady' = {g \in Gpus : power[g] = "active"}
      BY <2>2 DEF CallProbe, StartProbe
    <3> QED  BY <3>1 DEF SteadyInv, Listed
  <2>3. CASE UNCHANGED <<power, devices, found, steady>>
    BY <2>3 DEF SteadyInv, Listed
  <2> QED  BY <1>1, <2>1, <2>2, <2>3, BetweenCalls
<1>2. CASE CallStep
  <2>1. steady' \subseteq {g \in Gpus : power'[g] = "active"}
    BY <1>2 DEF CallStep, KeepSteady, SteadyInv
  <2>2. \A d \in found' : d.gpu \in steady' => d.healthy
    BY <1>2, SteadyStayListed
  <2>3. ASSUME NEW e \in Listed', e.gpu \in steady' PROVE e.healthy
    <3>1. e.gpu \in steady
      BY <1>2, <2>3, SteadyStayListed
    <3>2. CASE e \in Listed
      BY <3>1, <3>2 DEF SteadyInv
    <3>3. CASE e \notin Listed
      <4>1. AdoptFound
        BY <1>2, <2>3, <3>3, ListGrowth DEF CallStep, Next
      <4>2. PICK d \in found : e.gpu = d.gpu /\ e.healthy = d.healthy
        BY <2>3, <3>3, <4>1, AdoptionLists
      <4> QED  BY <3>1, <4>2 DEF SteadyInv
    <3> QED  BY <3>2, <3>3
  <2> QED  BY <2>1, <2>2, <2>3 DEF SteadyInv
<1>3. CASE Watch
  <2>1. UNCHANGED <<power, devices, found, steady>>
    BY <1>3 DEF Watch, StartProbe, StartPass, Tick
  <2> QED  BY <2>1 DEF SteadyInv, Listed
<1>4. CASE MachineStep
  <2>1. steady' \subseteq {g \in Gpus : power'[g] = "active"}
    BY <1>4 DEF MachineStep, KeepSteady, SteadyInv
  <2>2. steady' \subseteq steady /\ found' = found /\ Listed' = Listed
    BY <1>4, MachineLeaves
  <2> QED  BY <2>1, <2>2 DEF SteadyInv
<1>5. CASE UNCHANGED progVars
  BY <1>5 DEF progVars, own, vars, SteadyInv, Listed
<1> QED
  BY <1>1, <1>2, <1>3, <1>4, <1>5 DEF ProgramNext

(***************************************************************************)
(* The probe of main() finds the steady GPUs that are seen at all.         *)
(***************************************************************************)
\* A backend that is asked finds them, for they are awake.
LEMMA AskingFinds ==
  ASSUME SteadyInv, AskBackend, NEW g \in steady \cap Sees[at]
  PROVE  \E d \in found' : d.gpu = g
<1>1. g \in Listable(at)
  BY DEF SteadyInv, Listable
<1>2. PICK dead, lost :
        found' = {[gpu |-> h, healthy |-> h \notin dead, addressed |-> h \notin lost] :
                    h \in Listable(at)}
  BY DEF AskBackend
<1>3. [gpu |-> g, healthy |-> g \notin dead, addressed |-> g \notin lost] \in found'
  BY <1>1, <1>2
<1> QED
  BY <1>3

\* What is adopted is listed, and a duplicate is dropped for an entry of the same GPU.
LEMMA AdoptingLists ==
  ASSUME IInv, KeysAreNames, IdentitiesDiffer, AdoptFound, NEW g, FoundOrListed(g, at)
  PROVE  FoundOrListed(g, at)'
<1>1. PICK d \in found :
           /\ found' = found \ {d} /\ d \in Drivers /\ at \in Backends
           /\ \/ \E key : /\ Listed' = Listed \cup {[gpu |-> d.gpu, healthy |-> d.healthy,
                                 backend |-> at, key |-> key]}
                          /\ key \in Names(d.gpu) \cup AnonymousKeys
              \/ /\ Listed' = Listed /\ Known(IdentityOf(d))
                 /\ IdentityOf(d) # NoIdentity
  BY AdoptionLists
<1>2. Listed \subseteq Listed' /\ pc' = "adopt" /\ at' = at
  BY <1>1 DEF AdoptFound
<1>3. CASE IsListed(g)
  BY <1>2, <1>3 DEF IsListed, FoundOrListed
<1>4. CASE \E f \in found \ {d} : f.gpu = g
  BY <1>1, <1>2, <1>4 DEF FoundOrListed
<1>5. CASE d.gpu = g
  <2>1. CASE \E e \in Listed' : e.gpu = g
    BY <2>1 DEF IsListed, FoundOrListed
  <2>2. CASE Listed' = Listed /\ Known(IdentityOf(d)) /\ IdentityOf(d) # NoIdentity
    <3>1. PICK e \in Listed : e.key = IdentityOf(d)
      BY <2>2 DEF Known
    <3>2. d.gpu \in Gpus /\ e.gpu \in Gpus
      BY <1>1, ListedAreEntries DEF Drivers, Entries, IInv, TypeOK
    <3>3. e.key \in Names(e.gpu) /\ e.key \in Names(d.gpu)
      <4>1. e.key \notin AnonymousKeys
        BY <1>1, <2>2, <3>1, <3>2, IdentityIsKey
      <4>2. e.key \in Names(e.gpu)
        BY <4>1 DEF KeysAreNames
      <4>3. IdentityOf(d) \in Names(d.gpu)
        BY <1>1 DEF IdentityOf, Names
      <4> QED  BY <3>1, <4>2, <4>3
    <3>4. e.gpu = d.gpu
      BY <2>2, <3>1, <3>2, <3>3 DEF IdentitiesDiffer
    <3> QED  BY <1>2, <1>5, <3>4 DEF IsListed, FoundOrListed
  <2>3. CASE \E key : Listed' = Listed \cup {[gpu |-> d.gpu, healthy |-> d.healthy,
                            backend |-> at, key |-> key]}
    <3>1. PICK key : Listed' = Listed \cup {[gpu |-> d.gpu, healthy |-> d.healthy,
                            backend |-> at, key |-> key]}
      BY <2>3
    <3> DEFINE e == [gpu |-> d.gpu, healthy |-> d.healthy,
                     backend |-> at, key |-> key]
    <3>2. e.gpu = g /\ e \in Listed'
      BY <1>5, <3>1
    <3> QED  BY <2>1, <3>2
  <2> QED  BY <1>1, <2>2, <2>3
<1> QED
  BY <1>3, <1>4, <1>5 DEF FoundOrListed

\* The steps of the probe, in main()'s only one.
LEMMA ProbeIsKept ==
  ASSUME IInv, LoopInv, SteadyInv, KeysAreNames, IdentitiesDiffer, ProbeInv, CallStep,
         stage \in {"prime", "look"}, InCall
  PROVE  ProbeInv'
<1>1. stage' = stage /\ config' = config
  BY DEF CallStep
<1>2. \A b \in Backends :
        /\ b > at \/ (b = at /\ pc = "probe") => wait[b] = 0
        /\ b < at \/ (b = at /\ pc = "adopt") =>
             \A g \in steady \cap Sees[b] : FoundOrListed(g, b)
  BY DEF ProbeInv
<1>3. \A g \in steady' : g \in steady /\ (IsListed(g) => IsListed(g)')
  BY SteadyStayListed
<1>4. \A b \in Backends : \A g \in steady \cap Sees[b] : b < at => IsListed(g)
  <2>1. \A b \in Backends : b < at => b # at
    BY DEF Backends
  <2> QED  BY <1>2, <2>1 DEF FoundOrListed
<1>5. at \in 1..(NBackends + 1) /\ NBackends \in Nat
  BY ConstantFacts DEF InCall, LoopInv, IInv, TypeOK, Backends
<1>6. wait \in [Backends -> 0..Never]
  BY DEF IInv, TypeOK
<1>7. CASE SkipBackend
  BY <1>2, <1>7 DEF SkipBackend, Due
<1>8. CASE AskBackend
  <2>1. at' = at /\ pc = "probe" /\ pc' = "adopt" /\ wait' = wait /\ at \in Backends
    BY <1>8 DEF AskBackend
  <2>2. ASSUME NEW g \in steady' \cap Sees[at]
        PROVE  FoundOrListed(g, at)'
    BY <1>3, <1>8, <2>1, <2>2, AskingFinds DEF FoundOrListed
  <2>3. ASSUME NEW b \in Backends, NEW g \in steady' \cap Sees[b], b < at
        PROVE  FoundOrListed(g, b)'
    BY <1>3, <1>4, <2>3 DEF FoundOrListed
  <2>4. \A b \in Backends : b > at' \/ (b = at' /\ pc' = "probe") => wait'[b] = 0
    BY <1>2, <2>1
  <2>5. \A b \in Backends : b < at' \/ (b = at' /\ pc' = "adopt") =>
          \A g \in steady' \cap Sees[b] : FoundOrListed(g, b)'
    BY <2>1, <2>2, <2>3
  <2> QED  BY <2>1, <2>4, <2>5 DEF ProbeInv, InCall
<1>9. CASE AdoptFound
  <2>1. at' = at /\ pc = "adopt" /\ pc' = "adopt" /\ wait' = wait /\ at \in Backends
    BY <1>9 DEF AdoptFound, IInv, TypeOK
  <2>2. ASSUME NEW g \in steady' \cap Sees[at]
        PROVE  FoundOrListed(g, at)'
    <3>1. FoundOrListed(g, at)
      BY <1>2, <1>3, <2>1, <2>2
    <3> QED  BY <1>9, <3>1, AdoptingLists
  <2>3. ASSUME NEW b \in Backends, NEW g \in steady' \cap Sees[b], b < at
        PROVE  FoundOrListed(g, b)'
    BY <1>3, <1>4, <2>3 DEF FoundOrListed
  <2>4. \A b \in Backends : b > at' \/ (b = at' /\ pc' = "probe") => wait'[b] = 0
    BY <1>2, <2>1
  <2>5. \A b \in Backends : b < at' \/ (b = at' /\ pc' = "adopt") =>
          \A g \in steady' \cap Sees[b] : FoundOrListed(g, b)'
    BY <2>1, <2>2, <2>3
  <2> QED  BY <2>1, <2>4, <2>5 DEF ProbeInv, InCall
<1>10. CASE ScheduleBackend
  <2>1. /\ at' = at + 1 /\ pc = "adopt" /\ pc' = "probe" /\ at \in Backends /\ found = {}
        /\ \A b \in Backends : b # at => wait'[b] = wait[b]
    BY <1>6, <1>10 DEF ScheduleBackend, IInv, TypeOK
  <2>2. \A b \in Backends : b < at + 1 => b < at \/ b = at
    BY <1>5 DEF Backends
  <2>3. \A b \in Backends : b > at + 1 \/ b = at + 1 => b > at /\ b # at
    BY <1>5 DEF Backends
  <2>4. ASSUME NEW b \in Backends, NEW g \in steady' \cap Sees[b], b < at + 1
        PROVE  IsListed(g)'
    <3>1. CASE b < at
      BY <1>3, <1>4, <2>4, <3>1
    <3>2. CASE b = at
      <4>1. FoundOrListed(g, b)
        BY <1>2, <1>3, <2>1, <2>4, <3>2
      <4>2. IsListed(g)
        BY <2>1, <4>1 DEF FoundOrListed
      <4> QED  BY <1>3, <2>4, <4>2
    <3> QED  BY <2>2, <2>4, <3>1, <3>2
  <2>5. \A b \in Backends : b > at' \/ (b = at' /\ pc' = "probe") => wait'[b] = 0
    BY <1>2, <2>1, <2>3
  <2>6. \A b \in Backends : b < at' \/ (b = at' /\ pc' = "adopt") =>
          \A g \in steady' \cap Sees[b] : FoundOrListed(g, b)'
    BY <2>1, <2>4 DEF FoundOrListed
  <2> QED  BY <2>1, <2>5, <2>6 DEF ProbeInv, InCall
<1>11. CASE FinishProbe
  <2>1. pc' = "idle" /\ at \notin Backends
    BY <1>11 DEF FinishProbe
  <2>2. \A b \in Backends : b < at
    BY <1>5, <2>1 DEF Backends
  <2>3. \A b \in Backends : \A g \in steady' \cap Sees[b] : IsListed(g)'
    BY <1>3, <1>4, <2>2
  <2> QED  BY <2>1, <2>3 DEF ProbeInv, InCall
<1> QED
  BY <1>7, <1>8, <1>9, <1>10, <1>11
     DEF CallStep, Step, ProbeStep, PassStep, RetireDead, AskPowerState, ReportSuspended, Poll,
         FinishPass, InCall

LEMMA NextProbeInv ==
  ASSUME IdentitiesDiffer
  PROVE  IInv /\ LoopInv /\ StageInv /\ SteadyInv /\ KeysAreNames /\ ProbeInv
         /\ [ProgramNext]_progVars => ProbeInv'
<1> SUFFICES ASSUME IInv, LoopInv, StageInv, SteadyInv, KeysAreNames, ProbeInv,
                    [ProgramNext]_progVars
             PROVE  ProbeInv'
  OBVIOUS
<1>1. CASE MainStep
  <2>1. CASE stage' = "exit"
    BY <2>1 DEF ProbeInv
  <2>2. CASE CallProbe
    <3>1. pc' = "probe" /\ at' = 1 /\ wait' = wait /\ \A b \in Backends : wait[b] = 0
      BY <2>2 DEF CallProbe, StartProbe, StageInv
    <3>2. \A b \in Backends : ~(b < 1)
      BY ConstantFacts DEF Backends
    <3> QED  BY <3>1, <3>2 DEF ProbeInv, InCall
  <2>3. CASE UNCHANGED <<devices, steady>> /\ stage' # "exit"
             /\ (Parse \/ CallPrimingPass \/ Pause \/ Look \/ CallPass)
    <3>1. pc = "idle" /\ ~InCall /\ ~InCall' /\ (config' = config \/ stage' = "probe")
      BY <1>1, <2>3, BetweenCalls
         DEF Parse, CallPrimingPass, Pause, Look, CallPass, StartPass, Exit, InCall, vars
    <3>2. /\ stage' \in {"prime", "pause", "sample", "print"} /\ config.mode = "dump" =>
               stage \in {"prime", "pause", "sample", "print"}
          /\ stage' \notin {"prime", "look"}
      <4>1. CASE Parse
        BY <2>3, <4>1 DEF Parse, Exit
      <4>2. CASE CallPrimingPass \/ Pause \/ CallPass
        BY <4>2 DEF CallPrimingPass, Pause, CallPass
      <4>3. CASE Look
        <5>1. config.mode # "dump" /\ stage' = "sample"
          BY <2>3, <4>3 DEF Look, Exit, StageInv
        <5> QED  BY <5>1
      <4> QED  BY <2>3, <4>1, <4>2, <4>3
    <3>3. Listed' = Listed
      BY <2>3 DEF Listed
    <3>4. CASE stage' = "probe"
      BY <3>4 DEF ProbeInv
    <3> QED  BY <2>3, <3>1, <3>2, <3>3, <3>4 DEF ProbeInv, IsListed
  <2> QED  BY <1>1, <2>1, <2>2, <2>3, BetweenCalls
<1>2. CASE CallStep
  <2>1. CASE stage \in {"prime", "look"} /\ InCall
    BY <1>2, <2>1, ProbeIsKept
  <2>2. CASE ~InCall
    <3>1. ~InCall' /\ stage' = stage /\ config' = config
      BY <1>2, <2>2, StepStaysInCall DEF CallStep, InCall
    <3>2. \A g \in steady' : g \in steady /\ (IsListed(g) => IsListed(g)')
      BY <1>2, SteadyStayListed
    <3> QED  BY <2>2, <3>1, <3>2 DEF ProbeInv
  <2>3. CASE stage \notin {"prime", "look"} /\ InCall
    <3>1. stage \in {"watch"} /\ stage' = stage
      BY <1>2, <2>3 DEF StageInv, CallStep, InCall
    <3> QED  BY <3>1 DEF ProbeInv
  <2> QED  BY <2>1, <2>2, <2>3
<1>3. CASE Watch
  BY <1>3 DEF Watch, ProbeInv
<1>4. CASE MachineStep
  <2>1. /\ UNCHANGED <<devices, wait, pc, at, found, config, stage>> /\ steady' \subseteq steady
        /\ Listed' = Listed
    BY <1>4, MachineLeaves
  <2>2. \A b \in Backends : \A g \in steady \cap Sees[b] :
          /\ FoundOrListed(g, b) => FoundOrListed(g, b)'
          /\ IsListed(g) => IsListed(g)'
    BY <2>1 DEF FoundOrListed, IsListed
  <2> QED  BY <2>1, <2>2 DEF ProbeInv, InCall
<1>5. CASE UNCHANGED progVars
  <2>1. UNCHANGED <<devices, wait, pc, at, found, config, stage, steady>> /\ Listed' = Listed
    BY <1>5 DEF progVars, own, vars, Listed
  <2>2. \A b \in Backends : \A g \in steady \cap Sees[b] :
          /\ FoundOrListed(g, b) => FoundOrListed(g, b)'
          /\ IsListed(g) => IsListed(g)'
    BY <2>1 DEF FoundOrListed, IsListed
  <2> QED  BY <2>1, <2>2 DEF ProbeInv, InCall
<1> QED
  BY <1>1, <1>2, <1>3, <1>4, <1>5 DEF ProgramNext

(***************************************************************************)
(* The two passes poll the steady GPUs.                                    *)
(***************************************************************************)
PolledSoFar == InPass => \A i \in 1..(at - 1) : devices[i].gpu \in steady => readings[i].polled
SeenAsleep == pc = "read" /\ seen = "suspended" => Entry.gpu \notin steady
AllPolled(pass) == \A e \in Listed : e.gpu \in steady => PolledIn(e, pass)

LEMMA ReportedIsAppended ==
  ASSUME IInv, PassInv, at \in DOMAIN devices, pc \in {"sample", "read"}, NEW polled \in BOOLEAN,
         ReportAt(at, polled)
  PROVE  /\ devices' = devices /\ at' = at + 1 /\ at \in Nat
         /\ readings'[at].polled = polled
         /\ \A i \in 1..(at - 1) : readings'[i] = readings[i]
<1> DEFINE new == [key |-> devices[at].key, polled |-> polled]
<1>1. /\ devices' = devices /\ at' = at + 1 /\ readings' = Append(readings, new)
  BY DEF ReportAt
<1>2. readings \in Seq(Readings) /\ new \in Readings /\ at \in Nat
  BY ListedAreEntries DEF IInv, TypeOK, Readings, Entries
<1>3. Len(readings) = at - 1
  BY DEF PassInv, Reported
<1>4. /\ \A i \in 1..Len(readings) : readings'[i] = readings[i]
      /\ readings'[Len(readings) + 1] = new
  <2> HIDE DEF new
  <2> QED  BY <1>1, <1>2, AppendProperties
<1>5. readings'[at] = new
  BY <1>2, <1>3, <1>4
<1> QED
  BY <1>1, <1>2, <1>3, <1>4, <1>5

\* In a step of a pass.
LEMMA PassKeepsPolled ==
  ASSUME IInv, PassInv, SteadyInv, PolledSoFar, SeenAsleep, CallStep, InPass
  PROVE  PolledSoFar' /\ SeenAsleep'
<1>1. steady' \subseteq steady /\ \A g \in steady' : power'[g] = "active"
  BY SteadyStayListed
<1>2. at \in 1..(Len(devices) + 1) /\ Len(devices) \in Nat /\ DOMAIN devices = 1..Len(devices)
  BY ListedAreEntries DEF IInv, TypeOK, PassInv, Reported, InPass
<1>3. \A i \in 1..(at - 1) : devices[i].gpu \in steady => readings[i].polled
  BY DEF PolledSoFar
<1>4. ASSUME at \in DOMAIN devices, RetireAt(at), pc' = "sample"
      PROVE  PolledSoFar' /\ SeenAsleep'
  <2>1. at' = at /\ readings' = readings /\ devices' = RemoveAt(devices, at)
    BY <1>4 DEF RetireAt, Retire
  <2>2. \A i \in 1..(at - 1) : devices'[i] = devices[i]
    <3>1. \A i \in 1..(Len(devices) - 1) :
            devices'[i] = IF i < at THEN devices[i] ELSE devices[i + 1]
      BY <1>2, <1>4, <2>1, RemoveAtElements DEF IInv, TypeOK
    <3> QED  BY <1>2, <1>4, <3>1
  <2> QED  BY <1>1, <1>3, <1>4, <2>1, <2>2 DEF PolledSoFar, SeenAsleep
<1>5. ASSUME at \in DOMAIN devices, NEW polled \in BOOLEAN, ReportAt(at, polled),
             pc' = "sample", polled \/ Entry.gpu \notin steady
      PROVE  PolledSoFar' /\ SeenAsleep'
  <2>1. /\ devices' = devices /\ at' = at + 1 /\ at \in Nat
        /\ readings'[at].polled = polled
        /\ \A i \in 1..(at - 1) : readings'[i] = readings[i]
    BY <1>5, ReportedIsAppended DEF InPass
  <2>2. ASSUME NEW i \in 1..at, devices[i].gpu \in steady' PROVE readings'[i].polled
    <3>1. CASE i = at
      BY <1>1, <1>5, <2>1, <2>2, <3>1 DEF Entry
    <3>2. CASE i # at
      BY <1>1, <1>3, <2>1, <2>2, <3>2
    <3> QED  BY <3>1, <3>2
  <2> QED  BY <1>5, <2>1, <2>2 DEF PolledSoFar, SeenAsleep
<1>6. CASE RetireDead
  BY <1>4, <1>6 DEF RetireDead
<1>7. CASE AskPowerState
  <2>1. UNCHANGED <<devices, at, readings, power>> /\ seen' \in PowerAnswers(Entry) /\ pc' = "read"
    BY <1>7 DEF AskPowerState
  <2>2. "suspended" \in PowerAnswers(Entry) => power[Entry.gpu] = "suspended"
    BY DEF PowerAnswers
  <2> QED  BY <1>1, <1>3, <2>1, <2>2 DEF PolledSoFar, SeenAsleep, Entry
<1>8. CASE ReportSuspended
  BY <1>5, <1>8 DEF ReportSuspended, SeenAsleep, IInv, TypeOK
<1>9. CASE Poll
  <2>1. at \in DOMAIN devices /\ pc' = "sample" /\ (RetireAt(at) \/ ReportAt(at, TRUE))
    BY <1>9 DEF Poll, IInv, TypeOK
  <2> QED  BY <1>4, <1>5, <2>1
<1>10. CASE FinishPass
  BY <1>10 DEF FinishPass, PolledSoFar, SeenAsleep, InPass
<1> QED
  BY <1>6, <1>7, <1>8, <1>9, <1>10
     DEF CallStep, Step, ProbeStep, PassStep, SkipBackend, AskBackend, AdoptFound,
         ScheduleBackend, FinishProbe, InPass

\* The pass that is over has polled them all.
LEMMA PassPollsAll ==
  ASSUME IInv, PassInv, PolledSoFar, CallStep, FinishPass
  PROVE  AllPolled(readings)'
<1>1. /\ readings \in Seq(Readings) /\ Len(devices) \in Nat
      /\ DOMAIN devices = 1..Len(devices) /\ DOMAIN readings = 1..Len(readings)
  BY ListedAreEntries, LenProperties DEF IInv, TypeOK
<1>2. /\ at = Len(devices) + 1 /\ Len(readings) = Len(devices)
      /\ \A i \in 1..Len(devices) : readings[i].key = devices[i].key
  BY <1>1 DEF FinishPass, PassInv, Reported
<1>3. \A i \in 1..Len(devices) : devices[i].gpu \in steady => readings[i].polled
  BY <1>1, <1>2 DEF PolledSoFar, InPass, FinishPass
<1>4. devices' = devices /\ readings' = readings /\ steady' \subseteq steady
  BY SteadyStayListed DEF FinishPass
<1>5. ASSUME NEW e \in Listed, e.gpu \in steady PROVE PolledIn(e, readings)
  <2>1. PICK i \in 1..Len(devices) : e = devices[i]
    BY <1>1 DEF Listed
  <2>2. readings[i] \in Readings /\ i \in DOMAIN readings
    BY <1>1, <1>2, ElementOfSeq
  <2>3. readings[i].key = e.key /\ readings[i].polled
    BY <1>2, <1>3, <1>5, <2>1
  <2>4. readings[i] = [key |-> e.key, polled |-> TRUE]
    BY <2>2, <2>3 DEF Readings
  <2> QED  BY <2>2, <2>4 DEF PolledIn, ToSet
<1> QED
  BY <1>4, <1>5 DEF AllPolled, Listed, PolledIn

LEMMA NextPolledInv ==
  IInv /\ PassInv /\ StageInv /\ SteadyInv /\ PolledInv /\ [ProgramNext]_progVars => PolledInv'
<1> SUFFICES ASSUME IInv, PassInv, StageInv, SteadyInv, PolledInv, [ProgramNext]_progVars
             PROVE  PolledInv'
  OBVIOUS
<1>1. /\ PolledSoFar /\ SeenAsleep
      /\ stage \in {"pause", "print"} /\ pc = "idle" => AllPolled(readings)
      /\ stage \in {"sample", "print"} /\ config.mode = "dump" => AllPolled(priming)
  BY DEF PolledInv, PolledSoFar, SeenAsleep, AllPolled
<1>2. SUFFICES
        /\ PolledSoFar' /\ SeenAsleep'
        /\ stage' \in {"pause", "print"} /\ pc' = "idle" => AllPolled(readings)'
        /\ stage' \in {"sample", "print"} /\ config'.mode = "dump" => AllPolled(priming)'
  BY DEF PolledInv, PolledSoFar, SeenAsleep, AllPolled
<1> HIDE DEF PolledInv
<1>3. ASSUME UNCHANGED <<devices, at, readings, priming, seen, pc, stage, config>>,
             steady' \subseteq steady
      PROVE  /\ PolledSoFar' /\ SeenAsleep'
             /\ stage' \in {"pause", "print"} /\ pc' = "idle" => AllPolled(readings)'
             /\ stage' \in {"sample", "print"} /\ config'.mode = "dump" => AllPolled(priming)'
  <2>1. PolledSoFar' /\ SeenAsleep'
    BY <1>1, <1>3 DEF PolledSoFar, SeenAsleep, InPass, Entry
  <2>2. /\ AllPolled(readings) => AllPolled(readings)'
        /\ AllPolled(priming) => AllPolled(priming)'
    BY <1>3 DEF AllPolled, Listed, PolledIn
  <2> QED  BY <1>1, <1>3, <2>1, <2>2
<1>4. ASSUME pc' = "idle" \/ (pc' = "sample" /\ at' = 1) \/ pc' = "probe"
      PROVE  PolledSoFar' /\ SeenAsleep'
  BY <1>4 DEF PolledSoFar, SeenAsleep, InPass
<1>5. CASE MainStep
  <2>1. CASE stage' = "exit" /\ pc' = "idle"
    BY <1>4, <2>1
  <2>2. CASE CallProbe
    BY <1>4, <2>2 DEF CallProbe, StartProbe
  <2>3. CASE Parse /\ stage' # "exit"
    <3>1. stage' = "probe" /\ pc' = "idle"
      BY <2>3 DEF Parse, Exit, StageInv, vars
    <3> QED  BY <1>4, <3>1
  <2>4. CASE CallPrimingPass
    BY <1>4, <2>4 DEF CallPrimingPass, StartPass
  <2>5. CASE Pause
    <3>1. /\ stage' = "sample" /\ pc' = "idle" /\ priming' = readings /\ stage = "pause"
          /\ pc = "idle" /\ devices' = devices /\ steady' = steady
      BY <2>5 DEF Pause, vars
    <3>2. AllPolled(priming)'
      BY <1>1, <3>1 DEF AllPolled, Listed, PolledIn
    <3> QED  BY <1>4, <3>1, <3>2
  <2>6. CASE Look /\ stage' # "exit"
    <3>1. stage' = "sample" /\ pc' = "idle" /\ config' = config /\ config.mode # "dump"
      BY <2>6 DEF Look, Exit, StageInv, vars
    <3> QED  BY <1>4, <3>1
  <2>7. CASE CallPass
    <3>1. /\ stage' = "print" /\ pc' = "sample" /\ at' = 1 /\ stage = "sample"
          /\ UNCHANGED <<priming, devices, steady, config>>
      BY <2>7 DEF CallPass, StartPass
    <3>2. AllPolled(priming) => AllPolled(priming)'
      BY <3>1 DEF AllPolled, Listed, PolledIn
    <3> QED  BY <1>1, <1>4, <3>1, <3>2
  <2> QED  BY <1>5, <2>1, <2>2, <2>3, <2>4, <2>5, <2>6, <2>7, BetweenCalls
<1>6. CASE CallStep
  <2>1. UNCHANGED <<stage, config, priming>> /\ steady' \subseteq steady /\ Step
    BY <1>6, SteadyStayListed DEF CallStep
  <2>2. PolledSoFar' /\ SeenAsleep'
    <3>1. CASE InPass
      BY <1>1, <1>6, <3>1, PassKeepsPolled
    <3>2. CASE InCall
      BY <2>1, <3>2, StepStaysInCall DEF PolledSoFar, SeenAsleep, InPass
    <3> QED  BY <2>1, <3>1, <3>2, StepStaysInCall
  <2>3. stage' \in {"pause", "print"} /\ pc' = "idle" => AllPolled(readings)'
    <3> SUFFICES ASSUME stage' \in {"pause", "print"}, pc' = "idle"
                 PROVE  AllPolled(readings)'
      OBVIOUS
    <3>1. ~InCall
      BY <2>1 DEF StageInv
    <3>2. FinishPass
      BY <2>1, <3>1, StepStaysInCall
    <3> QED  BY <1>1, <1>6, <3>2, PassPollsAll
  <2>4. stage' \in {"sample", "print"} /\ config'.mode = "dump" => AllPolled(priming)'
    <3> SUFFICES ASSUME stage \in {"sample", "print"}, config.mode = "dump"
                 PROVE  AllPolled(priming)'
      BY <2>1
    <3>1. ~InCall
      BY DEF StageInv, InCall
    <3>2. Listed' \subseteq Listed
      BY <2>1, <3>1, ListGrowth DEF Next, AdoptFound, InCall
    <3> QED  BY <1>1, <2>1, <3>2 DEF AllPolled, PolledIn
  <2> QED  BY <2>2, <2>3, <2>4
<1>7. CASE Watch
  <2>1. stage = "watch" /\ stage' = "watch"
    BY <1>7 DEF Watch
  <2>2. CASE StartProbe \/ StartPass
    BY <1>4, <2>1, <2>2 DEF StartProbe, StartPass
  <2>3. CASE Tick
    BY <1>4, <2>1, <2>3 DEF Tick
  <2> QED  BY <1>7, <2>2, <2>3 DEF Watch
<1>8. CASE MachineStep
  BY <1>3, <1>8, MachineLeaves
<1>9. CASE UNCHANGED progVars
  BY <1>3, <1>9 DEF progVars, own, vars
<1> QED
  BY <1>5, <1>6, <1>7, <1>8, <1>9 DEF ProgramNext

\* A GPU that is awake and served without a fault from the probe on is in the dump, and
\* was polled by both passes, whatever happens to the others; because no two GPUs
\* have one identity, none is dropped for a duplicate of another.
THEOREM SteadyGpusHaveRates ==
  ASSUME IdentitiesDiffer
  PROVE  ProgramSpec => []SteadyGpuHasRates
<1> DEFINE Kept == IInv /\ LoopInv /\ PassInv /\ FoundIsFinite
           Inv == StageInv /\ SteadyInv /\ ProbeInv /\ PolledInv /\ KeysAreNames
<1>1. ProgramInit => Inv
  <2> SUFFICES ASSUME ProgramInit PROVE Inv
    OBVIOUS
  <2>1. /\ stage \in {"parse", "watch"} /\ (stage = "parse" => argv \in CommandLines)
        /\ config = ParseArguments(<<>>) /\ steady = {} /\ pc = "idle" /\ devices = <<>>
        /\ found = {} /\ wait = [b \in Backends |-> 0]
    BY DEF ProgramInit, Init
  <2>2. config.interval \in kMinInterval..kMaxInterval
    <3>1. <<>> \in Lines
      BY DEF Lines
    <3>2. ParseArguments(<<>>).interval \in kMinInterval..kMaxInterval
      BY <3>1, IntervalIsInRange
    <3> QED  BY <2>1, <3>2
  <2>3. StageInv
    BY <2>1, <2>2 DEF StageInv, InCall, InPass
  <2>4. SteadyInv /\ ProbeInv /\ PolledInv /\ KeysAreNames
    BY <2>1 DEF SteadyInv, ProbeInv, PolledInv, KeysAreNames, InCall, InPass, Listed
  <2> QED  BY <2>3, <2>4
<1>2. Kept /\ Inv /\ [ProgramNext]_progVars => Inv'
  BY NextStageInv, NextSteadyInv, NextProbeInv, NextPolledInv, NextKeysAreNames
<1>3. Inv => SteadyGpuHasRates
  <2> SUFFICES ASSUME StageInv, ProbeInv, PolledInv,
                      stage = "print", pc = "idle", config.mode = "dump",
                      NEW g \in steady, NEW b \in Backends, g \in Sees[b]
               PROVE  /\ gap \in kMinInterval..kMaxPriming
                      /\ \E e \in Listed : /\ e.gpu = g
                                           /\ PolledIn(e, priming) /\ PolledIn(e, readings)
    BY DEF SteadyGpuHasRates, PolledIn
  <2>1. IsListed(g)
    BY DEF ProbeInv, InCall
  <2>2. PICK e \in Listed : e.gpu = g
    BY <2>1 DEF IsListed
  <2>3. PolledIn(e, priming) /\ PolledIn(e, readings)
    BY <2>2 DEF PolledInv
  <2> QED  BY <2>2, <2>3 DEF StageInv
<1> HIDE DEF Kept, Inv
<1>4. ProgramSpec => []Kept
  BY ProgramKeepsRegistry DEF Kept
<1> QED
  BY <1>1, <1>2, <1>3, <1>4, PTL DEF ProgramSpec

(***************************************************************************)
(* What the JSON export writes a reader of JSON reads back. Sequences      *)
(* whose elements may be anything come first.                              *)
(***************************************************************************)
LEMMA SequenceFacts ==
  ASSUME NEW s, IsSequence(s)
  PROVE  /\ Len(s) \in Nat /\ DOMAIN s = 1..Len(s)
         /\ \A i \in 1..Len(s) : s[i] \in ToSet(s)
         /\ s = <<>> <=> Len(s) = 0
<1>1. s \in Seq(ToSet(s))
  BY DEF IsSequence
<1>2. Len(s) \in Nat /\ DOMAIN s = 1..Len(s) /\ \A i \in 1..Len(s) : s[i] \in ToSet(s)
  BY <1>1, LenProperties, ElementOfSeq
<1>3. s = <<>> <=> Len(s) = 0
  BY <1>1, EmptySeq
<1> QED  BY <1>2, <1>3

LEMMA SequencesAre ==
  ASSUME NEW S, NEW s \in Seq(S)
  PROVE  IsSequence(s)
<1>1. Len(s) \in Nat /\ DOMAIN s = 1..Len(s) /\ s = [i \in 1..Len(s) |-> s[i]]
  BY LenProperties
<1>2. \A i \in 1..Len(s) : s[i] \in ToSet(s)
  BY <1>1 DEF ToSet
<1>3. s \in [1..Len(s) -> ToSet(s)]
  BY <1>1, <1>2
<1>4. Seq(ToSet(s)) = UNION {[1..n -> ToSet(s)] : n \in Nat}
  BY SeqDef
<1> QED  BY <1>1, <1>3, <1>4 DEF IsSequence

\* A function on 1..n is a sequence.
LEMMA FunctionsAreSequences ==
  ASSUME NEW n \in Nat, NEW s, s = [i \in 1..n |-> s[i]]
  PROVE  IsSequence(s) /\ Len(s) = n
<1>1. \A i \in 1..n : s[i] \in ToSet(s)
  <2>1. DOMAIN s = 1..n
    OBVIOUS
  <2> QED  BY <2>1 DEF ToSet
<1>2. s \in [1..n -> ToSet(s)]
  BY <1>1
<1>3. Seq(ToSet(s)) = UNION {[1..m -> ToSet(s)] : m \in Nat}
  BY SeqDef
<1>4. s \in Seq(ToSet(s))
  BY <1>2, <1>3
<1>5. DOMAIN s = 1..Len(s) /\ Len(s) \in Nat
  BY <1>4, LenProperties
<1>6. Len(s) = n
  BY <1>5
<1> QED  BY <1>4, <1>6 DEF IsSequence

LEMMA SameSequence ==
  ASSUME NEW s, IsSequence(s), NEW t, IsSequence(t), Len(s) = Len(t),
         \A i \in 1..Len(s) : s[i] = t[i]
  PROVE  s = t
<1> DEFINE S == ToSet(s) \cup ToSet(t)
<1>1. s \in Seq(S) /\ t \in Seq(S)
  BY SeqMonotonic DEF IsSequence
<1> QED  BY <1>1, SeqEqual

LEMMA Appended ==
  ASSUME NEW s, IsSequence(s), NEW x
  PROVE  LET t == Append(s, x)
         IN  /\ IsSequence(t) /\ Len(t) = Len(s) + 1 /\ t # <<>>
             /\ \A i \in 1..Len(s) : t[i] = s[i]
             /\ t[Len(s) + 1] = x /\ Last(t) = x /\ Front(t) = s
<1> DEFINE S == ToSet(s) \cup {x}
           t == Append(s, x)
           n == Len(s)
<1>1. s \in Seq(S) /\ n \in Nat
  BY SeqMonotonic, SequenceFacts DEF IsSequence
<1>2. /\ t \in Seq(S) /\ Len(t) = n + 1
      /\ \A i \in 1..n : t[i] = s[i] /\ t[n + 1] = x
  BY <1>1, AppendProperties
<1>3. IsSequence(t)
  BY <1>2, SequencesAre
<1>4. t[n + 1] = x
  BY <1>1, AppendProperties
<1> HIDE DEF t
<1>5. Last(t) = x
  BY <1>2, <1>4 DEF Last
<1>6. Front(t) = s
  <2>1. Front(t) = SubSeq(t, 1, n)
    BY <1>1, <1>2 DEF Front
  <2>2. \A i \in 1..n : t[i] \in S
    BY <1>1, <1>2, ElementOfSeq
  <2>3. /\ SubSeq(t, 1, n) \in Seq(S) /\ Len(SubSeq(t, 1, n)) = n
        /\ \A i \in 1..n : SubSeq(t, 1, n)[i] = t[i]
    <3>1. 1..n \subseteq 1..Len(t)
      BY <1>1, <1>2
    <3> QED  BY <1>1, <1>2, <2>2, SubSeqProperties
  <2> QED  BY <1>1, <1>2, <2>1, <2>3, SeqEqual
<1>7. t # <<>>
  BY <1>1, <1>2, <1>3, SequenceFacts
<1> QED  BY <1>2, <1>3, <1>4, <1>5, <1>6, <1>7 DEF t

LEMMA EmptyIsSequence == IsSequence(<<>>) /\ Len(<<>>) = 0
<1>1. <<>> \in Seq({})
  OBVIOUS
<1> QED  BY <1>1, SequencesAre

Writes(f, base, items) ==
  /\ f[0] = base /\ f[Len(items)] = WriteAll(base, items)
  /\ \A i \in 1..Len(items) : f[i] = Write(f[i - 1], items[i])
LEMMA WriteFold ==
  ASSUME NEW base, NEW items, Len(items) \in Nat
  PROVE  \E f : Writes(f, base, items)
<1> DEFINE n == Len(items)
           Op(x, i) == Write(x, items[i])
           From(f, m) == f = [i \in 0..m |-> IF i = 0 THEN base ELSE Op(f[i - 1], i)]
           S == {m \in 0..n : \E f : From(f, m)}
           Chosen(f) == f = [i \in 0..n |-> IF i = 0 THEN base
                                            ELSE CHOOSE s \in {Op(x, i) : x \in {f[i - 1]}} : TRUE]
<1>1. WriteAll(base, items) = (CHOOSE f : Chosen(f))[n]
  BY DEF Fold, WriteAll
<1> HIDE DEF Op
<1>2. n \in S
  <2>1. 0 \in S
    <3>1. From([i \in 0..0 |-> base], 0) /\ 0 \in 0..n
      OBVIOUS
    <3> HIDE DEF From
    <3> QED  BY <3>1
  <2>2. ASSUME NEW m \in 0..n, m \in S, m < n  PROVE m + 1 \in S
    <3>1. PICK f : From(f, m)
      BY <2>2
    <3> DEFINE g == [i \in 0..(m + 1) |-> IF i <= m THEN f[i] ELSE Op(f[m], m + 1)]
    <3>2. From(g, m + 1)
      BY <2>2, <3>1
    <3> HIDE DEF From
    <3> QED  BY <2>2, <3>2
  <2>3. \A m \in 0..n : m \in S /\ m < n => m + 1 \in S
    BY <2>2
  <2> HIDE DEF S
  <2>4. 0..n \subseteq S
    BY <2>1, <2>3, UpTo
  <2> QED  BY <2>4
<1>3. PICK f : From(f, n)
  BY <1>2
<1>4. Chosen(f)
  BY <1>3
<1> DEFINE c == CHOOSE g : Chosen(g)
<1>5. Chosen(c)
  <2> HIDE DEF Chosen
  <2> QED  BY <1>4
<1>6. c[0] = base /\ \A i \in 1..n : c[i] = Op(c[i - 1], i)
  <2> HIDE DEF c
  <2> QED  BY <1>5
<1>7. c[n] = WriteAll(base, items)
  BY <1>1
<1> HIDE DEF c, From, Chosen, S
<1> QED  BY <1>6, <1>7 DEF Op, Writes

WritesProcesses(f, base, items) ==
  /\ f[0] = base /\ f[Len(items)] = EachProcess(base, items)
  /\ \A i \in 1..Len(items) : f[i] = WriteProcess(f[i - 1], items[i])
LEMMA ProcessFold ==
  ASSUME NEW base, NEW items, Len(items) \in Nat
  PROVE  \E f : WritesProcesses(f, base, items)
<1> DEFINE n == Len(items)
           Op(x, i) == WriteProcess(x, items[i])
           From(f, m) == f = [i \in 0..m |-> IF i = 0 THEN base ELSE Op(f[i - 1], i)]
           S == {m \in 0..n : \E f : From(f, m)}
           Chosen(f) == f = [i \in 0..n |-> IF i = 0 THEN base
                                            ELSE CHOOSE s \in {Op(x, i) : x \in {f[i - 1]}} : TRUE]
<1>1. EachProcess(base, items) = (CHOOSE f : Chosen(f))[n]
  BY DEF Fold, EachProcess
<1> HIDE DEF Op
<1>2. n \in S
  <2>1. 0 \in S
    <3>1. From([i \in 0..0 |-> base], 0) /\ 0 \in 0..n
      OBVIOUS
    <3> HIDE DEF From
    <3> QED  BY <3>1
  <2>2. ASSUME NEW m \in 0..n, m \in S, m < n  PROVE m + 1 \in S
    <3>1. PICK f : From(f, m)
      BY <2>2
    <3> DEFINE g == [i \in 0..(m + 1) |-> IF i <= m THEN f[i] ELSE Op(f[m], m + 1)]
    <3>2. From(g, m + 1)
      BY <2>2, <3>1
    <3> HIDE DEF From
    <3> QED  BY <2>2, <3>2
  <2>3. \A m \in 0..n : m \in S /\ m < n => m + 1 \in S
    BY <2>2
  <2> HIDE DEF S
  <2>4. 0..n \subseteq S
    BY <2>1, <2>3, UpTo
  <2> QED  BY <2>4
<1>3. PICK f : From(f, n)
  BY <1>2
<1>4. Chosen(f)
  BY <1>3
<1> DEFINE c == CHOOSE g : Chosen(g)
<1>5. Chosen(c)
  <2> HIDE DEF Chosen
  <2> QED  BY <1>4
<1>6. c[0] = base /\ \A i \in 1..n : c[i] = Op(c[i - 1], i)
  <2> HIDE DEF c
  <2> QED  BY <1>5
<1>7. c[n] = EachProcess(base, items)
  BY <1>1
<1> HIDE DEF c, From, Chosen, S
<1> QED  BY <1>6, <1>7 DEF Op, WritesProcesses

WritesReadings(f, base, items) ==
  /\ f[0] = base /\ f[Len(items)] = EachReading(base, items)
  /\ \A i \in 1..Len(items) : f[i] = WriteReading(f[i - 1], items[i])
LEMMA ReadingFold ==
  ASSUME NEW base, NEW items, Len(items) \in Nat
  PROVE  \E f : WritesReadings(f, base, items)
<1> DEFINE n == Len(items)
           Op(x, i) == WriteReading(x, items[i])
           From(f, m) == f = [i \in 0..m |-> IF i = 0 THEN base ELSE Op(f[i - 1], i)]
           S == {m \in 0..n : \E f : From(f, m)}
           Chosen(f) == f = [i \in 0..n |-> IF i = 0 THEN base
                                            ELSE CHOOSE s \in {Op(x, i) : x \in {f[i - 1]}} : TRUE]
<1>1. EachReading(base, items) = (CHOOSE f : Chosen(f))[n]
  BY DEF Fold, EachReading
<1> HIDE DEF Op
<1>2. n \in S
  <2>1. 0 \in S
    <3>1. From([i \in 0..0 |-> base], 0) /\ 0 \in 0..n
      OBVIOUS
    <3> HIDE DEF From
    <3> QED  BY <3>1
  <2>2. ASSUME NEW m \in 0..n, m \in S, m < n  PROVE m + 1 \in S
    <3>1. PICK f : From(f, m)
      BY <2>2
    <3> DEFINE g == [i \in 0..(m + 1) |-> IF i <= m THEN f[i] ELSE Op(f[m], m + 1)]
    <3>2. From(g, m + 1)
      BY <2>2, <3>1
    <3> HIDE DEF From
    <3> QED  BY <2>2, <3>2
  <2>3. \A m \in 0..n : m \in S /\ m < n => m + 1 \in S
    BY <2>2
  <2> HIDE DEF S
  <2>4. 0..n \subseteq S
    BY <2>1, <2>3, UpTo
  <2> QED  BY <2>4
<1>3. PICK f : From(f, n)
  BY <1>2
<1>4. Chosen(f)
  BY <1>3
<1> DEFINE c == CHOOSE g : Chosen(g)
<1>5. Chosen(c)
  <2> HIDE DEF Chosen
  <2> QED  BY <1>4
<1>6. c[0] = base /\ \A i \in 1..n : c[i] = Op(c[i - 1], i)
  <2> HIDE DEF c
  <2> QED  BY <1>5
<1>7. c[n] = EachReading(base, items)
  BY <1>1
<1> HIDE DEF c, From, Chosen, S
<1> QED  BY <1>6, <1>7 DEF Op, WritesReadings

WritesEscapes(f, base, items) ==
  /\ f[0] = base /\ f[Len(items)] = Escapes(base, items)
  /\ \A i \in 1..Len(items) : f[i] = f[i - 1] \o Escaped(items[i])
LEMMA EscapeFold ==
  ASSUME NEW base, NEW items, Len(items) \in Nat
  PROVE  \E f : WritesEscapes(f, base, items)
<1> DEFINE n == Len(items)
           Op(x, i) == x \o Escaped(items[i])
           From(f, m) == f = [i \in 0..m |-> IF i = 0 THEN base ELSE Op(f[i - 1], i)]
           S == {m \in 0..n : \E f : From(f, m)}
           Chosen(f) == f = [i \in 0..n |-> IF i = 0 THEN base
                                            ELSE CHOOSE s \in {Op(x, i) : x \in {f[i - 1]}} : TRUE]
<1>1. Escapes(base, items) = (CHOOSE f : Chosen(f))[n]
  BY DEF Fold, Escapes
<1> HIDE DEF Op
<1>2. n \in S
  <2>1. 0 \in S
    <3>1. From([i \in 0..0 |-> base], 0) /\ 0 \in 0..n
      OBVIOUS
    <3> HIDE DEF From
    <3> QED  BY <3>1
  <2>2. ASSUME NEW m \in 0..n, m \in S, m < n  PROVE m + 1 \in S
    <3>1. PICK f : From(f, m)
      BY <2>2
    <3> DEFINE g == [i \in 0..(m + 1) |-> IF i <= m THEN f[i] ELSE Op(f[m], m + 1)]
    <3>2. From(g, m + 1)
      BY <2>2, <3>1
    <3> HIDE DEF From
    <3> QED  BY <2>2, <3>2
  <2>3. \A m \in 0..n : m \in S /\ m < n => m + 1 \in S
    BY <2>2
  <2> HIDE DEF S
  <2>4. 0..n \subseteq S
    BY <2>1, <2>3, UpTo
  <2> QED  BY <2>4
<1>3. PICK f : From(f, n)
  BY <1>2
<1>4. Chosen(f)
  BY <1>3
<1> DEFINE c == CHOOSE g : Chosen(g)
<1>5. Chosen(c)
  <2> HIDE DEF Chosen
  <2> QED  BY <1>4
<1>6. c[0] = base /\ \A i \in 1..n : c[i] = Op(c[i - 1], i)
  <2> HIDE DEF c
  <2> QED  BY <1>5
<1>7. c[n] = Escapes(base, items)
  BY <1>1
<1> HIDE DEF c, From, Chosen, S
<1> QED  BY <1>6, <1>7 DEF Op, WritesEscapes

(***************************************************************************)
(* Reading on, character by character and token by token.                  *)
(***************************************************************************)
\* d is where the reader of a token is after the characters of s.
Decodes(s, d) ==
  \E f : /\ f[0] = NoText /\ f[Len(s)] = d
         /\ \A i \in 1..Len(s) : f[i] = TakeCharacter(f[i - 1], s[i])

\* r is where the reader of a text is after the tokens of s.
Reads(s, r) ==
  \E f : /\ f[0] = ReadingText /\ f[Len(s)] = r
         /\ \A i \in 1..Len(s) : f[i] = Take(f[i - 1], s[i])

LEMMA DecodeNothing == Decodes(<<>>, NoText)
<1> DEFINE f == [i \in 0..0 |-> NoText]
<1>1. f[0] = NoText /\ Len(<<>>) = 0 /\ 1..0 = {}
  OBVIOUS
<1> HIDE DEF f
<1> QED  BY <1>1 DEF Decodes

LEMMA DecodeNext ==
  ASSUME NEW s, IsSequence(s), NEW r, Decodes(s, r), NEW c
  PROVE  Decodes(Append(s, c), TakeCharacter(r, c))
<1> DEFINE n == Len(s)
<1>1. PICK f : f[0] = NoText /\ f[n] = r /\ \A i \in 1..n : f[i] = TakeCharacter(f[i - 1], s[i])
  BY DEF Decodes
<1> DEFINE g == [i \in 0..(n + 1) |-> IF i <= n THEN f[i] ELSE TakeCharacter(r, c)]
<1>2. n \in Nat
  BY SequenceFacts
<1>3. /\ Len(Append(s, c)) = n + 1 /\ Append(s, c)[n + 1] = c
      /\ \A i \in 1..n : Append(s, c)[i] = s[i]
  BY Appended
<1>4. /\ g[0] = f[0] /\ g[n] = f[n] /\ g[n + 1] = TakeCharacter(r, c)
      /\ \A i \in 1..n : g[i] = f[i] /\ g[i - 1] = f[i - 1]
  BY <1>2
<1> HIDE DEF g
<1>5. ASSUME NEW i \in 1..(n + 1)  PROVE g[i] = TakeCharacter(g[i - 1], Append(s, c)[i])
  <2>1. CASE i = n + 1
    <3>1. i - 1 = n
      BY <1>2, <2>1
    <3> QED  BY <1>1, <1>3, <1>4, <2>1, <3>1
  <2>2. CASE i \in 1..n
    BY <1>1, <1>3, <1>4, <2>2
  <2> QED  BY <1>2, <2>1, <2>2
<1> QED  BY <1>1, <1>3, <1>4, <1>5 DEF Decodes

LEMMA DecodeFold ==
  ASSUME NEW s, IsSequence(s), NEW r, Decodes(s, r)
  PROVE  Decoded(s) = r
<1> DEFINE n == Len(s)
           Chosen(g) == g = [i \in 0..n |-> IF i = 0 THEN NoText
                                ELSE CHOOSE x \in {TakeCharacter(y, s[i]) : y \in {g[i - 1]}} :
                                        TRUE]
           c == CHOOSE g : Chosen(g)
<1>1. PICK f : f[0] = NoText /\ f[n] = r /\ \A i \in 1..n : f[i] = TakeCharacter(f[i - 1], s[i])
  BY DEF Decodes
<1>2. n \in Nat
  BY SequenceFacts
<1>3. Chosen(c)
  <2> DEFINE g == [i \in 0..n |-> f[i]]
             next == [i \in 0..n |-> IF i = 0 THEN NoText
                                ELSE CHOOSE x \in {TakeCharacter(y, s[i]) : y \in {g[i - 1]}} :
                                        TRUE]
  <2>1. Chosen(g)
    <3>1. ASSUME NEW i \in 0..n  PROVE next[i] = g[i]
      <4>1. CASE i = 0
        BY <1>1, <1>2, <4>1
      <4>2. CASE i # 0
        <5>1. i \in 1..n /\ g[i - 1] = f[i - 1] /\ g[i] = f[i]
          BY <1>2, <4>2
        <5>2. next[i] = TakeCharacter(g[i - 1], s[i])
          BY <4>2
        <5> QED  BY <1>1, <5>1, <5>2
      <4> QED  BY <4>1, <4>2
    <3>2. next = [i \in 0..n |-> next[i]] /\ g = [i \in 0..n |-> g[i]]
      OBVIOUS
    <3>3. g = next
      <4> HIDE DEF g, next
      <4> QED  BY <3>1, <3>2
    <3> QED  BY <3>3
  <2> HIDE DEF Chosen
  <2> QED  BY <2>1
<1>4. c[0] = NoText /\ \A i \in 1..n : c[i] = TakeCharacter(c[i - 1], s[i])
  <2> HIDE DEF c
  <2> QED  BY <1>2, <1>3
<1>5. Decoded(s) = c[n]
  BY DEF Fold, Decoded
<1> HIDE DEF c
<1> DEFINE S == {i \in 0..n : c[i] = f[i]}
<1>6. \A i \in 0..n : i \in S /\ i < n => i + 1 \in S
  <2> SUFFICES ASSUME NEW i \in 0..n, i \in S, i < n  PROVE i + 1 \in S
    OBVIOUS
  <2>1. i + 1 \in 1..n /\ i + 1 - 1 = i
    BY <1>2
  <2> QED  BY <1>1, <1>4, <2>1
<1>7. 0 \in S
  BY <1>1, <1>2, <1>4
<1>8. 0..n \subseteq S
  <2> HIDE DEF S
  <2> QED  BY <1>2, <1>6, <1>7, UpTo
<1> QED  BY <1>1, <1>2, <1>5, <1>8

LEMMA ReadNothing == Reads(<<>>, ReadingText)
<1> DEFINE f == [i \in 0..0 |-> ReadingText]
<1>1. f[0] = ReadingText /\ Len(<<>>) = 0 /\ 1..0 = {}
  OBVIOUS
<1> HIDE DEF f
<1> QED  BY <1>1 DEF Reads

LEMMA ReadNext ==
  ASSUME NEW s, IsSequence(s), NEW r, Reads(s, r), NEW c
  PROVE  Reads(Append(s, c), Take(r, c))
<1> DEFINE n == Len(s)
<1>1. PICK f : f[0] = ReadingText /\ f[n] = r /\ \A i \in 1..n : f[i] = Take(f[i - 1], s[i])
  BY DEF Reads
<1> DEFINE g == [i \in 0..(n + 1) |-> IF i <= n THEN f[i] ELSE Take(r, c)]
<1>2. n \in Nat
  BY SequenceFacts
<1>3. /\ Len(Append(s, c)) = n + 1 /\ Append(s, c)[n + 1] = c
      /\ \A i \in 1..n : Append(s, c)[i] = s[i]
  BY Appended
<1>4. /\ g[0] = f[0] /\ g[n] = f[n] /\ g[n + 1] = Take(r, c)
      /\ \A i \in 1..n : g[i] = f[i] /\ g[i - 1] = f[i - 1]
  BY <1>2
<1> HIDE DEF g
<1>5. ASSUME NEW i \in 1..(n + 1)  PROVE g[i] = Take(g[i - 1], Append(s, c)[i])
  <2>1. CASE i = n + 1
    <3>1. i - 1 = n
      BY <1>2, <2>1
    <3> QED  BY <1>1, <1>3, <1>4, <2>1, <3>1
  <2>2. CASE i \in 1..n
    BY <1>1, <1>3, <1>4, <2>2
  <2> QED  BY <1>2, <2>1, <2>2
<1> QED  BY <1>1, <1>3, <1>4, <1>5 DEF Reads

LEMMA ReadFold ==
  ASSUME NEW s, IsSequence(s), NEW r, Reads(s, r)
  PROVE  ReadAll(s) = r
<1> DEFINE n == Len(s)
           Chosen(g) == g = [i \in 0..n |-> IF i = 0 THEN ReadingText
                                ELSE CHOOSE x \in {Take(y, s[i]) : y \in {g[i - 1]}} : TRUE]
           c == CHOOSE g : Chosen(g)
<1>1. PICK f : f[0] = ReadingText /\ f[n] = r /\ \A i \in 1..n : f[i] = Take(f[i - 1], s[i])
  BY DEF Reads
<1>2. n \in Nat
  BY SequenceFacts
<1>3. Chosen(c)
  <2> DEFINE g == [i \in 0..n |-> f[i]]
             next == [i \in 0..n |-> IF i = 0 THEN ReadingText
                                ELSE CHOOSE x \in {Take(y, s[i]) : y \in {g[i - 1]}} : TRUE]
  <2>1. Chosen(g)
    <3>1. ASSUME NEW i \in 0..n  PROVE next[i] = g[i]
      <4>1. CASE i = 0
        BY <1>1, <1>2, <4>1
      <4>2. CASE i # 0
        <5>1. i \in 1..n /\ g[i - 1] = f[i - 1] /\ g[i] = f[i]
          BY <1>2, <4>2
        <5>2. next[i] = Take(g[i - 1], s[i])
          BY <4>2
        <5> QED  BY <1>1, <5>1, <5>2
      <4> QED  BY <4>1, <4>2
    <3>2. next = [i \in 0..n |-> next[i]] /\ g = [i \in 0..n |-> g[i]]
      OBVIOUS
    <3>3. g = next
      <4> HIDE DEF g, next
      <4> QED  BY <3>1, <3>2
    <3> QED  BY <3>3
  <2> HIDE DEF Chosen
  <2> QED  BY <2>1
<1>4. c[0] = ReadingText /\ \A i \in 1..n : c[i] = Take(c[i - 1], s[i])
  <2> HIDE DEF c
  <2> QED  BY <1>2, <1>3
<1>5. ReadAll(s) = c[n]
  BY DEF Fold, ReadAll
<1> HIDE DEF c
<1> DEFINE S == {i \in 0..n : c[i] = f[i]}
<1>6. \A i \in 0..n : i \in S /\ i < n => i + 1 \in S
  <2> SUFFICES ASSUME NEW i \in 0..n, i \in S, i < n  PROVE i + 1 \in S
    OBVIOUS
  <2>1. i + 1 \in 1..n /\ i + 1 - 1 = i
    BY <1>2
  <2> QED  BY <1>1, <1>4, <2>1
<1>7. 0 \in S
  BY <1>1, <1>2, <1>4
<1>8. 0..n \subseteq S
  <2> HIDE DEF S
  <2> QED  BY <1>2, <1>6, <1>7, UpTo
<1> QED  BY <1>1, <1>2, <1>5, <1>8

(***************************************************************************)
(* Strings.                                                                *)
(***************************************************************************)
Inside(text) == [mode |-> "inside", text |-> text, digits |-> <<>>]
Closed(text) == [mode |-> "closed", text |-> text, digits |-> <<>>]

LEMMA AppendedOne ==
  ASSUME NEW s, IsSequence(s), NEW a
  PROVE  s \o <<a>> = Append(s, a)
<1>1. s \in Seq(ToSet(s) \cup {a})
  BY SeqMonotonic DEF IsSequence
<1> QED  BY <1>1

LEMMA AppendedTwo ==
  ASSUME NEW s, IsSequence(s), NEW a, NEW b
  PROVE  s \o <<a, b>> = Append(Append(s, a), b)
<1>1. s \in Seq(ToSet(s) \cup {a, b})
  BY SeqMonotonic DEF IsSequence
<1> QED  BY <1>1

LEMMA AppendedSix ==
  ASSUME NEW s, IsSequence(s), NEW a, NEW b, NEW c, NEW d, NEW e, NEW f
  PROVE  s \o <<a, b, c, d, e, f>> =
           Append(Append(Append(Append(Append(Append(s, a), b), c), d), e), f)
<1>1. s \in Seq(ToSet(s) \cup {a, b, c, d, e, f})
  BY SeqMonotonic DEF IsSequence
<1> QED  BY <1>1

LEMMA ConcatenatedFirst ==
  ASSUME NEW s, IsSequence(s), Len(s) >= 1, NEW t, IsSequence(t)
  PROVE  Len(s \o t) >= 1 /\ (s \o t)[1] = s[1]
<1>1. s \in Seq(ToSet(s) \cup ToSet(t)) /\ t \in Seq(ToSet(s) \cup ToSet(t))
  BY SeqMonotonic DEF IsSequence
<1>2. Len(s) \in Nat /\ Len(t) \in Nat
  BY SequenceFacts
<1> QED  BY <1>1, <1>2, ConcatProperties

LEMMA EscapedIsSequence ==
  ASSUME NEW c
  PROVE  IsSequence(Escaped(c))
<1>1. \A a, b : IsSequence(<<a>>) /\ IsSequence(<<a, b>>)
  <2> SUFFICES ASSUME NEW a, NEW b  PROVE IsSequence(<<a>>) /\ IsSequence(<<a, b>>)
    OBVIOUS
  <2>1. <<a>> \in Seq({a}) /\ <<a, b>> \in Seq({a, b})
    OBVIOUS
  <2> QED  BY <2>1, SequencesAre
<1>2. ASSUME NEW a, NEW b  PROVE IsSequence(<<"\\", "u", "0", "0", a, b>>)
  <2>1. <<"\\", "u", "0", "0", a, b>> \in Seq({"\\", "u", "0", a, b})
    OBVIOUS
  <2> QED  BY <2>1, SequencesAre
<1> QED  BY <1>1, <1>2 DEF Escaped

\* A step of the reader of a string, with the sequence that it has read.
LEMMA DecodeStep ==
  ASSUME NEW s, IsSequence(s), NEW d, Decodes(s, d), NEW c, NEW e, TakeCharacter(d, c) = e
  PROVE  IsSequence(Append(s, c)) /\ Decodes(Append(s, c), e)
BY Appended, DecodeNext

\* The escape of a character is read as that character.
LEMMA EscapeIsRead ==
  ASSUME NEW s, IsSequence(s), NEW text, Decodes(s, Inside(text)), NEW c
  PROVE  IsSequence(s \o Escaped(c)) /\ Decodes(s \o Escaped(c), Inside(Append(text, c)))
<1> DEFINE escape == Enter(Inside(text), "escape")
<1>1. TakeCharacter(Inside(text), "\\") = escape
  BY DEF TakeCharacter, TakeRaw, Enter, Inside
<1>2. IsSequence(Append(s, "\\")) /\ Decodes(Append(s, "\\"), escape)
  BY <1>1, DecodeStep
<1>3. CASE c \in HasLetter
  <2>1. s \o Escaped(c) = Append(Append(s, "\\"), Letter(c))
    BY <1>3, AppendedTwo DEF Escaped
  <2>2. TakeCharacter(escape, Letter(c)) = Inside(Append(text, c))
    BY <1>3 DEF HasLetter, Letter, TakeCharacter, TakeLetter, SimpleEscapes, Meaning, Got,
                Enter, Inside
  <2> HIDE DEF escape
  <2> QED  BY <1>2, <2>1, <2>2, DecodeStep
<1>4. CASE c \notin HasLetter /\ c \in DOMAIN ControlCode
  <2>0. c \in {"BEL", "US"}
    BY <1>4 DEF ControlCode
  <2> DEFINE a == kHexDigits[((ControlCode[c] \div 16) % 16) + 1]
             b == kHexDigits[(ControlCode[c] % 16) + 1]
             digits == Enter(Inside(text), "digits")
             Writing(ds) == [mode |-> "digits", text |-> text, digits |-> ds]
  <2>1. s \o Escaped(c) =
          Append(Append(Append(Append(Append(Append(s, "\\"), "u"), "0"), "0"), a), b)
    BY <1>4, AppendedSix DEF Escaped
  <2>2. TakeCharacter(escape, "u") = Writing(<<>>)
    BY DEF TakeCharacter, TakeLetter, SimpleEscapes, Enter, Inside
  <2>3. /\ TakeCharacter(Writing(<<>>), "0") = Writing(<<"0">>)
        /\ TakeCharacter(Writing(<<"0">>), "0") = Writing(<<"0", "0">>)
        /\ TakeCharacter(Writing(<<"0", "0">>), a) = Writing(<<"0", "0", a>>)
    <3> HIDE DEF a
    <3> QED  BY DEF TakeCharacter, TakeDigit
  <2>4. CodePoint(<<"0", "0", a, b>>) = {c}
    <3>1. /\ \A x \in {"BEL", "US"} : ControlCode[x] \in {7, 31}
          /\ ControlCode["BEL"] = 7 /\ ControlCode["US"] = 31
          /\ DOMAIN ControlCode = {"BEL", "US"}
      BY DEF ControlCode
    <3>2. /\ 7 \div 16 = 0 /\ 31 \div 16 = 1 /\ 7 % 16 = 7 /\ 31 % 16 = 15
          /\ 0 % 16 = 0 /\ 1 % 16 = 1
      OBVIOUS
    <3>3. /\ kHexDigits[1] = "0" /\ kHexDigits[2] = "1" /\ kHexDigits[8] = "7"
          /\ kHexDigits[16] = "f"
      BY DEF kHexDigits
    <3>4. CASE c = "BEL"
      <4>1. a = "0" /\ b = "7"
        BY <3>1, <3>2, <3>3, <3>4
      <4> HIDE DEF a, b
      <4> QED  BY <3>1, <3>2, <3>3, <3>4, <4>1 DEF CodePoint
    <3>5. CASE c = "US"
      <4>1. a = "1" /\ b = "f"
        BY <3>1, <3>2, <3>3, <3>5
      <4> HIDE DEF a, b
      <4> QED  BY <3>1, <3>2, <3>3, <3>5, <4>1 DEF CodePoint
    <3> QED  BY <2>0, <3>4, <3>5
  <2>5. TakeCharacter(Writing(<<"0", "0", a>>), b) = Inside(Append(text, c))
    <3> HIDE DEF a, b
    <3>1. Append(<<"0", "0", a>>, b) = <<"0", "0", a, b>> /\ Len(<<"0", "0", a, b>>) = 4
      <4> DEFINE s3 == <<"0", "0", a>>
                 s4 == <<"0", "0", a, b>>
      <4>1. /\ s3 \in Seq({"0", a, b}) /\ s4 \in Seq({"0", a, b}) /\ Len(s4) = 4
        OBVIOUS
      <4>2. Append(s3, b) \in Seq({"0", a, b}) /\ Len(Append(s3, b)) = 4
        BY <4>1
      <4>3. \A i \in 1..4 : Append(s3, b)[i] = s4[i]
        BY <4>1
      <4> QED  BY <4>1, <4>2, <4>3, SeqEqual
    <3>2. (CHOOSE point \in CodePoint(<<"0", "0", a, b>>) : TRUE) = c
      BY <2>4
    <3> DEFINE d == Writing(<<"0", "0", a>>)
    <3>3. d.digits = <<"0", "0", a>> /\ d.mode = "digits" /\ d.text = text
      OBVIOUS
    <3> HIDE DEF d
    <3> DEFINE ds == Append(d.digits, b)
    <3>5. ds = <<"0", "0", a, b>>
      BY <3>1, <3>3
    <3>6. Len(ds) = 4
      BY <3>1, <3>5
    <3>7. CodePoint(ds) # {} /\ (CHOOSE point \in CodePoint(ds) : TRUE) = c
      BY <2>4, <3>2, <3>5
    <3>8. ~(Len(ds) < 4)
      BY <3>6
    <3>9. TakeDigit(d, b) = IF Len(ds) < 4 THEN [d EXCEPT !.digits = ds]
                            ELSE IF CodePoint(ds) = {} THEN Enter(d, "wrong")
                            ELSE Got(d, CHOOSE point \in CodePoint(ds) : TRUE)
      BY DEF TakeDigit
    <3> HIDE DEF ds
    <3>4. TakeDigit(d, b) = Got(d, c)
      BY <3>7, <3>8, <3>9
    <3> QED  BY <3>3, <3>4 DEF TakeCharacter, Got, Inside, d
  <2> HIDE DEF escape, a, b, Writing
  <2>6. /\ IsSequence(Append(Append(Append(s, "\\"), "u"), "0"))
        /\ Decodes(Append(Append(Append(s, "\\"), "u"), "0"), Writing(<<"0">>))
    BY <1>2, <2>2, <2>3, DecodeStep
  <2> DEFINE t == Append(Append(Append(s, "\\"), "u"), "0")
  <2> HIDE DEF t
  <2>7. IsSequence(Append(t, "0")) /\ Decodes(Append(t, "0"), Writing(<<"0", "0">>))
    BY <2>3, <2>6, DecodeStep DEF t
  <2>8. /\ IsSequence(Append(Append(t, "0"), a))
        /\ Decodes(Append(Append(t, "0"), a), Writing(<<"0", "0", a>>))
    BY <2>3, <2>7, DecodeStep
  <2>9. /\ IsSequence(Append(Append(Append(t, "0"), a), b))
        /\ Decodes(Append(Append(Append(t, "0"), a), b), Inside(Append(text, c)))
    BY <2>5, <2>8, DecodeStep
  <2> QED  BY <2>1, <2>9 DEF t
<1>5. CASE c \notin HasLetter /\ c \notin DOMAIN ControlCode
  <2>1. s \o Escaped(c) = Append(s, c)
    BY <1>5, AppendedOne DEF Escaped
  <2>2. TakeCharacter(Inside(text), c) = Inside(Append(text, c))
    BY <1>5 DEF HasLetter, TakeCharacter, TakeRaw, NotAllowedRaw, Got, Inside
  <2> QED  BY <2>1, <2>2, DecodeStep
<1> QED  BY <1>3, <1>4, <1>5

\* The first characters of a text.
Beginning(text, i) == [j \in 1..i |-> text[j]]

LEMMA BeginningFacts ==
  ASSUME NEW text, IsSequence(text)
  PROVE  /\ Beginning(text, 0) = <<>> /\ Beginning(text, Len(text)) = text
         /\ \A i \in 0..Len(text) : i < Len(text) =>
              Beginning(text, i + 1) = Append(Beginning(text, i), text[i + 1])
<1>1. Len(text) \in Nat /\ DOMAIN text = 1..Len(text) /\ text = [j \in 1..Len(text) |-> text[j]]
  BY SequenceFacts DEF IsSequence
<1>2. Beginning(text, 0) = <<>> /\ Beginning(text, Len(text)) = text
  BY <1>1 DEF Beginning
<1>3. ASSUME NEW i \in 0..Len(text), i < Len(text)
      PROVE  Beginning(text, i + 1) = Append(Beginning(text, i), text[i + 1])
  <2> DEFINE s == Beginning(text, i)
             t == Beginning(text, i + 1)
  <2>1. /\ IsSequence(s) /\ Len(s) = i /\ IsSequence(t) /\ Len(t) = i + 1
        /\ \A j \in 1..i : s[j] = text[j]
        /\ \A j \in 1..(i + 1) : t[j] = text[j]
    <3>1. i \in Nat /\ i + 1 \in Nat
      BY <1>1
    <3>2. s = [j \in 1..i |-> s[j]] /\ t = [j \in 1..(i + 1) |-> t[j]]
      BY DEF Beginning
    <3>3. IsSequence(s) /\ Len(s) = i /\ IsSequence(t) /\ Len(t) = i + 1
      <4> HIDE DEF s, t
      <4> QED  BY <3>1, <3>2, FunctionsAreSequences
    <3> QED  BY <3>3 DEF Beginning
  <2> HIDE DEF s, t
  <2> DEFINE u == Append(s, text[i + 1])
  <2>2. /\ IsSequence(u) /\ Len(u) = i + 1 /\ u[i + 1] = text[i + 1]
        /\ \A j \in 1..i : u[j] = s[j]
    BY <2>1, Appended
  <2> HIDE DEF u
  <2>3. \A j \in 1..(i + 1) : t[j] = u[j]
    BY <1>3, <2>1, <2>2
  <2>4. t = u
    BY <2>1, <2>2, <2>3, SameSequence
  <2> QED  BY <2>4 DEF s, t, u
<1> QED  BY <1>2, <1>3

\* What quote() writes of a text is one string, and means that text.
LEMMA QuotedIsRead ==
  ASSUME NEW text, IsSequence(text)
  PROVE  /\ IsSequence(Quoted(text)) /\ Quoted(text)[1] = "\""
         /\ Decoded(Quoted(text)) = Closed(text)
<1> DEFINE n == Len(text)
<1>1. n \in Nat
  BY SequenceFacts
<1> DEFINE start == <<"\"">>
<1> HIDE DEF start
<1>p. PICK g : WritesEscapes(g, start, text)
  BY <1>1, EscapeFold
<1>2. /\ g[0] = start /\ g[n] = Escapes(start, text)
      /\ \A i \in 1..n : g[i] = g[i - 1] \o Escaped(text[i])
  BY <1>p DEF WritesEscapes
<1> DEFINE Good(i) == /\ IsSequence(g[i]) /\ Len(g[i]) >= 1 /\ g[i][1] = "\""
                      /\ Decodes(g[i], Inside(Beginning(text, i)))
           S == {i \in 0..n : Good(i)}
<1>3. 0 \in S
  <2>1. IsSequence(<<>>) /\ Decodes(<<>>, NoText) /\ Append(<<>>, "\"") = <<"\"">>
    BY EmptyIsSequence, DecodeNothing
  <2>2. TakeCharacter(NoText, "\"") = Inside(<<>>)
    BY DEF TakeCharacter, NoText, Enter, Inside
  <2>3. IsSequence(<<"\"">>) /\ Decodes(<<"\"">>, Inside(<<>>))
    BY <2>1, <2>2, DecodeStep
  <2>4. Len(<<"\"">>) = 1 /\ <<"\"">>[1] = "\""
    OBVIOUS
  <2>6. Beginning(text, 0) = <<>>
    BY BeginningFacts
  <2>5. Good(0)
    <3>1. g[0] = <<"\"">>
      BY <1>2 DEF start
    <3>2. IsSequence(g[0]) /\ Decodes(g[0], Inside(Beginning(text, 0)))
      BY <2>3, <2>6, <3>1
    <3> DEFINE one == <<"\"">>
    <3>4. Len(one) >= 1 /\ one[1] = "\""
      OBVIOUS
    <3> HIDE DEF one
    <3>3. Len(g[0]) >= 1 /\ g[0][1] = "\""
      BY <3>1, <3>4, Zenon DEF one
    <3> QED  BY <3>2, <3>3
  <2> HIDE DEF Good
  <2> QED  BY <1>1, <2>5
<1>4. ASSUME NEW i \in 0..n, i \in S, i < n  PROVE i + 1 \in S
  <2>1. i + 1 \in 1..n /\ i + 1 - 1 = i
    <3> HIDE DEF S
    <3> QED  BY <1>1, <1>4
  <2>0. Good(i)
    BY <1>4
  <2>2. g[i + 1] = g[i] \o Escaped(text[i + 1])
    <3> DEFINE k == i + 1
    <3>1. k \in 1..n /\ k - 1 = i
      BY <2>1
    <3> HIDE DEF k, n
    <3>2. g[k] = g[k - 1] \o Escaped(text[k])
      BY <1>2, <3>1
    <3> QED  BY <3>1, <3>2 DEF k
  <2>3. IsSequence(g[i + 1]) /\ Decodes(g[i + 1], Inside(Append(Beginning(text, i), text[i + 1])))
    BY <2>0, <2>2, EscapeIsRead
  <2>4. Beginning(text, i + 1) = Append(Beginning(text, i), text[i + 1])
    BY <1>4, BeginningFacts
  <2>5. Len(g[i + 1]) >= 1 /\ g[i + 1][1] = "\""
    <3>1. IsSequence(Escaped(text[i + 1]))
      BY EscapedIsSequence
    <3> QED  BY <2>0, <2>2, <3>1, ConcatenatedFirst
  <2>6. Good(i + 1)
    BY <2>3, <2>4, <2>5
  <2> HIDE DEF Good
  <2> QED  BY <1>1, <2>1, <2>6
<1>5. Good(n)
  <2>1. \A i \in 0..n : i \in S /\ i < n => i + 1 \in S
    BY <1>4
  <2> HIDE DEF S
  <2>2. 0..n \subseteq S
    BY <1>1, <1>3, <2>1, UpTo
  <2>3. n \in S
    BY <1>1, <2>2
  <2> QED  BY <2>3 DEF S
<1>6. Quoted(text) = Append(g[n], "\"")
  BY <1>2 DEF Quoted, start
<1>7. Decodes(g[n], Inside(text)) /\ IsSequence(g[n]) /\ Len(g[n]) >= 1 /\ g[n][1] = "\""
  BY <1>5, BeginningFacts
<1>8. TakeCharacter(Inside(text), "\"") = Closed(text)
  BY DEF TakeCharacter, TakeRaw, Enter, Inside, Closed
<1>9. IsSequence(Quoted(text)) /\ Decodes(Quoted(text), Closed(text))
  BY <1>6, <1>7, <1>8, DecodeStep
<1>10. Quoted(text)[1] = "\""
  <2> DEFINE s == g[n]
  <2>0. IsSequence(s) /\ s[1] = "\"" /\ Quoted(text) = Append(s, "\"")
    BY <1>6, <1>7
  <2>1. 1 \in 1..Len(g[n])
    <3>1. Len(g[n]) \in Nat
      BY <1>7, SequenceFacts
    <3>2. \A m \in Nat : m >= 1 => 1 \in 1..m
      OBVIOUS
    <3> QED  BY <1>7, <3>1, <3>2
  <2>2. 1 \in 1..Len(s)
    BY <2>1
  <2> HIDE DEF s
  <2>3. Append(s, "\"")[1] = s[1]
    BY <2>0, <2>2, Appended
  <2> QED  BY <2>0, <2>3
<1> QED  BY <1>9, <1>10, DecodeFold

(***************************************************************************)
(* The reader while a document is being written. base is the stack of the  *)
(* containers around the innermost open one, whose frame is top; L is the  *)
(* set of the leaves found.                                                *)
(***************************************************************************)
IsFrame(top) == top.kind \in {"{", "["} /\ top.count \in Nat
State(stack, L, expect) == Reader(expect, stack, L, TRUE)
Expected(top) ==
  IF top.count # 0 THEN {"comma", "close"}
  ELSE IF top.kind = "{" THEN {"close", "key"} ELSE {"close", "value"}
Opened(base) == [i \in DOMAIN base |-> FALSE]

\* w has written all of an item, or the bracket of the container.
Writing(w, base, top, L) ==
  /\ w = [out |-> w.out, open |-> Append(Opened(base), top.count = 0)]
  /\ IsSequence(w.out) /\ IsSequence(base) /\ IsFrame(top)
  /\ Reads(w.out, State(Append(base, top), L, Expected(top)))

\* r is ready for a value, which is in the container at the top of the stack.
Awaits(r, stack, L) ==
  /\ r.ok = TRUE /\ "value" \in r.expect /\ "key" \notin r.expect
  /\ EnterElement(r) = State(stack, L, r.expect)

\* v has written what comes before a value; top is the frame once it is read.
Awaiting(v, base, top, L) ==
  /\ v = [out |-> v.out, open |-> Append(Opened(base), FALSE)]
  /\ IsSequence(v.out) /\ IsSequence(base) /\ IsFrame(top) /\ top.count # 0
  /\ \E r : Reads(v.out, r) /\ Awaits(r, Append(base, top), L)

LEMMA ReadStep ==
  ASSUME NEW s, IsSequence(s), NEW r, Reads(s, r), NEW c, NEW e, Take(r, c) = e
  PROVE  IsSequence(Append(s, c)) /\ Reads(Append(s, c), e)
BY Appended, ReadNext

LEMMA MarkIsTaken ==
  ASSUME NEW r, r.ok = TRUE, NEW m, m # "\""
  PROVE  Take(r, Mark(m)) = TakeMark(r, m)
<1>1. <<m>>[1] = m
  OBVIOUS
<1> QED  BY <1>1 DEF Take, Mark

LEMMA QuotedIsTaken ==
  ASSUME NEW r, r.ok = TRUE, NEW text, IsSequence(text)
  PROVE  Take(r, Quoted(text)) = TakeString(r, text)
<1>1. Quoted(text)[1] = "\"" /\ Decoded(Quoted(text)) = Closed(text)
  BY QuotedIsRead
<1>2. Closed(text).mode = "closed" /\ Closed(text).text = text
  BY DEF Closed
<1> QED  BY <1>1, <1>2 DEF Take

LEMMA OpenedFacts ==
  ASSUME NEW base, IsSequence(base)
  PROVE  /\ IsSequence(Opened(base))
         /\ \A top : Opened(Append(base, top)) = Append(Opened(base), FALSE)
<1> DEFINE n == Len(base)
           s == Opened(base)
<1>1. n \in Nat /\ DOMAIN base = 1..n
  BY SequenceFacts
<1>2. IsSequence(s) /\ Len(s) = n /\ \A i \in 1..n : s[i] = FALSE
  <2>1. s = [i \in 1..n |-> s[i]] /\ \A i \in 1..n : s[i] = FALSE
    BY <1>1 DEF Opened
  <2> HIDE DEF s, n
  <2> QED  BY <1>1, <2>1, FunctionsAreSequences
<1>3. ASSUME NEW top  PROVE Opened(Append(base, top)) = Append(s, FALSE)
  <2> DEFINE b == Append(base, top)
             t == Opened(b)
             u == Append(s, FALSE)
  <2>1. IsSequence(b) /\ Len(b) = n + 1
    BY Appended
  <2>2. DOMAIN b = 1..(n + 1) /\ n + 1 \in Nat
    BY <1>1, <2>1, SequenceFacts
  <2>3. t = [i \in 1..(n + 1) |-> t[i]] /\ \A i \in 1..(n + 1) : t[i] = FALSE
    BY <2>2 DEF Opened
  <2> HIDE DEF b, s, t, n
  <2>4. IsSequence(t) /\ Len(t) = n + 1
    BY <2>2, <2>3, FunctionsAreSequences
  <2>5. /\ IsSequence(u) /\ Len(u) = n + 1 /\ u[n + 1] = FALSE
        /\ \A i \in 1..n : u[i] = s[i]
    <3>1. /\ IsSequence(u) /\ Len(u) = Len(s) + 1 /\ u[Len(s) + 1] = FALSE
          /\ \A i \in 1..Len(s) : u[i] = s[i]
      BY <1>2, Appended
    <3> QED  BY <1>2, <3>1
  <2> HIDE DEF u
  <2>6. \A i \in 1..(n + 1) : t[i] = u[i]
    <3>1. \A i \in 1..(n + 1) : i \in 1..n \/ i = n + 1
      BY <1>1
    <3> QED  BY <1>2, <2>3, <2>5, <3>1
  <2>7. t = u
    BY <2>4, <2>5, <2>6, SameSequence
  <2> QED  BY <2>7 DEF t, u, b
<1> QED  BY <1>2, <1>3

LEMMA PutWrites ==
  ASSUME NEW w, w = [out |-> w.out, open |-> w.open], NEW token
  PROVE  Put(w, token) = [out |-> Append(w.out, token), open |-> w.open]
<1> DEFINE o == w.out
           f == w.open
<1>1. w = [out |-> o, open |-> f]
  OBVIOUS
<1> HIDE DEF o, f
<1>2. Put([out |-> o, open |-> f], token) = [out |-> Append(o, token), open |-> f]
  BY DEF Put
<1> QED  BY <1>1, <1>2 DEF o, f

\* What item() does to out_ and to the flags.
Comma(out, top) == IF top.count = 0 THEN out ELSE Append(out, Mark(","))
LEMMA ItemWrites ==
  ASSUME NEW w, NEW base, NEW top, NEW L, Writing(w, base, top, L), NEW key
  PROVE  Item(w, key) =
           [out |-> IF key = NoKey THEN Comma(w.out, top)
                    ELSE Append(Append(Comma(w.out, top), Quoted(<<key>>)), Mark(":")),
            open |-> Append(Opened(base), FALSE)]
<1> DEFINE flags == Opened(base)
           first == w.open = <<>> \/ Last(w.open)
           start == IF first THEN w ELSE Put(w, Mark(","))
<1>1. IsSequence(flags)
  BY OpenedFacts DEF Writing
<1>2. w.open = Append(flags, top.count = 0)
  BY DEF Writing
<1>3. w.open # <<>> /\ Last(w.open) = (top.count = 0) /\ Front(w.open) = flags
  <2> HIDE DEF flags
  <2> DEFINE flag == top.count = 0
  <2>1. w.open = Append(flags, flag)
    BY <1>2
  <2> HIDE DEF flag
  <2>2. w.open # <<>> /\ Last(w.open) = flag /\ Front(w.open) = flags
    BY <1>1, <2>1, Appended
  <2> QED  BY <2>2 DEF flag
<1>4. first <=> top.count = 0
  BY <1>3, Zenon
<1>5. w = [out |-> w.out, open |-> w.open]
  BY <1>2 DEF Writing
<1>6. start = [out |-> Comma(w.out, top), open |-> w.open]
  <2>1. Put(w, Mark(",")) = [out |-> Append(w.out, Mark(",")), open |-> w.open]
    BY <1>5, PutWrites
  <2> HIDE DEF first
  <2> QED  BY <1>4, <1>5, <2>1 DEF Comma
<1>7. Item(w, key) = [Named(start, key) EXCEPT !.open = Append(flags, FALSE)]
  BY <1>3, Zenon DEF Item
<1> HIDE DEF start, first, flags
<1>8. CASE key = NoKey
  BY <1>6, <1>7, <1>8 DEF Named, flags
<1>9. CASE key # NoKey
  <2>1. Named(start, key) = Put(Put(start, Quoted(<<key>>)), Mark(":"))
    BY <1>9 DEF Named
  <2> QED  BY <1>6, <1>7, <1>9, <2>1 DEF Put, flags
<1> QED  BY <1>8, <1>9

LEMMA OneIsSequence ==
  ASSUME NEW a
  PROVE  IsSequence(<<a>>)
<1>1. <<a>> \in Seq({a})
  OBVIOUS
<1> QED  BY <1>1, SequencesAre

LEMMA StateFields ==
  ASSUME NEW stack, NEW L, NEW expect
  PROVE  LET r == State(stack, L, expect)
         IN  r.ok = TRUE /\ r.stack = stack /\ r.leaves = L /\ r.expect = expect
BY DEF State, Reader

LEMMA FrameFields ==
  ASSUME NEW kind, NEW step, NEW count, NEW keys
  PROVE  LET top == Frame(kind, step, count, keys)
         IN  top.kind = kind /\ top.step = step /\ top.count = count /\ top.keys = keys
BY DEF Frame

\* The frame of an object, or an array, when it has another item.
Keyed(top, key) == Frame(top.kind, <<key>>, top.count + 1, top.keys \cup {<<key>>})
Following(top) == NextIndex(top)

LEMMA ItemFrames ==
  ASSUME NEW top, IsFrame(top), NEW key
  PROVE  /\ IsFrame(Keyed(top, key)) /\ IsFrame(Following(top))
         /\ Keyed(top, key).count # 0 /\ Following(top).count # 0
         /\ Keyed(top, key).kind = top.kind /\ Following(top).kind = top.kind
<1>2. top.count + 1 \in Nat /\ top.count + 1 # 0 /\ top.kind \in {"{", "["}
  <2>1. top.count \in Nat /\ top.kind \in {"{", "["}
    BY DEF IsFrame
  <2>2. \A n \in Nat : n + 1 \in Nat /\ n + 1 # 0
    OBVIOUS
  <2> QED  BY <2>1, <2>2, Zenon
<1> DEFINE k == Keyed(top, key)
           f == Following(top)
           n == top.count + 1
<1>1. k.kind = top.kind /\ k.count = n /\ f.kind = top.kind /\ f.count = n
  BY FrameFields DEF Keyed, Following, NextIndex
<1>4. n \in Nat /\ n # 0
  BY <1>2
<1> HIDE DEF k, f, n
<1>3. IsFrame(k) /\ IsFrame(f) /\ k.count # 0 /\ f.count # 0 /\ k.kind = top.kind
      /\ f.kind = top.kind
  BY <1>1, <1>2, <1>4 DEF IsFrame
<1> QED  BY <1>3 DEF k, f

LEMMA CommaIsRead ==
  ASSUME NEW w, NEW base, NEW top, NEW L, Writing(w, base, top, L)
  PROVE  /\ IsSequence(Comma(w.out, top))
         /\ \E expect : /\ Reads(Comma(w.out, top), State(Append(base, top), L, expect))
                        /\ top.kind = "{" => "key" \in expect
                        /\ top.kind = "[" => "value" \in expect /\ "key" \notin expect
<1> DEFINE stack == Append(base, top)
           r == State(stack, L, Expected(top))
<1>1. IsSequence(w.out) /\ Reads(w.out, r) /\ top.kind \in {"{", "["}
  BY DEF Writing, IsFrame
<1>2. CASE top.count = 0
  <2>1. Comma(w.out, top) = w.out
    BY <1>2 DEF Comma
  <2>2. /\ top.kind = "{" => "key" \in Expected(top)
        /\ top.kind = "[" => "value" \in Expected(top) /\ "key" \notin Expected(top)
    BY <1>2 DEF Expected
  <2> QED  BY <1>1, <2>1, <2>2
<1>3. CASE top.count # 0
  <2> DEFINE next == IF top.kind = "{" THEN "key" ELSE "value"
  <2>1. Last(stack) = top
    BY Appended DEF Writing
  <2>2. /\ r.ok = TRUE /\ r.stack = stack /\ r.leaves = L /\ r.expect = Expected(top)
        /\ "comma" \in Expected(top)
    BY <1>3 DEF Expected, State, Reader
  <2> HIDE DEF r, stack
  <2>3. Expecting(r, {next}) = State(stack, L, {next})
    BY <2>2 DEF Expecting, State
  <2>4. TakeMark(r, ",") = Expecting(r, {next})
    BY <2>1, <2>2 DEF TakeMark, Needed, AfterMark
  <2>5. Take(r, Mark(",")) = State(stack, L, {next})
    BY <2>2, <2>3, <2>4, MarkIsTaken
  <2>6. /\ IsSequence(Append(w.out, Mark(",")))
        /\ Reads(Append(w.out, Mark(",")), State(stack, L, {next}))
    BY <1>1, <2>5, ReadStep
  <2>7. Comma(w.out, top) = Append(w.out, Mark(","))
    BY <1>3 DEF Comma
  <2>8. /\ top.kind = "{" => "key" \in {next}
        /\ top.kind = "[" => "value" \in {next} /\ "key" \notin {next}
    OBVIOUS
  <2> HIDE DEF next
  <2> QED  BY <2>6, <2>7, <2>8 DEF stack
<1> QED  BY <1>2, <1>3

LEMMA ItemInObject ==
  ASSUME NEW w, NEW base, NEW top, NEW L, Writing(w, base, top, L), top.kind = "{",
         NEW key, key # NoKey, <<key>> \notin top.keys
  PROVE  Awaiting(Item(w, key), base, Keyed(top, key), L)
<1> DEFINE stack == Append(base, top)
           next == Append(base, Keyed(top, key))
           out == Comma(w.out, top)
           v == Item(w, key)
<1>1. PICK expect : Reads(out, State(stack, L, expect)) /\ "key" \in expect
  BY CommaIsRead
<1>2. IsSequence(out)
  BY CommaIsRead
<1> DEFINE r == State(stack, L, expect)
           colon == State(next, L, {"colon"})
           value == State(next, L, {"value"})
<1>3. IsSequence(base) /\ IsFrame(top)
  BY DEF Writing
<1>4. Last(stack) = top /\ Front(stack) = base /\ Last(next) = Keyed(top, key) /\ next # <<>>
  BY <1>3, Appended
<1>5. Take(r, Quoted(<<key>>)) = colon
  <2> DEFINE text == <<key>>
  <2>1. IsSequence(text) /\ text \notin top.keys
    BY OneIsSequence
  <2>2. r.ok = TRUE /\ r.stack = stack /\ r.leaves = L /\ r.expect = expect
    BY DEF State, Reader
  <2>3. Keyed(top, key) = Frame(top.kind, text, top.count + 1, top.keys \cup {text})
    BY DEF Keyed
  <2> HIDE DEF text, r, stack
  <2>4. Take(r, Quoted(text)) = TakeKey(r, text)
    BY <1>1, <2>1, <2>2, QuotedIsTaken DEF TakeString
  <2>5. TakeKey(r, text) = colon
    BY <1>4, <2>1, <2>2, <2>3 DEF TakeKey, State
  <2> QED  BY <2>4, <2>5 DEF text
<1>6. Take(colon, Mark(":")) = value
  <2>1. colon.ok = TRUE /\ colon.stack = next /\ colon.leaves = L /\ colon.expect = {"colon"}
    BY DEF State, Reader
  <2> HIDE DEF colon
  <2>2. Take(colon, Mark(":")) = TakeMark(colon, ":")
    BY <2>1, MarkIsTaken
  <2>3. TakeMark(colon, ":") = Expecting(colon, {"value"})
    BY <2>1 DEF TakeMark, Needed, AfterMark
  <2>4. Expecting(colon, {"value"}) = value
    BY <2>1 DEF Expecting, State
  <2> QED  BY <2>2, <2>3, <2>4
<1>7. Reads(Append(Append(out, Quoted(<<key>>)), Mark(":")), value)
      /\ IsSequence(Append(Append(out, Quoted(<<key>>)), Mark(":")))
  <2> HIDE DEF r, colon, value, out
  <2>1. IsSequence(Append(out, Quoted(<<key>>))) /\ Reads(Append(out, Quoted(<<key>>)), colon)
    BY <1>1, <1>2, <1>5, ReadStep DEF r
  <2> QED  BY <1>6, <2>1, ReadStep
<1>8. v = [out |-> Append(Append(out, Quoted(<<key>>)), Mark(":")),
           open |-> Append(Opened(base), FALSE)]
  BY ItemWrites
<1>9. EnterElement(value) = value
  <2>1. value.stack = next
    BY DEF State, Reader
  <2>2. Last(next).kind = "{"
    BY <1>3, <1>4, ItemFrames
  <2> HIDE DEF value, next
  <2> QED  BY <2>1, <2>2 DEF EnterElement
<1>10. IsFrame(Keyed(top, key)) /\ Keyed(top, key).count # 0
  BY <1>3, ItemFrames
<1>11. /\ value.ok = TRUE /\ "value" \in value.expect /\ "key" \notin value.expect
       /\ value = State(next, L, value.expect)
  <2>1. value.ok = TRUE /\ value.expect = {"value"}
    BY DEF State, Reader
  <2>2. value = State(next, L, {"value"})
    OBVIOUS
  <2> HIDE DEF value, next
  <2> QED  BY <2>1, <2>2
<1>12. v.out = Append(Append(out, Quoted(<<key>>)), Mark(":"))
       /\ v = [out |-> v.out, open |-> Append(Opened(base), FALSE)]
  <2> DEFINE text == Append(Append(out, Quoted(<<key>>)), Mark(":"))
             flags == Append(Opened(base), FALSE)
  <2> HIDE DEF text, flags, v
  <2>1. v = [out |-> text, open |-> flags]
    BY <1>8 DEF text, flags
  <2>2. v.out = text
    BY <2>1
  <2> QED  BY <2>1, <2>2 DEF text, flags
<1> HIDE DEF v, value, out
<1>13. Reads(v.out, value) /\ Awaits(value, Append(base, Keyed(top, key)), L)
  BY <1>7, <1>9, <1>11, <1>12 DEF Awaits
<1>14. Awaiting(v, base, Keyed(top, key), L)
  BY <1>3, <1>7, <1>10, <1>12, <1>13 DEF Awaiting
<1> QED  BY <1>14 DEF v

LEMMA ItemInArray ==
  ASSUME NEW w, NEW base, NEW top, NEW L, Writing(w, base, top, L), top.kind = "["
  PROVE  Awaiting(Item(w, NoKey), base, Following(top), L)
<1> DEFINE stack == Append(base, top)
           next == Append(base, Following(top))
           out == Comma(w.out, top)
           v == Item(w, NoKey)
<1>1. PICK expect : /\ Reads(out, State(stack, L, expect))
                    /\ "value" \in expect /\ "key" \notin expect
  BY CommaIsRead
<1>2. IsSequence(out)
  BY CommaIsRead
<1> DEFINE r == State(stack, L, expect)
<1>3. IsSequence(base) /\ IsFrame(top)
  BY DEF Writing
<1>4. Last(stack) = top /\ Front(stack) = base /\ stack # <<>>
  BY <1>3, Appended
<1>5. v = [out |-> out, open |-> Append(Opened(base), FALSE)]
  BY ItemWrites
<1>6. r.ok = TRUE /\ r.stack = stack /\ r.leaves = L /\ r.expect = expect
  BY DEF State, Reader
<1>7. EnterElement(r) = State(next, L, expect)
  <2> HIDE DEF r, stack
  <2>1. EnterElement(r) = Reader(r.expect, Append(Front(r.stack), NextIndex(Last(r.stack))),
                                 r.leaves, r.ok)
    BY <1>4, <1>6 DEF EnterElement
  <2> QED  BY <1>4, <1>6, <2>1 DEF State, Following
<1>8. IsFrame(Following(top)) /\ Following(top).count # 0
  BY <1>3, ItemFrames
<1>9. r.ok = TRUE /\ r.expect = expect
  BY <1>6
<1>10. v.out = out /\ v = [out |-> v.out, open |-> Append(Opened(base), FALSE)]
  <2> DEFINE flags == Append(Opened(base), FALSE)
  <2> HIDE DEF flags, v, out
  <2>1. v = [out |-> out, open |-> flags]
    BY <1>5 DEF flags
  <2>2. v.out = out
    BY <2>1
  <2> QED  BY <2>1, <2>2 DEF flags
<1> HIDE DEF v, r, out
<1>11. Reads(v.out, r) /\ Awaits(r, Append(base, Following(top)), L)
  BY <1>1, <1>7, <1>9, <1>10 DEF r, Awaits
<1>12. Awaiting(v, base, Following(top), L)
  BY <1>2, <1>3, <1>8, <1>10, <1>11 DEF Awaiting
<1> QED  BY <1>12 DEF v

(***************************************************************************)
(* A value: a string, or a word that is no punctuation.                    *)
(***************************************************************************)
StepsOf(stack) == [i \in DOMAIN stack |-> stack[i].step]
StringValue(text) == <<"string">> \o text
MarkValue(m) == <<"mark">> \o <<m>>
Means(token, value) ==
  \/ \E text : IsSequence(text) /\ token = Quoted(text) /\ value = StringValue(text)
  \/ \E m : m \notin Punctuation /\ token = Mark(m) /\ value = MarkValue(m)

LEMMA ScalarIsTaken ==
  ASSUME NEW r, NEW stack, stack # <<>>, NEW L, Awaits(r, stack, L),
         NEW token, NEW value, Means(token, value)
  PROVE  Take(r, token) = State(stack, L \cup {<<StepsOf(stack), value>>}, {"comma", "close"})
<1> DEFINE e == State(stack, L, r.expect)
           done == State(stack, L \cup {<<StepsOf(stack), value>>}, {"comma", "close"})
<1>1. ASSUME NEW kind, NEW text, value = <<kind>> \o text
      PROVE  LeafAt(e, kind, text) = done
  <2>1. e.ok = TRUE /\ e.stack = stack /\ e.leaves = L
    BY DEF State, Reader
  <2> HIDE DEF e
  <2>2. Path(e) = StepsOf(stack) /\ AfterValue(e.stack) = {"comma", "close"}
    BY <2>1 DEF Path, StepsOf, AfterValue
  <2>3. LeafAt(e, kind, text) =
          Reader(AfterValue(e.stack), e.stack, e.leaves \cup {<<Path(e), value>>}, e.ok)
    BY <1>1 DEF LeafAt
  <2> QED  BY <2>1, <2>2, <2>3 DEF State
<1>2. CASE \E text : IsSequence(text) /\ token = Quoted(text) /\ value = StringValue(text)
  <2>1. PICK text : IsSequence(text) /\ token = Quoted(text) /\ value = StringValue(text)
    BY <1>2
  <2>2. Take(r, token) = TakeString(r, text)
    BY <2>1, QuotedIsTaken DEF Awaits
  <2>3. TakeString(r, text) = LeafAt(e, "string", text)
    BY DEF TakeString, Awaits
  <2>4. LeafAt(e, "string", text) = done
    BY <1>1, <2>1 DEF StringValue
  <2> QED  BY <2>2, <2>3, <2>4
<1>3. CASE \E m : m \notin Punctuation /\ token = Mark(m) /\ value = MarkValue(m)
  <2>1. PICK m : m \notin Punctuation /\ token = Mark(m) /\ value = MarkValue(m)
    BY <1>3
  <2>2. m # "\"" /\ m # ":" /\ m # "," /\ m # "{" /\ m # "}" /\ m # "[" /\ m # "]"
    BY <2>1 DEF Punctuation
  <2>3. Take(r, token) = TakeMark(r, m)
    BY <2>1, <2>2, MarkIsTaken DEF Awaits
  <2>4. TakeMark(r, m) = LeafAt(e, "mark", <<m>>)
    BY <2>2 DEF TakeMark, Needed, AfterMark, Awaits
  <2>5. LeafAt(e, "mark", <<m>>) = done
    BY <1>1, <2>1 DEF MarkValue
  <2> QED  BY <2>3, <2>4, <2>5
<1> QED  BY <1>2, <1>3 DEF Means

LEMMA ValueIsWritten ==
  ASSUME NEW v, NEW base, NEW top, NEW L, Awaiting(v, base, top, L),
         NEW token, NEW value, Means(token, value)
  PROVE  Writing(Put(v, token), base, top, L \cup {<<StepsOf(Append(base, top)), value>>})
<1> DEFINE stack == Append(base, top)
           M == L \cup {<<StepsOf(stack), value>>}
           w == Put(v, token)
<1>1. PICK r : Reads(v.out, r) /\ Awaits(r, stack, L)
  BY DEF Awaiting
<1> DEFINE flags == Append(Opened(base), FALSE)
<1> HIDE DEF flags
<1>2. IsSequence(v.out) /\ IsSequence(base) /\ IsFrame(top) /\ top.count # 0
      /\ v = [out |-> v.out, open |-> flags]
  BY DEF Awaiting, flags
<1>3. stack # <<>>
  BY <1>2, Appended
<1>4. Take(r, token) = State(stack, M, {"comma", "close"})
  <2> HIDE DEF stack
  <2> QED  BY <1>1, <1>3, ScalarIsTaken
<1>5. /\ IsSequence(Append(v.out, token))
      /\ Reads(Append(v.out, token), State(stack, M, Expected(top)))
  <2>1. Expected(top) = {"comma", "close"}
    BY <1>2 DEF Expected
  <2> QED  BY <1>1, <1>2, <1>4, <2>1, ReadStep
<1>6. w = [out |-> Append(v.out, token), open |-> flags]
  <2>1. v.open = flags
    BY <1>2
  <2>2. v = [out |-> v.out, open |-> v.open]
    BY <1>2, <2>1
  <2> QED  BY <2>1, <2>2, PutWrites
<1>7. (top.count = 0) = FALSE
  BY <1>2
<1> HIDE DEF stack, M
<1>8. w.out = Append(v.out, token) /\ w = [out |-> w.out, open |-> flags]
  <2> HIDE DEF w
  <2>1. w.out = Append(v.out, token)
    BY <1>6
  <2> QED  BY <1>6, <2>1
<1> HIDE DEF w
<1>9. Writing(w, base, top, M)
  BY <1>2, <1>5, <1>7, <1>8 DEF Writing, stack, flags
<1> QED  BY <1>9 DEF w, M, stack

(***************************************************************************)
(* Containers.                                                             *)
(***************************************************************************)
New(bracket) == Frame(bracket, <<>>, 0, {})

LEMMA NewIsFrame ==
  ASSUME NEW bracket, bracket \in {"{", "["}
  PROVE  /\ IsFrame(New(bracket)) /\ New(bracket).kind = bracket
         /\ New(bracket).count = 0 /\ New(bracket).keys = {}
<1> DEFINE frame == New(bracket)
<1>1. frame.kind = bracket /\ frame.count = 0 /\ frame.keys = {}
  BY DEF New, Frame
<1> HIDE DEF frame
<1>2. 0 \in Nat
  OBVIOUS
<1>3. IsFrame(frame)
  BY <1>1, <1>2, Zenon DEF IsFrame
<1> QED  BY <1>1, <1>3 DEF frame

LEMMA FlagIsSet ==
  ASSUME NEW v, NEW flags, v = [out |-> v.out, open |-> flags], NEW token
  PROVE  LET item == Put(v, token)
         IN  [item EXCEPT !.open = Append(item.open, TRUE)] =
               [out |-> Append(v.out, token), open |-> Append(flags, TRUE)]
<1> DEFINE item == Put(v, token)
           out == Append(v.out, token)
           set == Append(flags, TRUE)
<1>1. v.open = flags
  OBVIOUS
<1>2. item = [out |-> out, open |-> flags]
  BY <1>1, PutWrites
<1> HIDE DEF item, out
<1>3. item.open = flags
  BY <1>2
<1> HIDE DEF set
<1>4. [item EXCEPT !.open = set] = [out |-> out, open |-> set]
  BY <1>2
<1> QED  BY <1>3, <1>4 DEF set, item, out

LEMMA BracketIsTaken ==
  ASSUME NEW r, NEW stack, NEW L, Awaits(r, stack, L), NEW bracket, bracket \in {"{", "["}
  PROVE  Take(r, Mark(bracket)) =
           State(Append(stack, New(bracket)), L, Expected(New(bracket)))
<1> DEFINE e == State(stack, L, r.expect)
           frame == New(bracket)
<1>1. frame.kind = bracket /\ frame.count = 0
  BY DEF New, Frame
<1>2. e.ok = TRUE /\ e.stack = stack /\ e.leaves = L
  BY DEF State, Reader
<1>3. Take(r, Mark(bracket)) = TakeMark(r, bracket)
  BY MarkIsTaken DEF Awaits
<1>4. TakeMark(r, bracket) = OpenContainer(e, bracket)
  BY DEF TakeMark, Needed, AfterMark, Awaits
<1>5. Expected(frame) = {"close", IF bracket = "{" THEN "key" ELSE "value"}
  BY <1>1 DEF Expected
<1>6. OpenContainer(e, bracket) =
        Reader({"close", IF bracket = "{" THEN "key" ELSE "value"}, Append(e.stack, frame),
               e.leaves, e.ok)
  BY DEF OpenContainer, New
<1> HIDE DEF e, frame
<1> QED  BY <1>2, <1>3, <1>4, <1>5, <1>6 DEF State, frame

LEMMA ContainerIsOpened ==
  ASSUME NEW v, NEW base, NEW top, NEW L, Awaiting(v, base, top, L),
         NEW bracket, bracket \in {"{", "["}
  PROVE  LET item == Put(v, Mark(bracket))
         IN  Writing([item EXCEPT !.open = Append(item.open, TRUE)],
                   Append(base, top), New(bracket), L)
<1> DEFINE stack == Append(base, top)
           flags == Append(Opened(base), FALSE)
           item == Put(v, Mark(bracket))
           w == [item EXCEPT !.open = Append(item.open, TRUE)]
           frame == New(bracket)
           out == Append(v.out, Mark(bracket))
<1>1. PICK r : Reads(v.out, r) /\ Awaits(r, stack, L)
  BY DEF Awaiting
<1>2. /\ IsSequence(v.out) /\ IsSequence(base) /\ v = [out |-> v.out, open |-> flags]
  BY DEF Awaiting
<1>3. IsSequence(stack)
  BY <1>2, Appended
<1>4. IsSequence(out) /\ Reads(out, State(Append(stack, frame), L, Expected(frame)))
  <2>1. Take(r, Mark(bracket)) = State(Append(stack, frame), L, Expected(frame))
    <3> HIDE DEF stack
    <3> QED  BY <1>1, BracketIsTaken
  <2> HIDE DEF stack, frame
  <2> QED  BY <1>1, <1>2, <2>1, ReadStep
<1>5. w = [out |-> out, open |-> Append(flags, TRUE)]
  <2> HIDE DEF flags
  <2> QED  BY <1>2, FlagIsSet
<1>6. flags = Opened(stack)
  BY <1>2, OpenedFacts
<1>7. frame.count = 0 /\ IsFrame(frame)
  BY NewIsFrame
<1>8. (frame.count = 0) = TRUE
  BY <1>7
<1>9. w.out = out /\ w = [out |-> w.out, open |-> Append(Opened(stack), TRUE)]
  <2> HIDE DEF w, out, flags, stack
  <2>1. w.out = out
    BY <1>5
  <2> QED  BY <1>5, <1>6, <2>1
<1> HIDE DEF w, out, flags, stack, frame, item
<1>10. Writing(w, stack, frame, L)
  BY <1>3, <1>4, <1>7, <1>8, <1>9 DEF Writing
<1> QED  BY <1>10 DEF w, stack, frame, item

\* The leaf of a container that is closed without an item.
ClosedLeaves(base, top, bracket) ==
  IF top.count = 0 THEN {<<StepsOf(base), MarkValue(bracket)>>} ELSE {}

LEMMA ClosingIsTaken ==
  ASSUME NEW base, IsSequence(base), NEW top, IsFrame(top), NEW L,
         NEW bracket, NEW closing,
         \/ bracket = "{" /\ closing = "}"
         \/ bracket = "[" /\ closing = "]",
         top.kind = bracket
  PROVE  Take(State(Append(base, top), L, Expected(top)), Mark(closing)) =
           State(base, L \cup ClosedLeaves(base, top, bracket), AfterValue(base))
<1> DEFINE stack == Append(base, top)
           r == State(stack, L, Expected(top))
           outer == State(base, L, AfterValue(base))
<1>1. Last(stack) = top /\ Front(stack) = base
  BY Appended
<1>2. r.ok = TRUE /\ r.stack = stack /\ r.leaves = L /\ r.expect = Expected(top)
  BY DEF State, Reader
<1>3. "close" \in Expected(top)
  BY DEF Expected
<1>4. outer.ok = TRUE /\ outer.stack = base /\ outer.leaves = L
  BY DEF State, Reader
<1> HIDE DEF r, stack
<1>5. Take(r, Mark(closing)) = TakeMark(r, closing)
  BY <1>2, MarkIsTaken
<1>6. TakeMark(r, closing) = CloseContainer(r, bracket)
  BY <1>2, <1>3 DEF TakeMark, Needed, AfterMark
<1>7. Reader(AfterValue(Front(r.stack)), Front(r.stack), r.leaves, r.ok) = outer
  BY <1>1, <1>2 DEF State
<1>8. CASE top.count # 0
  <2>1. CloseContainer(r, bracket) = outer
    BY <1>1, <1>2, <1>7, <1>8 DEF CloseContainer
  <2>2. L \cup ClosedLeaves(base, top, bracket) = L
    BY <1>8 DEF ClosedLeaves
  <2> QED  BY <1>5, <1>6, <2>1, <2>2 DEF r, stack
<1>9. CASE top.count = 0
  <2>1. CloseContainer(r, bracket) = LeafAt(outer, "mark", <<bracket>>)
    BY <1>1, <1>2, <1>7, <1>9 DEF CloseContainer
  <2> HIDE DEF outer
  <2>2. Path(outer) = StepsOf(base)
    BY <1>4 DEF Path, StepsOf
  <2>3. LeafAt(outer, "mark", <<bracket>>) =
          Reader(AfterValue(outer.stack), outer.stack,
                 outer.leaves \cup {<<Path(outer), MarkValue(bracket)>>}, outer.ok)
    BY DEF LeafAt, MarkValue
  <2>4. ClosedLeaves(base, top, bracket) = {<<StepsOf(base), MarkValue(bracket)>>}
    BY <1>9 DEF ClosedLeaves
  <2>5. LeafAt(outer, "mark", <<bracket>>) =
          State(base, L \cup ClosedLeaves(base, top, bracket), AfterValue(base))
    BY <1>4, <2>2, <2>3, <2>4 DEF State
  <2> QED  BY <1>5, <1>6, <2>1, <2>5 DEF r, stack
<1> QED  BY <1>8, <1>9

LEMMA CloseWrites ==
  ASSUME NEW w, NEW base, NEW top, NEW L, Writing(w, base, top, L), NEW closing
  PROVE  Close(w, closing) = [out |-> Append(w.out, Mark(closing)), open |-> Opened(base)]
<1> DEFINE flag == top.count = 0
           flags == Opened(base)
           x == Put(w, Mark(closing))
           out == Append(w.out, Mark(closing))
<1>1. IsSequence(flags)
  BY OpenedFacts DEF Writing
<1>2. w = [out |-> w.out, open |-> Append(flags, flag)]
  BY DEF Writing
<1> HIDE DEF flag, flags
<1>3. w.open = Append(flags, flag)
  BY <1>2
<1>4. Front(w.open) = flags
  BY <1>1, <1>3, Appended
<1>5. x = [out |-> out, open |-> w.open]
  BY <1>2, <1>3, PutWrites
<1>6. Close(w, closing) = [x EXCEPT !.open = flags]
  BY <1>4 DEF Close
<1> HIDE DEF out, x
<1> QED  BY <1>5, <1>6 DEF out, flags

LEMMA ContainerIsClosed ==
  ASSUME NEW w, NEW base, IsSequence(base), NEW outer, IsFrame(outer), outer.count # 0,
         NEW top, NEW L, Writing(w, Append(base, outer), top, L),
         NEW bracket, NEW closing,
         \/ bracket = "{" /\ closing = "}"
         \/ bracket = "[" /\ closing = "]",
         top.kind = bracket
  PROVE  Writing(Close(w, closing), base, outer,
                 L \cup ClosedLeaves(Append(base, outer), top, bracket))
<1> DEFINE stack == Append(base, outer)
           M == L \cup ClosedLeaves(stack, top, bracket)
           out == Append(w.out, Mark(closing))
           u == Close(w, closing)
<1>1. /\ IsSequence(w.out) /\ IsSequence(stack) /\ IsFrame(top)
      /\ Reads(w.out, State(Append(stack, top), L, Expected(top)))
  BY DEF Writing
<1>2. stack # <<>>
  BY Appended
<1>3. Take(State(Append(stack, top), L, Expected(top)), Mark(closing)) =
        State(stack, M, Expected(outer))
  <2>1. AfterValue(stack) = Expected(outer)
    BY <1>2 DEF AfterValue, Expected
  <2> HIDE DEF stack
  <2>2. Take(State(Append(stack, top), L, Expected(top)), Mark(closing)) =
          State(stack, M, AfterValue(stack))
    BY <1>1, ClosingIsTaken
  <2> QED  BY <2>1, <2>2
<1>4. IsSequence(out) /\ Reads(out, State(stack, M, Expected(outer)))
  <2> HIDE DEF stack, M
  <2> QED  BY <1>1, <1>3, ReadStep
<1>5. Opened(stack) = Append(Opened(base), FALSE)
  BY OpenedFacts
<1>6. u = [out |-> out, open |-> Opened(stack)]
  <2> HIDE DEF stack
  <2>1. Writing(w, stack, top, L)
    BY DEF stack
  <2> QED  BY <2>1, CloseWrites
<1> DEFINE flags == Append(Opened(base), FALSE)
<1> HIDE DEF u, out, M, flags
<1>7. u = [out |-> out, open |-> flags]
  BY <1>5, <1>6 DEF flags
<1>8. u.out = out
  BY <1>7
<1>9. (outer.count = 0) = FALSE
  OBVIOUS
<1>10. Writing(u, base, outer, M)
  BY <1>4, <1>7, <1>8, <1>9 DEF Writing, flags
<1> QED  BY <1>10 DEF u, M

\* The document is an object.
LEMMA DocumentIsOpened == Writing(BeginObject(NewWriter, NoKey), <<>>, New("{"), {})
<1> DEFINE frame == New("{")
           out == Append(<<>>, Mark("{"))
           w == BeginObject(NewWriter, NoKey)
<1>1. Item(NewWriter, NoKey) = NewWriter
  <2>1. NewWriter.open = <<>> /\ NewWriter = [out |-> <<>>, open |-> <<>>]
    BY DEF NewWriter
  <2>2. Item(NewWriter, NoKey) = [NewWriter EXCEPT !.open = <<>>]
    BY <2>1 DEF Item, Named
  <2> QED  BY <2>1, <2>2
<1>2. Put(NewWriter, Mark("{")) = [out |-> out, open |-> <<>>]
  <2>1. NewWriter.out = <<>> /\ NewWriter.open = <<>>
        /\ NewWriter = [out |-> NewWriter.out, open |-> NewWriter.open]
    BY DEF NewWriter
  <2>2. Put(NewWriter, Mark("{")) =
          [out |-> Append(NewWriter.out, Mark("{")), open |-> NewWriter.open]
    BY <2>1, PutWrites
  <2> QED  BY <2>1, <2>2
<1>3. w = [out |-> out, open |-> Append(<<>>, TRUE)]
  <2> DEFINE item == Put(NewWriter, Mark("{"))
  <2>1. w = [item EXCEPT !.open = Append(item.open, TRUE)]
    BY <1>1 DEF BeginObject, Begin
  <2> HIDE DEF item, out, w
  <2>2. item = [out |-> out, open |-> <<>>]
    BY <1>2 DEF item
  <2> QED  BY <2>1, <2>2
<1>4. Awaits(ReadingText, <<>>, {})
  <2>1. /\ ReadingText.ok = TRUE /\ ReadingText.expect = {"value"} /\ ReadingText.stack = <<>>
        /\ ReadingText = State(<<>>, {}, {"value"})
    BY DEF ReadingText, Reader, State
  <2>2. EnterElement(ReadingText) = ReadingText
    BY <2>1 DEF EnterElement
  <2>3. "value" \in ReadingText.expect /\ "key" \notin ReadingText.expect
    BY <2>1
  <2> HIDE DEF State
  <2> QED  BY <2>1, <2>2, <2>3 DEF Awaits
<1>5. Take(ReadingText, Mark("{")) = State(Append(<<>>, frame), {}, Expected(frame))
  BY <1>4, BracketIsTaken
<1>6. IsSequence(out) /\ Reads(out, State(Append(<<>>, frame), {}, Expected(frame)))
  <2> HIDE DEF frame
  <2> QED  BY <1>5, EmptyIsSequence, ReadNothing, ReadStep
<1>7. frame.count = 0 /\ IsFrame(frame)
  BY NewIsFrame
<1>8. Opened(<<>>) = <<>> /\ (frame.count = 0) = TRUE
  <2>1. Opened(<<>>) = <<>>
    BY DEF Opened
  <2> HIDE DEF frame
  <2> QED  BY <1>7, <2>1
<1>9. w.out = out
  <2> HIDE DEF w, out
  <2> QED  BY <1>3
<1> HIDE DEF w, out, frame
<1>10. Writing(w, <<>>, frame, {})
  BY <1>3, <1>6, <1>7, <1>8, <1>9, EmptyIsSequence DEF Writing
<1> QED  BY <1>10 DEF w, frame

LEMMA DocumentIsClosed ==
  ASSUME NEW w, NEW top, NEW L, Writing(w, <<>>, top, L), top.kind = "{", top.count # 0
  PROVE  Leaves(EndObject(w).out) = {L}
<1> DEFINE out == Append(w.out, Mark("}"))
           r == State(<<>>, L, {})
<1>1. EndObject(w) = [out |-> out, open |-> Opened(<<>>)]
  BY CloseWrites DEF EndObject
<1>2. /\ IsSequence(w.out) /\ IsFrame(top)
      /\ Reads(w.out, State(Append(<<>>, top), L, Expected(top)))
  BY DEF Writing
<1>3. Take(State(Append(<<>>, top), L, Expected(top)), Mark("}")) = r
  <2>1. Take(State(Append(<<>>, top), L, Expected(top)), Mark("}")) =
          State(<<>>, L \cup ClosedLeaves(<<>>, top, "{"), AfterValue(<<>>))
    BY <1>2, EmptyIsSequence, ClosingIsTaken
  <2>2. L \cup ClosedLeaves(<<>>, top, "{") = L /\ AfterValue(<<>>) = {}
    BY DEF ClosedLeaves, AfterValue
  <2> QED  BY <2>1, <2>2
<1>4. IsSequence(out) /\ Reads(out, r)
  <2> HIDE DEF r
  <2> QED  BY <1>2, <1>3, ReadStep
<1>5. ReadAll(out) = r
  BY <1>4, ReadFold
<1>6. r.ok = TRUE /\ r.stack = <<>> /\ r.leaves = L /\ r.expect = {}
  BY DEF State, Reader
<1>7. EndObject(w).out = out
  <2> DEFINE flags == Opened(<<>>)
             u == EndObject(w)
  <2> HIDE DEF out, flags, u
  <2>1. u = [out |-> out, open |-> flags]
    BY <1>1 DEF flags, u
  <2>2. u.out = out
    BY <2>1
  <2> QED  BY <2>2 DEF u
<1> HIDE DEF r, out
<1>8. Leaves(out) = {L}
  BY <1>5, <1>6 DEF Leaves
<1> QED  BY <1>7, <1>8

(***************************************************************************)
(* The same by the names of the fields and the path to the container.      *)
(***************************************************************************)
Around(base, path) == IsSequence(base) /\ IsSequence(path) /\ StepsOf(base) = Steps(path)
Texts(names) == {<<k>> : k \in names}

InObject(w, base, path, names, L) ==
  /\ Around(base, path)
  /\ \E top : /\ Writing(w, base, top, L) /\ top.kind = "{"
              /\ top.keys = Texts(names) /\ (names # {} => top.count # 0)
InArray(w, base, path, n, L) ==
  /\ Around(base, path)
  /\ \E top : Writing(w, base, top, L) /\ top.kind = "[" /\ top.count = n

\* The frame of a container while a field, or an element, is being written.
AtField(frame, names, key) ==
  /\ IsFrame(frame) /\ frame.count # 0 /\ frame.kind = "{"
  /\ frame.keys = Texts(names) /\ frame.step = <<key>>
AtElement(frame, n) ==
  /\ IsFrame(frame) /\ frame.count # 0 /\ frame.kind = "["
  /\ frame.count = n /\ frame.step = <<Decimal(n)>>

LEMMA PathGrows ==
  ASSUME NEW base, NEW path, Around(base, path), NEW frame, NEW k, frame.step = <<k>>
  PROVE  /\ Around(Append(base, frame), Append(path, k))
         /\ StepsOf(Append(base, frame)) = Steps(Append(path, k))
<1> DEFINE n == Len(base)
           b == Append(base, frame)
           p == Append(path, k)
           s == StepsOf(base)
<1>1. IsSequence(base) /\ IsSequence(path) /\ s = Steps(path)
  BY DEF Around
<1>2. n \in Nat /\ DOMAIN base = 1..n /\ Len(path) \in Nat /\ DOMAIN path = 1..Len(path)
  BY <1>1, SequenceFacts
<1>3. Len(path) = n
  <2>1. DOMAIN s = DOMAIN base
    BY DEF StepsOf
  <2>2. DOMAIN s = DOMAIN path
    BY <1>1 DEF Steps
  <2>3. 1..n = 1..Len(path)
    BY <1>2, <2>1, <2>2
  <2>4. \A i, j \in Nat : 1..i = 1..j => i = j
    OBVIOUS
  <2> HIDE DEF n
  <2> QED  BY <1>2, <2>3, <2>4
<1>4. /\ IsSequence(b) /\ Len(b) = n + 1 /\ b[n + 1] = frame /\ \A i \in 1..n : b[i] = base[i]
      /\ IsSequence(p) /\ Len(p) = n + 1 /\ p[n + 1] = k /\ \A i \in 1..n : p[i] = path[i]
  <2>1. /\ IsSequence(b) /\ Len(b) = Len(base) + 1 /\ b[Len(base) + 1] = frame
        /\ \A i \in 1..Len(base) : b[i] = base[i]
    BY <1>1, Appended
  <2>2. /\ IsSequence(p) /\ Len(p) = Len(path) + 1 /\ p[Len(path) + 1] = k
        /\ \A i \in 1..Len(path) : p[i] = path[i]
    BY <1>1, Appended
  <2> HIDE DEF b, p
  <2> QED  BY <1>3, <2>1, <2>2
<1>5. DOMAIN b = 1..(n + 1) /\ DOMAIN p = 1..(n + 1)
  <2> HIDE DEF b, p, n
  <2>1. DOMAIN b = 1..Len(b) /\ DOMAIN p = 1..Len(p)
    BY <1>4, SequenceFacts
  <2> QED  BY <1>4, <2>1
<1>6. \A i \in 1..n : base[i].step = <<path[i]>>
  <2>1. \A i \in 1..n : s[i] = base[i].step
    BY <1>2 DEF StepsOf
  <2>2. \A i \in 1..n : s[i] = <<path[i]>>
    BY <1>1, <1>2, <1>3 DEF Steps
  <2> QED  BY <2>1, <2>2
<1>7. \A i \in 1..(n + 1) : b[i].step = <<p[i]>>
  <2>1. \A i \in 1..(n + 1) : i \in 1..n \/ i = n + 1
    BY <1>2
  <2> HIDE DEF b, p, n
  <2> QED  BY <1>4, <1>6, <2>1
<1> HIDE DEF b, p, n
<1>8. StepsOf(b) = [i \in 1..(n + 1) |-> b[i].step] /\ Steps(p) = [i \in 1..(n + 1) |-> <<p[i]>>]
  BY <1>5 DEF StepsOf, Steps
<1>9. StepsOf(b) = Steps(p)
  BY <1>7, <1>8
<1> QED  BY <1>4, <1>9 DEF Around, b, p

LEMMA MoreTexts ==
  ASSUME NEW names, NEW k
  PROVE  /\ Texts(names \cup {k}) = Texts(names) \cup {<<k>>}
         /\ k \notin names => <<k>> \notin Texts(names)
<1>1. \A a, b : <<a>> = <<b>> => a = b
  OBVIOUS
<1> QED  BY <1>1 DEF Texts

LEMMA KeyedField ==
  ASSUME NEW top, IsFrame(top), top.kind = "{", NEW names, top.keys = Texts(names), NEW k
  PROVE  AtField(Keyed(top, k), names \cup {k}, k)
<1> DEFINE frame == Keyed(top, k)
<1>1. IsFrame(frame) /\ frame.count # 0 /\ frame.kind = "{"
  BY ItemFrames
<1>2. frame.keys = top.keys \cup {<<k>>} /\ frame.step = <<k>>
  BY DEF Keyed, Frame
<1>3. Texts(names \cup {k}) = top.keys \cup {<<k>>}
  BY MoreTexts
<1> HIDE DEF frame
<1>4. AtField(frame, names \cup {k}, k)
  BY <1>1, <1>2, <1>3 DEF AtField
<1> QED  BY <1>4 DEF frame

LEMMA FollowingElement ==
  ASSUME NEW top, IsFrame(top), top.kind = "["
  PROVE  AtElement(Following(top), top.count + 1)
<1> DEFINE frame == Following(top)
           n == top.count + 1
<1>1. IsFrame(frame) /\ frame.count # 0 /\ frame.kind = "["
  BY ItemFrames
<1>2. frame.count = n /\ frame.step = <<Decimal(n)>>
  BY DEF Following, NextIndex, Frame
<1> HIDE DEF frame, n
<1>3. AtElement(frame, n)
  BY <1>1, <1>2 DEF AtElement
<1> QED  BY <1>3 DEF frame, n

LEMMA FieldIsWritten ==
  ASSUME NEW w, NEW base, NEW path, NEW names, NEW L, InObject(w, base, path, names, L),
         NEW item, item.key \notin names, item.key # NoKey, NEW value, Means(item.token, value)
  PROVE  InObject(Write(w, item), base, path, names \cup {item.key},
                  L \cup {<<Steps(Append(path, item.key)), value>>})
<1> DEFINE k == item.key
           more == names \cup {k}
<1>1. PICK top : Writing(w, base, top, L) /\ top.kind = "{" /\ top.keys = Texts(names)
  BY DEF InObject
<1> DEFINE frame == Keyed(top, k)
           M == L \cup {<<StepsOf(Append(base, frame)), value>>}
           u == Put(Item(w, k), item.token)
<1>2. <<k>> \notin top.keys
  <2> HIDE DEF k
  <2>1. k \notin names
    BY DEF k
  <2>2. <<k>> \notin Texts(names)
    BY <2>1, MoreTexts, Zenon
  <2> QED  BY <1>1, <2>2
<1>3. Awaiting(Item(w, k), base, frame, L)
  <2> HIDE DEF k
  <2>1. k # NoKey
    BY DEF k
  <2> QED  BY <1>1, <1>2, <2>1, ItemInObject
<1>4. Writing(u, base, frame, M)
  <2> HIDE DEF frame
  <2> QED  BY <1>3, ValueIsWritten
<1>5. AtField(frame, more, k)
  <2>1. IsFrame(top)
    BY <1>1 DEF Writing
  <2> QED  BY <1>1, <2>1, KeyedField
<1>6. Around(base, path)
  BY DEF InObject
<1> HIDE DEF frame
<1>7. StepsOf(Append(base, frame)) = Steps(Append(path, k))
  BY <1>5, <1>6, PathGrows DEF AtField
<1> HIDE DEF M, u, more
<1>8. InObject(u, base, path, more, M)
  BY <1>4, <1>5, <1>6 DEF InObject, AtField
<1>9. Write(w, item) = u
  BY DEF Write, u
<1> QED  BY <1>7, <1>8, <1>9 DEF M, more

LEMMA ElementIsWritten ==
  ASSUME NEW w, NEW base, NEW path, NEW n, NEW L, InArray(w, base, path, n, L),
         NEW item, item.key = NoKey, NEW value, Means(item.token, value)
  PROVE  InArray(Write(w, item), base, path, n + 1,
                 L \cup {<<Steps(Append(path, Decimal(n + 1))), value>>})
<1>1. PICK top : Writing(w, base, top, L) /\ top.kind = "[" /\ top.count = n
  BY DEF InArray
<1> DEFINE frame == Following(top)
           M == L \cup {<<StepsOf(Append(base, frame)), value>>}
           u == Put(Item(w, NoKey), item.token)
<1>3. Awaiting(Item(w, NoKey), base, frame, L)
  BY <1>1, ItemInArray
<1>4. Writing(u, base, frame, M)
  <2> HIDE DEF frame
  <2> QED  BY <1>3, ValueIsWritten
<1>5. AtElement(frame, n + 1)
  <2>1. IsFrame(top)
    BY <1>1 DEF Writing
  <2> QED  BY <1>1, <2>1, FollowingElement
<1>6. Around(base, path)
  BY DEF InArray
<1> HIDE DEF frame
<1>7. StepsOf(Append(base, frame)) = Steps(Append(path, Decimal(n + 1)))
  BY <1>5, <1>6, PathGrows DEF AtElement
<1> HIDE DEF M, u
<1>8. InArray(u, base, path, n + 1, M)
  BY <1>4, <1>5, <1>6 DEF InArray, AtElement
<1>9. Write(w, item) = u
  BY DEF Write, u
<1> QED  BY <1>7, <1>8, <1>9 DEF M

LEMMA ObjectStarts ==
  ASSUME NEW w, NEW base, NEW path, NEW L, Around(base, path), Writing(w, base, New("{"), L)
  PROVE  InObject(w, base, path, {}, L)
<1> DEFINE frame == New("{")
<1>1. frame.kind = "{" /\ frame.keys = Texts({})
  BY NewIsFrame DEF Texts
<1> HIDE DEF frame
<1>2. Writing(w, base, frame, L)
  BY DEF frame
<1> QED  BY <1>1, <1>2 DEF InObject

LEMMA ArrayStarts ==
  ASSUME NEW w, NEW base, NEW path, NEW L, Around(base, path), Writing(w, base, New("["), L)
  PROVE  InArray(w, base, path, 0, L)
<1> DEFINE frame == New("[")
<1>1. frame.kind = "[" /\ frame.count = 0
  BY NewIsFrame
<1> HIDE DEF frame
<1>2. Writing(w, base, frame, L)
  BY DEF frame
<1> QED  BY <1>1, <1>2 DEF InArray

LEMMA FieldIsOpened ==
  ASSUME NEW w, NEW base, NEW path, NEW names, NEW L, InObject(w, base, path, names, L),
         NEW k, k \notin names, k # NoKey
  PROVE  \E frame :
           /\ AtField(frame, names \cup {k}, k)
           /\ InObject(BeginObject(w, k), Append(base, frame), Append(path, k), {}, L)
           /\ InArray(BeginArray(w, k), Append(base, frame), Append(path, k), 0, L)
<1>1. PICK top : Writing(w, base, top, L) /\ top.kind = "{" /\ top.keys = Texts(names)
  BY DEF InObject
<1> DEFINE frame == Keyed(top, k)
           stack == Append(base, frame)
<1>2. <<k>> \notin top.keys
  <2>1. <<k>> \notin Texts(names)
    BY MoreTexts, Zenon
  <2> QED  BY <1>1, <2>1
<1>3. Awaiting(Item(w, k), base, frame, L)
  BY <1>1, <1>2, ItemInObject
<1>4. AtField(frame, names \cup {k}, k)
  <2>1. IsFrame(top)
    BY <1>1 DEF Writing
  <2> QED  BY <1>1, <2>1, KeyedField
<1>5. Around(base, path)
  BY DEF InObject
<1> HIDE DEF frame
<1>6. Around(stack, Append(path, k))
  BY <1>4, <1>5, PathGrows DEF AtField
<1>7. /\ Writing(BeginObject(w, k), stack, New("{"), L)
      /\ Writing(BeginArray(w, k), stack, New("["), L)
  BY <1>3, ContainerIsOpened DEF BeginObject, BeginArray, Begin
<1> HIDE DEF stack
<1>8. InObject(BeginObject(w, k), stack, Append(path, k), {}, L)
  BY <1>6, <1>7, ObjectStarts
<1>9. InArray(BeginArray(w, k), stack, Append(path, k), 0, L)
  BY <1>6, <1>7, ArrayStarts
<1> QED  BY <1>4, <1>8, <1>9 DEF stack

LEMMA ElementIsOpened ==
  ASSUME NEW w, NEW base, NEW path, NEW n, NEW L, InArray(w, base, path, n, L)
  PROVE  \E frame :
           /\ AtElement(frame, n + 1)
           /\ InObject(BeginObject(w, NoKey), Append(base, frame),
                       Append(path, Decimal(n + 1)), {}, L)
<1>1. PICK top : Writing(w, base, top, L) /\ top.kind = "[" /\ top.count = n
  BY DEF InArray
<1> DEFINE frame == Following(top)
           stack == Append(base, frame)
<1>2. Awaiting(Item(w, NoKey), base, frame, L)
  BY <1>1, ItemInArray
<1>3. AtElement(frame, n + 1)
  <2>1. IsFrame(top)
    BY <1>1 DEF Writing
  <2> QED  BY <1>1, <2>1, FollowingElement
<1>4. Around(base, path)
  BY DEF InArray
<1> HIDE DEF frame
<1>5. Around(stack, Append(path, Decimal(n + 1)))
  BY <1>3, <1>4, PathGrows DEF AtElement
<1>6. Writing(BeginObject(w, NoKey), stack, New("{"), L)
  BY <1>2, ContainerIsOpened DEF BeginObject, Begin
<1> HIDE DEF stack
<1>7. InObject(BeginObject(w, NoKey), stack, Append(path, Decimal(n + 1)), {}, L)
  BY <1>5, <1>6, ObjectStarts
<1> QED  BY <1>3, <1>7 DEF stack

LEMMA ObjectIsClosed ==
  ASSUME NEW w, NEW base, NEW frame, NEW inside, NEW names, NEW L,
         InObject(w, Append(base, frame), inside, names, L), names # {},
         IsSequence(base), IsFrame(frame), frame.count # 0
  PROVE  Writing(EndObject(w), base, frame, L)
<1> DEFINE stack == Append(base, frame)
<1>1. PICK top : Writing(w, stack, top, L) /\ top.kind = "{" /\ top.count # 0
  BY DEF InObject
<1> DEFINE M == L \cup ClosedLeaves(stack, top, "{")
<1>2. Writing(EndObject(w), base, frame, M)
  BY <1>1, ContainerIsClosed DEF EndObject
<1>3. M = L
  BY <1>1 DEF ClosedLeaves
<1> HIDE DEF M
<1> QED  BY <1>2, <1>3

LEMMA ObjectFieldIsClosed ==
  ASSUME NEW w, NEW base, NEW path, NEW frame, NEW inside, NEW names, NEW L,
         InObject(w, Append(base, frame), inside, names, L), names # {},
         Around(base, path), NEW outside, NEW k, AtField(frame, outside, k)
  PROVE  InObject(EndObject(w), base, path, outside, L)
<1>1. Writing(EndObject(w), base, frame, L)
  BY ObjectIsClosed DEF Around, AtField
<1> QED  BY <1>1 DEF InObject, AtField

LEMMA ObjectElementIsClosed ==
  ASSUME NEW w, NEW base, NEW path, NEW frame, NEW inside, NEW names, NEW L,
         InObject(w, Append(base, frame), inside, names, L), names # {},
         Around(base, path), NEW n, AtElement(frame, n)
  PROVE  InArray(EndObject(w), base, path, n, L)
<1>1. Writing(EndObject(w), base, frame, L)
  BY ObjectIsClosed DEF Around, AtElement
<1> QED  BY <1>1 DEF InArray, AtElement

LEMMA PairOf ==
  ASSUME NEW a, NEW b
  PROVE  <<a>> \o <<b>> = <<a, b>>
<1> DEFINE s == <<a>>
           t == Append(s, b)
           u == <<a, b>>
<1>1. Len(s) = 1 /\ Len(u) = 2 /\ s[1] = a /\ u[1] = a /\ u[2] = b
  OBVIOUS
<1>2. u \in Seq({a, b})
  OBVIOUS
<1>3. IsSequence(s) /\ IsSequence(u)
  BY <1>2, OneIsSequence, SequencesAre
<1>4. s \o <<b>> = t
  BY OneIsSequence, AppendedOne
<1> HIDE DEF s, u, t
<1>5. /\ IsSequence(t) /\ Len(t) = Len(s) + 1 /\ t[Len(s) + 1] = b
      /\ \A i \in 1..Len(s) : t[i] = s[i]
  BY <1>3, Appended DEF t
<1>6. Len(t) = 2 /\ t[1] = a /\ t[2] = b
  BY <1>1, <1>5
<1>7. \A i \in 1..Len(t) : t[i] = u[i]
  BY <1>1, <1>6
<1>8. t = u
  BY <1>1, <1>3, <1>5, <1>6, <1>7, SameSequence
<1> QED  BY <1>4, <1>8 DEF s, u

MaybeEmpty(path, n) == IF n = 0 THEN Empty(path, "[") ELSE {}

LEMMA ArrayFieldIsClosed ==
  ASSUME NEW w, NEW base, NEW path, NEW frame, NEW n, NEW L, NEW k,
         InArray(w, Append(base, frame), Append(path, k), n, L),
         Around(base, path), NEW outside, AtField(frame, outside, k)
  PROVE  InObject(EndArray(w), base, path, outside, L \cup MaybeEmpty(Append(path, k), n))
<1> DEFINE stack == Append(base, frame)
<1>1. PICK top : Writing(w, stack, top, L) /\ top.kind = "[" /\ top.count = n
  BY DEF InArray
<1> DEFINE M == L \cup ClosedLeaves(stack, top, "[")
<1>2. Writing(EndArray(w), base, frame, M)
  BY <1>1, ContainerIsClosed DEF EndArray, Around, AtField
<1>3. ClosedLeaves(stack, top, "[") = MaybeEmpty(Append(path, k), n)
  <2>1. StepsOf(stack) = Steps(Append(path, k))
    BY PathGrows DEF AtField
  <2>2. MarkValue("[") = <<"mark", "[">>
    BY PairOf DEF MarkValue
  <2> HIDE DEF stack
  <2>3. ClosedLeaves(stack, top, "[") = IF n = 0 THEN {<<StepsOf(stack), MarkValue("[")>>} ELSE {}
    BY <1>1 DEF ClosedLeaves
  <2> QED  BY <2>1, <2>2, <2>3, Zenon DEF MaybeEmpty, Empty
<1> HIDE DEF M
<1>4. InObject(EndArray(w), base, path, outside, M)
  BY <1>2 DEF InObject, AtField
<1> QED  BY <1>3, <1>4 DEF M

(***************************************************************************)
(* Runs of fields, and of elements.                                        *)
(***************************************************************************)
KeysTo(items, i) == {items[j].key : j \in 1..i}
LeavesTo(path, items, value, i) ==
  {<<Steps(Append(path, items[j].key)), value[j]>> : j \in 1..i}
AreFields(items, names, value) ==
  /\ Len(items) \in Nat
  /\ \A i \in 1..Len(items) : /\ items[i].key \notin names /\ items[i].key # NoKey
                              /\ Means(items[i].token, value[i])
  /\ \A i, j \in 1..Len(items) : items[i].key = items[j].key => i = j

LEMMA FieldsAreWritten ==
  ASSUME NEW w, NEW base, NEW path, NEW names, NEW L, InObject(w, base, path, names, L),
         NEW items, NEW value, AreFields(items, names, value)
  PROVE  InObject(WriteAll(w, items), base, path, names \cup KeysTo(items, Len(items)),
                  L \cup LeavesTo(path, items, value, Len(items)))
<1> DEFINE n == Len(items)
<1>1. n \in Nat
  BY DEF AreFields
<1>2. PICK f : Writes(f, w, items)
  BY <1>1, WriteFold
<1>3. f[0] = w /\ f[n] = WriteAll(w, items) /\ \A i \in 1..n : f[i] = Write(f[i - 1], items[i])
  BY <1>2 DEF Writes
<1> HIDE DEF n
<1> DEFINE Good(i) == InObject(f[i], base, path, names \cup KeysTo(items, i),
                               L \cup LeavesTo(path, items, value, i))
           S == {i \in 0..n : Good(i)}
<1>4. Good(0)
  <2>1. names \cup KeysTo(items, 0) = names /\ L \cup LeavesTo(path, items, value, 0) = L
    BY DEF KeysTo, LeavesTo
  <2> QED  BY <1>3, <2>1
<1>5. ASSUME NEW i \in 0..n, Good(i), i < n  PROVE Good(i + 1)
  <2> DEFINE k == i + 1
             item == items[k]
             more == names \cup KeysTo(items, i)
             M == L \cup LeavesTo(path, items, value, i)
  <2>1. k \in 1..n /\ k - 1 = i /\ i \in Nat
    BY <1>1, <1>5
  <2>2. \A j \in 1..i : j \in 1..n /\ j # k
    BY <1>1, <2>1
  <2>3. 1..k = (1..i) \cup {k}
    BY <2>1
  <2>4. item.key # NoKey /\ Means(item.token, value[k]) /\ item.key \notin names
    BY <2>1 DEF AreFields, n
  <2>5. item.key \notin KeysTo(items, i)
    <3> HIDE DEF k
    <3>1. \A j \in 1..i : items[j].key # items[k].key
      BY <2>1, <2>2 DEF AreFields, n
    <3> QED  BY <3>1 DEF KeysTo, k
  <2>6. f[k] = Write(f[i], item)
    <3> HIDE DEF k
    <3>1. f[k] = Write(f[k - 1], items[k])
      BY <1>3, <2>1
    <3> QED  BY <2>1, <3>1 DEF k
  <2> HIDE DEF k
  <2>7. /\ names \cup KeysTo(items, k) = more \cup {item.key}
        /\ L \cup LeavesTo(path, items, value, k) =
             M \cup {<<Steps(Append(path, item.key)), value[k]>>}
    BY <2>3 DEF KeysTo, LeavesTo
  <2> HIDE DEF item, more, M
  <2>8. InObject(f[i], base, path, more, M) /\ item.key \notin more
    BY <1>5, <2>4, <2>5 DEF more, M
  <2>9. InObject(Write(f[i], item), base, path, more \cup {item.key},
                 M \cup {<<Steps(Append(path, item.key)), value[k]>>})
    BY <2>4, <2>8, FieldIsWritten
  <2>10. Good(k)
    BY <2>6, <2>7, <2>9
  <2> QED  BY <2>10 DEF k
<1>6. Good(n)
  <2> HIDE DEF Good
  <2>1. 0 \in S
    BY <1>1, <1>4
  <2>2. \A i \in 0..n : i \in S /\ i < n => i + 1 \in S
    <3> SUFFICES ASSUME NEW i \in 0..n, Good(i), i < n  PROVE i + 1 \in S
      OBVIOUS
    <3>1. i + 1 \in 0..n
      BY <1>1
    <3> QED  BY <1>5, <3>1
  <2> HIDE DEF S
  <2>3. n \in S
    <3>1. 0..n \subseteq S
      BY <1>1, <2>1, <2>2, UpTo
    <3> QED  BY <1>1, <3>1
  <2> QED  BY <2>3 DEF S
<1> QED  BY <1>3, <1>6 DEF n

\* An array that is written element by element: M(i) are the leaves of element i.
ElementLeaves(L, M, i) == L \cup UNION {M[j] : j \in 1..i}
LEMMA ElementsAreWritten ==
  ASSUME NEW base, NEW path, NEW L, NEW M, NEW n \in Nat, NEW f,
         InArray(f[0], base, path, 0, L),
         \A i \in 0..n : \A H : i < n /\ InArray(f[i], base, path, i, H) =>
            InArray(f[i + 1], base, path, i + 1, H \cup M[i + 1])
  PROVE  InArray(f[n], base, path, n, ElementLeaves(L, M, n))
<1> DEFINE Good(i) == InArray(f[i], base, path, i, ElementLeaves(L, M, i))
           S == {i \in 0..n : Good(i)}
<1>1. Good(0)
  <2>1. ElementLeaves(L, M, 0) = L
    BY DEF ElementLeaves
  <2> QED  BY <2>1
<1>2. ASSUME NEW i \in 0..n, Good(i), i < n  PROVE Good(i + 1)
  <2>1. InArray(f[i + 1], base, path, i + 1, ElementLeaves(L, M, i) \cup M[i + 1])
    BY <1>2
  <2>2. 1..(i + 1) = (1..i) \cup {i + 1}
    OBVIOUS
  <2> DEFINE k == i + 1
  <2> HIDE DEF k
  <2>3. ElementLeaves(L, M, i) \cup M[k] = ElementLeaves(L, M, k)
    <3>1. 1..k = (1..i) \cup {k}
      BY <2>2 DEF k
    <3> QED  BY <3>1 DEF ElementLeaves
  <2> QED  BY <2>1, <2>3 DEF k
<1>3. Good(n)
  <2> HIDE DEF Good
  <2>1. 0 \in S
    BY <1>1
  <2>2. \A i \in 0..n : i \in S /\ i < n => i + 1 \in S
    <3> SUFFICES ASSUME NEW i \in 0..n, Good(i), i < n  PROVE i + 1 \in S
      OBVIOUS
    <3>1. i + 1 \in 0..n
      OBVIOUS
    <3> QED  BY <1>2, <3>1
  <2> HIDE DEF S
  <2>3. n \in S
    <3>1. 0..n \subseteq S
      BY <2>1, <2>2, UpTo
    <3> QED  BY <3>1
  <2> QED  BY <2>3 DEF S
<1> QED  BY <1>3

IsKeyList(keys, names) ==
  /\ IsSequence(keys)
  /\ \A i \in 1..Len(keys) : keys[i] # NoKey /\ keys[i] \notin names
  /\ \A i, j \in 1..Len(keys) : keys[i] = keys[j] => i = j
NamedLeaves(path, names, value) == {<<Steps(Append(path, k)), value[k]>> : k \in names}

LEMMA KeysAreWritten ==
  ASSUME NEW w, NEW base, NEW path, NEW names, NEW L, InObject(w, base, path, names, L),
         NEW keys, IsKeyList(keys, names), NEW items, NEW value,
         items = [i \in DOMAIN keys |-> items[i]],
         \A i \in DOMAIN keys : items[i].key = keys[i] /\ Means(items[i].token, value[keys[i]])
  PROVE  InObject(WriteAll(w, items), base, path, names \cup ToSet(keys),
                  L \cup NamedLeaves(path, ToSet(keys), value))
<1> DEFINE n == Len(keys)
           values == [i \in 1..n |-> value[keys[i]]]
<1>1. n \in Nat /\ DOMAIN keys = 1..n
  BY SequenceFacts DEF IsKeyList
<1> HIDE DEF n
<1>2. Len(items) = n
  BY <1>1, FunctionsAreSequences
<1>3. \A i \in 1..n : items[i].key = keys[i] /\ Means(items[i].token, values[i])
  BY <1>1
<1> HIDE DEF values
<1>4. AreFields(items, names, values)
  BY <1>1, <1>2, <1>3 DEF AreFields, IsKeyList, n
<1>5. InObject(WriteAll(w, items), base, path, names \cup KeysTo(items, n),
               L \cup LeavesTo(path, items, values, n))
  BY <1>2, <1>4, FieldsAreWritten
<1>6. KeysTo(items, n) = ToSet(keys)
  BY <1>1, <1>3 DEF KeysTo, ToSet
<1>7. LeavesTo(path, items, values, n) = NamedLeaves(path, ToSet(keys), value)
  <2>1. LeavesTo(path, items, values, n) =
          {<<Steps(Append(path, keys[j])), value[keys[j]]>> : j \in 1..n}
    BY <1>3 DEF LeavesTo, values
  <2>2. NamedLeaves(path, ToSet(keys), value) =
          {<<Steps(Append(path, keys[j])), value[keys[j]]>> : j \in 1..n}
    BY <1>1 DEF NamedLeaves, ToSet
  <2> QED  BY <2>1, <2>2
<1> QED  BY <1>5, <1>6, <1>7

NumberValue(v) == <<"mark", IF v = Unset THEN "null" ELSE v>>
BooleanValue(v) == <<"mark", IF v THEN "true" ELSE "false">>

LEMMA StringMeans ==
  ASSUME NEW text, IsSequence(text)
  PROVE  Means(Quoted(text), <<"string">> \o text)
BY DEF Means, StringValue

LEMMA NumberMeans ==
  ASSUME NEW v, IsNumber(v)
  PROVE  Means(Number(v), NumberValue(v))
<1> DEFINE m == IF v = Unset THEN "null" ELSE v
<1>1. m \notin Punctuation
  BY DEF IsNumber, Punctuation
<1> HIDE DEF m
<1>2. MarkValue(m) = <<"mark", m>>
  BY PairOf DEF MarkValue
<1>3. Means(Mark(m), <<"mark", m>>)
  BY <1>1, <1>2 DEF Means
<1> QED  BY <1>3 DEF Number, NumberValue, m

LEMMA BooleanMeans ==
  ASSUME NEW v \in BOOLEAN
  PROVE  Means(Boolean(v), BooleanValue(v))
<1> DEFINE m == IF v THEN "true" ELSE "false"
<1>1. m \notin Punctuation
  BY DEF Punctuation
<1> HIDE DEF m
<1>2. MarkValue(m) = <<"mark", m>>
  BY PairOf DEF MarkValue
<1>3. Means(Mark(m), <<"mark", m>>)
  BY <1>1, <1>2 DEF Means
<1> QED  BY <1>3 DEF Boolean, BooleanValue, m

LEMMA KeysInDomain ==
  ASSUME NEW keys
  PROVE  \A i \in DOMAIN keys : keys[i] \in ToSet(keys)
BY DEF ToSet

LEMMA StringsAreWritten ==
  ASSUME NEW w, NEW base, NEW path, NEW names, NEW L, InObject(w, base, path, names, L),
         NEW keys, IsKeyList(keys, names), NEW texts, HasTexts(texts, keys)
  PROVE  InObject(Strings(w, keys, texts), base, path, names \cup ToSet(keys),
                  L \cup StringLeaves(path, texts))
<1> DEFINE items == Fields(keys, texts, Quoted)
           value == [k \in ToSet(keys) |-> <<"string">> \o texts[k]]
<1>1. /\ DOMAIN texts = ToSet(keys)
      /\ \A k \in ToSet(keys) : IsSequence(texts[k])
  BY DEF HasTexts
<1>2. /\ items = [i \in DOMAIN keys |-> items[i]]
      /\ \A i \in DOMAIN keys : items[i].key = keys[i] /\ items[i].token = Quoted(texts[keys[i]])
  BY DEF Fields
<1>3. \A k \in ToSet(keys) : Means(Quoted(texts[k]), value[k])
  BY <1>1, StringMeans
<1>4. \A i \in DOMAIN keys : Means(items[i].token, value[keys[i]])
  <2> HIDE DEF items, value
  <2> QED  BY <1>2, <1>3, KeysInDomain
<1>5. NamedLeaves(path, ToSet(keys), value) = StringLeaves(path, texts)
  BY <1>1 DEF NamedLeaves, StringLeaves
<1>6. Strings(w, keys, texts) = WriteAll(w, items)
  BY DEF Strings
<1> HIDE DEF items, value
<1> QED  BY <1>2, <1>4, <1>5, <1>6, KeysAreWritten

LEMMA NumbersAreWritten ==
  ASSUME NEW w, NEW base, NEW path, NEW names, NEW L, InObject(w, base, path, names, L),
         NEW keys, IsKeyList(keys, names), NEW values,
         \A k \in ToSet(keys) : IsNumber(values[k])
  PROVE  InObject(Numbers(w, keys, values), base, path, names \cup ToSet(keys),
                  L \cup {Scalar(Append(path, k), values[k]) : k \in ToSet(keys)})
<1> DEFINE items == Fields(keys, values, Number)
           value == [k \in ToSet(keys) |-> NumberValue(values[k])]
<1>2. /\ items = [i \in DOMAIN keys |-> items[i]]
      /\ \A i \in DOMAIN keys : items[i].key = keys[i] /\ items[i].token = Number(values[keys[i]])
  BY DEF Fields
<1>3. \A k \in ToSet(keys) : Means(Number(values[k]), value[k])
  BY NumberMeans
<1>4. \A i \in DOMAIN keys : Means(items[i].token, value[keys[i]])
  <2> HIDE DEF items, value
  <2> QED  BY <1>2, <1>3, KeysInDomain
<1>5. NamedLeaves(path, ToSet(keys), value) =
        {Scalar(Append(path, k), values[k]) : k \in ToSet(keys)}
  BY DEF NamedLeaves, Scalar, NumberValue
<1>6. Numbers(w, keys, values) = WriteAll(w, items)
  BY DEF Numbers
<1> HIDE DEF items, value
<1> QED  BY <1>2, <1>4, <1>5, <1>6, KeysAreWritten

LEMMA BooleansAreWritten ==
  ASSUME NEW w, NEW base, NEW path, NEW names, NEW L, InObject(w, base, path, names, L),
         NEW keys, IsKeyList(keys, names), NEW values \in [ToSet(keys) -> BOOLEAN]
  PROVE  InObject(Booleans(w, keys, values), base, path, names \cup ToSet(keys),
                  L \cup ScalarLeaves(path, [k \in DOMAIN values |->
                                               IF values[k] THEN "true" ELSE "false"]))
<1> DEFINE items == Fields(keys, values, Boolean)
           value == [k \in ToSet(keys) |-> BooleanValue(values[k])]
           said == [k \in DOMAIN values |-> IF values[k] THEN "true" ELSE "false"]
<1>1. DOMAIN values = ToSet(keys) /\ \A k \in ToSet(keys) : values[k] \in BOOLEAN
  OBVIOUS
<1>2. /\ items = [i \in DOMAIN keys |-> items[i]]
      /\ \A i \in DOMAIN keys : items[i].key = keys[i] /\ items[i].token = Boolean(values[keys[i]])
  BY DEF Fields
<1>3. \A k \in ToSet(keys) : Means(Boolean(values[k]), value[k])
  BY <1>1, BooleanMeans
<1>4. \A i \in DOMAIN keys : Means(items[i].token, value[keys[i]])
  <2> HIDE DEF items, value
  <2> QED  BY <1>2, <1>3, KeysInDomain
<1>5. NamedLeaves(path, ToSet(keys), value) = ScalarLeaves(path, said)
  <2>1. \A k \in ToSet(keys) : value[k] = <<"mark", IF said[k] = Unset THEN "null" ELSE said[k]>>
    BY <1>1 DEF BooleanValue, Unset
  <2>2. DOMAIN said = ToSet(keys)
    BY <1>1
  <2> HIDE DEF value, said
  <2> QED  BY <2>1, <2>2 DEF NamedLeaves, ScalarLeaves, Scalar
<1>6. Booleans(w, keys, values) = WriteAll(w, items)
  BY DEF Booleans
<1> HIDE DEF items, value
<1> QED  BY <1>2, <1>4, <1>5, <1>6, KeysAreWritten

LEMMA NumberFieldsAreWritten ==
  ASSUME NEW w, NEW base, NEW path, NEW names, NEW L, InObject(w, base, path, names, L),
         NEW keys, IsKeyList(keys, names), NEW values, HasNumbers(values, keys)
  PROVE  InObject(Numbers(w, keys, values), base, path, names \cup ToSet(keys),
                  L \cup ScalarLeaves(path, values))
<1>1. DOMAIN values = ToSet(keys) /\ \A k \in ToSet(keys) : IsNumber(values[k])
  BY DEF HasNumbers
<1>2. ScalarLeaves(path, values) = {Scalar(Append(path, k), values[k]) : k \in ToSet(keys)}
  BY <1>1 DEF ScalarLeaves
<1> QED  BY <1>1, <1>2, NumbersAreWritten

LEMMA StringIsWritten ==
  ASSUME NEW w, NEW base, NEW path, NEW names, NEW L, InObject(w, base, path, names, L),
         NEW k, k \notin names, k # NoKey, NEW text, IsSequence(text)
  PROVE  InObject(WriteString(w, k, text), base, path, names \cup {k},
                  L \cup {<<Steps(Append(path, k)), <<"string">> \o text>>})
<1> DEFINE item == [key |-> k, token |-> Quoted(text)]
<1>1. item.key = k /\ item.token = Quoted(text)
  OBVIOUS
<1>2. WriteString(w, k, text) = Write(w, item)
  BY DEF WriteString
<1>3. Means(Quoted(text), <<"string">> \o text)
  BY StringMeans
<1> DEFINE value == <<"string">> \o text
<1> HIDE DEF item, value
<1>4. Means(item.token, value) /\ item.key \notin names /\ item.key # NoKey
  BY <1>1, <1>3 DEF value
<1>5. InObject(Write(w, item), base, path, names \cup {item.key},
               L \cup {<<Steps(Append(path, item.key)), value>>})
  BY <1>4, FieldIsWritten
<1> QED  BY <1>1, <1>2, <1>5 DEF value

LEMMA NumberIsWritten ==
  ASSUME NEW w, NEW base, NEW path, NEW names, NEW L, InObject(w, base, path, names, L),
         NEW k, k \notin names, k # NoKey, NEW v, IsNumber(v)
  PROVE  InObject(WriteNumber(w, k, v), base, path, names \cup {k},
                  L \cup {Scalar(Append(path, k), v)})
<1> DEFINE item == [key |-> k, token |-> Number(v)]
<1>1. item.key = k /\ item.token = Number(v)
  OBVIOUS
<1>2. WriteNumber(w, k, v) = Write(w, item)
  BY DEF WriteNumber
<1>3. Means(Number(v), NumberValue(v))
  BY NumberMeans
<1> HIDE DEF item
<1>4. Means(item.token, NumberValue(v)) /\ item.key \notin names /\ item.key # NoKey
  BY <1>1, <1>3
<1>5. Scalar(Append(path, k), v) = <<Steps(Append(path, k)), NumberValue(v)>>
  BY DEF Scalar, NumberValue
<1> QED  BY <1>1, <1>2, <1>4, <1>5, FieldIsWritten

(***************************************************************************)
(* The names of the fields: none twice, and none of another field's.       *)
(***************************************************************************)
LEMMA MetricKeyList ==
  /\ IsKeyList(MetricKeys, {"monotonic_ms", "power_state"})
  /\ "throttle" \notin ToSet(MetricKeys)
  /\ "processes" \notin ToSet(MetricKeys)
<1> DEFINE written == {"core_util", "mem_controller_util", "encoder_util", "decoder_util",
                      "vram_used_bytes", "temp_edge_c", "temp_hotspot_c", "temp_mem_c",
                      "power_draw_mw", "power_limit_mw", "fan_percent", "clock_core_mhz",
                      "clock_mem_mhz", "pcie_rx_bps", "pcie_tx_bps"}
<1>1. MetricKeys = [i \in 1..15 |-> MetricKeys[i]] /\ 15 \in Nat
  BY DEF MetricKeys
<1>2. IsSequence(MetricKeys) /\ Len(MetricKeys) = 15 /\ DOMAIN MetricKeys = 1..15
  BY <1>1, FunctionsAreSequences
<1>3. \A i \in 1..15 : MetricKeys[i] \in written
  BY DEF MetricKeys
<1>4. \A i, j \in 1..15 : MetricKeys[i] = MetricKeys[j] => i = j
  BY DEF MetricKeys
<1>5. \A k \in written :
        k # "" /\ k # "monotonic_ms" /\ k # "power_state" /\ k # "throttle" /\ k # "processes"
  BY Zenon
<1> HIDE DEF written
<1>6. IsKeyList(MetricKeys, {"monotonic_ms", "power_state"})
  <2>1. \A i \in 1..15 : MetricKeys[i] # NoKey
    BY <1>3, <1>5, Zenon DEF NoKey
  <2>2. \A i \in 1..15 : MetricKeys[i] \notin {"monotonic_ms", "power_state"}
    BY <1>3, <1>5
  <2> QED  BY <1>2, <1>4, <2>1, <2>2 DEF IsKeyList
<1>7. /\ "throttle" \notin ToSet(MetricKeys)
      /\ "processes" \notin ToSet(MetricKeys)
  BY <1>2, <1>3, <1>5 DEF ToSet
<1> QED  BY <1>6, <1>7

LEMMA ThrottleKeyList ==
  /\ IsKeyList(ThrottleNames, {})
<1> DEFINE written == {"thermal", "power", "reliability", "software"}
<1>1. ThrottleNames = [i \in 1..4 |-> ThrottleNames[i]] /\ 4 \in Nat
  BY DEF ThrottleNames
<1>2. IsSequence(ThrottleNames) /\ Len(ThrottleNames) = 4 /\ DOMAIN ThrottleNames = 1..4
  BY <1>1, FunctionsAreSequences
<1>3. \A i \in 1..4 : ThrottleNames[i] \in written
  BY DEF ThrottleNames
<1>4. \A i, j \in 1..4 : ThrottleNames[i] = ThrottleNames[j] => i = j
  BY DEF ThrottleNames
<1>5. \A k \in written : k # ""
  BY Zenon
<1> HIDE DEF written
<1>6. IsKeyList(ThrottleNames, {})
  <2>1. \A i \in 1..4 : ThrottleNames[i] # NoKey
    BY <1>3, <1>5, Zenon DEF NoKey
  <2>2. \A i \in 1..4 : ThrottleNames[i] \notin {}
    BY <1>3, <1>5
  <2> QED  BY <1>2, <1>4, <2>1, <2>2 DEF IsKeyList
<1> QED  BY <1>6

LEMMA TextKeyList ==
  /\ IsKeyList(TextKeys, {})
  /\ "sample" \notin ToSet(TextKeys)
<1> DEFINE written == {"backend", "vendor", "name", "uuid", "pci_bus_id", "driver_version"}
<1>1. TextKeys = [i \in 1..6 |-> TextKeys[i]] /\ 6 \in Nat
  BY DEF TextKeys
<1>2. IsSequence(TextKeys) /\ Len(TextKeys) = 6 /\ DOMAIN TextKeys = 1..6
  BY <1>1, FunctionsAreSequences
<1>3. \A i \in 1..6 : TextKeys[i] \in written
  BY DEF TextKeys
<1>4. \A i, j \in 1..6 : TextKeys[i] = TextKeys[j] => i = j
  BY DEF TextKeys
<1>5. \A k \in written : k # "" /\ k # "sample"
  BY Zenon
<1> HIDE DEF written
<1>6. IsKeyList(TextKeys, {})
  <2>1. \A i \in 1..6 : TextKeys[i] # NoKey
    BY <1>3, <1>5, Zenon DEF NoKey
  <2>2. \A i \in 1..6 : TextKeys[i] \notin {}
    BY <1>3, <1>5
  <2> QED  BY <1>2, <1>4, <2>1, <2>2 DEF IsKeyList
<1>7. "sample" \notin ToSet(TextKeys)
  BY <1>2, <1>3, <1>5 DEF ToSet
<1> QED  BY <1>6, <1>7

LEMMA HostKeyList ==
  /\ IsKeyList(HostKeys, {})
  /\ "devices" \notin ToSet(HostKeys)
<1> DEFINE written == {"gtop", "host", "os"}
<1>1. HostKeys = [i \in 1..3 |-> HostKeys[i]] /\ 3 \in Nat
  BY DEF HostKeys
<1>2. IsSequence(HostKeys) /\ Len(HostKeys) = 3 /\ DOMAIN HostKeys = 1..3
  BY <1>1, FunctionsAreSequences
<1>3. \A i \in 1..3 : HostKeys[i] \in written
  BY DEF HostKeys
<1>4. \A i, j \in 1..3 : HostKeys[i] = HostKeys[j] => i = j
  BY DEF HostKeys
<1>5. \A k \in written : k # "" /\ k # "devices"
  BY Zenon
<1> HIDE DEF written
<1>6. IsKeyList(HostKeys, {})
  <2>1. \A i \in 1..3 : HostKeys[i] # NoKey
    BY <1>3, <1>5, Zenon DEF NoKey
  <2>2. \A i \in 1..3 : HostKeys[i] \notin {}
    BY <1>3, <1>5
  <2> QED  BY <1>2, <1>4, <2>1, <2>2 DEF IsKeyList
<1>7. "devices" \notin ToSet(HostKeys)
  BY <1>2, <1>3, <1>5 DEF ToSet
<1> QED  BY <1>6, <1>7

LEMMA ProcessKeyNames ==
  /\ IsKeyList(ProcessKeys, {"pid", "name"})
<1> DEFINE written == {"vram_bytes", "gpu_util_percent"}
<1>1. ProcessKeys = [i \in 1..2 |-> ProcessKeys[i]] /\ 2 \in Nat
  BY DEF ProcessKeys
<1>2. IsSequence(ProcessKeys) /\ Len(ProcessKeys) = 2 /\ DOMAIN ProcessKeys = 1..2
  BY <1>1, FunctionsAreSequences
<1>3. \A i \in 1..2 : ProcessKeys[i] \in written
  BY DEF ProcessKeys
<1>4. \A i, j \in 1..2 : ProcessKeys[i] = ProcessKeys[j] => i = j
  BY DEF ProcessKeys
<1>5. \A k \in written : k # "" /\ k # "pid" /\ k # "name"
  BY Zenon
<1> HIDE DEF written
<1>6. IsKeyList(ProcessKeys, {"pid", "name"})
  <2>1. \A i \in 1..2 : ProcessKeys[i] # NoKey
    BY <1>3, <1>5, Zenon DEF NoKey
  <2>2. \A i \in 1..2 : ProcessKeys[i] \notin {"pid", "name"}
    BY <1>3, <1>5
  <2> QED  BY <1>2, <1>4, <2>1, <2>2 DEF IsKeyList
<1> QED  BY <1>6

LEMMA LimitKeyList ==
  /\ IsKeyList(LimitKeys, ToSet(TextKeys))
  /\ "sample" \notin ToSet(LimitKeys)
<1> DEFINE written == {"vram_total_bytes", "power_limit_mw", "temp_slowdown_c"}
<1>1. LimitKeys = [i \in 1..3 |-> LimitKeys[i]] /\ 3 \in Nat
  BY DEF LimitKeys
<1>2. IsSequence(LimitKeys) /\ Len(LimitKeys) = 3 /\ DOMAIN LimitKeys = 1..3
  BY <1>1, FunctionsAreSequences
<1>3. \A i \in 1..3 : LimitKeys[i] \in written
  BY DEF LimitKeys
<1>4. \A i, j \in 1..3 : LimitKeys[i] = LimitKeys[j] => i = j
  BY DEF LimitKeys
<1>5. \A k \in written : k # "" /\ k # "sample"
  BY Zenon
<1> HIDE DEF written
<1>6. \A i \in 1..3 : LimitKeys[i] \notin ToSet(TextKeys)
  <2>1. \A i \in 1..3, j \in 1..6 : LimitKeys[i] # TextKeys[j]
    BY DEF LimitKeys, TextKeys
  <2>2. DOMAIN TextKeys = 1..6
    BY DEF TextKeys
  <2> QED  BY <2>1, <2>2 DEF ToSet
<1>7. \A i \in 1..3 : LimitKeys[i] # NoKey
  BY <1>3, <1>5, Zenon DEF NoKey
<1>8. IsKeyList(LimitKeys, ToSet(TextKeys))
  BY <1>2, <1>4, <1>6, <1>7 DEF IsKeyList
<1>9. "sample" \notin ToSet(LimitKeys)
  BY <1>2, <1>3, <1>5 DEF ToSet
<1> QED  BY <1>8, <1>9

(***************************************************************************)
(* A process.                                                              *)
(***************************************************************************)
LEMMA Concatenated ==
  ASSUME NEW s, IsSequence(s), NEW t, IsSequence(t)
  PROVE  IsSequence(s \o t)
<1>1. s \in Seq(ToSet(s) \cup ToSet(t)) /\ t \in Seq(ToSet(s) \cup ToSet(t))
  BY SeqMonotonic DEF IsSequence
<1>2. s \o t \in Seq(ToSet(s) \cup ToSet(t))
  BY <1>1, ConcatProperties
<1> QED  BY <1>2, SequencesAre

LEMMA RaisedIsSequence ==
  ASSUME NEW engines
  PROVE  IsSequence(Raised(engines))
<1>1. \A e : IsSequence(Flag(e, engines))
  BY OneIsSequence, EmptyIsSequence DEF Flag
<1> QED  BY <1>1, Concatenated DEF Raised

EngineLeaves(path, names) ==
  {<<Steps(Append(path, Decimal(i))), <<"string", names[i]>>>> : i \in DOMAIN names}

LEMMA EnginesAreWritten ==
  ASSUME NEW w, NEW base, NEW path, NEW L, InArray(w, base, path, 0, L),
         NEW names, IsSequence(names)
  PROVE  InArray(WriteAll(w, Elements(names)), base, path, Len(names),
                 L \cup EngineLeaves(path, names))
<1> DEFINE n == Len(names)
           items == Elements(names)
           leaf(i) == <<Steps(Append(path, Decimal(i))), <<"string", names[i]>>>>
           M == [i \in 1..n |-> {leaf(i)}]
<1>1. n \in Nat /\ DOMAIN names = 1..n
  BY SequenceFacts
<1> HIDE DEF n
<1>2. /\ items = [i \in 1..n |-> items[i]]
      /\ \A i \in 1..n : items[i].key = NoKey /\ items[i].token = Quoted(<<names[i]>>)
  BY <1>1 DEF Elements
<1> HIDE DEF items
<1>3. Len(items) = n
  BY <1>1, <1>2, FunctionsAreSequences
<1>4. PICK f : Writes(f, w, items)
  BY <1>1, <1>3, WriteFold
<1>5. f[0] = w /\ f[n] = WriteAll(w, items) /\ \A i \in 1..n : f[i] = Write(f[i - 1], items[i])
  BY <1>3, <1>4 DEF Writes
<1>6. ASSUME NEW i \in 1..n  PROVE Means(items[i].token, <<"string", names[i]>>)
  <2> DEFINE one == <<names[i]>>
  <2>1. items[i].token = Quoted(one)
    BY <1>2
  <2>2. IsSequence(one) /\ <<"string">> \o one = <<"string", names[i]>>
    BY OneIsSequence, PairOf
  <2> HIDE DEF one
  <2> QED  BY <2>1, <2>2, StringMeans
<1>7. ASSUME NEW i \in 0..n, NEW H, i < n, InArray(f[i], base, path, i, H)
      PROVE  InArray(f[i + 1], base, path, i + 1, H \cup M[i + 1])
  <2> DEFINE k == i + 1
  <2>1. k \in 1..n /\ k - 1 = i
    BY <1>1, <1>7
  <2> HIDE DEF k
  <2>2. f[k] = Write(f[i], items[k])
    BY <1>5, <2>1
  <2>3. M[k] = {<<Steps(Append(path, Decimal(k))), <<"string", names[k]>>>>}
    BY <2>1
  <2>4. items[k].key = NoKey /\ Means(items[k].token, <<"string", names[k]>>)
    BY <1>2, <1>6, <2>1
  <2> HIDE DEF M
  <2>5. InArray(f[i], base, path, i, H)
    BY <1>7
  <2> DEFINE value == <<"string", names[k]>>
  <2> HIDE DEF value
  <2>6. M[k] = {<<Steps(Append(path, Decimal(k))), value>>} /\ Means(items[k].token, value)
    BY <2>3, <2>4 DEF value
  <2>7. InArray(Write(f[i], items[k]), base, path, i + 1,
                H \cup {<<Steps(Append(path, Decimal(i + 1))), value>>})
    BY <2>4, <2>5, <2>6, ElementIsWritten
  <2> QED  BY <2>2, <2>6, <2>7 DEF k
<1> HIDE DEF M
<1>8. InArray(f[n], base, path, n, ElementLeaves(L, M, n))
  BY <1>1, <1>5, <1>7, ElementsAreWritten
<1>9. ElementLeaves(L, M, n) = L \cup EngineLeaves(path, names)
  <2>1. UNION {M[j] : j \in 1..n} = EngineLeaves(path, names)
    BY <1>1 DEF M, EngineLeaves
  <2> QED  BY <2>1 DEF ElementLeaves
<1> QED  BY <1>5, <1>8, <1>9 DEF n, items

LEMMA ProcessKeyList ==
  /\ ToSet(ProcessKeys) = {"vram_bytes", "gpu_util_percent"}
  /\ IsKeyList(ProcessKeys, {"pid", "name"})
<1>1. DOMAIN ProcessKeys = 1..2
  BY DEF ProcessKeys
<1>2. ProcessKeys[1] = "vram_bytes" /\ ProcessKeys[2] = "gpu_util_percent"
  BY DEF ProcessKeys
<1>3. ToSet(ProcessKeys) = {ProcessKeys[1], ProcessKeys[2]}
  BY <1>1 DEF ToSet
<1> QED  BY <1>2, <1>3, ProcessKeyNames

LEMMA ProcessIsWritten ==
  ASSUME NEW w, NEW base, NEW path, NEW n \in Nat, NEW L, InArray(w, base, path, n, L),
         NEW p, IsProcess(p)
  PROVE  InArray(WriteProcess(w, p), base, path, n + 1,
                 L \cup ProcessLeaves(Append(path, Decimal(n + 1)), p))
<1> DEFINE here == Append(path, Decimal(n + 1))
           inside == Append(here, "engines")
           raised == Raised(p.engines)
           o1 == WriteNumber(BeginObject(w, NoKey), "pid", p.pid)
           o2 == WriteString(o1, "name", p.name)
           o3 == Numbers(o2, ProcessKeys, p)
           o4 == WriteAll(BeginArray(o3, "engines"), Elements(raised))
           o5 == EndArray(o4)
           L1 == L \cup {Scalar(Append(here, "pid"), p.pid)}
           L2 == L1 \cup {<<Steps(Append(here, "name")), <<"string">> \o p.name>>}
           L3 == L2 \cup {Scalar(Append(here, k), p[k]) : k \in ToSet(ProcessKeys)}
           L4 == L3 \cup EngineLeaves(inside, raised)
           L5 == L4 \cup MaybeEmpty(inside, Len(raised))
<1>1. PICK frame : /\ AtElement(frame, n + 1)
                   /\ InObject(BeginObject(w, NoKey), Append(base, frame), here, {}, L)
  BY ElementIsOpened
<1> DEFINE stack == Append(base, frame)
<1>2. Around(base, path)
  BY DEF InArray
<1>3. /\ IsNumber(p.pid) /\ IsSequence(p.name) /\ IsNumber(p.vram_bytes)
      /\ IsNumber(p.gpu_util_percent)
  BY DEF IsProcess
<1> HIDE DEF stack
<1>4. InObject(o1, stack, here, {"pid"}, L1)
  <2>1. "pid" \notin {} /\ "pid" # NoKey /\ {} \cup {"pid"} = {"pid"}
    BY DEF NoKey
  <2>2. InObject(BeginObject(w, NoKey), stack, here, {}, L)
    BY <1>1 DEF stack
  <2> QED  BY <1>3, <2>1, <2>2, NumberIsWritten
<1> HIDE DEF o1, L1
<1>5. InObject(o2, stack, here, {"pid", "name"}, L2)
  <2>1. "name" \notin {"pid"} /\ "name" # NoKey /\ {"pid"} \cup {"name"} = {"pid", "name"}
    BY DEF NoKey
  <2>2. InObject(o2, stack, here, {"pid"} \cup {"name"}, L2)
    BY <1>3, <1>4, <2>1, StringIsWritten
  <2> QED  BY <2>1, <2>2
<1> HIDE DEF o2, L2
<1> DEFINE names == {"pid", "name"} \cup ToSet(ProcessKeys)
<1>6. InObject(o3, stack, here, names, L3)
  <2>1. \A k \in ToSet(ProcessKeys) : IsNumber(p[k])
    BY <1>3, ProcessKeyList
  <2> QED  BY <1>5, <2>1, ProcessKeyList, NumbersAreWritten
<1>7. "engines" \notin names /\ "engines" # NoKey
  BY ProcessKeyList DEF NoKey
<1> HIDE DEF o3, L3, names
<1>8. PICK inner : /\ AtField(inner, names \cup {"engines"}, "engines")
                   /\ InArray(BeginArray(o3, "engines"), Append(stack, inner), inside, 0, L3)
  BY <1>6, <1>7, FieldIsOpened
<1>9. InArray(o4, Append(stack, inner), inside, Len(raised), L4)
  <2> HIDE DEF raised, inside
  <2>1. IsSequence(raised)
    BY RaisedIsSequence DEF raised
  <2> QED  BY <1>8, <2>1, EnginesAreWritten
<1>10. Around(stack, here)
  BY <1>6 DEF InObject
<1> HIDE DEF o4, L4
<1>11. InObject(o5, stack, here, names \cup {"engines"}, L5)
  <2> HIDE DEF raised
  <2> QED  BY <1>8, <1>9, <1>10, ArrayFieldIsClosed
<1> HIDE DEF o5, L5
<1>12. InArray(EndObject(o5), base, path, n + 1, L5)
  <2> DEFINE all == names \cup {"engines"}
  <2>1. all # {}
    OBVIOUS
  <2>2. InObject(o5, Append(base, frame), here, all, L5)
    BY <1>11 DEF stack
  <2> HIDE DEF all, here
  <2> QED  BY <1>1, <1>2, <2>1, <2>2, ObjectElementIsClosed
<1>13. WriteProcess(w, p) = EndObject(o5)
  BY DEF WriteProcess, o1, o2, o3, o4, o5
<1>14. L5 = L \cup ProcessLeaves(here, p)
  <2> HIDE DEF here
  <2>1. StringLeaves(here, [name |-> p.name]) =
          {<<Steps(Append(here, "name")), <<"string">> \o p.name>>}
    BY DEF StringLeaves
  <2>2. ScalarLeaves(here, [pid |-> p.pid, vram_bytes |-> p.vram_bytes,
                            gpu_util_percent |-> p.gpu_util_percent]) =
          {Scalar(Append(here, "pid"), p.pid)}
            \cup {Scalar(Append(here, k), p[k]) : k \in ToSet(ProcessKeys)}
    BY ProcessKeyList DEF ScalarLeaves
  <2>3. EngineLeaves(inside, raised) \cup MaybeEmpty(inside, Len(raised)) =
          IF raised = <<>> THEN Empty(inside, "[")
          ELSE {<<Steps(Append(inside, Decimal(i))), <<"string", raised[i]>>>>
                  : i \in DOMAIN raised}
    <3> HIDE DEF raised, inside
    <3>1. IsSequence(raised)
      BY RaisedIsSequence DEF raised
    <3>2. (raised = <<>> <=> Len(raised) = 0) /\ (Len(raised) = 0 => DOMAIN raised = {})
      BY <3>1, SequenceFacts
    <3>3. CASE raised = <<>>
      BY <3>2, <3>3 DEF EngineLeaves, MaybeEmpty
    <3>4. CASE raised # <<>>
      BY <3>2, <3>4 DEF EngineLeaves, MaybeEmpty
    <3> QED  BY <3>3, <3>4
  <2> DEFINE A == StringLeaves(here, [name |-> p.name])
             B == ScalarLeaves(here, [pid |-> p.pid, vram_bytes |-> p.vram_bytes,
                                      gpu_util_percent |-> p.gpu_util_percent])
             C == IF raised = <<>> THEN Empty(inside, "[")
                  ELSE {<<Steps(Append(inside, Decimal(i))), <<"string", raised[i]>>>>
                          : i \in DOMAIN raised}
  <2>4. ProcessLeaves(here, p) = A \cup B \cup C
    BY DEF ProcessLeaves
  <2> HIDE DEF A, B, C, raised, inside
  <2>5. /\ A = {<<Steps(Append(here, "name")), <<"string">> \o p.name>>}
        /\ B = {Scalar(Append(here, "pid"), p.pid)}
                 \cup {Scalar(Append(here, k), p[k]) : k \in ToSet(ProcessKeys)}
        /\ C = EngineLeaves(inside, raised) \cup MaybeEmpty(inside, Len(raised))
    BY <2>1, <2>2, <2>3 DEF A, B, C
  <2> QED  BY <2>4, <2>5 DEF L5, L4, L3, L2, L1
<1> QED  BY <1>12, <1>13, <1>14

(***************************************************************************)
(* A sample, a reading, and the document.                                  *)
(***************************************************************************)
ProcessesLeaves(path, processes) ==
  IF processes = <<>> THEN Empty(path, "[")
  ELSE UNION {ProcessLeaves(Append(path, Decimal(i)), processes[i]) : i \in DOMAIN processes}

LEMMA ProcessesAreWritten ==
  ASSUME NEW w, NEW base, NEW path, NEW names, NEW L, InObject(w, base, path, names, L),
         "processes" \notin names, NEW processes, IsSequence(processes),
         \A i \in DOMAIN processes : IsProcess(processes[i])
  PROVE  InObject(WriteProcesses(w, processes), base, path, names \cup {"processes"},
                  L \cup ProcessesLeaves(Append(path, "processes"), processes))
<1> DEFINE inside == Append(path, "processes")
           n == Len(processes)
           M == [i \in 1..n |-> ProcessLeaves(Append(inside, Decimal(i)), processes[i])]
           o == BeginArray(w, "processes")
<1>1. n \in Nat /\ DOMAIN processes = 1..n /\ (processes = <<>> <=> n = 0)
  BY SequenceFacts
<1>2. Around(base, path)
  BY DEF InObject
<1>3. "processes" # NoKey
  BY Zenon DEF NoKey
<1>4. PICK frame : /\ AtField(frame, names \cup {"processes"}, "processes")
                   /\ InArray(o, Append(base, frame), inside, 0, L)
  BY <1>3, FieldIsOpened
<1> DEFINE stack == Append(base, frame)
<1> HIDE DEF n, o, inside
<1>5. PICK f : WritesProcesses(f, o, processes)
  BY <1>1, ProcessFold DEF n
<1>6. /\ f[0] = o /\ f[n] = EachProcess(o, processes)
      /\ \A i \in 1..n : f[i] = WriteProcess(f[i - 1], processes[i])
  BY <1>5 DEF WritesProcesses, n
<1> HIDE DEF stack
<1>7. ASSUME NEW i \in 0..n, NEW H, i < n, InArray(f[i], stack, inside, i, H)
      PROVE  InArray(f[i + 1], stack, inside, i + 1, H \cup M[i + 1])
  <2> DEFINE k == i + 1
  <2>1. k \in 1..n /\ k - 1 = i /\ i \in Nat
    BY <1>1, <1>7
  <2> HIDE DEF k
  <2>2. f[k] = WriteProcess(f[i], processes[k]) /\ IsProcess(processes[k])
    BY <1>1, <1>6, <2>1
  <2>3. M[k] = ProcessLeaves(Append(inside, Decimal(k)), processes[k])
    BY <2>1
  <2> HIDE DEF M
  <2>4. InArray(f[i], stack, inside, i, H)
    BY <1>7
  <2>5. InArray(WriteProcess(f[i], processes[k]), stack, inside, i + 1,
                H \cup ProcessLeaves(Append(inside, Decimal(i + 1)), processes[k]))
    BY <2>1, <2>2, <2>4, ProcessIsWritten
  <2> QED  BY <2>2, <2>3, <2>5 DEF k
<1> HIDE DEF M
<1>8. InArray(f[n], stack, inside, n, ElementLeaves(L, M, n))
  <2>1. InArray(f[0], stack, inside, 0, L)
    BY <1>4, <1>6 DEF stack
  <2> QED  BY <1>1, <1>7, <2>1, ElementsAreWritten
<1> DEFINE H == ElementLeaves(L, M, n)
           e == EachProcess(o, processes)
<1> HIDE DEF H, e
<1>9. InObject(EndArray(e), base, path, names \cup {"processes"}, H \cup MaybeEmpty(inside, n))
  <2>1. InArray(e, Append(base, frame), Append(path, "processes"), n, H)
    BY <1>6, <1>8 DEF stack, inside, H, e
  <2> QED  BY <1>2, <1>4, <2>1, ArrayFieldIsClosed DEF inside
<1>10. H \cup MaybeEmpty(inside, n) = L \cup ProcessesLeaves(inside, processes)
  <2>1. H = L \cup UNION {ProcessLeaves(Append(inside, Decimal(i)), processes[i]) : i \in 1..n}
    BY DEF H, ElementLeaves, M
  <2>2. CASE n = 0
    BY <1>1, <2>1, <2>2 DEF MaybeEmpty, ProcessesLeaves
  <2>3. CASE n # 0
    BY <1>1, <2>1, <2>3 DEF MaybeEmpty, ProcessesLeaves
  <2> QED  BY <2>2, <2>3
<1>11. WriteProcesses(w, processes) = EndArray(e)
  BY DEF WriteProcesses, e, o
<1> QED  BY <1>9, <1>10, <1>11 DEF inside

LEMMA SampleIsWritten ==
  ASSUME NEW w, NEW base, NEW path, NEW names, NEW L, InObject(w, base, path, names, L),
         "sample" \notin names, NEW s, IsSample(s)
  PROVE  InObject(WriteSample(w, s), base, path, names \cup {"sample"},
                  L \cup SampleLeaves(Append(path, "sample"), s))
<1> DEFINE here == Append(path, "sample")
           flags == Append(here, "throttle")
           said == [k \in DOMAIN s.throttle |-> IF s.throttle[k] THEN "true" ELSE "false"]
           state == <<s.power_state>>
           o0 == BeginObject(w, "sample")
           o1 == WriteNumber(o0, "monotonic_ms", s.time)
           o2 == WriteString(o1, "power_state", state)
           o3 == Numbers(o2, MetricKeys, s.metrics)
           o4 == BeginObject(o3, "throttle")
           o5 == Booleans(o4, ThrottleNames, s.throttle)
           o6 == EndObject(o5)
           o7 == WriteProcesses(o6, s.processes)
           K2 == {"monotonic_ms", "power_state"}
           K3 == K2 \cup ToSet(MetricKeys)
           K6 == K3 \cup {"throttle"}
           K7 == K6 \cup {"processes"}
           L1 == L \cup {Scalar(Append(here, "monotonic_ms"), s.time)}
           L2 == L1 \cup {<<Steps(Append(here, "power_state")), <<"string">> \o state>>}
           L3 == L2 \cup ScalarLeaves(here, s.metrics)
           L5 == L3 \cup ScalarLeaves(flags, said)
           L7 == L5 \cup ProcessesLeaves(Append(here, "processes"), s.processes)
<1>1. /\ IsNumber(s.time) /\ HasNumbers(s.metrics, MetricKeys)
      /\ s.throttle \in [ToSet(ThrottleNames) -> BOOLEAN]
      /\ IsSequence(s.processes) /\ \A i \in DOMAIN s.processes : IsProcess(s.processes[i])
  BY DEF IsSample
<1>2. /\ "sample" # NoKey /\ "monotonic_ms" # NoKey /\ "power_state" # NoKey
      /\ "throttle" # NoKey /\ "processes" # NoKey
  BY Zenon DEF NoKey
<1>3. Around(base, path)
  BY DEF InObject
<1>4. IsSequence(state)
  BY OneIsSequence
<1> HIDE DEF state, said
<1>5. PICK frame : /\ AtField(frame, names \cup {"sample"}, "sample")
                   /\ InObject(o0, Append(base, frame), here, {}, L)
  BY <1>2, FieldIsOpened
<1> DEFINE stack == Append(base, frame)
<1> HIDE DEF o0, here
<1>6. InObject(o1, stack, here, {"monotonic_ms"}, L1)
  <2>1. "monotonic_ms" \notin {} /\ {} \cup {"monotonic_ms"} = {"monotonic_ms"}
    OBVIOUS
  <2>2. InObject(o0, stack, here, {}, L)
    BY <1>5
  <2> HIDE DEF stack
  <2> QED  BY <1>1, <1>2, <2>1, <2>2, NumberIsWritten
<1> HIDE DEF stack, o1, L1
<1>7. InObject(o2, stack, here, K2, L2)
  <2>1. "power_state" \notin {"monotonic_ms"} /\ {"monotonic_ms"} \cup {"power_state"} = K2
    OBVIOUS
  <2>2. InObject(o2, stack, here, {"monotonic_ms"} \cup {"power_state"}, L2)
    BY <1>2, <1>4, <1>6, <2>1, StringIsWritten
  <2> QED  BY <2>1, <2>2
<1> HIDE DEF o2, L2
<1>8. InObject(o3, stack, here, K3, L3)
  BY <1>1, <1>7, MetricKeyList, NumberFieldsAreWritten
<1>9. "throttle" \notin K3 /\ "processes" \notin K6
  BY MetricKeyList
<1> HIDE DEF o3, L3, K3
<1>10. PICK inner : /\ AtField(inner, K6, "throttle")
                    /\ InObject(o4, Append(stack, inner), flags, {}, L3)
  BY <1>2, <1>8, <1>9, FieldIsOpened
<1>11. Around(stack, here)
  BY <1>8 DEF InObject
<1> HIDE DEF o4, flags
<1>12. InObject(o5, Append(stack, inner), flags, {} \cup ToSet(ThrottleNames), L5)
  BY <1>1, <1>10, ThrottleKeyList, BooleansAreWritten DEF said
<1>13. {} \cup ToSet(ThrottleNames) # {}
  BY DEF ToSet, ThrottleNames
<1> HIDE DEF o5, L5, K6
<1>14. InObject(o6, stack, here, K6, L5)
  <2> DEFINE all == {} \cup ToSet(ThrottleNames)
  <2> HIDE DEF all
  <2>1. all # {} /\ InObject(o5, Append(stack, inner), flags, all, L5)
    BY <1>12, <1>13 DEF all
  <2> QED  BY <1>10, <1>11, <2>1, ObjectFieldIsClosed
<1> HIDE DEF o6
<1>15. InObject(o7, stack, here, K7, L7)
  BY <1>1, <1>9, <1>14, ProcessesAreWritten
<1> HIDE DEF o7, L7
<1>16. InObject(EndObject(o7), base, path, names \cup {"sample"}, L7)
  <2>1. K7 # {}
    OBVIOUS
  <2> HIDE DEF K7
  <2>2. InObject(o7, Append(base, frame), here, K7, L7)
    BY <1>15 DEF stack
  <2> QED  BY <1>3, <1>5, <2>1, <2>2, ObjectFieldIsClosed
<1>17. WriteSample(w, s) = EndObject(o7)
  BY DEF WriteSample, o7, o6, o5, o4, o3, o2, o1, o0, state
<1>18. L7 = L \cup SampleLeaves(here, s)
  <2> DEFINE A == StringLeaves(here, [power_state |-> state])
             B == ScalarLeaves(here, [monotonic_ms |-> s.time])
             C == ScalarLeaves(here, s.metrics)
             D == ScalarLeaves(flags, said)
             E == ProcessesLeaves(Append(here, "processes"), s.processes)
  <2>1. A = {<<Steps(Append(here, "power_state")), <<"string">> \o state>>}
    BY DEF StringLeaves
  <2>2. B = {Scalar(Append(here, "monotonic_ms"), s.time)}
    BY DEF ScalarLeaves
  <2>3. SampleLeaves(here, s) = A \cup B \cup C \cup D \cup E
    BY DEF SampleLeaves, ProcessesLeaves, state, flags, said
  <2>4. L7 = L \cup B \cup A \cup C \cup D \cup E
    <3> HIDE DEF A, B, C, D, E
    <3> QED  BY <2>1, <2>2 DEF L7, L5, L3, L2, L1, C, D, E
  <2> HIDE DEF A, B, C, D, E
  <2> QED  BY <2>3, <2>4
<1> QED  BY <1>16, <1>17, <1>18 DEF here

LEMMA ReadingIsWritten ==
  ASSUME NEW w, NEW base, NEW path, NEW n \in Nat, NEW L, InArray(w, base, path, n, L),
         NEW r, IsReading(r)
  PROVE  InArray(WriteReading(w, r), base, path, n + 1,
                 L \cup ReadingLeaves(Append(path, Decimal(n + 1)), r))
<1> DEFINE here == Append(path, Decimal(n + 1))
           o0 == BeginObject(w, NoKey)
           o1 == Strings(o0, TextKeys, r.texts)
           o2 == Numbers(o1, LimitKeys, r.limits)
           o3 == WriteSample(o2, r.sample)
           K1 == ToSet(TextKeys)
           K2 == K1 \cup ToSet(LimitKeys)
           K3 == K2 \cup {"sample"}
           L1 == L \cup StringLeaves(here, r.texts)
           L2 == L1 \cup ScalarLeaves(here, r.limits)
           L3 == L2 \cup SampleLeaves(Append(here, "sample"), r.sample)
<1>1. HasTexts(r.texts, TextKeys) /\ HasNumbers(r.limits, LimitKeys) /\ IsSample(r.sample)
  BY DEF IsReading
<1>2. PICK frame : AtElement(frame, n + 1) /\ InObject(o0, Append(base, frame), here, {}, L)
  BY ElementIsOpened
<1>3. Around(base, path)
  BY DEF InArray
<1> DEFINE stack == Append(base, frame)
<1>4. InObject(o0, stack, here, {}, L)
  BY <1>2
<1> HIDE DEF o0, here, stack
<1>5. InObject(o1, stack, here, K1, L1)
  <2>1. {} \cup K1 = K1
    OBVIOUS
  <2>2. InObject(o1, stack, here, {} \cup K1, L1)
    BY <1>1, <1>4, TextKeyList, StringsAreWritten
  <2> QED  BY <2>1, <2>2
<1> HIDE DEF o1, L1
<1>6. InObject(o2, stack, here, K2, L2)
  BY <1>1, <1>5, LimitKeyList, NumberFieldsAreWritten
<1>7. "sample" \notin K2
  BY TextKeyList, LimitKeyList
<1> HIDE DEF o2, L2, K2
<1>8. InObject(o3, stack, here, K3, L3)
  BY <1>1, <1>6, <1>7, SampleIsWritten
<1> HIDE DEF o3
<1>9. InArray(EndObject(o3), base, path, n + 1, L3)
  <2>1. K3 # {}
    OBVIOUS
  <2>2. InObject(o3, Append(base, frame), here, K3, L3)
    BY <1>8 DEF stack
  <2> HIDE DEF K3, L3
  <2> QED  BY <1>2, <1>3, <2>1, <2>2, ObjectElementIsClosed
<1>10. WriteReading(w, r) = EndObject(o3)
  BY DEF WriteReading, o3, o2, o1, o0
<1>11. L3 = L \cup ReadingLeaves(here, r)
  BY DEF ReadingLeaves, L2, L1
<1> QED  BY <1>9, <1>10, <1>11 DEF here

\* What to_json() prints of any readings is one value, with every leaf it should have.
LEMMA DumpIsWritten ==
  ASSUME NEW readingList, IsSequence(readingList),
         \A i \in DOMAIN readingList : IsReading(readingList[i]),
         NEW about, HasTexts(about, HostKeys)
  PROVE  Leaves(ToJson(readingList, about)) = {DumpLeaves(readingList, about)}
<1> DEFINE n == Len(readingList)
           inside == Append(<<>>, "devices")
           M == [i \in 1..n |-> ReadingLeaves(Append(inside, Decimal(i)), readingList[i])]
           o0 == BeginObject(NewWriter, NoKey)
           o1 == Strings(o0, HostKeys, about)
           o2 == BeginArray(o1, "devices")
           o3 == EachReading(o2, readingList)
           K1 == ToSet(HostKeys)
           K2 == K1 \cup {"devices"}
           L1 == StringLeaves(<<>>, about)
<1>1. n \in Nat /\ DOMAIN readingList = 1..n /\ (readingList = <<>> <=> n = 0)
  BY SequenceFacts
<1>2. "devices" # NoKey
  BY Zenon DEF NoKey
<1>3. Around(<<>>, <<>>)
  <2>1. StepsOf(<<>>) = Steps(<<>>)
    BY DEF StepsOf, Steps
  <2> QED  BY <2>1, EmptyIsSequence DEF Around
<1>4. InObject(o0, <<>>, <<>>, {}, {})
  BY <1>3, DocumentIsOpened, ObjectStarts
<1> HIDE DEF o0
<1>5. InObject(o1, <<>>, <<>>, K1, L1)
  <2>1. {} \cup K1 = K1 /\ {} \cup L1 = L1
    OBVIOUS
  <2>2. InObject(o1, <<>>, <<>>, {} \cup K1, {} \cup L1)
    BY <1>4, HostKeyList, StringsAreWritten
  <2> QED  BY <2>1, <2>2
<1> HIDE DEF o1, L1, K1, n
<1>6. PICK frame : /\ AtField(frame, K2, "devices")
                   /\ InArray(o2, Append(<<>>, frame), inside, 0, L1)
  BY <1>2, <1>5, HostKeyList, FieldIsOpened DEF K1
<1> DEFINE stack == Append(<<>>, frame)
<1>7. InArray(o2, stack, inside, 0, L1)
  BY <1>6
<1> HIDE DEF o2, inside, stack
<1>8. PICK f : WritesReadings(f, o2, readingList)
  BY <1>1, ReadingFold DEF n
<1>9. /\ f[0] = o2 /\ f[n] = o3
      /\ \A i \in 1..n : f[i] = WriteReading(f[i - 1], readingList[i])
  BY <1>8 DEF WritesReadings, n
<1>10. ASSUME NEW i \in 0..n, NEW H, i < n, InArray(f[i], stack, inside, i, H)
       PROVE  InArray(f[i + 1], stack, inside, i + 1, H \cup M[i + 1])
  <2> DEFINE k == i + 1
  <2>1. k \in 1..n /\ k - 1 = i /\ i \in Nat
    BY <1>1, <1>10
  <2> HIDE DEF k
  <2>2. f[k] = WriteReading(f[i], readingList[k]) /\ IsReading(readingList[k])
    BY <1>1, <1>9, <2>1
  <2>3. M[k] = ReadingLeaves(Append(inside, Decimal(k)), readingList[k])
    BY <2>1
  <2> HIDE DEF M
  <2>4. InArray(f[i], stack, inside, i, H)
    BY <1>10
  <2>5. InArray(WriteReading(f[i], readingList[k]), stack, inside, i + 1,
                H \cup ReadingLeaves(Append(inside, Decimal(i + 1)), readingList[k]))
    BY <2>1, <2>2, <2>4, ReadingIsWritten
  <2> QED  BY <2>2, <2>3, <2>5 DEF k
<1> HIDE DEF M, o3
<1>11. InArray(f[n], stack, inside, n, ElementLeaves(L1, M, n))
  BY <1>1, <1>7, <1>9, <1>10, ElementsAreWritten
<1> DEFINE H == ElementLeaves(L1, M, n)
           all == H \cup MaybeEmpty(inside, n)
<1> HIDE DEF H
<1>12. InObject(EndArray(o3), <<>>, <<>>, K2, all)
  <2>1. InArray(o3, Append(<<>>, frame), Append(<<>>, "devices"), n, H)
    BY <1>9, <1>11 DEF stack, inside, H
  <2> QED  BY <1>3, <1>6, <2>1, ArrayFieldIsClosed DEF inside
<1> HIDE DEF all
<1>13. Leaves(EndObject(EndArray(o3)).out) = {all}
  <2>1. K2 # {}
    OBVIOUS
  <2>2. PICK top : Writing(EndArray(o3), <<>>, top, all) /\ top.kind = "{" /\ top.count # 0
    BY <1>12, <2>1 DEF InObject
  <2> QED  BY <2>2, DocumentIsClosed
<1>14. ToJson(readingList, about) = EndObject(EndArray(o3)).out
  BY DEF ToJson, o3, o2, o1, o0
<1>15. all = DumpLeaves(readingList, about)
  <2>1. H = L1 \cup UNION {ReadingLeaves(Append(inside, Decimal(i)), readingList[i]) : i \in 1..n}
    BY DEF H, ElementLeaves, M
  <2>2. inside = <<"devices">> /\ \A x : Append(inside, x) = <<"devices", x>>
    <3>1. inside = <<"devices">>
      BY DEF inside
    <3>2. ASSUME NEW x  PROVE Append(<<"devices">>, x) = <<"devices", x>>
      <4> DEFINE one == <<"devices">>
      <4>1. one \o <<x>> = Append(one, x)
        BY OneIsSequence, AppendedOne
      <4>2. one \o <<x>> = <<"devices", x>>
        BY PairOf
      <4> QED  BY <4>1, <4>2
    <3> QED  BY <3>1, <3>2
  <2> DEFINE devs == UNION {ReadingLeaves(<<"devices", Decimal(i)>>, readingList[i]) : i \in 1..n}
  <2>3. UNION {ReadingLeaves(Append(inside, Decimal(i)), readingList[i]) : i \in 1..n} = devs
    BY <2>2
  <2>4. DumpLeaves(readingList, about) =
          L1 \cup IF readingList = <<>> THEN Empty(<<"devices">>, "[") ELSE devs
    BY <1>1 DEF DumpLeaves, L1
  <2>5. n = 0 => devs = {}
    BY <1>1
  <2> DEFINE none == Empty(<<"devices">>, "[")
  <2>6. none = Empty(inside, "[")
    BY <2>2
  <2>7. H = L1 \cup devs
    BY <2>1, <2>3
  <2> HIDE DEF devs, none
  <2>8. DumpLeaves(readingList, about) = L1 \cup IF readingList = <<>> THEN none ELSE devs
    BY <2>4 DEF none
  <2>9. CASE n = 0
    BY <1>1, <2>5, <2>6, <2>7, <2>8, <2>9 DEF all, MaybeEmpty
  <2>10. CASE n # 0
    BY <1>1, <2>7, <2>8, <2>10 DEF all, MaybeEmpty
  <2> QED  BY <2>9, <2>10
<1> QED  BY <1>13, <1>14, <1>15

(***************************************************************************)
(* What the program prints is what to_json() may be given.                 *)
(***************************************************************************)
LEMMA AsleepIsSample == IsSample(Asleep)
<1>1. IsNumber("0") /\ IsNumber(Unset)
  BY DEF IsNumber, Unset, Punctuation
<1> DEFINE metrics == [k \in ToSet(MetricKeys) |-> Unset]
           throttle == [k \in ToSet(ThrottleNames) |-> FALSE]
<1>2. HasNumbers(metrics, MetricKeys)
  BY <1>1 DEF HasNumbers
<1>3. throttle \in [ToSet(ThrottleNames) -> BOOLEAN]
  OBVIOUS
<1>4. IsSequence(<<>>) /\ \A i \in DOMAIN <<>> : IsProcess(<<>>[i])
  BY EmptyIsSequence
<1> HIDE DEF metrics, throttle
<1>5. /\ Asleep.time = "0" /\ Asleep.metrics = metrics /\ Asleep.throttle = throttle
      /\ Asleep.processes = <<>>
  BY DEF Asleep, metrics, throttle
<1> QED  BY <1>1, <1>2, <1>3, <1>4, <1>5 DEF IsSample

LEMMA DeviceReadingIsReading ==
  ASSUME NEW r, NEW info \in Infos, NEW sample \in Samples
  PROVE  IsReading(DeviceReading(r, info, sample))
<1> DEFINE keys == ToSet(TextKeys)
           address == <<Decimal(r.key)>>
           old == info.texts
           new == [old EXCEPT !.pci_bus_id = address]
<1>1. HasTexts(old, TextKeys) /\ HasNumbers(info.limits, LimitKeys) /\ IsSample(sample)
  BY ContentsAssumption
<1>2. old = [k \in keys |-> old[k]] /\ \A k \in keys : IsSequence(old[k])
  BY <1>1 DEF HasTexts
<1>3. IsSequence(address)
  BY OneIsSequence
<1> HIDE DEF keys, address, old
<1>4. DOMAIN old = keys /\ DOMAIN new = keys
  BY <1>2
<1>5. ASSUME NEW k \in keys  PROVE IsSequence(new[k])
  <2>1. CASE k = "pci_bus_id"
    BY <1>2, <1>3, <2>1
  <2>2. CASE k # "pci_bus_id"
    BY <1>2, <2>2
  <2> QED  BY <2>1, <2>2
<1>6. new = [k \in keys |-> new[k]]
  BY <1>2
<1> HIDE DEF new
<1>7. HasTexts(new, TextKeys)
  BY <1>5, <1>6 DEF HasTexts, keys
<1> DEFINE it == DeviceReading(r, info, sample)
<1>8. /\ it.texts = new /\ it.limits = info.limits
      /\ it.sample = IF r.polled THEN sample ELSE Asleep
  BY DEF DeviceReading, new, old, address
<1> HIDE DEF it
<1> QED  BY <1>1, <1>7, <1>8, AsleepIsSample DEF IsReading, it

PrintedInv == IsSequence(printed) /\ \A i \in DOMAIN printed : IsReading(printed[i])

LEMMA DumpPrintsReadings ==
  ASSUME TypeOK, PrintDump
  PROVE  PrintedInv'
<1> DEFINE n == Len(readings)
<1>1. n \in Nat /\ DOMAIN readings = 1..n
  BY DEF TypeOK
<1>2. PICK info \in Infos, sample \in Samples :
        printed' = [i \in DOMAIN readings |-> DeviceReading(readings[i], info, sample)]
  BY DEF PrintDump
<1> HIDE DEF n
<1>3. /\ printed' = [i \in 1..n |-> printed'[i]] /\ DOMAIN printed' = 1..n
      /\ \A i \in 1..n : printed'[i] = DeviceReading(readings[i], info, sample)
  BY <1>1, <1>2
<1>4. IsSequence(printed')
  <2> DEFINE s == printed'
  <2>1. s = [i \in 1..n |-> s[i]]
    BY <1>3
  <2> HIDE DEF s
  <2>2. IsSequence(s)
    BY <1>1, <2>1, FunctionsAreSequences
  <2> QED  BY <2>2 DEF s
<1>5. \A i \in 1..n : IsReading(printed'[i])
  BY <1>3, DeviceReadingIsReading
<1> QED  BY <1>3, <1>4, <1>5 DEF PrintedInv

LEMMA NextPrintedInv == TypeOK /\ PrintedInv /\ [ProgramNext]_progVars => PrintedInv'
<1> SUFFICES ASSUME TypeOK, PrintedInv, [ProgramNext]_progVars  PROVE PrintedInv'
  OBVIOUS
<1>1. PrintDump \/ UNCHANGED printed
  BY DEF ProgramNext, MainStep, Parse, CallProbe, CallPrimingPass, Pause, Look, CallPass,
         PrintList, CallStep, Watch, MachineStep, progVars, own
<1>2. CASE UNCHANGED printed
  BY <1>2 DEF PrintedInv
<1> QED  BY <1>1, <1>2, DumpPrintsReadings

\* Every dump reads back: however many devices, whichever texts the host, the devices and
\* their processes are named by and whichever metrics are unset, what to_json() prints is
\* one value, in which a reader finds each field under its path, once, and nothing else.
THEOREM DumpsReadBack == ProgramSpec => []DumpReadsBack
<1>1. ProgramInit => PrintedInv
  <2>1. DOMAIN <<>> = {}
    OBVIOUS
  <2> QED  BY <2>1, EmptyIsSequence DEF ProgramInit, PrintedInv
<1>2. TypeOK /\ PrintedInv /\ [ProgramNext]_progVars => PrintedInv'
  BY NextPrintedInv
<1>3. PrintedInv => DumpReadsBack
  BY ContentsAssumption, DumpIsWritten DEF PrintedInv, DumpReadsBack
<1>4. ProgramSpec => []TypeOK
  <2>1. IInv => TypeOK
    BY DEF IInv
  <2> QED  BY <2>1, ProgramKeepsRegistry, PTL
<1> QED  BY <1>1, <1>2, <1>3, <1>4, PTL DEF ProgramSpec
================================================================================
