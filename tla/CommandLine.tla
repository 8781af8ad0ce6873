------------------------------ MODULE CommandLine ------------------------------
(***************************************************************************)
(* gtop's command line: parse_arguments() of src/src/core/config.cpp, word *)
(* by word after argv[0], and what a command line means, said of the whole *)
(* line at once.                                                           *)
(***************************************************************************)
EXTENDS Integers, Sequences, FiniteSetsExt

CONSTANT
  Numeral  \* Numeral[t]: the number to_integer() reads from the text t, where it does

ASSUME NumeralAssumption == Numeral \in [DOMAIN Numeral -> Int]

\* A word is what stands before its first '=' and what stands after, or NoValue.
NoValue == "no ="
Word(name, value) == [name |-> name, value |-> value]

kMinInterval == 50
kMaxInterval == 60000
kDefaultInterval == 1000

HelpFlags == {"-h", "--help"}
VersionFlags == {"-V", "--version"}
DumpFlags == {"-j", "--dump-json"}
IntervalFlags == {"-i", "--interval"}

\* The word as a whole. One with a '=' is no number.
TextOf(w) == IF w.value = NoValue THEN w.name ELSE "name=value"

\* What is wrong with a text given as an interval, if anything is.
IntervalError(text) ==
  IF text \notin DOMAIN Numeral THEN "not a number"
  ELSE IF Numeral[text] \notin kMinInterval..kMaxInterval THEN "out of range"
  ELSE "none"

(***************************************************************************)
(* The loop. wants: the word before was an --interval without its value;   *)
(* returned: parse_arguments() has returned before the end of argv.        *)
(***************************************************************************)
Parsing == [mode |-> "run", interval |-> kDefaultInterval, error |-> "none",
            wants |-> FALSE, returned |-> FALSE]

Rejected(r, error) == [r EXCEPT !.error = error, !.returned = TRUE]

TakeValue(r, text) ==
  IF IntervalError(text) # "none" THEN Rejected(r, IntervalError(text))
  ELSE [r EXCEPT !.interval = Numeral[text], !.wants = FALSE]

TakeOption(r, w) ==
  IF w.name \in HelpFlags THEN [r EXCEPT !.mode = "help", !.returned = TRUE]
  ELSE IF w.name \in VersionFlags THEN [r EXCEPT !.mode = "version", !.returned = TRUE]
  ELSE IF w.name \in DumpFlags THEN [r EXCEPT !.mode = "dump"]
  ELSE IF w.name \notin IntervalFlags THEN Rejected(r, "unrecognised")
  ELSE IF w.value = NoValue THEN [r EXCEPT !.wants = TRUE]
  ELSE TakeValue(r, w.value)

\* Mutated: i is not advanced, and the value is looked at again as an option.
TakeNextAgain(r, w) == TakeOption(TakeValue(r, TextOf(w)), w)

\* argv[++i].
TakeNext(r, w) == TakeValue(r, TextOf(w))

TakeWord(r, w) ==
  IF r.returned THEN r ELSE IF r.wants THEN TakeNext(r, w) ELSE TakeOption(r, w)

ParseArguments(argv) ==
  LET after[i \in 0..Len(argv)] == IF i = 0 THEN Parsing ELSE TakeWord(after[i - 1], argv[i])
      end == after[Len(argv)]
      r == IF end.wants /\ ~end.returned THEN Rejected(end, "needs a value") ELSE end
  IN [mode |-> r.mode, interval |-> r.interval, error |-> r.error]

(***************************************************************************)
(* The meaning of a command line.                                          *)
(***************************************************************************)
WantsNext(w) == w.name \in IntervalFlags /\ w.value = NoValue

\* The words that are the value of the option before them; the others are options.
Options(argv) ==
  LET isValue[i \in 1..Len(argv)] == i > 1 /\ WantsNext(argv[i - 1]) /\ ~isValue[i - 1]
  IN {i \in DOMAIN argv : ~isValue[i]}

GivenInterval(argv, i) ==
  IF argv[i].value # NoValue THEN argv[i].value ELSE TextOf(argv[i + 1])

ErrorAt(argv, i) ==
  IF argv[i].name \in HelpFlags \cup VersionFlags \cup DumpFlags THEN "none"
  ELSE IF argv[i].name \notin IntervalFlags THEN "unrecognised"
  ELSE IF WantsNext(argv[i]) /\ i = Len(argv) THEN "needs a value"
  ELSE IntervalError(GivenInterval(argv, i))

\* The first option that asks for help or the version, or cannot be obeyed, decides;
\* without one, the last --interval counts and any --dump-json does.
Obeys(argv, config) ==
  LET ends == {i \in Options(argv) : \/ argv[i].name \in HelpFlags \cup VersionFlags
                                     \/ ErrorAt(argv, i) # "none"}
      first == IF ends = {} THEN Len(argv) + 1 ELSE Min(ends)
      obeyed == {i \in Options(argv) : i < first}
      intervals == {i \in obeyed : argv[i].name \in IntervalFlags}
  IN IF ends # {} /\ ErrorAt(argv, first) # "none"
     THEN config.error = ErrorAt(argv, first)
     ELSE /\ config.error = "none"
          /\ config.mode = IF ends # {}
                           THEN IF argv[first].name \in HelpFlags THEN "help" ELSE "version"
                           ELSE IF \E i \in obeyed : argv[i].name \in DumpFlags
                           THEN "dump" ELSE "run"
          /\ config.interval = IF intervals = {} THEN kDefaultInterval
                               ELSE Numeral[GivenInterval(argv, Max(intervals))]
================================================================================
