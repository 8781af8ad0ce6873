------------------------------- MODULE JsonReader -------------------------------
(***************************************************************************)
(* A reader of JSON (RFC 8259) for the texts of JsonText: what a script    *)
(* that parses a dump finds in it.  A document is the set of its leaves, a *)
(* leaf being the path to a scalar (or to an empty container) and what     *)
(* stands there.                                                           *)
(***************************************************************************)
EXTENDS JsonText, FiniteSets, FiniteSetsExt, TLC

\* A number as text; the index of an element.
Decimal(n) == ToString(n)

(***************************************************************************)
(* Tokens to texts. digits are those of a \u that is being read; the mode  *)
(* is "wrong" when the characters are no string.                           *)
(***************************************************************************)
NoText == [mode |-> "before", text |-> <<>>, digits |-> <<>>]
NotAllowedRaw == DOMAIN ControlCode \cup {"\n", "\r", "\t"}

SimpleEscapes == {"\"", "\\", "n", "r", "t"}
Meaning(letter) ==
  IF letter = "n" THEN "\n" ELSE IF letter = "r" THEN "\r" ELSE IF letter = "t" THEN "\t"
  ELSE letter

\* The control characters that \u and four digits may stand for.
CodePoint(digits) ==
  {c \in DOMAIN ControlCode :
     digits = <<"0", "0", kHexDigits[(ControlCode[c] \div 16) + 1],
                kHexDigits[(ControlCode[c] % 16) + 1]>>}

Enter(d, mode) == [d EXCEPT !.mode = mode]
Got(d, c) == [mode |-> "inside", text |-> Append(d.text, c), digits |-> <<>>]

TakeRaw(d, c) ==
  IF c = "\"" THEN Enter(d, "closed")
  ELSE IF c = "\\" THEN Enter(d, "escape")
  ELSE IF c \in NotAllowedRaw THEN Enter(d, "wrong") ELSE Got(d, c)

TakeLetter(d, c) ==
  IF c \in SimpleEscapes THEN Got(d, Meaning(c))
  ELSE IF c = "u" THEN Enter(d, "digits") ELSE Enter(d, "wrong")

TakeDigit(d, c) ==
  LET digits == Append(d.digits, c)
  IN IF Len(digits) < 4 THEN [d EXCEPT !.digits = digits]
     ELSE IF CodePoint(digits) = {} THEN Enter(d, "wrong")
     ELSE Got(d, CHOOSE point \in CodePoint(digits) : TRUE)

TakeCharacter(d, c) ==
  IF d.mode = "before" /\ c = "\"" THEN Enter(d, "inside")
  ELSE IF d.mode = "inside" THEN TakeRaw(d, c)
  ELSE IF d.mode = "escape" THEN TakeLetter(d, c)
  ELSE IF d.mode = "digits" THEN TakeDigit(d, c)
  ELSE Enter(d, "wrong")

(***************************************************************************)
(* Tokens to leaves. expect is what may come next; a frame of the stack is *)
(* an open container with its step (key or index) and the keys seen.       *)
(***************************************************************************)
Reader(expect, stack, leaves, ok) ==
  [expect |-> expect, stack |-> stack, leaves |-> leaves, ok |-> ok]
Frame(kind, step, count, keys) ==
  [kind |-> kind, step |-> step, count |-> count, keys |-> keys]
ReadingText == Reader({"value"}, <<>>, {}, TRUE)

Path(r) == [i \in DOMAIN r.stack |-> r.stack[i].step]
AfterValue(stack) == IF stack = <<>> THEN {} ELSE {"comma", "close"}
Expecting(r, expect) == Reader(expect, r.stack, r.leaves, r.ok)
Bad(r) == Reader(r.expect, r.stack, r.leaves, FALSE)

\* The next element of an array has the next index.
NextIndex(frame) ==
  Frame(frame.kind, <<Decimal(frame.count + 1)>>, frame.count + 1, frame.keys)

EnterElement(r) ==
  IF r.stack = <<>> \/ Last(r.stack).kind = "{" THEN r
  ELSE Reader(r.expect, Append(Front(r.stack), NextIndex(Last(r.stack))), r.leaves, r.ok)

LeafAt(r, kind, text) ==
  Reader(AfterValue(r.stack), r.stack, r.leaves \cup {<<Path(r), <<kind>> \o text>>}, r.ok)

OpenContainer(r, bracket) ==
  Reader({"close", IF bracket = "{" THEN "key" ELSE "value"},
         Append(r.stack, Frame(bracket, <<>>, 0, {})), r.leaves, r.ok)

CloseContainer(r, bracket) ==
  LET frame == Last(r.stack)
      rest == Front(r.stack)
      outer == Reader(AfterValue(rest), rest, r.leaves, r.ok)
  IN IF frame.kind # bracket THEN Bad(r)
     ELSE IF frame.count = 0 THEN LeafAt(outer, "mark", <<bracket>>) ELSE outer

TakeKey(r, key) ==
  LET frame == Last(r.stack) IN
  IF key \in frame.keys THEN Bad(r)
  ELSE Reader({"colon"}, Append(Front(r.stack), Frame(frame.kind, key, frame.count + 1,
                                                      frame.keys \cup {key})),
              r.leaves, r.ok)

\* What must be expected where a mark stands.
Needed(mark) ==
  IF mark = ":" THEN "colon" ELSE IF mark = "," THEN "comma"
  ELSE IF mark \in {"}", "]"} THEN "close" ELSE "value"

AfterMark(r, mark) ==
  IF mark = ":" THEN Expecting(r, {"value"})
  ELSE IF mark = "," THEN Expecting(r, {IF Last(r.stack).kind = "{" THEN "key" ELSE "value"})
  ELSE IF mark = "}" THEN CloseContainer(r, "{")
  ELSE IF mark = "]" THEN CloseContainer(r, "[")
  ELSE IF mark \in {"{", "["} THEN OpenContainer(EnterElement(r), mark)
  ELSE LeafAt(EnterElement(r), "mark", <<mark>>)

TakeMark(r, mark) == IF Needed(mark) \in r.expect THEN AfterMark(r, mark) ELSE Bad(r)

TakeString(r, text) ==
  IF "key" \in r.expect THEN TakeKey(r, text)
  ELSE IF "value" \in r.expect THEN LeafAt(EnterElement(r), "string", text) ELSE Bad(r)

Decoded(token) == Fold(TakeCharacter, NoText, token)

Take(r, token) ==
  IF ~r.ok THEN r
  ELSE IF token[1] # "\"" THEN TakeMark(r, token[1])
  ELSE LET string == Decoded(token)
       IN IF string.mode = "closed" THEN TakeString(r, string.text) ELSE Bad(r)

ReadAll(text) == Fold(Take, ReadingText, text)

\* The leaves of a text, if it is one JSON value in which no key is given twice.
Leaves(text) ==
  LET read == ReadAll(text)
  IN IF read.ok /\ read.stack = <<>> /\ read.expect = {} THEN {read.leaves} ELSE {}

(***************************************************************************)
(* The leaves a document should have: every field of every reading, under  *)
(* its own name, null if it is unset.                                      *)
(***************************************************************************)
Steps(names) == [i \in DOMAIN names |-> <<names[i]>>]
StringLeaves(path, texts) ==
  {<<Steps(Append(path, k)), <<"string">> \o texts[k]>> : k \in DOMAIN texts}
Scalar(path, value) == <<Steps(path), <<"mark", IF value = Unset THEN "null" ELSE value>>>>
ScalarLeaves(path, values) == {Scalar(Append(path, k), values[k]) : k \in DOMAIN values}
Empty(path, bracket) == {<<Steps(path), <<"mark", bracket>>>>}

ProcessLeaves(path, p) ==
  LET raised == Raised(p.engines)
      engines == Append(path, "engines")
  IN StringLeaves(path, [name |-> p.name])
     \cup ScalarLeaves(path, [pid |-> p.pid, vram_bytes |-> p.vram_bytes,
                         gpu_util_percent |-> p.gpu_util_percent])
     \cup IF raised = <<>> THEN Empty(engines, "[")
          ELSE {<<Steps(Append(engines, Decimal(i))), <<"string", raised[i]>>>>
                  : i \in DOMAIN raised}

SampleLeaves(path, s) ==
  LET processes == Append(path, "processes") IN
  StringLeaves(path, [power_state |-> <<s.power_state>>])
  \cup ScalarLeaves(path, [monotonic_ms |-> s.time]) \cup ScalarLeaves(path, s.metrics)
  \cup ScalarLeaves(Append(path, "throttle"),
               [k \in DOMAIN s.throttle |-> IF s.throttle[k] THEN "true" ELSE "false"])
  \cup IF s.processes = <<>> THEN Empty(processes, "[")
       ELSE UNION {ProcessLeaves(Append(processes, Decimal(i)), s.processes[i])
                     : i \in DOMAIN s.processes}

ReadingLeaves(path, r) ==
  StringLeaves(path, r.texts) \cup ScalarLeaves(path, r.limits)
  \cup SampleLeaves(Append(path, "sample"), r.sample)

DumpLeaves(devices, host) ==
  StringLeaves(<<>>, host)
  \cup IF devices = <<>> THEN Empty(<<"devices">>, "[")
       ELSE UNION {ReadingLeaves(<<"devices", Decimal(i)>>, devices[i]) : i \in DOMAIN devices}
================================================================================
