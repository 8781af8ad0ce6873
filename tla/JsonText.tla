-------------------------------- MODULE JsonText --------------------------------
(***************************************************************************)
(* gtop's JSON export (src/src/core/json_export.cpp): to_json() and the    *)
(* JsonWriter under it.  The output is a sequence of tokens; a token is a  *)
(* sequence of characters: a mark, or a string with its quotes and its     *)
(* escapes.  A number, and a stretch of a string without special           *)
(* characters, count as one character, and layout (newlines, indentation)  *)
(* is left out.                                                            *)
(***************************************************************************)
EXTENDS Integers, Sequences, SequencesExt

Unset == "unset"                     \* std::nullopt

\* A loop over items. Written as a choice from one element, so that TLC computes the
\* state before the item is looked at and its recursion stays shallow.
Fold(Op(_, _), base, items) ==
  LET after[i \in 0..Len(items)] ==
        IF i = 0 THEN base
        ELSE CHOOSE s \in {Op(w, items[i]) : w \in {after[i - 1]}} : TRUE
  IN after[Len(items)]

\* The control characters that have no escape of their own, with their codes.
ControlCode == [BEL |-> 7, US |-> 31]
kHexDigits == <<"0", "1", "2", "3", "4", "5", "6", "7",
                "8", "9", "a", "b", "c", "d", "e", "f">>

\* The characters whose escape is a letter, and that letter.
HasLetter == {"\"", "\\", "\n", "\r", "\t"}
Letter(c) == IF c = "\n" THEN "n" ELSE IF c = "\r" THEN "r" ELSE IF c = "\t" THEN "t" ELSE c

Escaped(c) ==
  IF c \in HasLetter THEN <<"\\", Letter(c)>>
  ELSE IF c \in DOMAIN ControlCode
       THEN <<"\\", "u", "0", "0", kHexDigits[((ControlCode[c] \div 16) % 16) + 1],
              kHexDigits[(ControlCode[c] % 16) + 1]>>
  ELSE <<c>>

Escapes(out, text) == Fold(LAMBDA x, c : x \o Escaped(c), out, text)
Quoted(text) == Append(Escapes(<<"\"">>, text), "\"")

(***************************************************************************)
(* JsonWriter: out_, and one "still empty?" flag per open container.       *)
(***************************************************************************)
NewWriter == [out |-> <<>>, open |-> <<>>]
NoKey == ""

Put(w, token) == [w EXCEPT !.out = Append(@, token)]
Mark(c) == <<c>>

Named(w, key) == IF key = NoKey THEN w ELSE Put(Put(w, Quoted(<<key>>)), Mark(":"))

\* Mutated: the flag of the container is not cleared.
ItemUncounted(w, key) == Named(w, key)

Item(w, key) ==
  LET first == w.open = <<>> \/ Last(w.open)
      item == Named(IF first THEN w ELSE Put(w, Mark(",")), key)
  IN [item EXCEPT !.open = IF w.open = <<>> THEN <<>> ELSE Append(Front(w.open), FALSE)]

Begin(w, key, bracket) ==
  LET item == Put(Item(w, key), Mark(bracket))
  IN [item EXCEPT !.open = Append(item.open, TRUE)]
BeginObject(w, key) == Begin(w, key, "{")
BeginArray(w, key) == Begin(w, key, "[")

Close(w, bracket) == [Put(w, Mark(bracket)) EXCEPT !.open = Front(w.open)]
EndObject(w) == Close(w, "}")
EndArray(w) == Close(w, "]")

Number(value) == Mark(IF value = Unset THEN "null" ELSE value)
Boolean(value) == Mark(IF value THEN "true" ELSE "false")

Write(w, item) == Put(Item(w, item.key), item.token)
WriteString(w, key, text) == Write(w, [key |-> key, token |-> Quoted(text)])
WriteNumber(w, key, value) == Write(w, [key |-> key, token |-> Number(value)])

\* A run of calls of string(), number() or boolean().
WriteAll(w, items) == Fold(Write, w, items)
Fields(keys, values, Token(_)) ==
  [i \in DOMAIN keys |-> [key |-> keys[i], token |-> Token(values[keys[i]])]]
Strings(w, keys, texts) == WriteAll(w, Fields(keys, texts, Quoted))
Numbers(w, keys, values) == WriteAll(w, Fields(keys, values, Number))
Booleans(w, keys, values) == WriteAll(w, Fields(keys, values, Boolean))

(***************************************************************************)
(* The document. A reading has the texts and the limits of GpuStaticInfo,  *)
(* and a sample; engines is the set of a process's raised EngineFlags.     *)
(***************************************************************************)
ThrottleNames == <<"thermal", "power", "reliability", "software">>
TextKeys == <<"backend", "vendor", "name", "uuid", "pci_bus_id", "driver_version">>
ProcessKeys == <<"vram_bytes", "gpu_util_percent">>
HostKeys == <<"gtop", "host", "os">>
LimitKeys == <<"vram_total_bytes", "power_limit_mw", "temp_slowdown_c">>
MetricKeys == <<"core_util", "mem_controller_util", "encoder_util", "decoder_util",
  "vram_used_bytes", "temp_edge_c", "temp_hotspot_c", "temp_mem_c", "power_draw_mw",
  "power_limit_mw", "fan_percent", "clock_core_mhz", "clock_mem_mhz", "pcie_rx_bps",
  "pcie_tx_bps">>

\* What to_json() is given: a text is any sequence of characters; a number, written
\* without quotes, is not mistaken for a mark.
IsSequence(s) == s \in Seq(ToSet(s))
Punctuation == {":", ",", "{", "}", "[", "]", "\""}
IsNumber(value) == value \notin Punctuation
HasTexts(texts, keys) ==
  /\ texts = [k \in ToSet(keys) |-> texts[k]]
  /\ \A k \in ToSet(keys) : IsSequence(texts[k])
HasNumbers(values, keys) ==
  /\ values = [k \in ToSet(keys) |-> values[k]]
  /\ \A k \in ToSet(keys) : IsNumber(values[k])
IsProcess(p) ==
  IsNumber(p.pid) /\ IsSequence(p.name) /\ IsNumber(p.vram_bytes) /\ IsNumber(p.gpu_util_percent)
IsSample(s) ==
  /\ IsNumber(s.time) /\ HasNumbers(s.metrics, MetricKeys)
  /\ s.throttle \in [ToSet(ThrottleNames) -> BOOLEAN]
  /\ IsSequence(s.processes) /\ \A i \in DOMAIN s.processes : IsProcess(s.processes[i])
IsReading(r) ==
  HasTexts(r.texts, TextKeys) /\ HasNumbers(r.limits, LimitKeys) /\ IsSample(r.sample)

Flag(e, engines) == IF e \in engines THEN <<e>> ELSE <<>>
Raised(engines) ==
  Flag("graphics", engines) \o Flag("compute", engines) \o Flag("encode", engines)
    \o Flag("decode", engines) \o Flag("copy", engines)
Elements(names) == [i \in DOMAIN names |-> [key |-> NoKey, token |-> Quoted(<<names[i]>>)]]

WriteProcess(w, p) ==
  LET head == WriteString(WriteNumber(BeginObject(w, NoKey), "pid", p.pid), "name", p.name)
      numbers == Numbers(head, ProcessKeys, p)
      engines == WriteAll(BeginArray(numbers, "engines"), Elements(Raised(p.engines)))
  IN EndObject(EndArray(engines))

EachProcess(w, processes) == Fold(WriteProcess, w, processes)
WriteProcesses(w, processes) == EndArray(EachProcess(BeginArray(w, "processes"), processes))

WriteSample(w, s) ==
  LET head == WriteString(WriteNumber(BeginObject(w, "sample"), "monotonic_ms", s.time),
                          "power_state", <<s.power_state>>)
      metrics == Numbers(head, MetricKeys, s.metrics)
      throttle == Booleans(BeginObject(metrics, "throttle"), ThrottleNames, s.throttle)
  IN EndObject(WriteProcesses(EndObject(throttle), s.processes))

WriteReading(w, r) ==
  LET texts == Strings(BeginObject(w, NoKey), TextKeys, r.texts)
  IN EndObject(WriteSample(Numbers(texts, LimitKeys, r.limits), r.sample))

EachReading(w, devices) == Fold(WriteReading, w, devices)

ToJson(devices, host) ==
  LET head == Strings(BeginObject(NewWriter, NoKey), HostKeys, host)
  IN EndObject(EndArray(EachReading(BeginArray(head, "devices"), devices))).out
================================================================================
