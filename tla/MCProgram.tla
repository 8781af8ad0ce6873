------------------------------- MODULE MCProgram -------------------------------
(***************************************************************************)
(* Values for the constants of Program: the workstation, the command lines *)
(* and the contents of the readings.                                       *)
(***************************************************************************)
EXTENDS Program

\* A workstation with two cards. Backend 1, the vendor's library, sees both; 2 sees
\* both too, never notices a removal, and cannot identify card 2, to which it gives
\* anonymous keys. Either may hand over a driver that died while it was being built.
WorkstationSees == <<{1, 2}, {1, 2}>>
WorkstationIdentity == <<<<20, 1>>, <<20, 0>>>>
WorkstationPower == <<"active", "absent">>

Numerals == "49" :> 49 @@ "50" :> 50 @@ "60000" :> 60000 @@ "60001" :> 60001

Words == {Word("--help", "x"), Word("-V", NoValue), Word("-j", NoValue),
          Word("--dump-json", "x"), Word("-i", NoValue), Word("--interval", "50"),
          Word("--interval", ""), Word("49", NoValue), Word("60000", NoValue),
          Word("60001", NoValue), Word("soon", NoValue), Word("--colour", NoValue)}

UpToThreeWords == UNION {[1..n -> Words] : n \in 0..3}

PlainInfo ==
  [texts |-> [k \in ToSet(TextKeys) |-> <<k>>],
   limits |-> [k \in ToSet(LimitKeys) |-> Unset]]
OddInfo ==
  [texts |-> [k \in ToSet(TextKeys) |->
                IF k = "uuid" THEN <<>> ELSE <<"GPU ", "\"", "{", "\\", ",", "\t", "US">>],
   limits |-> [k \in ToSet(LimitKeys) |-> "0"]]
TheInfos == {PlainInfo, OddInfo}

\* Processes whose names a user has chosen.
Plain == [pid |-> "1", name |-> <<"sh">>, vram_bytes |-> Unset, gpu_util_percent |-> "0",
          engines |-> {}]
Odd == [pid |-> "2", name |-> <<"\\", "\"", "]", "\n", "\r", "BEL", "u">>, vram_bytes |-> "0",
        gpu_util_percent |-> Unset, engines |-> {"graphics", "copy"}]

ASample(metric, flag, processes) ==
  [time |-> "7", power_state |-> "active",
   metrics |-> [k \in ToSet(MetricKeys) |-> metric],
   throttle |-> [k \in ToSet(ThrottleNames) |-> flag], processes |-> processes]
TheSamples == {ASample("0", TRUE, <<>>), ASample(Unset, FALSE, <<Plain, Odd>>)}

TheHost == [gtop |-> <<"0.1.0">>, host |-> <<>>, os |-> <<"Linux", " ", "6">>]
================================================================================
