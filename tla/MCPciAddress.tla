----------------------------- MODULE MCPciAddress -----------------------------
(***************************************************************************)
(* Spellings for PciAddress.                                               *)
(***************************************************************************)
EXTENDS PciAddress

\* No domain; 0 and 1 in four digits and in eight; a domain of five digits in five
\* and in eight; nonsense.
SomeDomains == {Absent, <<0, 0, 0, 0>>, PadTo(8, <<0>>), <<0, 0, 0, 1>>, PadTo(8, <<1>>),
                <<1, 0, 0, 0, 0>>, PadTo(8, <<1, 0, 0, 0, 0>>), <<0, NotHex>>}
SomeBuses == {<<1>>, <<0, 1>>, <<0, 10>>, <<NotHex, NotHex>>}
SomeDevices == {<<0, 0>>, <<0>>}
SomeFunctions == {<<0>>}
================================================================================
