------------------------------ MODULE PciAddress ------------------------------
(***************************************************************************)
(* How gtop spells a PCI address.  normalise_pci_bus_id() makes the key    *)
(* under which the registry knows a GPU, and pci_power_state() finds the   *)
(* file that says whether it sleeps.  Vendors spell the same address       *)
(* differently; here two cards' spellings are taken at will, their keys    *)
(* made and compared, and the power state of the first one asked for.      *)
(* A field of an address is the sequence of its hexadecimal digits.        *)
(***************************************************************************)
EXTENDS Integers, Sequences, FiniteSetsExt

CONSTANTS Domains, Buses, Devices, Functions  \* the fields that spellings are made of

NotHex == 16                        \* any character that is not a digit
Absent == <<>>                      \* "bb:dd.f" has no domain

ASSUME FieldsAssumption ==
  \A f \in Domains \cup Buses \cup Devices \cup Functions : f \in Seq(0..NotHex)
ASSUME FieldsAreThere == Absent \notin Buses \cup Devices \cup Functions

\* "upper": its letters are capitals; "spaced": there is white space around it.
Spellings == [domain : Domains, bus : Buses, device : Devices, function : Functions,
              upper : BOOLEAN, spaced : BOOLEAN]

VARIABLES
  raw,     \* two spellings, of one card or two
  keys,    \* what the registry knows the two cards by
  power,   \* what pci_power_state() says of the first
  asleep   \* the machine: the first card is suspended

pciVars == <<raw, keys, power, asleep>>

None == "none"
PowerStates == {"active", "suspended", "unknown"}

PciInit ==
  /\ raw \in Spellings \X Spellings
  /\ keys = None /\ power = None /\ asleep \in BOOLEAN

AllHex(field) == NotHex \notin {field[i] : i \in DOMAIN field}
IsHex(r) == AllHex(r.domain) /\ AllHex(r.bus) /\ AllHex(r.device) /\ AllHex(r.function)

ValueOf(field) ==
  LET value[i \in 0..Len(field)] == IF i = 0 THEN 0 ELSE 16 * value[i - 1] + field[i]
  IN  value[Len(field)]

StripZeros(field) ==
  SubSeq(field, Min({Len(field)} \cup {i \in DOMAIN field : field[i] # 0}), Len(field))
PadTo(n, field) == [i \in 1..(n - Len(field)) |-> 0] \o field

Lowercased(r) == [r EXCEPT !.upper = FALSE]

Trimmed(r) == [r EXCEPT !.spaced = FALSE]

\* Mutated: a missing domain is not taken for domain 0.
DomainLeftOut(domain) == IF domain = Absent THEN <<15>> ELSE StripZeros(domain)

DomainDigits(domain) == IF domain = Absent THEN <<0>> ELSE StripZeros(domain)

\* What does not parse is lowercased and otherwise left as it is.
Normalise(r) ==
  LET t == Trimmed(r)
      domain == DomainDigits(t.domain)
  IN  IF /\ IsHex(t) /\ Len(domain) <= 4
         /\ Len(t.bus) \in {1, 2} /\ Len(t.device) \in {1, 2} /\ Len(t.function) = 1
      THEN [Lowercased(t) EXCEPT !.domain = PadTo(4, domain),
                                 !.bus = PadTo(2, t.bus), !.device = PadTo(2, t.device)]
      ELSE Lowercased(t)

NoAddress == [domain |-> Absent, bus |-> Absent, device |-> Absent, function |-> Absent]

\* What is meant to name a device's directory. "rest" begins after the second colon when
\* there is a domain ("first = second"), and after the only one when there is none:
\* either way the bus is left out. Nothing but the domain is padded.
ToSysfsAddress(r) ==
  LET domain == IF r.domain = Absent THEN <<0>> ELSE StripZeros(r.domain)
  IN  IF /\ AllHex(domain) /\ AllHex(r.device) /\ AllHex(r.function)
         /\ Len(domain) <= 4 /\ ~r.spaced
      THEN [domain |-> PadTo(4, domain), bus |-> Absent, device |-> r.device,
            function |-> r.function]
      ELSE NoAddress

\* The card a spelling means.
CardOf(r) ==
  <<ValueOf(r.domain), ValueOf(r.bus), ValueOf(r.device), ValueOf(r.function)>>

\* The directory the kernel has for it: four digits of domain or as many as it takes.
DirectoryOf(r) ==
  LET domain == IF r.domain = Absent THEN <<0>> ELSE StripZeros(r.domain)
  IN  [domain |-> IF Len(domain) < 4 THEN PadTo(4, domain) ELSE domain,
       bus |-> PadTo(2, StripZeros(r.bus)), device |-> PadTo(2, StripZeros(r.device)),
       function |-> StripZeros(r.function)]

\* A file that is not there: sample as normal.
PowerOf(spelling) ==
  IF ToSysfsAddress(spelling) # DirectoryOf(raw[1]) THEN "unknown"
  ELSE IF asleep THEN "suspended" ELSE "active"

\* Every backend keeps the normalised address in its static_info and asks with that.
AsKept == Normalise(raw[1])

\* The registry normalises what a driver has normalised already.
Adopt ==
  /\ keys = None
  /\ keys' = <<Normalise(Normalise(raw[1])), Normalise(Normalise(raw[2]))>>
  /\ UNCHANGED <<raw, power, asleep>>

AskPower ==
  /\ power = None
  /\ power' = PowerOf(AsKept)
  /\ UNCHANGED <<raw, keys, asleep>>

PciNext == Adopt \/ AskPower

PciSpec == PciInit /\ [][PciNext]_pciVars

\* A well-formed spelling, no more of whose domain than four digits counts.
Common(r) ==
  /\ IsHex(r) /\ ValueOf(r.domain) <= 65535
  /\ Len(r.bus) <= 2 /\ Len(r.device) <= 2 /\ Len(r.function) = 1

\* Two spellings of one card, with any padding, case, or no domain, make one key, so
\* that no GPU is listed twice; and no two cards share one, so that none is missing.
\* Nor is a key made out of nonsense, or of a domain too wide, that of another card.
OneKeyPerCard ==
  keys # None =>
    /\ keys[1] = keys[2] => /\ CardOf(raw[1]) = CardOf(raw[2])
                            /\ IsHex(raw[1]) <=> IsHex(raw[2])
    /\ Common(raw[1]) /\ Common(raw[2]) /\ CardOf(raw[1]) = CardOf(raw[2]) =>
         keys[1] = keys[2]

\* A suspended card is reported suspended, however the vendor spelled its address.
\* platform/pci_power.hpp:30: "`pci_bus_id` is a PCI address in any common spelling".
SleepIsSeen ==
  power # None /\ asleep /\ Common(raw[1]) => power = "suspended"
================================================================================
