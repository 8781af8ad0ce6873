------------------------------ MODULE MCRegistry ------------------------------
(***************************************************************************)
(* Values for the constants of Registry: the laptop the run checks.        *)
(***************************************************************************)
EXTENDS Registry

\* A Linux laptop. Backend 1 is nvml: it sees GPU 1, the dGPU, which it does not
\* list in D3cold and may report lost at any time. 2 is i915-sysfs and 3 is
\* level-zero: both see GPU 2, the iGPU, at one address, which sorts first. The query
\* of the dGPU's address may fail; its uuid is behind every address then. Its driver may
\* be dead on arrival, as one of the unit tests is (NVML's probe() drops such drivers).
LaptopSees == <<{1}, {2}, {2}>>
LaptopIdentity == [b \in 1..3 |-> <<2, 1>>]
LaptopFallback == [b \in 1..3 |-> <<20, 1>>]
LaptopPower == <<"suspended", "active">>
================================================================================
