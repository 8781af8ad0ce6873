-------------------------- MODULE MCIntelSysfsDriver --------------------------
(***************************************************************************)
(* Values for the constants of IntelSysfsDriver.                           *)
(***************************************************************************)
EXTENDS IntelSysfsDriver

\* One file for each of two buckets; the third is what a hidden reason falls into.
TwoFiles == {"thermal", "pl1"}
TheirBuckets == [f \in TwoFiles |-> IF f = "pl1" THEN "power" ELSE "thermal"]
================================================================================
