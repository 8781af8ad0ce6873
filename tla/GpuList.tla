------------------------------- MODULE GpuList --------------------------------
(***************************************************************************)
(* What the registry promises the layer above it: a list of claims, each   *)
(* "backend b owns the device with key k". A claim is made by a backend    *)
(* that is being asked, for a key nobody owns; it ends only by being lost, *)
(* which puts its backend back on the schedule; and a backend is left      *)
(* alone only while it owns something.                                     *)
(***************************************************************************)
CONSTANTS Backends, Keys

VARIABLES
  claims,     \* a set of [key, backend]
  scheduled   \* the backends that will be asked again

listVars == <<claims, scheduled>>

Claims == [key : Keys, backend : Backends]
Owned(k) == \E c \in claims : c.key = k
Owns(b) == \E c \in claims : c.backend = b

Init == claims = {} /\ scheduled = Backends

Claim(k, b) ==
  /\ b \in scheduled /\ ~Owned(k)
  /\ claims' = claims \cup {[key |-> k, backend |-> b]}
  /\ UNCHANGED scheduled

Lose(c) ==
  /\ claims' = claims \ {c}
  /\ scheduled' = scheduled \cup {c.backend}

LeaveAlone(b) ==
  /\ Owns(b)
  /\ scheduled' = scheduled \ {b}
  /\ UNCHANGED claims

Next ==
  \/ \E k \in Keys, b \in Backends : Claim(k, b)
  \/ \E c \in claims : Lose(c)
  \/ \E b \in scheduled : LeaveAlone(b)

Spec == Init /\ [][Next]_listVars
================================================================================
