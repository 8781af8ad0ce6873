----------------------------- MODULE MCNvmlDriver -----------------------------
(***************************************************************************)
(* Values for the constants of NvmlDriver, and what a comment of the       *)
(* source says that the code does not keep.                                *)
(***************************************************************************)
EXTENDS NvmlDriver

\* Two static fields, and three metrics of which the second has a fallback (memory
\* v2 and v1) and the third an entry point the library does not export. The kernel
\* owns the memory of process 1's graphics context.
Usual ==
  [pids |-> {1, 2}, static |-> <<1, 1>>, metrics |-> <<1, 2, 0>>,
   lists |-> {"compute", "graphics"},
   visible |-> [l \in ListNames |-> IF l = "compute" THEN {1, 2} ELSE {2}]]

\* A library that exports no metric at all, and whose process list keeps growing.
ListOnly ==
  [pids |-> 1..4, static |-> <<>>, metrics |-> <<>>, lists |-> {"compute"},
   visible |-> [l \in ListNames |-> 1..4]]

TwoLibraries == {Usual, ListOnly}
UsualLibrary == {Usual}

\* types.hpp:78 says EngineFlags are "Which parts of the GPU a process actually
\* touched": a process is called a graphics process only if it was one.
EnginesWereTouched ==
  pc = "done" => \A p \in DOMAIN merged :
    /\ merged[p].compute => p \in touched["compute"]
    /\ merged[p].graphics => p \in touched["graphics"]
================================================================================
