--------------------------- MODULE MCLevelZeroDriver ---------------------------
(***************************************************************************)
(* Cards for LevelZeroDriver, and what a comment of the source says that   *)
(* the code does not keep.                                                 *)
(***************************************************************************)
EXTENDS LevelZeroDriver

Bare == [engines |-> <<>>, powers |-> <<>>, sensors |-> <<>>, modules |-> <<>>,
         clocks |-> <<>>, fans |-> 0, wrap |-> 3, gap |-> 2]

\* The group of all engines, which may be silent, and two it falls back to.
WithGroup == [Bare EXCEPT !.engines = <<"compute", "all", "render">>, !.wrap = 2, !.gap = 1]

\* Two engines, and room for their counters to wrap.
WithoutGroup == [Bare EXCEPT !.engines = <<"render", "media">>]

\* A card with two tiles: power and clocks of each, and of the whole.
Tiled ==
  [Bare EXCEPT !.powers = <<TRUE, FALSE>>,
               !.sensors = <<"hotspot", "edge", "other", "edge", "memory">>,
               !.modules = <<TRUE, FALSE>>, !.clocks = <<"gpu", "memory", "gpu">>, !.fans = 2]

ThreeCards == {WithGroup, WithoutGroup, Tiled}
GrouplessCard == {WithoutGroup}

\* level_zero_driver.cpp:326 says "The ALL group is the honest answer for overall
\* utilization where it exists; compute and render are the fallback": utilization is
\* never taken from an engine of another class.
AllIsTheHonestAnswer == CoreIsTheWhole
================================================================================
