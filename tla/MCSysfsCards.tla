---------------------------- MODULE MCSysfsCards ----------------------------
\* A card of amdgpu, which labels its sensors out of their usual order, and one of
\* another driver, which labels one by a name that is not known and one not at all,
\* share two nodes.
EXTENDS SysfsCards, TLC

DriverOf == (1 :> Wanted) @@ (2 :> "i915")
LabelsOf == (1 :> <<"memory", "edge", "hotspot">>) @@ (2 :> <<"edge", "mem0", Unlabelled>>)
=============================================================================
