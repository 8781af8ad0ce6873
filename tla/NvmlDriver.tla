------------------------------ MODULE NvmlDriver ------------------------------
(***************************************************************************)
(* gtop's NvmlDriver (src/src/driver/nvml/nvml_driver.cpp): the life of    *)
(* one driver, from its construction in probe() through the samples it     *)
(* takes, beside a GPU that may be lost and processes that start and exit  *)
(* between any two calls into the library.                                 *)
(***************************************************************************)
EXTENDS Integers, FiniteSets, Sequences, SequencesExt

CONSTANTS
  Libraries     \* the libraries looked at, one in each behaviour

ListOrder == <<"compute", "graphics">>
ListNames == {"compute", "graphics"}
NoPid == 0                              \* the pid of a value-initialised element
Attempts == 3

\* A library and the machine it is on: the processes there are, the entry points
\* resolved for each static field and each metric, the process lists it exports, and
\* the processes whose memory each list can see.
IsLibrary(l) ==
  /\ IsFiniteSet(l.pids) /\ NoPid \notin l.pids
  /\ l.static \in Seq(Nat) /\ l.metrics \in Seq(Nat)
  /\ l.lists \subseteq ListNames
  /\ l.visible \in [ListNames -> SUBSET l.pids]

ASSUME LibraryAssumption == \A l \in Libraries : IsLibrary(l)

\* Some call of a sample is noted, or no sample could tell a lost GPU.
ASSUME SomethingIsAsked ==
  \A l \in Libraries : l.lists # {} \/ \E i \in DOMAIN l.metrics : l.metrics[i] > 0

VARIABLES
  library,    \* the library there is; never changes
  running,    \* the machine: running[l], the processes of each kind on the GPU
  lost,       \* the machine: the GPU has fallen off the bus, or its driver is gone
  healthy,    \* healthy_
  pc,         \* where the driver is; "idle" between samples
  q, try,     \* the field being read and the entry points tried for it
  value,      \* the optionals of the sample that are set
  list,       \* the process list being read, an index of ListOrder
  buffer,     \* the contents of collect()'s vector: what is in its elements
  room,       \* ... and how many elements it has
  count,      \* collect()'s count
  attempt,    \* collect()'s loop counter
  status,     \* what collect() returns
  merged,     \* read_processes()'s map, and then the sample's processes
  lostBefore, \* history: the GPU was lost before the sample began
  touched,    \* history: the processes of each kind since the lists were asked
  steady,     \* history: those that have been there ever since
  listed      \* history: the lists that were read

machine == <<library, running, lost>>
history == <<lostBefore, touched, steady, listed>>
metrics == <<q, try, value>>
collecting == <<list, buffer, room, count, attempt, status>>
vars == <<machine, healthy, pc, metrics, collecting, merged, history>>

Pids == library.pids
Lists == library.lists
Visible == library.visible

Statuses == {"SUCCESS", "INSUFFICIENT_SIZE", "LOST", "OTHER"}
Elements == [pid : Pids \cup {NoPid}, vram : BOOLEAN]
ProcessInfo == [compute : BOOLEAN, graphics : BOOLEAN, vram : BOOLEAN, util : BOOLEAN]

NoProcesses == [p \in {} |-> {}]
Nobody == [l \in ListNames |-> {}]

Init ==
  /\ library \in Libraries
  /\ running \in {r \in [ListNames -> SUBSET Pids] : \A l \in ListNames \ Lists : r[l] = {}}
  /\ lost = FALSE
  /\ healthy = TRUE /\ pc = "static"
  /\ q = 1 /\ try = 0 /\ value = {}
  /\ list = 1 /\ buffer = {} /\ room = 0 /\ count = 0 /\ attempt = 0
  /\ status = "SUCCESS" /\ merged = NoProcesses
  /\ lostBefore = FALSE /\ touched = Nobody /\ steady = Nobody /\ listed = {}

\* The library: a lost GPU says so, any other may still refuse a query.
Answers == IF lost THEN {"LOST"} ELSE {"SUCCESS", "OTHER"}

\* note(): only the codes that mean the device is gone flip healthy_.
\* Mutated: any failure does; none does.
NoteAnyFailure(s) == healthy' = (healthy /\ s = "SUCCESS")
NoteNothing(s) == UNCHANGED healthy

Note(s) == healthy' = (healthy /\ s # "LOST")

(***************************************************************************)
(* read_static_info() and the metrics of sample(): each field tries its    *)
(* resolved entry points (the memory query has two) until one succeeds.    *)
(***************************************************************************)
Tries == IF pc = "static" THEN library.static ELSE library.metrics

AskField ==
  /\ pc \in {"static", "metrics"} /\ q \in DOMAIN Tries
  /\ q \notin value /\ try < Tries[q]
  /\ \E s \in Answers :
       /\ Note(s)
       /\ value' = IF s = "SUCCESS" THEN value \cup {q} ELSE value
  /\ try' = try + 1
  /\ UNCHANGED <<machine, pc, q, collecting, merged, history>>

NextField ==
  /\ pc \in {"static", "metrics"} /\ q \in DOMAIN Tries
  /\ q \in value \/ try >= Tries[q]
  /\ q' = q + 1 /\ try' = 0
  /\ UNCHANGED <<machine, healthy, pc, value, collecting, merged, history>>

\* probe() keeps the driver it has just built only while it is healthy.
FinishConstruction ==
  /\ pc = "static" /\ q \notin DOMAIN Tries
  /\ pc' = IF healthy THEN "idle" ELSE "gone"
  /\ q' = 1 /\ try' = 0 /\ value' = {}
  /\ UNCHANGED <<machine, healthy, collecting, merged, history>>

\* The registry samples a driver only while it is healthy.
StartSample ==
  /\ pc = "idle" /\ healthy
  /\ pc' = "metrics" /\ q' = 1 /\ try' = 0 /\ value' = {}
  /\ merged' = NoProcesses /\ lostBefore' = lost
  /\ UNCHANGED <<machine, healthy, collecting, touched, steady, listed>>

FinishMetrics ==
  /\ pc = "metrics" /\ q \notin DOMAIN Tries
  /\ pc' = "list" /\ q' = 1 /\ try' = 0
  /\ list' = 1 /\ buffer' = {} /\ room' = 0 /\ count' = 0 /\ attempt' = 0
  /\ status' = "SUCCESS"
  /\ touched' = running /\ steady' = running /\ listed' = {}
  /\ UNCHANGED <<machine, healthy, value, merged, lostBefore>>

(***************************************************************************)
(* collect(): size, then fill, again when the list has grown in between.   *)
(***************************************************************************)
Asked == ListOrder[list]
Reading == pc = "list" /\ list \in DOMAIN ListOrder
Needed == Cardinality(running[Asked])
Contents == {[pid |-> p, vram |-> p \in Visible[Asked]] : p \in running[Asked]}

SkipList ==
  /\ Reading /\ Asked \notin Lists
  /\ list' = list + 1
  /\ UNCHANGED <<machine, healthy, pc, metrics, buffer, room, count, attempt,
                 status, merged, history>>

\* function(device, &count, nullptr). Any answer but "there are none" and "too
\* small" returns with the vector as it was.
SizeFails ==
  /\ \E s \in Answers \ {"SUCCESS"} : status' = s
  /\ pc' = "absorb"
  /\ UNCHANGED <<buffer, room, count, attempt>>

SizeNone ==
  /\ ~lost /\ Needed = 0
  /\ status' = "SUCCESS" /\ buffer' = {} /\ room' = 0 /\ pc' = "absorb"
  /\ UNCHANGED <<count, attempt>>

SizeSome ==
  /\ ~lost /\ Needed > 0
  /\ count' = Needed /\ attempt' = 0 /\ pc' = "assign"
  /\ UNCHANGED <<buffer, room, status>>

SizeList ==
  /\ Reading /\ Asked \in Lists
  /\ SizeFails \/ SizeNone \/ SizeSome
  /\ UNCHANGED <<machine, healthy, metrics, list, merged, history>>

\* out.assign(count, Info{})
AssignBuffer ==
  /\ pc = "assign"
  /\ room' = count /\ buffer' = {[pid |-> NoPid, vram |-> TRUE]}
  /\ pc' = "fill"
  /\ UNCHANGED <<machine, healthy, metrics, list, count, attempt, status, merged, history>>

\* function(device, &count, out.data())
FillFails ==
  /\ \E s \in Answers \ {"SUCCESS"} : status' = s
  /\ buffer' = {} /\ room' = 0 /\ pc' = "absorb"
  /\ UNCHANGED <<count, attempt>>

\* Mutated: the elements the library left alone are not cut off.
FillWithoutResize ==
  /\ ~lost /\ Needed <= count
  /\ status' = "SUCCESS" /\ count' = Needed /\ pc' = "absorb"
  /\ buffer' = Contents \cup (IF Needed < room THEN buffer ELSE {})
  /\ UNCHANGED <<room, attempt>>

FillFits ==
  /\ ~lost /\ Needed <= count
  /\ status' = "SUCCESS" /\ count' = Needed /\ pc' = "absorb"
  /\ buffer' = Contents /\ room' = Needed
  /\ UNCHANGED attempt

\* The list has grown: count now holds the new requirement.
\* Mutated: the buffer is not sized again.
GrownSameBuffer ==
  /\ ~lost /\ Needed > count /\ attempt + 1 < Attempts
  /\ count' = Needed /\ attempt' = attempt + 1 /\ pc' = "fill"
  /\ UNCHANGED <<buffer, room, status>>

Grown ==
  /\ ~lost /\ Needed > count /\ attempt + 1 < Attempts
  /\ count' = Needed /\ attempt' = attempt + 1 /\ pc' = "assign"
  /\ UNCHANGED <<buffer, room, status>>

GivenUp ==
  /\ ~lost /\ Needed > count /\ attempt + 1 >= Attempts
  /\ status' = "INSUFFICIENT_SIZE" /\ count' = Needed /\ attempt' = attempt + 1
  /\ buffer' = {} /\ room' = 0 /\ pc' = "absorb"

FillList ==
  /\ pc = "fill"
  /\ FillFails \/ FillFits \/ Grown \/ GivenUp
  /\ UNCHANGED <<machine, healthy, metrics, list, merged, history>>

(***************************************************************************)
(* read_processes(): merge the lists by pid, add what utilization there is.*)
(***************************************************************************)
Blank == [compute |-> FALSE, graphics |-> FALSE, vram |-> FALSE, util |-> FALSE]
Row(p) == IF p \in DOMAIN merged THEN merged[p] ELSE Blank

\* absorb(): a flag and a memory figure are added, never taken back.
\* Mutated: the later list overwrites what the earlier one said.
Overwritten(p) ==
  [Blank EXCEPT ![Asked] = TRUE, !.vram = \E e \in buffer : e.pid = p /\ e.vram]

Absorbed(p) ==
  [Row(p) EXCEPT ![Asked] = TRUE, !.vram = @ \/ \E e \in buffer : e.pid = p /\ e.vram]

AbsorbList ==
  /\ pc = "absorb"
  /\ Note(status)
  /\ LET found == {e.pid : e \in buffer} IN
       merged' = [p \in DOMAIN merged \cup found |->
                    IF p \in found THEN Absorbed(p) ELSE merged[p]]
  /\ listed' = IF status = "SUCCESS" THEN listed \cup {Asked} ELSE listed
  /\ list' = list + 1 /\ pc' = "list"
  /\ UNCHANGED <<machine, metrics, buffer, room, count, attempt, status,
                 lostBefore, touched, steady>>

FinishEmpty ==
  /\ pc = "list" /\ list \notin DOMAIN ListOrder
  /\ merged = NoProcesses
  /\ pc' = "done"
  /\ UNCHANGED <<machine, healthy, metrics, collecting, merged, history>>

\* process_utilization is sized and filled; its samples may name processes that
\* are gone, and its failures are not noted.
ReadUtilization ==
  /\ pc = "list" /\ list \notin DOMAIN ListOrder
  /\ merged # NoProcesses
  /\ \E sampled \in IF lost THEN {{}} ELSE SUBSET Pids :
       merged' = [p \in DOMAIN merged |-> [merged[p] EXCEPT !.util = p \in sampled]]
  /\ pc' = "done"
  /\ UNCHANGED <<machine, healthy, metrics, collecting, history>>

\* sample() returns; the registry erases a driver that is not healthy any more.
Return ==
  /\ pc = "done"
  /\ pc' = IF healthy THEN "idle" ELSE "gone"
  /\ value' = {} /\ merged' = NoProcesses
  /\ lostBefore' = FALSE /\ touched' = Nobody /\ steady' = Nobody /\ listed' = {}
  /\ list' = 1 /\ buffer' = {} /\ room' = 0 /\ count' = 0 /\ attempt' = 0
  /\ status' = "SUCCESS"
  /\ UNCHANGED <<machine, healthy, q, try>>

(***************************************************************************)
(* The machine.                                                            *)
(***************************************************************************)
ProcessStarts(l, p) ==
  /\ p \notin running[l]
  /\ running' = [running EXCEPT ![l] = @ \cup {p}]
  /\ touched' = [touched EXCEPT ![l] = @ \cup {p}]
  /\ UNCHANGED <<library, lost, healthy, pc, metrics, collecting, merged, lostBefore, steady, listed>>

ProcessExits(l, p) ==
  /\ p \in running[l]
  /\ running' = [running EXCEPT ![l] = @ \ {p}]
  /\ steady' = [steady EXCEPT ![l] = @ \ {p}]
  /\ UNCHANGED <<library, lost, healthy, pc, metrics, collecting, merged, lostBefore, touched, listed>>

GpuIsLost ==
  /\ ~lost /\ lost' = TRUE
  /\ UNCHANGED <<library, running, healthy, pc, metrics, collecting, merged, history>>

\* A process matters only while the driver can see it: in the lists the library
\* exports, and not while the driver is busy with other fields.
Machine ==
  \/ GpuIsLost
  \/ /\ pc \in {"idle", "list", "assign", "fill", "absorb"}
     /\ \E l \in Lists, p \in Pids : ProcessStarts(l, p) \/ ProcessExits(l, p)

Fields == AskField \/ NextField \/ FinishConstruction \/ StartSample \/ FinishMetrics
Processes == SkipList \/ SizeList \/ AssignBuffer \/ FillList \/ AbsorbList
             \/ FinishEmpty \/ ReadUtilization \/ Return

Next == Fields \/ Processes \/ Machine

Spec == Init /\ [][Next]_vars

(***************************************************************************)
(* Properties.                                                             *)
(***************************************************************************)

\* Types of every variable; no reported row has the pid of an empty element.
TypeOK ==
  /\ library \in Libraries
  /\ running \in [ListNames -> SUBSET Pids] /\ lost \in BOOLEAN
  /\ healthy \in BOOLEAN
  /\ pc \in {"static", "idle", "metrics", "list", "assign", "fill", "absorb", "done", "gone"}
  /\ q \in Nat \ {0} /\ try \in Nat /\ value \subseteq Nat
  /\ list \in 1..3 /\ buffer \subseteq Elements /\ room \in Nat /\ count \in Nat
  /\ attempt \in 0..Attempts /\ status \in Statuses
  /\ DOMAIN merged \subseteq Pids /\ \A p \in DOMAIN merged : merged[p] \in ProcessInfo
  /\ lostBefore \in BOOLEAN
  /\ touched \in [ListNames -> SUBSET Pids] /\ steady \in [ListNames -> SUBSET Pids]
  /\ listed \subseteq Lists

\* healthy_ is false only when the device really is gone: no refused query, no
\* permission error and no list that keeps growing costs the registry a device
\* (the contract of gpu_driver.hpp).
HealthyUntilLost == ~healthy => lost

\* A sample of a device that was gone before it began reports nothing at all, not
\* even a process, and leaves the driver unhealthy: the registry drops it in the
\* same pass, whatever entry points this library exports.
LostSampleIsEmpty ==
  pc = "done" /\ lostBefore => ~healthy /\ value = {} /\ merged = NoProcesses

\* When the library is handed the vector, count is no more than its elements: a list
\* that grew between the sizing call and the filling call is never written past the
\* end of the buffer, however often it grows.
BufferHoldsCount == pc = "fill" => count <= room

\* Every reported process was on the GPU while the lists were read; it is called a
\* compute process only if it was one; and if the graphics list was read, it is
\* called a graphics process only if it was one.
ReportedWereThere ==
  pc = "done" => \A p \in DOMAIN merged :
    /\ p \in touched["compute"] \cup touched["graphics"]
    /\ merged[p].compute => p \in touched["compute"]
    /\ merged[p].graphics /\ "graphics" \in listed => p \in touched["graphics"]

\* A process that stayed in a list that was read is reported, as what it is, with its
\* memory if that list sees it: neither the merge by pid nor the other list, read or
\* refused, loses it.
StayersAreReported ==
  pc = "done" => \A l \in listed : \A p \in steady[l] :
    /\ p \in DOMAIN merged
    /\ merged[p][l]
    /\ p \in Visible[l] => merged[p].vram
================================================================================
