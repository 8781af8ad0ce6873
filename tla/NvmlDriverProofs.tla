--------------------------- MODULE NvmlDriverProofs ---------------------------
(***************************************************************************)
(* Proofs, for every library, any number of processes and every machine    *)
(* the library may run on, of the invariants of NvmlDriver.                *)
(***************************************************************************)
EXTENDS NvmlDriver, FiniteSetTheorems, SequenceTheorems, TLAPS

(***************************************************************************)
(* The inductive invariant, in parts.                                      *)
(***************************************************************************)
Collecting == {"assign", "fill", "absorb"}
Listing == {"list"} \cup Collecting

\* collect() is called for a list that the library exports, and the vector it fills is
\* as large as it was last told.
CollectInv ==
  /\ pc \in Collecting => list \in {1, 2} /\ Asked \in Lists
  /\ pc \in {"assign", "fill"} => attempt < Attempts
  /\ pc = "fill" => room = count

\* Only a loss is taken for one.
LossInv == (~healthy \/ status = "LOST" \/ lostBefore) => lost

\* In a sample of a lost device nothing is ever answered; while the driver still thinks
\* it healthy, nothing has been asked.
UnaskedSoFar ==
  /\ pc = "metrics" => try = 0 /\ \A i \in DOMAIN library.metrics : i < q => library.metrics[i] = 0
  /\ pc # "metrics" =>
       /\ \A i \in DOMAIN library.metrics : library.metrics[i] = 0
       /\ \A i \in DOMAIN ListOrder : i < list => ListOrder[i] \notin Lists

QuietInv ==
  /\ lostBefore =>
       /\ pc \in {"metrics", "list", "absorb", "done"}
       /\ value = {} /\ merged = NoProcesses
       /\ pc # "metrics" => buffer = {}
       /\ pc = "absorb" => status = "LOST"
       /\ healthy => UnaskedSoFar
  /\ pc = "done" => list = 3

\* While the lists are read, steady and touched bound what runs.
SeenInv ==
  /\ \A l \in ListNames : steady[l] \subseteq running[l]
  /\ pc \in Listing => \A l \in ListNames : running[l] \subseteq touched[l]

\* What is in the vector when a list is merged: a list that was read, whole; or, after a
\* refusal, nothing or what the list before it left there.
PidsIn(elements) == {e.pid : e \in elements}

WholeList ==
  /\ PidsIn(buffer) \subseteq touched[Asked]
  /\ \A p \in steady[Asked] : [pid |-> p, vram |-> p \in Visible[Asked]] \in buffer

Leftovers == IF list = 1 THEN buffer = {} ELSE PidsIn(buffer) \subseteq touched["compute"]

BufferInv ==
  /\ pc = "list" /\ list \in {1, 2} => Leftovers
  /\ pc = "absorb" => IF status = "SUCCESS" THEN WholeList ELSE Leftovers

\* The rows merged so far.
RowsWereThere ==
  \A p \in DOMAIN merged :
    /\ p \in touched["compute"] \cup touched["graphics"]
    /\ merged[p].compute => p \in touched["compute"]
    /\ merged[p].graphics /\ "graphics" \in listed => p \in touched["graphics"]

StayersHaveRows ==
  \A l \in listed : \A p \in steady[l] :
    /\ p \in DOMAIN merged
    /\ merged[p][l]
    /\ p \in Visible[l] => merged[p].vram

MergeInv ==
  /\ pc = "metrics" => merged = NoProcesses
  /\ pc \in Listing \cup {"done"} =>
       /\ list = 1 => merged = NoProcesses /\ listed = {}
       /\ list = 2 => "graphics" \notin listed /\ \A p \in DOMAIN merged : ~merged[p].graphics
       /\ RowsWereThere /\ StayersHaveRows

IInv == TypeOK /\ CollectInv /\ LossInv /\ QuietInv /\ SeenInv /\ BufferInv /\ MergeInv

(***************************************************************************)
(* Types.                                                                  *)
(***************************************************************************)
LEMMA TheLibrary ==
  ASSUME library \in Libraries
  PROVE  /\ IsFiniteSet(Pids) /\ NoPid \notin Pids
         /\ library.static \in Seq(Nat) /\ library.metrics \in Seq(Nat)
         /\ Lists \subseteq ListNames /\ Visible \in [ListNames -> SUBSET Pids]
BY LibraryAssumption DEF IsLibrary, Pids, Lists, Visible

LEMMA TheListOrder ==
  /\ DOMAIN ListOrder = {1, 2}
  /\ ListOrder[1] = "compute" /\ ListOrder[2] = "graphics"
  /\ 1 \in DOMAIN ListOrder /\ 2 \in DOMAIN ListOrder /\ 3 \notin DOMAIN ListOrder
BY DEF ListOrder

LEMMA ListsAreNamed ==
  ASSUME list \in {1, 2}
  PROVE  /\ Asked \in ListNames
         /\ list = 1 => Asked = "compute"
         /\ list = 2 => Asked = "graphics"
BY TheListOrder DEF Asked, ListNames

LEMMA NeededIsANumber ==
  ASSUME TypeOK, list \in {1, 2}
  PROVE  /\ Needed \in Nat /\ Contents \subseteq Elements
         /\ Needed = 0 => running[Asked] = {}
<1>1. running[Asked] \subseteq Pids /\ IsFiniteSet(Pids)
  BY ListsAreNamed, TheLibrary DEF TypeOK
<1>2. IsFiniteSet(running[Asked])
  BY <1>1, FS_Subset
<1>3. Needed \in Nat /\ (Needed = 0 => running[Asked] = {})
  BY <1>2, FS_CardinalityType, FS_EmptySet DEF Needed
<1>4. \A p \in running[Asked] : [pid |-> p, vram |-> p \in Visible[Asked]] \in Elements
  <2> TAKE p \in running[Asked]
  <2>1. p \in Pids \cup {NoPid} /\ (p \in Visible[Asked]) \in BOOLEAN
    BY <1>1
  <2> QED  BY <2>1, Zenon DEF Elements
<1> QED  BY <1>3, <1>4 DEF Contents

\* What absorb() makes of a row, for one list and the other.
LEMMA ComputeRow ==
  ASSUME NEW row \in ProcessInfo, NEW memory \in BOOLEAN,
         NEW r, r = [row EXCEPT !.compute = TRUE, !.vram = memory]
  PROVE  r \in ProcessInfo /\ r.compute = TRUE /\ r.graphics = row.graphics /\ r.vram = memory
BY DEF ProcessInfo

LEMMA GraphicsRow ==
  ASSUME NEW row \in ProcessInfo, NEW memory \in BOOLEAN,
         NEW r, r = [row EXCEPT !.graphics = TRUE, !.vram = memory]
  PROVE  r \in ProcessInfo /\ r.graphics = TRUE /\ r.compute = row.compute /\ r.vram = memory
BY DEF ProcessInfo

LEMMA AbsorbedRow ==
  ASSUME TypeOK, list \in {1, 2}, NEW p \in Pids
  PROVE  /\ Absorbed(p) \in ProcessInfo
         /\ Absorbed(p).vram = (Row(p).vram \/ \E e \in buffer : e.pid = p /\ e.vram)
         /\ list = 1 => Absorbed(p).compute = TRUE /\ Absorbed(p).graphics = Row(p).graphics
         /\ list = 2 => Absorbed(p).graphics = TRUE /\ Absorbed(p).compute = Row(p).compute
<1> DEFINE memory == Row(p).vram \/ \E e \in buffer : e.pid = p /\ e.vram
<1>1. Row(p) \in ProcessInfo
  BY DEF TypeOK, Row, Blank, ProcessInfo
<1>2. memory \in BOOLEAN
  OBVIOUS
<1>3. CASE list = 1
  <2>1. Absorbed(p) = [Row(p) EXCEPT !.compute = TRUE, !.vram = memory]
    BY <1>3, ListsAreNamed, Zenon DEF Absorbed
  <2> HIDE DEF memory
  <2>2. /\ Absorbed(p) \in ProcessInfo /\ Absorbed(p).vram = memory
        /\ Absorbed(p).compute = TRUE /\ Absorbed(p).graphics = Row(p).graphics
    BY <1>1, <1>2, <2>1, ComputeRow, Zenon
  <2> QED  BY <1>3, <2>2 DEF memory
<1>4. CASE list = 2
  <2>1. Absorbed(p) = [Row(p) EXCEPT !.graphics = TRUE, !.vram = memory]
    BY <1>4, ListsAreNamed, Zenon DEF Absorbed
  <2> HIDE DEF memory
  <2>2. /\ Absorbed(p) \in ProcessInfo /\ Absorbed(p).vram = memory
        /\ Absorbed(p).graphics = TRUE /\ Absorbed(p).compute = Row(p).compute
    BY <1>1, <1>2, <2>1, GraphicsRow, Zenon
  <2> QED  BY <1>4, <2>2 DEF memory
<1> QED  BY <1>3, <1>4

\* The machine moves: what was steady shrinks, what was touched grows.
MachineMoves ==
  /\ UNCHANGED <<library, healthy, pc, metrics, collecting, merged, lostBefore, listed>>
  /\ running' \in [ListNames -> SUBSET Pids] /\ lost' \in BOOLEAN /\ (lost => lost')
  /\ touched' \in [ListNames -> SUBSET Pids] /\ steady' \in [ListNames -> SUBSET Pids]
  /\ \A l \in ListNames :
       /\ touched[l] \subseteq touched'[l] /\ steady'[l] \subseteq steady[l]
       /\ running'[l] \subseteq running[l] \cup touched'[l]
       /\ steady[l] \subseteq running[l] => steady'[l] \subseteq running'[l]

LEMMA MachineStep == TypeOK /\ Machine => MachineMoves
<1> SUFFICES ASSUME TypeOK, Machine  PROVE MachineMoves
  OBVIOUS
<1> USE DEF metrics, collecting, history
<1>1. CASE GpuIsLost
  BY <1>1 DEF GpuIsLost, MachineMoves, TypeOK
<1>2. ASSUME NEW l \in Lists, NEW p \in Pids, ProcessStarts(l, p)  PROVE MachineMoves
  BY <1>2, TheLibrary DEF ProcessStarts, MachineMoves, TypeOK
<1>3. ASSUME NEW l \in Lists, NEW p \in Pids, ProcessExits(l, p)  PROVE MachineMoves
  BY <1>3, TheLibrary DEF ProcessExits, MachineMoves, TypeOK
<1> QED  BY <1>1, <1>2, <1>3 DEF Machine

LEMMA EmptyFunctions ==
  /\ DOMAIN NoProcesses = {}
  /\ Nobody \in [ListNames -> SUBSET Pids] /\ \A l \in ListNames : Nobody[l] = {}
BY DEF NoProcesses, Nobody

\* No row is made of an element that the library has not filled.
LEMMA FoundArePids ==
  ASSUME TypeOK, CollectInv, BufferInv, pc = "absorb"
  PROVE  list \in {1, 2} /\ PidsIn(buffer) \subseteq Pids
<1>1. list \in {1, 2} /\ Asked \in ListNames /\ "compute" \in ListNames
  BY ListsAreNamed DEF CollectInv, Collecting, ListNames
<1>2. touched[Asked] \subseteq Pids /\ touched["compute"] \subseteq Pids
  BY <1>1 DEF TypeOK
<1> QED  BY <1>1, <1>2 DEF BufferInv, WholeList, Leftovers, PidsIn

LEMMA NextTypeOK == TypeOK /\ CollectInv /\ BufferInv /\ [Next]_vars => TypeOK' /\ CollectInv'
<1> SUFFICES ASSUME TypeOK, CollectInv, BufferInv, [Next]_vars  PROVE TypeOK' /\ CollectInv'
  OBVIOUS
<1> USE TheListOrder DEF machine, metrics, collecting, history, CollectInv, Collecting, Asked
<1> USE DEF Pids, Lists, Elements, Statuses
<1>1. CASE AskField
  BY <1>1, TheLibrary DEF AskField, TypeOK, Answers, Note, Tries
<1>2. CASE NextField
  BY <1>2 DEF NextField, TypeOK
<1>3. CASE FinishConstruction
  BY <1>3 DEF FinishConstruction, TypeOK
<1>4. CASE StartSample
  BY <1>4, EmptyFunctions DEF StartSample, TypeOK
<1>5. CASE FinishMetrics
  BY <1>5 DEF FinishMetrics, TypeOK, Attempts
<1>6. CASE SkipList
  BY <1>6 DEF SkipList, Reading, TypeOK
<1>7. CASE SizeList
  <2>1. list \in {1, 2} /\ Needed \in Nat
    BY <1>7, NeededIsANumber DEF SizeList, Reading
  <2> QED
    BY <1>7, <2>1 DEF SizeList, SizeFails, SizeNone, SizeSome, Reading, Answers, TypeOK, Attempts
<1>8. CASE AssignBuffer
  BY <1>8 DEF AssignBuffer, TypeOK
<1>9. CASE FillList
  <2>1. list \in {1, 2} /\ Needed \in Nat /\ Contents \subseteq Elements
    BY <1>9, NeededIsANumber DEF FillList
  <2> QED
    BY <1>9, <2>1 DEF FillList, FillFails, FillFits, Grown, GivenUp, Answers, TypeOK, Attempts
<1>10. CASE AbsorbList
  <2>1. list \in {1, 2} /\ PidsIn(buffer) \subseteq Pids /\ Asked \in Lists
    BY <1>10, FoundArePids DEF AbsorbList
  <2>2. \A p \in PidsIn(buffer) : Absorbed(p) \in ProcessInfo
    BY <2>1, AbsorbedRow
  <2>3. DOMAIN merged' \subseteq Pids /\ \A p \in DOMAIN merged' : merged'[p] \in ProcessInfo
    BY <1>10, <2>1, <2>2 DEF AbsorbList, PidsIn, TypeOK
  <2> QED  BY <1>10, <2>1, <2>3 DEF AbsorbList, Note, TypeOK
<1>11. CASE FinishEmpty
  BY <1>11 DEF FinishEmpty, TypeOK
<1>12. CASE ReadUtilization
  <2>1. PICK sampled \in SUBSET Pids :
          merged' = [p \in DOMAIN merged |-> [merged[p] EXCEPT !.util = p \in sampled]]
    BY <1>12 DEF ReadUtilization
  <2>2. ASSUME NEW p \in DOMAIN merged, NEW used \in BOOLEAN
        PROVE  [merged[p] EXCEPT !.util = used] \in ProcessInfo
    BY DEF TypeOK, ProcessInfo
  <2>3. \A p \in DOMAIN merged : (p \in sampled) \in BOOLEAN
    OBVIOUS
  <2>4. DOMAIN merged' = DOMAIN merged /\ \A p \in DOMAIN merged : merged'[p] \in ProcessInfo
    BY <2>1, <2>2, <2>3, Zenon
  <2> QED  BY <1>12, <2>4 DEF ReadUtilization, TypeOK
<1>13. CASE Return
  <2>1. /\ touched' \in [ListNames -> SUBSET Pids'] /\ steady' \in [ListNames -> SUBSET Pids']
        /\ DOMAIN merged' = {}
    BY <1>13, EmptyFunctions DEF Return
  <2>2. DOMAIN merged' \subseteq Pids' /\ \A p \in DOMAIN merged' : merged'[p] \in ProcessInfo
    BY <2>1
  <2>3. list' \in 1..3 /\ attempt' \in 0..Attempts /\ pc' \in {"idle", "gone"} /\ listed' = {}
    BY <1>13 DEF Return, Attempts
  <2>4. CollectInv'
    BY <2>3
  <2>5. TypeOK'
    BY <1>13, <2>1, <2>2, <2>3 DEF Return, TypeOK
  <2> QED  BY <2>4, <2>5
<1>14. CASE Machine
  BY <1>14, MachineStep DEF MachineMoves, TypeOK
<1>15. CASE UNCHANGED vars
  BY <1>15 DEF vars, TypeOK
<1> QED
  BY <1>1, <1>2, <1>3, <1>4, <1>5, <1>6, <1>7, <1>8, <1>9, <1>10, <1>11, <1>12, <1>13, <1>14, <1>15
  DEF Next, Fields, Processes

(***************************************************************************)
(* A loss.                                                                 *)
(***************************************************************************)
LEMMA NextLossInv == TypeOK /\ LossInv /\ [Next]_vars => LossInv'
<1> SUFFICES ASSUME TypeOK, LossInv, [Next]_vars  PROVE LossInv'
  OBVIOUS
<1> USE DEF LossInv, machine, metrics, collecting, history
<1>1. CASE AskField
  BY <1>1 DEF AskField, Answers, Note
<1>2. CASE NextField \/ FinishConstruction \/ StartSample \/ FinishMetrics \/ SkipList
  BY <1>2 DEF NextField, FinishConstruction, StartSample, FinishMetrics, SkipList
<1>3. CASE SizeList
  BY <1>3 DEF SizeList, SizeFails, SizeNone, SizeSome, Answers
<1>4. CASE FillList
  BY <1>4 DEF FillList, FillFails, FillFits, Grown, GivenUp, Answers
<1>5. CASE AbsorbList
  BY <1>5 DEF AbsorbList, Note
<1>6. CASE AssignBuffer \/ FinishEmpty \/ ReadUtilization \/ Return
  BY <1>6 DEF AssignBuffer, FinishEmpty, ReadUtilization, Return
<1>7. CASE Machine
  BY <1>7, MachineStep DEF MachineMoves
<1>8. CASE UNCHANGED vars
  BY <1>8 DEF vars
<1> QED
  BY <1>1, <1>2, <1>3, <1>4, <1>5, <1>6, <1>7, <1>8 DEF Next, Fields, Processes

LEMMA NextSeenInv == TypeOK /\ SeenInv /\ [Next]_vars => SeenInv'
<1> SUFFICES ASSUME TypeOK, SeenInv, [Next]_vars  PROVE SeenInv'
  OBVIOUS
<1> USE DEF SeenInv, Listing, Collecting, machine, metrics, collecting, history
<1>1. CASE AskField \/ NextField \/ FinishConstruction \/ StartSample \/ FinishMetrics
  BY <1>1 DEF AskField, NextField, FinishConstruction, StartSample, FinishMetrics
<1>2. CASE SkipList \/ SizeList \/ AssignBuffer \/ FillList \/ AbsorbList
  BY <1>2 DEF SkipList, SizeList, Reading, AssignBuffer, FillList, AbsorbList
<1>3. CASE FinishEmpty \/ ReadUtilization
  BY <1>3 DEF FinishEmpty, ReadUtilization
<1>4. CASE Return
  BY <1>4, EmptyFunctions DEF Return
<1>5. CASE Machine
  BY <1>5, MachineStep DEF MachineMoves
<1>6. CASE UNCHANGED vars
  BY <1>6 DEF vars
<1> QED  BY <1>1, <1>2, <1>3, <1>4, <1>5, <1>6 DEF Next, Fields, Processes

\* Once all that the library exports has been asked of a device that is lost, the driver
\* is not healthy any more: something is exported.
LEMMA AskedIsNoticed ==
  ASSUME TypeOK, UnaskedSoFar, pc # "metrics", list = 3
  PROVE  FALSE
<1>1. library.metrics \in Seq(Nat) /\ Lists \subseteq ListNames
  BY TheLibrary DEF TypeOK
<1>2. \A i \in DOMAIN library.metrics : ~(library.metrics[i] > 0)
  BY DEF UnaskedSoFar
<1>3. ListOrder[1] \notin Lists /\ ListOrder[2] \notin Lists
  BY TheListOrder DEF UnaskedSoFar
<1>4. library.lists = {}
  BY <1>1, <1>3, TheListOrder DEF Lists, ListNames
<1> QED  BY <1>2, <1>4, SomethingIsAsked DEF TypeOK

LEMMA NextQuietInv == TypeOK /\ CollectInv /\ LossInv /\ QuietInv /\ [Next]_vars => QuietInv'
<1> SUFFICES ASSUME TypeOK, CollectInv, LossInv, QuietInv, [Next]_vars  PROVE QuietInv'
  OBVIOUS
<1> USE DEF QuietInv, machine, metrics, collecting, history
<1>1. CASE AskField
  <2>1. lostBefore => healthy' = FALSE /\ value' = {}
    BY <1>1 DEF AskField, Answers, Note, LossInv
  <2> QED  BY <1>1, <2>1 DEF AskField
<1>2. CASE NextField
  <2>1. ASSUME lostBefore, healthy  PROVE UnaskedSoFar'
    <3>1. pc = "metrics" /\ pc' = pc /\ try = 0 /\ try' = 0 /\ q' = q + 1 /\ library' = library
          /\ q \in DOMAIN library.metrics /\ library.metrics[q] = 0
          /\ \A i \in DOMAIN library.metrics : i < q => library.metrics[i] = 0
      BY <1>2, <2>1, TheLibrary DEF NextField, UnaskedSoFar, Tries, TypeOK
    <3>2. DOMAIN library.metrics \subseteq Nat /\ q \in Nat
      BY TheLibrary DEF TypeOK
    <3> QED  BY <3>1, <3>2 DEF UnaskedSoFar
  <2> QED  BY <1>2, <2>1 DEF NextField
<1>3. CASE FinishConstruction
  BY <1>3 DEF FinishConstruction
<1>4. CASE StartSample
  <2>1. UnaskedSoFar'
    BY <1>4, TheLibrary DEF StartSample, UnaskedSoFar, TypeOK
  <2> QED  BY <1>4, <2>1 DEF StartSample
<1>5. CASE FinishMetrics
  <2>1. ASSUME lostBefore, healthy  PROVE UnaskedSoFar'
    <3>1. \A i \in DOMAIN library.metrics : i < q
      BY <1>5, TheLibrary DEF FinishMetrics, Tries, TypeOK
    <3>2. DOMAIN ListOrder = {1, 2} /\ list' = 1
      BY <1>5, TheListOrder DEF FinishMetrics
    <3> QED  BY <1>5, <2>1, <3>1, <3>2 DEF FinishMetrics, UnaskedSoFar
  <2> QED  BY <1>5, <2>1 DEF FinishMetrics
<1>6. CASE SkipList
  <2>1. ASSUME lostBefore, healthy  PROVE UnaskedSoFar'
    BY <1>6, <2>1, TheListOrder DEF SkipList, Reading, Asked, Lists, UnaskedSoFar, TypeOK
  <2> QED  BY <1>6, <2>1 DEF SkipList, Reading
<1>7. CASE SizeList
  <2>1. ASSUME lostBefore, healthy  PROVE UnaskedSoFar'
    BY <1>7, <2>1 DEF SizeList, SizeFails, SizeNone, SizeSome, Reading, Lists, UnaskedSoFar, LossInv
  <2> QED  BY <1>7, <2>1 DEF SizeList, SizeFails, SizeNone, SizeSome, Reading, Answers, LossInv
<1>8. CASE AssignBuffer \/ FillList
  BY <1>8 DEF AssignBuffer, FillList, FillFails, FillFits, Grown, GivenUp
<1>9. CASE AbsorbList
  <2>1. lostBefore => healthy' = FALSE
    BY <1>9 DEF AbsorbList, Note
  <2>2. ASSUME lostBefore  PROVE merged' = NoProcesses
    <3>1. {e.pid : e \in buffer} = {} /\ merged = NoProcesses
      BY <1>9, <2>2 DEF AbsorbList
    <3>2. merged' = [p \in DOMAIN merged |-> merged[p]] /\ DOMAIN merged = {}
      BY <1>9, <3>1, EmptyFunctions DEF AbsorbList
    <3> QED  BY <3>2 DEF NoProcesses
  <2> QED  BY <1>9, <2>1, <2>2 DEF AbsorbList
<1>10. CASE FinishEmpty
  <2>1. list = 3
    BY <1>10, TheListOrder DEF FinishEmpty, TypeOK
  <2>2. lostBefore => ~healthy
    BY <1>10, <2>1, AskedIsNoticed DEF FinishEmpty
  <2> QED  BY <1>10, <2>1, <2>2 DEF FinishEmpty
<1>11. CASE ReadUtilization
  <2>1. list = 3 /\ ~lostBefore
    BY <1>11, TheListOrder DEF ReadUtilization, TypeOK
  <2> QED  BY <1>11, <2>1 DEF ReadUtilization
<1>12. CASE Return
  BY <1>12 DEF Return
<1>13. CASE Machine \/ UNCHANGED vars
  <2>1. /\ UNCHANGED <<library, healthy, pc, q, try, value, list, buffer, status, merged, lostBefore>>
    BY <1>13, MachineStep DEF MachineMoves, vars
  <2> QED  BY <2>1 DEF UnaskedSoFar, Lists
<1> QED
  BY <1>1, <1>2, <1>3, <1>4, <1>5, <1>6, <1>7, <1>8, <1>9, <1>10, <1>11, <1>12, <1>13
  DEF Next, Fields, Processes

(***************************************************************************)
(* The vector, and the rows made of it.                                    *)
(***************************************************************************)
LEMMA ContentsAreWhole ==
  ASSUME TypeOK, SeenInv, pc \in Listing, list \in {1, 2}
  PROVE  /\ PidsIn(Contents) \subseteq touched[Asked]
         /\ \A p \in steady[Asked] : [pid |-> p, vram |-> p \in Visible[Asked]] \in Contents
<1>1. steady[Asked] \subseteq running[Asked] /\ running[Asked] \subseteq touched[Asked]
  BY ListsAreNamed DEF SeenInv
<1>2. PidsIn(Contents) \subseteq running[Asked]
  BY DEF PidsIn, Contents
<1>3. \A p \in running[Asked] : [pid |-> p, vram |-> p \in Visible[Asked]] \in Contents
  BY Zenon DEF Contents
<1> QED  BY <1>1, <1>2, <1>3

LEMMA NextBufferInv == TypeOK /\ CollectInv /\ SeenInv /\ BufferInv /\ [Next]_vars => BufferInv'
<1> SUFFICES ASSUME TypeOK, CollectInv, SeenInv, BufferInv, [Next]_vars  PROVE BufferInv'
  OBVIOUS
<1> USE DEF BufferInv, machine, metrics, collecting, history
<1>1. CASE AskField \/ NextField \/ FinishConstruction \/ StartSample
  BY <1>1 DEF AskField, NextField, FinishConstruction, StartSample
<1>2. CASE FinishMetrics
  BY <1>2 DEF FinishMetrics, Leftovers
<1>3. CASE SkipList
  BY <1>3 DEF SkipList, Reading, Leftovers, PidsIn, TypeOK
<1>4. CASE SizeList
  <2>1. pc = "list" /\ list \in {1, 2} /\ Leftovers /\ list' = list /\ library' = library
        /\ touched' = touched /\ steady' = steady
    BY <1>4, TheListOrder DEF SizeList, Reading
  <2>2. CASE SizeFails
    BY <1>4, <2>1, <2>2 DEF SizeFails, Leftovers
  <2>3. CASE SizeNone
    <3>1. buffer' = {} /\ steady[Asked] = {}
      BY <2>1, <2>3, NeededIsANumber, ListsAreNamed DEF SizeNone, SeenInv
    <3> QED  BY <2>1, <2>3, <3>1 DEF SizeNone, WholeList, PidsIn, Asked
  <2>4. CASE SizeSome
    BY <1>4, <2>4 DEF SizeSome
  <2> QED  BY <1>4, <2>2, <2>3, <2>4 DEF SizeList
<1>5. CASE AssignBuffer
  BY <1>5 DEF AssignBuffer
<1>6. CASE FillList
  <2>1. pc = "fill" /\ list \in {1, 2} /\ list' = list /\ library' = library
        /\ touched' = touched /\ steady' = steady
    BY <1>6 DEF FillList, CollectInv, Collecting
  <2>2. CASE FillFails \/ GivenUp
    BY <2>1, <2>2 DEF FillFails, GivenUp, Leftovers, PidsIn
  <2>3. CASE FillFits
    <3>1. buffer' = Contents /\ status' = "SUCCESS" /\ Asked' = Asked /\ Visible' = Visible
      BY <2>1, <2>3 DEF FillFits, Asked, Visible
    <3>2. WholeList'
      BY <2>1, <3>1, ContentsAreWhole DEF WholeList, Listing, Collecting
    <3> QED  BY <2>3, <3>1, <3>2 DEF FillFits
  <2>4. CASE Grown
    BY <2>4 DEF Grown
  <2> QED  BY <1>6, <2>2, <2>3, <2>4 DEF FillList
<1>7. CASE AbsorbList
  <2>1. list \in {1, 2} /\ list' = list + 1 /\ buffer' = buffer /\ touched' = touched /\ pc' = "list"
    BY <1>7 DEF AbsorbList, CollectInv, Collecting
  <2>2. list = 1 => PidsIn(buffer) \subseteq touched["compute"]
    BY <1>7, ListsAreNamed DEF AbsorbList, WholeList, Leftovers, PidsIn
  <2> QED  BY <2>1, <2>2 DEF Leftovers, PidsIn
<1>8. CASE FinishEmpty \/ ReadUtilization \/ Return
  BY <1>8 DEF FinishEmpty, ReadUtilization, Return
<1>9. CASE Machine \/ UNCHANGED vars
  <2>1. /\ UNCHANGED <<library, pc, list, buffer, status>>
        /\ \A l \in ListNames : touched[l] \subseteq touched'[l] /\ steady'[l] \subseteq steady[l]
    BY <1>9, MachineStep DEF MachineMoves, vars
  <2>2. CASE pc = "list"
    BY <2>1, <2>2 DEF Leftovers, PidsIn, ListNames
  <2>3. CASE pc = "absorb"
    <3>1. list \in {1, 2} /\ Asked \in ListNames /\ Asked' = Asked /\ Visible' = Visible
      BY <2>1, <2>3, ListsAreNamed DEF CollectInv, Collecting, Asked, Visible
    <3>2. WholeList => WholeList'
      BY <2>1, <3>1 DEF WholeList, PidsIn
    <3>3. Leftovers => Leftovers'
      BY <2>1 DEF Leftovers, PidsIn, ListNames
    <3> QED  BY <2>1, <2>3, <3>2, <3>3
  <2> QED  BY <2>1, <2>2, <2>3
<1> QED
  BY <1>1, <1>2, <1>3, <1>4, <1>5, <1>6, <1>7, <1>8, <1>9 DEF Next, Fields, Processes

\* One row for each process known before or found now.
LEMMA AbsorbedRows ==
  ASSUME TypeOK, CollectInv, BufferInv, AbsorbList
  PROVE  /\ list \in {1, 2} /\ PidsIn(buffer) \subseteq Pids
         /\ DOMAIN merged' = DOMAIN merged \cup PidsIn(buffer)
         /\ \A p \in PidsIn(buffer) : merged'[p] = Absorbed(p)
         /\ \A p \in DOMAIN merged \ PidsIn(buffer) : merged'[p] = merged[p]
BY FoundArePids DEF AbsorbList, PidsIn

LEMMA AbsorbKeepsRows ==
  ASSUME TypeOK, CollectInv, BufferInv, MergeInv, AbsorbList
  PROVE  RowsWereThere' /\ (list = 1 => \A p \in DOMAIN merged' : ~merged'[p].graphics)
<1>1. /\ list \in {1, 2} /\ PidsIn(buffer) \subseteq Pids
      /\ DOMAIN merged' = DOMAIN merged \cup PidsIn(buffer)
      /\ \A p \in PidsIn(buffer) : merged'[p] = Absorbed(p)
      /\ \A p \in DOMAIN merged \ PidsIn(buffer) : merged'[p] = merged[p]
  BY AbsorbedRows
<1>2. /\ touched' = touched /\ pc = "absorb"
      /\ listed' = IF status = "SUCCESS" THEN listed \cup {Asked} ELSE listed
  BY DEF AbsorbList, history
<1>3. /\ RowsWereThere
      /\ list = 1 => merged = NoProcesses /\ listed = {}
      /\ list = 2 => "graphics" \notin listed /\ \A p \in DOMAIN merged : ~merged[p].graphics
  BY <1>2 DEF MergeInv, Listing, Collecting
<1>4. CASE list = 1
  <2>1. PidsIn(buffer) \subseteq touched["compute"]
    BY <1>2, <1>4, ListsAreNamed DEF BufferInv, WholeList, Leftovers, PidsIn
  <2>2. DOMAIN merged' = PidsIn(buffer) /\ \A p \in Pids : Row(p) = Blank
    BY <1>1, <1>3, <1>4, EmptyFunctions DEF Row
  <2>3. \A p \in DOMAIN merged' : merged'[p].graphics = FALSE
    <3>1. Blank.graphics = FALSE
      BY DEF Blank
    <3>2. ASSUME NEW p \in PidsIn(buffer)  PROVE Absorbed(p).graphics = Row(p).graphics
      BY <1>1, <1>4, AbsorbedRow
    <3> QED  BY <1>1, <2>2, <3>1, <3>2
  <2> QED  BY <1>2, <2>1, <2>2, <2>3 DEF RowsWereThere
<1>5. CASE list = 2
  <2>1. PidsIn(buffer) \subseteq touched[IF status = "SUCCESS" THEN "graphics" ELSE "compute"]
    BY <1>2, <1>5, ListsAreNamed DEF BufferInv, WholeList, Leftovers
  <2>2. "graphics" \in listed' <=> status = "SUCCESS"
    BY <1>2, <1>3, <1>5, ListsAreNamed
  <2>3. ASSUME NEW p \in DOMAIN merged'
        PROVE  /\ p \in touched["compute"] \cup touched["graphics"]
               /\ merged'[p].compute => p \in touched["compute"]
               /\ merged'[p].graphics /\ "graphics" \in listed' => p \in touched["graphics"]
    <3>1. CASE p \in PidsIn(buffer)
      <4>1. merged'[p].compute = Row(p).compute
        BY <1>1, <1>5, <3>1, AbsorbedRow
      <4>2. Row(p).compute => p \in DOMAIN merged /\ merged[p].compute
        BY DEF Row, Blank
      <4>3. Row(p).compute => p \in touched["compute"]
        BY <1>3, <4>2 DEF RowsWereThere
      <4> QED  BY <2>1, <2>2, <3>1, <4>1, <4>3
    <3>2. CASE p \notin PidsIn(buffer)
      <4>1. p \in DOMAIN merged /\ merged'[p] = merged[p]
        BY <1>1, <3>2
      <4> QED  BY <1>3, <1>5, <4>1 DEF RowsWereThere
    <3> QED  BY <3>1, <3>2
  <2> QED  BY <1>2, <1>5, <2>3 DEF RowsWereThere
<1> QED  BY <1>1, <1>4, <1>5

LEMMA AbsorbKeepsStayers ==
  ASSUME TypeOK, CollectInv, BufferInv, MergeInv, AbsorbList
  PROVE  StayersHaveRows'
<1>1. /\ list \in {1, 2} /\ PidsIn(buffer) \subseteq Pids
      /\ DOMAIN merged' = DOMAIN merged \cup PidsIn(buffer)
      /\ \A p \in PidsIn(buffer) : merged'[p] = Absorbed(p)
      /\ \A p \in DOMAIN merged \ PidsIn(buffer) : merged'[p] = merged[p]
  BY AbsorbedRows
<1>2. /\ steady' = steady /\ Visible' = Visible /\ pc = "absorb"
      /\ listed' = IF status = "SUCCESS" THEN listed \cup {Asked} ELSE listed
  BY DEF AbsorbList, history, machine, Visible
<1>3. /\ StayersHaveRows
      /\ list = 1 => listed = {}
      /\ list = 2 => "graphics" \notin listed
      /\ listed \subseteq ListNames
  BY <1>2, TheLibrary DEF MergeInv, Listing, Collecting, TypeOK
\* A row keeps the flag of a list read before, and its memory.
<1>4. ASSUME NEW l \in listed, NEW p \in steady[l]
      PROVE  /\ p \in DOMAIN merged' /\ merged'[p][l]
             /\ p \in Visible[l] => merged'[p].vram
  <2>1. list = 2 /\ l = "compute"
    BY <1>1, <1>3 DEF ListNames
  <2>2. p \in DOMAIN merged /\ merged[p].compute /\ (p \in Visible[l] => merged[p].vram)
    BY <1>3, <2>1 DEF StayersHaveRows
  <2>3. CASE p \in PidsIn(buffer)
    <3>1. Row(p) = merged[p]
      BY <2>2 DEF Row
    <3>2. /\ Absorbed(p).compute = merged[p].compute
          /\ Absorbed(p).vram = (merged[p].vram \/ \E e \in buffer : e.pid = p /\ e.vram)
      BY <1>1, <2>1, <2>3, <3>1, AbsorbedRow
    <3> QED  BY <1>1, <2>1, <2>2, <2>3, <3>2
  <2>4. CASE p \notin PidsIn(buffer)
    BY <1>1, <2>1, <2>2, <2>4
  <2> QED  BY <2>3, <2>4
\* The list just read has been read whole.
<1>5. ASSUME status = "SUCCESS", NEW p \in steady[Asked]
      PROVE  /\ p \in DOMAIN merged' /\ merged'[p][Asked]
             /\ p \in Visible[Asked] => merged'[p].vram
  <2>1. PICK e \in buffer : e = [pid |-> p, vram |-> p \in Visible[Asked]]
    BY <1>2, <1>5 DEF BufferInv, WholeList
  <2>2. e.pid = p /\ e.vram = (p \in Visible[Asked])
    BY <2>1
  <2>3. p \in PidsIn(buffer) /\ merged'[p] = Absorbed(p) /\ p \in Pids
    BY <1>1, <2>2 DEF PidsIn
  <2>4. p \in Visible[Asked] => Absorbed(p).vram
    BY <1>1, <2>2, <2>3, AbsorbedRow
  <2>5. Absorbed(p)[Asked]
    BY <1>1, <2>3, AbsorbedRow, ListsAreNamed
  <2> QED  BY <1>1, <2>3, <2>4, <2>5
<1> QED  BY <1>2, <1>4, <1>5 DEF StayersHaveRows

LEMMA NextMergeInv ==
  TypeOK /\ CollectInv /\ BufferInv /\ MergeInv /\ [Next]_vars => MergeInv'
<1> SUFFICES ASSUME TypeOK, CollectInv, BufferInv, MergeInv, [Next]_vars  PROVE MergeInv'
  OBVIOUS
<1> USE DEF Listing, Collecting, machine, metrics, collecting, history
<1>1. CASE AskField \/ NextField \/ FinishConstruction \/ StartSample \/ Return
  BY <1>1 DEF AskField, NextField, FinishConstruction, StartSample, Return, MergeInv
<1>2. CASE FinishMetrics
  <2>1. merged' = NoProcesses /\ listed' = {} /\ list' = 1 /\ pc' = "list"
    BY <1>2 DEF FinishMetrics, MergeInv
  <2>2. RowsWereThere' /\ StayersHaveRows'
    BY <2>1, EmptyFunctions DEF RowsWereThere, StayersHaveRows
  <2> QED  BY <2>1, <2>2 DEF MergeInv
<1>3. CASE SkipList
  <2>1. /\ pc = "list" /\ pc' = pc /\ list' = list + 1 /\ list \in {1, 2}
        /\ UNCHANGED <<library, merged, touched, steady, listed>>
    BY <1>3, TheListOrder DEF SkipList, Reading
  <2>2. RowsWereThere' /\ StayersHaveRows'
    BY <2>1 DEF MergeInv, RowsWereThere, StayersHaveRows, Visible
  <2>3. list = 1 => listed' = {} /\ DOMAIN merged' = {}
    BY <2>1, EmptyFunctions DEF MergeInv
  <2> QED  BY <2>1, <2>2, <2>3 DEF MergeInv
<1>4. CASE AbsorbList
  <2>1. list \in {1, 2} /\ list' = list + 1 /\ pc = "absorb" /\ pc' = "list"
        /\ listed' \subseteq listed \cup {Asked}
    BY <1>4 DEF AbsorbList, CollectInv
  <2>2. list = 1 => "graphics" \notin listed'
    BY <2>1, ListsAreNamed DEF MergeInv
  <2> QED  BY <1>4, <2>1, <2>2, AbsorbKeepsRows, AbsorbKeepsStayers DEF MergeInv
<1>5. CASE ReadUtilization
  <2>1. /\ pc = "list" /\ pc' = "done" /\ list' = list /\ list = 3
        /\ UNCHANGED <<library, touched, steady, listed>>
    BY <1>5, TheListOrder DEF ReadUtilization, TypeOK
  <2>2. PICK sampled : merged' = [p \in DOMAIN merged |-> [merged[p] EXCEPT !.util = p \in sampled]]
    BY <1>5 DEF ReadUtilization
  <2>3. ASSUME NEW p \in DOMAIN merged
        PROVE  /\ merged'[p].compute = merged[p].compute /\ merged'[p].graphics = merged[p].graphics
               /\ merged'[p].vram = merged[p].vram
    BY <2>2 DEF TypeOK, ProcessInfo
  <2>4. DOMAIN merged' = DOMAIN merged /\ listed \subseteq ListNames
    BY <2>2, TheLibrary DEF TypeOK
  <2>5. RowsWereThere'
    BY <2>1, <2>3, <2>4 DEF MergeInv, RowsWereThere
  <2>6. StayersHaveRows'
    <3> SUFFICES ASSUME NEW l \in listed, NEW p \in steady[l]
                 PROVE  /\ p \in DOMAIN merged' /\ merged'[p][l]
                        /\ p \in Visible[l] => merged'[p].vram
      BY <2>1 DEF StayersHaveRows, Visible
    <3>1. p \in DOMAIN merged /\ merged[p][l] /\ (p \in Visible[l] => merged[p].vram)
      BY <2>1 DEF MergeInv, StayersHaveRows
    <3>2. CASE l = "compute"
      BY <2>3, <2>4, <3>1, <3>2
    <3>3. CASE l = "graphics"
      BY <2>3, <2>4, <3>1, <3>3
    <3> QED  BY <2>4, <3>2, <3>3 DEF ListNames
  <2> QED  BY <2>1, <2>5, <2>6 DEF MergeInv
<1>6. CASE SizeList \/ AssignBuffer \/ FillList \/ FinishEmpty
  <2>1. /\ UNCHANGED <<library, list, merged, touched, steady, listed>>
        /\ pc \in Listing /\ pc' # "metrics"
    BY <1>6 DEF SizeList, SizeFails, SizeNone, SizeSome, Reading, AssignBuffer, FillList, FillFails,
       FillFits, Grown, GivenUp, FinishEmpty
  <2> QED  BY <2>1 DEF MergeInv, RowsWereThere, StayersHaveRows, Visible
<1>7. CASE Machine \/ UNCHANGED vars
  <2>1. /\ UNCHANGED <<library, pc, list, merged, listed>>
        /\ \A l \in ListNames : touched[l] \subseteq touched'[l] /\ steady'[l] \subseteq steady[l]
    BY <1>7, MachineStep DEF MachineMoves, vars
  <2>2. touched["compute"] \subseteq touched'["compute"] /\ touched["graphics"] \subseteq touched'["graphics"]
    BY <2>1 DEF ListNames
  <2>3. RowsWereThere => RowsWereThere'
    BY <2>1, <2>2 DEF RowsWereThere
  <2>4. listed \subseteq ListNames
    BY TheLibrary DEF TypeOK
  <2>5. StayersHaveRows => StayersHaveRows'
    BY <2>1, <2>4 DEF StayersHaveRows, Visible
  <2> QED  BY <2>1, <2>3, <2>5 DEF MergeInv
<1> QED
  BY <1>1, <1>2, <1>3, <1>4, <1>5, <1>6, <1>7 DEF Next, Fields, Processes

(***************************************************************************)
(* The theorems.                                                           *)
(***************************************************************************)
LEMMA InitIInv == Init => IInv
<1> SUFFICES ASSUME Init  PROVE IInv
  OBVIOUS
<1>1. library \in Libraries /\ IsFiniteSet(Pids)
  BY TheLibrary DEF Init
<1>2. TypeOK
  <2>1. Nobody \in [ListNames -> SUBSET Pids]
    BY DEF Nobody
  <2>2. touched \in [ListNames -> SUBSET Pids] /\ steady \in [ListNames -> SUBSET Pids]
    BY <2>1 DEF Init
  <2>3. merged = NoProcesses /\ buffer = {} /\ listed = {} /\ value = {}
    BY DEF Init
  <2>4. DOMAIN merged \subseteq Pids /\ \A p \in DOMAIN merged : merged[p] \in ProcessInfo
    BY <2>3, EmptyFunctions
  <2>5. running \in [ListNames -> SUBSET Pids]
    BY DEF Init
  <2>6. /\ lost \in BOOLEAN /\ healthy \in BOOLEAN /\ lostBefore \in BOOLEAN
        /\ pc = "static" /\ q = 1 /\ try = 0 /\ list = 1 /\ room = 0 /\ count = 0
        /\ attempt = 0 /\ status = "SUCCESS"
    BY DEF Init
  <2> QED  BY <1>1, <2>2, <2>3, <2>4, <2>5, <2>6 DEF TypeOK, Statuses, Attempts
<1>3. CollectInv /\ LossInv /\ QuietInv /\ BufferInv /\ MergeInv
  BY DEF Init, CollectInv, LossInv, QuietInv, BufferInv, MergeInv, Listing, Collecting
<1>4. SeenInv
  BY EmptyFunctions DEF Init, SeenInv, Listing, Collecting
<1> QED  BY <1>2, <1>3, <1>4 DEF IInv

\* Types, the loss, what has been asked of a lost device, the vector and the rows made of
\* it: together they are inductive, whatever the library exports.
THEOREM NvmlInvariant == Spec => []IInv
<1>1. IInv /\ [Next]_vars => IInv'
  BY NextTypeOK, NextLossInv, NextQuietInv, NextSeenInv, NextBufferInv, NextMergeInv DEF IInv
<1> QED  BY <1>1, InitIInv, PTL DEF Spec

\* No refused query, no permission error and no list that keeps growing flips healthy_.
THEOREM NoDriverGivenUpEarly == Spec => []HealthyUntilLost
<1>1. IInv => HealthyUntilLost
  BY DEF IInv, LossInv, HealthyUntilLost
<1> QED  BY <1>1, NvmlInvariant, PTL

\* The first sample of a lost device is empty and the last one, whatever the library exports.
THEOREM LossIsNoticedAtOnce == Spec => []LostSampleIsEmpty
<1>1. IInv => LostSampleIsEmpty
  BY AskedIsNoticed DEF IInv, QuietInv, LostSampleIsEmpty
<1> QED  BY <1>1, NvmlInvariant, PTL

\* collect() never has the library write past the end of its vector.
THEOREM NoWritePastTheEnd == Spec => []BufferHoldsCount
<1>1. IInv => BufferHoldsCount
  BY DEF IInv, TypeOK, CollectInv, BufferHoldsCount
<1> QED  BY <1>1, NvmlInvariant, PTL

\* Each process a sample reports was on the GPU while the lists were read.
THEOREM RowsAreOfProcesses == Spec => []ReportedWereThere
<1>1. IInv => ReportedWereThere
  BY DEF IInv, MergeInv, RowsWereThere, ReportedWereThere
<1> QED  BY <1>1, NvmlInvariant, PTL

\* Each process that stayed is reported, by every list that was read.
THEOREM StayersAreNotMissed == Spec => []StayersAreReported
<1>1. IInv => StayersAreReported
  BY DEF IInv, MergeInv, StayersHaveRows, StayersAreReported
<1> QED  BY <1>1, NvmlInvariant, PTL
================================================================================
