---------------------------- MODULE VendorApiProofs ----------------------------
(***************************************************************************)
(* That a vendor's library is held for as long as it is needed and no      *)
(* longer, for every set of devices and every number of API objects.  The  *)
(* properties of VendorApi speak of the moments between calls, or of the   *)
(* drivers alone; what is inductive is an account of every count at every  *)
(* step of every destructor: who holds a share of an API object, who holds *)
(* a handle on the library, who has a reference of it.                     *)
(***************************************************************************)
EXTENDS VendorApi, FiniteSetTheorems, SequenceTheorems, TLAPS

(***************************************************************************)
(* The inductive invariant.                                                *)
(***************************************************************************)
One(holds) == IF holds THEN 1 ELSE 0
Of(a, drivers) == {d \in drivers : d.api = a}
Loaded == {a \in Apis : api[a].library}
Initialised == {a \in Apis : api[a].initialised}

\* An API object has the library from Keep until it is destroyed, and with it, when there
\* is a shutdown to be called, the initialisation; every driver's has.
ApiInv ==
  /\ \A a \in Apis : api[a].uses = 0 => api[a] = NoApi
  /\ \A a \in Apis : api[a].initialised <=> api[a].library /\ ShutsDown
  /\ pc \in {"resolve", "init"} => ~api[current].library
  /\ pc \in {"enumerate", "build"} => api[current].library
  /\ \A d \in listed \cup built : api[d.api].library

\* One driver a device: the registry sees to it that the listed ones differ, the probe's
\* loop that those it has built do.
DriverInv ==
  /\ IsFiniteSet(listed) /\ IsFiniteSet(built)
  /\ \A d, e \in listed : d.gpu = e.gpu => d = e
  /\ \A d \in built : d.gpu \notin todo
  /\ pc \notin {"build", "adopt"} => built = {}
  /\ local <=> pc \in {"resolve", "init"}

\* What may be waiting to be destroyed, all of it of one API object: k references to be
\* given back; then its share (and, when load() failed, load()'s own handle); or, when
\* that share was the last, what the API object's destructor has left to do.
Stages == {"none", "share", "failed", "shutdown", "close"}
Steps(stage) ==
  IF stage = "none" THEN 0 ELSE IF stage \in {"failed", "shutdown"} THEN 2 ELSE 1

Is(s, a, k, stage) ==
  /\ Len(s) = k + Steps(stage)
  /\ \A i \in 1..k : s[i] = Release(a)
  /\ stage \in {"share", "failed"} => s[k + 1] = Drop(a)
  /\ stage = "shutdown" => s[k + 1] = Shutdown(a)
  /\ stage \in {"failed", "shutdown"} => s[k + 2] = Close(a)
  /\ stage = "close" => s[k + 1] = Close(a)

\* References are given back through a library that is there; a load() that failed has
\* left its API object without one.
Plan(a, k, stage) ==
  /\ Is(unwinding, a, k, stage)
  /\ k > 0 => Counted /\ api[a].library
  /\ stage = "shutdown" => ShutsDown
  /\ stage = "failed" => ~api[a].library

Sharing == {"resolve", "init", "enumerate", "build"}
Shares(b, a, stage) ==
  Cardinality(Of(b, listed)) + Cardinality(Of(b, built))
    + One(b = current /\ pc \in Sharing)
    + One(b = a /\ stage \in {"share", "failed"})
Handed(k) ==
  References(listed) + References(built) + k + One(Counted /\ pc = "build")

Account(a, k, stage) ==
  /\ \A b \in Apis : api[b].uses = Shares(b, a, stage)
  /\ opens = Cardinality(Loaded) + One(local) + One(stage \in {"failed", "shutdown", "close"})
  /\ ShutsDown => inits = stray + Cardinality(Initialised) + One(stage = "shutdown")
  /\ ~ShutsDown => inits \in {0, 1} /\ (Loaded # {} => inits = 1)
  /\ refs = Handed(k)

AccountInv ==
  \E a \in Apis, k \in Nat, stage \in Stages : Plan(a, k, stage) /\ Account(a, k, stage)

IInv == TypeOK /\ ApiInv /\ DriverInv /\ AccountInv

(***************************************************************************)
(* Counting drivers.                                                       *)
(***************************************************************************)
LEMMA CountsAreNumbers ==
  ASSUME NEW drivers, IsFiniteSet(drivers)
  PROVE  /\ \A b : Cardinality(Of(b, drivers)) \in Nat
         /\ References(drivers) \in Nat
<1>1. ASSUME NEW b  PROVE Cardinality(Of(b, drivers)) \in Nat
  BY FS_Subset, FS_CardinalityType, Of(b, drivers) \in SUBSET drivers DEF Of
<1>2. Cardinality(drivers) \in Nat /\ Cardinality({d \in drivers : d.support}) \in Nat
  BY FS_Subset, FS_CardinalityType, {d \in drivers : d.support} \in SUBSET drivers
<1> QED  BY <1>1, <1>2 DEF References

LEMMA OneMoreDriver ==
  ASSUME NEW drivers, IsFiniteSet(drivers), NEW d, d \notin drivers
  PROVE  /\ IsFiniteSet(drivers \cup {d})
         /\ \A b : Cardinality(Of(b, drivers \cup {d})) = Cardinality(Of(b, drivers)) + One(d.api = b)
         /\ References(drivers \cup {d}) = References(drivers) + Handles(d)
<1>1. ASSUME NEW b
      PROVE  Cardinality(Of(b, drivers \cup {d})) = Cardinality(Of(b, drivers)) + One(d.api = b)
  <2>1. IsFiniteSet(Of(b, drivers)) /\ d \notin Of(b, drivers)
    BY FS_Subset, Of(b, drivers) \in SUBSET drivers DEF Of
  <2>2. Cardinality(Of(b, drivers)) \in Nat
    BY CountsAreNumbers
  <2>3. CASE d.api = b
    <3>1. Of(b, drivers \cup {d}) = Of(b, drivers) \cup {d}
      BY <2>3 DEF Of
    <3> QED  BY <2>1, <2>2, <2>3, <3>1, FS_AddElement DEF One
  <2>4. CASE d.api # b
    <3>1. Of(b, drivers \cup {d}) = Of(b, drivers)
      BY <2>4 DEF Of
    <3> QED  BY <2>2, <2>4, <3>1 DEF One
  <2> QED  BY <2>3, <2>4
<1>2. References(drivers \cup {d}) = References(drivers) + Handles(d)
  <2> DEFINE with == {e \in drivers : e.support}
  <2>0. References(drivers) = IF Counted THEN Cardinality(drivers) + Cardinality(with) ELSE 0
    BY DEF References
  <2>1. IsFiniteSet(with) /\ d \notin with /\ Cardinality(with) \in Nat
    BY FS_Subset, FS_CardinalityType, with \in SUBSET drivers
  <2>2. Cardinality(drivers \cup {d}) = Cardinality(drivers) + 1 /\ Cardinality(drivers) \in Nat
    BY FS_AddElement, FS_CardinalityType
  <2>3. CASE d.support
    <3>1. {e \in drivers \cup {d} : e.support} = with \cup {d}
      BY <2>3
    <3>2. Cardinality(with \cup {d}) = Cardinality(with) + 1
      BY <2>1, FS_AddElement
    <3>3. References(drivers \cup {d}) =
            IF Counted THEN Cardinality(drivers \cup {d}) + Cardinality(with \cup {d}) ELSE 0
      BY <3>1 DEF References
    <3>4. Handles(d) = IF Counted THEN 2 ELSE 0
      BY <2>3, Zenon DEF Handles
    <3> QED  BY <2>0, <2>1, <2>2, <3>2, <3>3, <3>4
  <2>4. CASE ~d.support
    <3>1. {e \in drivers \cup {d} : e.support} = with
      BY <2>4
    <3>2. References(drivers \cup {d}) =
            IF Counted THEN Cardinality(drivers \cup {d}) + Cardinality(with) ELSE 0
      BY <3>1 DEF References
    <3>3. Handles(d) = IF Counted THEN 1 ELSE 0
      BY <2>4, Zenon DEF Handles
    <3> QED  BY <2>0, <2>1, <2>2, <3>2, <3>3
  <2> QED  BY <2>3, <2>4
<1> QED  BY <1>1, <1>2, FS_AddElement

LEMMA OneDriverLess ==
  ASSUME NEW drivers, IsFiniteSet(drivers), NEW d \in drivers
  PROVE  /\ IsFiniteSet(drivers \ {d})
         /\ \A b : Cardinality(Of(b, drivers \ {d})) = Cardinality(Of(b, drivers)) - One(d.api = b)
         /\ References(drivers \ {d}) = References(drivers) - Handles(d)
<1> DEFINE rest == drivers \ {d}
<1>1. IsFiniteSet(rest) /\ d \notin rest /\ rest \cup {d} = drivers
  BY FS_RemoveElement
<1> HIDE DEF rest
<1>2. /\ \A b : Cardinality(Of(b, drivers)) = Cardinality(Of(b, rest)) + One(d.api = b)
      /\ References(drivers) = References(rest) + Handles(d)
  BY <1>1, OneMoreDriver
<1>3. /\ \A b : Cardinality(Of(b, rest)) \in Nat
      /\ References(rest) \in Nat /\ Handles(d) \in Nat
  BY <1>1, CountsAreNumbers DEF Handles
<1>4. \A b : Cardinality(Of(b, rest)) = Cardinality(Of(b, drivers)) - One(d.api = b)
  BY <1>2, <1>3 DEF One
<1>5. References(rest) = References(drivers) - Handles(d)
  BY <1>2, <1>3
<1> QED  BY <1>1, <1>4, <1>5 DEF rest

LEMMA SwappedDriver ==
  ASSUME NEW rest, IsFiniteSet(rest), NEW d, d \notin rest, NEW e, e \notin rest,
         e.api = d.api, Handles(e) = Handles(d)
  PROVE  /\ References(rest \cup {e}) = References(rest \cup {d})
         /\ \A b : Cardinality(Of(b, rest \cup {e})) = Cardinality(Of(b, rest \cup {d}))
<1>1. /\ References(rest \cup {d}) = References(rest) + Handles(d)
      /\ \A b : Cardinality(Of(b, rest \cup {d})) = Cardinality(Of(b, rest)) + One(d.api = b)
  BY OneMoreDriver
<1>2. /\ References(rest \cup {e}) = References(rest) + Handles(e)
      /\ \A b : Cardinality(Of(b, rest \cup {e})) = Cardinality(Of(b, rest)) + One(e.api = b)
  BY OneMoreDriver
<1> QED  BY <1>1, <1>2

LEMMA NoDrivers == \A b : Cardinality(Of(b, {})) = 0 /\ References({}) = 0
<1>1. \A b : Of(b, {}) = {}
  BY DEF Of
<1>2. {d \in {} : d.support} = {}
  OBVIOUS
<1> QED  BY <1>1, <1>2, FS_EmptySet DEF References

(***************************************************************************)
(* Sequences of destructors.                                               *)
(***************************************************************************)
LEMMA DestructorTypes ==
  ASSUME NEW a \in Apis
  PROVE  /\ Release(a) \in Destructors /\ Drop(a) \in Destructors
         /\ Shutdown(a) \in Destructors /\ Close(a) \in Destructors
         /\ Release(a).of = "AdlxPtr" /\ Drop(a).of = "shared_ptr"
         /\ Shutdown(a).of = "Api" /\ Close(a).of = "DynamicLibrary"
         /\ Drop(a).api = a
BY DEF Release, Drop, Shutdown, Close, Destructors

LEMMA OneElement ==
  ASSUME NEW S, NEW s \in Seq(S), NEW t \in Seq(S), Len(s) = 1, Len(t) = 1, s[1] = t[1]
  PROVE  s = t
<1>1. \A i \in 1..Len(s) : s[i] = t[i]
  OBVIOUS
<1> QED  BY <1>1, SeqEqual

\* The sequences the steps put there.
LEMMA PlansAreMade ==
  ASSUME NEW a \in Apis, NEW n \in Nat
  PROVE  /\ [i \in 1..n |-> Release(a)] \in Seq(Destructors)
         /\ Is([i \in 1..n |-> Release(a)], a, n, "none")
         /\ [i \in 1..n |-> Release(a)] \o <<Drop(a)>> \in Seq(Destructors)
         /\ Is([i \in 1..n |-> Release(a)] \o <<Drop(a)>>, a, n, "share")
         /\ <<Drop(a)>> \in Seq(Destructors) /\ Is(<<Drop(a)>>, a, 0, "share")
         /\ <<Drop(a), Close(a)>> \in Seq(Destructors)
         /\ Is(<<Drop(a), Close(a)>>, a, 0, "failed")
         /\ <<Shutdown(a), Close(a)>> \in Seq(Destructors)
         /\ Is(<<Shutdown(a), Close(a)>>, a, 0, "shutdown")
         /\ <<Close(a)>> \in Seq(Destructors) /\ Is(<<Close(a)>>, a, 0, "close")
<1> DEFINE r == [i \in 1..n |-> Release(a)]
<1>1. r \in Seq(Destructors) /\ Len(r) = n /\ \A i \in 1..n : r[i] = Release(a)
  BY DestructorTypes
<1>2. <<Drop(a)>> \in Seq(Destructors) /\ Len(<<Drop(a)>>) = 1 /\ <<Drop(a)>>[1] = Drop(a)
  BY DestructorTypes
<1> HIDE DEF r
<1>3. /\ r \o <<Drop(a)>> \in Seq(Destructors) /\ Len(r \o <<Drop(a)>>) = n + 1
      /\ \A i \in 1..(n + 1) :
           (r \o <<Drop(a)>>)[i] = IF i <= n THEN r[i] ELSE <<Drop(a)>>[i - n]
  BY <1>1, <1>2, ConcatProperties
<1>4. Is(r, a, n, "none")
  BY <1>1 DEF Is, Steps
<1>5. Is(r \o <<Drop(a)>>, a, n, "share")
  BY <1>1, <1>2, <1>3 DEF Is, Steps
<1>6. Is(<<Drop(a)>>, a, 0, "share") /\ Is(<<Drop(a), Close(a)>>, a, 0, "failed")
  BY DEF Is, Steps
<1>7. Is(<<Shutdown(a), Close(a)>>, a, 0, "shutdown") /\ Is(<<Close(a)>>, a, 0, "close")
  BY DEF Is, Steps
<1>8. <<Drop(a), Close(a)>> \in Seq(Destructors) /\ <<Close(a)>> \in Seq(Destructors)
      /\ <<Shutdown(a), Close(a)>> \in Seq(Destructors)
  BY DestructorTypes
<1> QED  BY <1>1, <1>2, <1>3, <1>4, <1>5, <1>6, <1>7, <1>8 DEF r

LEMMA TwoLeft ==
  ASSUME NEW a \in Apis
  PROVE  <<Shutdown(a)>> \o <<Close(a)>> = <<Shutdown(a), Close(a)>>
<1> DEFINE s == <<Shutdown(a)>>
           t == <<Close(a)>>
           u == <<Shutdown(a), Close(a)>>
<1>1. /\ s \in Seq(Destructors) /\ t \in Seq(Destructors) /\ u \in Seq(Destructors)
      /\ Len(s) = 1 /\ Len(t) = 1 /\ Len(u) = 2
      /\ s[1] = Shutdown(a) /\ t[1] = Close(a) /\ u[1] = Shutdown(a) /\ u[2] = Close(a)
  BY DestructorTypes
<1> HIDE DEF s, t, u
<1>2. /\ s \o t \in Seq(Destructors) /\ Len(s \o t) = 2
      /\ (s \o t)[1] = s[1] /\ (s \o t)[2] = t[1]
  BY <1>1, ConcatProperties
<1>3. \A i \in 1..Len(s \o t) : (s \o t)[i] = u[i]
  BY <1>1, <1>2
<1>4. s \o t = u
  BY <1>1, <1>2, <1>3, SeqEqual
<1> QED  BY <1>4 DEF s, t, u

\* What is left when the first destructor has run.
LEMMA PlanUnwinds ==
  ASSUME NEW s \in Seq(Destructors), s # <<>>, NEW a \in Apis, NEW k \in Nat,
         NEW stage \in Stages, Is(s, a, k, stage)
  PROVE  /\ Head(s) = s[1] /\ Tail(s) \in Seq(Destructors)
         /\ k > 0 => Head(s) = Release(a) /\ Is(Tail(s), a, k - 1, stage)
         /\ k = 0 =>
              /\ stage # "none"
              /\ stage \in {"share", "failed"} => Head(s) = Drop(a)
              /\ stage = "shutdown" => Head(s) = Shutdown(a)
              /\ stage = "close" => Head(s) = Close(a)
              /\ stage \in {"share", "close"} => Tail(s) = <<>>
              /\ stage \in {"failed", "shutdown"} =>
                   Tail(s) = <<Close(a)>> /\ Is(Tail(s), a, 0, "close")
<1>1. /\ Head(s) = s[1] /\ Tail(s) \in Seq(Destructors)
      /\ Len(s) \in Nat \ {0} /\ Len(Tail(s)) = Len(s) - 1
      /\ \A i \in 1..Len(Tail(s)) : Tail(s)[i] = s[i + 1]
  BY HeadTailProperties
<1>2. ASSUME k > 0  PROVE Head(s) = Release(a) /\ Is(Tail(s), a, k - 1, stage)
  <2>1. Len(s) = k + Steps(stage) /\ Steps(stage) \in {0, 1, 2} /\ s[1] = Release(a)
    BY <1>2 DEF Is, Steps
  <2>2. \A i \in 1..(k - 1) : Tail(s)[i] = Release(a)
    BY <1>1, <1>2, <2>1 DEF Is
  <2>3. Steps(stage) > 0 => Tail(s)[(k - 1) + 1] = s[k + 1]
    BY <1>1, <1>2, <2>1
  <2>4. Steps(stage) > 1 => Tail(s)[(k - 1) + 2] = s[k + 2]
    BY <1>1, <1>2, <2>1
  <2> QED  BY <1>1, <1>2, <2>1, <2>2, <2>3, <2>4 DEF Is, Steps, Stages
<1>3. ASSUME k = 0
      PROVE  /\ stage # "none"
             /\ stage \in {"share", "failed"} => Head(s) = Drop(a)
             /\ stage = "shutdown" => Head(s) = Shutdown(a)
             /\ stage = "close" => Head(s) = Close(a)
  BY <1>1, <1>3 DEF Is, Steps, Stages
<1>4. ASSUME k = 0, stage \in {"share", "close"}  PROVE Tail(s) = <<>>
  <2>1. Len(s) = 1
    BY <1>4 DEF Is, Steps
  <2>2. Len(Tail(s)) = 0
    BY <1>1, <2>1
  <2> QED  BY <1>1, <2>2, EmptySeq
<1>5. ASSUME k = 0, stage \in {"failed", "shutdown"}
      PROVE  Tail(s) = <<Close(a)>> /\ Is(Tail(s), a, 0, "close")
  <2>1. Len(Tail(s)) = 1 /\ Tail(s)[1] = Close(a)
    BY <1>1, <1>5 DEF Is, Steps
  <2>2. /\ <<Close(a)>> \in Seq(Destructors) /\ Is(<<Close(a)>>, a, 0, "close")
        /\ Len(<<Close(a)>>) = 1 /\ <<Close(a)>>[1] = Close(a)
    BY PlansAreMade
  <2>3. Tail(s) = <<Close(a)>>
    BY <1>1, <2>1, <2>2, OneElement
  <2> QED  BY <2>2, <2>3
<1> QED  BY <1>1, <1>2, <1>3, <1>4, <1>5

LEMMA NothingPlanned ==
  ASSUME NEW a, NEW k \in Nat, NEW stage \in Stages
  PROVE  /\ Is(<<>>, a, k, stage) => k = 0 /\ stage = "none"
         /\ Is(<<>>, a, 0, "none")
BY DEF Is, Steps, Stages

(***************************************************************************)
(* The account between two destructors' runs, and what steps leave alone.  *)
(***************************************************************************)
LEMMA SameVendor ==
  ASSUME [Next]_vars
  PROVE  /\ vendor' = vendor /\ (ShutsDown' <=> ShutsDown) /\ (Counted' <=> Counted)
         /\ References(listed)' = References(listed') /\ References(built)' = References(built')
<1>1. vendor' = vendor
  BY DEF Next, vars, library, Unwind, Load, StartProbe, Open, Resolve, Initialise,
         InitialiseInVain, Probe, Enumerate, Skip, Build, FinishBuild, Registry, FinishProbe, Quit, Adopt, Sample, Retire, DestroyDriver
<1> QED  BY <1>1 DEF ShutsDown, Counted, References

LEMMA StrayIsNumber ==
  ASSUME TypeOK, [Next]_vars
  PROVE  stray' \in Nat
<1>1. stray' = stray \/ stray' = stray + 1
  BY DEF Next, vars, library, Unwind, ReleaseHandle, DropApi, ShutDown, CloseLibrary, Load,
         StartProbe, Open, Resolve, Initialise, InitialiseInVain, Probe, Enumerate, Skip, Build,
         FinishBuild, Registry, FinishProbe, Quit, Adopt, Sample, Retire, DestroyDriver
<1> QED  BY <1>1 DEF TypeOK

LEMMA SetsAreFinite ==
  /\ IsFiniteSet(Loaded) /\ IsFiniteSet(Initialised)
  /\ Cardinality(Loaded) \in Nat /\ Cardinality(Initialised) \in Nat
<1>1. Loaded \in SUBSET Apis /\ Initialised \in SUBSET Apis
  BY DEF Loaded, Initialised
<1> QED  BY <1>1, StorageAssumption, FS_Subset, FS_CardinalityType

LEMMA AccountAtRest ==
  ASSUME TypeOK, DriverInv, AccountInv, unwinding = <<>>
  PROVE  /\ \A b \in Apis : api[b].uses = Cardinality(Of(b, listed)) + Cardinality(Of(b, built))
                                            + One(b = current /\ pc \in Sharing)
         /\ opens = Cardinality(Loaded) + One(local)
         /\ ShutsDown => inits = stray + Cardinality(Initialised)
         /\ ~ShutsDown => inits \in {0, 1} /\ (Loaded # {} => inits = 1)
         /\ refs = References(listed) + References(built) + One(Counted /\ pc = "build")
<1>1. PICK a \in Apis, k \in Nat, stage \in Stages : Plan(a, k, stage) /\ Account(a, k, stage)
  BY DEF AccountInv
<1>2. k = 0 /\ stage = "none"
  BY <1>1, NothingPlanned DEF Plan
<1>3. Account(a, 0, "none")
  BY <1>1, <1>2
<1>4. /\ References(listed) \in Nat /\ References(built) \in Nat
      /\ \A b : Cardinality(Of(b, listed)) \in Nat /\ Cardinality(Of(b, built)) \in Nat
  BY CountsAreNumbers DEF DriverInv
<1>5. ASSUME NEW b \in Apis
      PROVE  api[b].uses = Cardinality(Of(b, listed)) + Cardinality(Of(b, built))
                             + One(b = current /\ pc \in Sharing)
  BY <1>3, <1>4 DEF Account, Shares, One
<1>6. opens = Cardinality(Loaded) + One(local)
  BY <1>3, SetsAreFinite DEF Account, One
<1>7. ShutsDown => inits = stray + Cardinality(Initialised)
  BY <1>3, SetsAreFinite DEF Account, One, TypeOK
<1>8. ~ShutsDown => inits \in {0, 1} /\ (Loaded # {} => inits = 1)
  BY <1>3 DEF Account
<1>9. refs = References(listed) + References(built) + One(Counted /\ pc = "build")
  BY <1>3, <1>4 DEF Account, Handed, One
<1> QED  BY <1>5, <1>6, <1>7, <1>8, <1>9

\* The books balance after a step when each count does.
LEMMA Balanced ==
  ASSUME [Next]_vars, NEW a \in Apis, NEW k \in Nat, NEW stage \in Stages,
         Is(unwinding', a, k, stage),
         k > 0 => Counted /\ api'[a].library,
         stage = "shutdown" => ShutsDown,
         stage = "failed" => ~api'[a].library,
         \A b \in Apis :
           api'[b].uses = Cardinality(Of(b, listed')) + Cardinality(Of(b, built'))
                            + One(b = current' /\ pc' \in Sharing)
                            + One(b = a /\ stage \in {"share", "failed"}),
         opens' = Cardinality(Loaded') + One(local')
                    + One(stage \in {"failed", "shutdown", "close"}),
         ShutsDown => inits' = stray' + Cardinality(Initialised') + One(stage = "shutdown"),
         ~ShutsDown => inits' \in {0, 1} /\ (Loaded' # {} => inits' = 1),
         refs' = References(listed') + References(built') + k + One(Counted /\ pc' = "build")
  PROVE  AccountInv'
<1>1. /\ (ShutsDown' <=> ShutsDown) /\ (Counted' <=> Counted)
      /\ References(listed)' = References(listed') /\ References(built)' = References(built')
  BY SameVendor
<1>2. Plan(a, k, stage)'
  BY <1>1 DEF Plan
<1>3. Account(a, k, stage)'
  <2>1. refs' = Handed(k)'
    BY <1>1 DEF Handed, One
  <2>2. \A b \in Apis : api'[b].uses = Shares(b, a, stage)'
    BY DEF Shares, One
  <2> QED  BY <1>1, <2>1, <2>2 DEF Account, One
<1> QED  BY <1>2, <1>3 DEF AccountInv

\* Nothing is to be destroyed after a step from rest.
LEMMA BalancedAtRest ==
  ASSUME TypeOK, [Next]_vars, DriverInv', unwinding' = <<>>,
         \A b \in Apis :
           api'[b].uses = Cardinality(Of(b, listed')) + Cardinality(Of(b, built'))
                            + One(b = current' /\ pc' \in Sharing),
         opens' = Cardinality(Loaded') + One(local'),
         ShutsDown => inits' = stray' + Cardinality(Initialised'),
         ~ShutsDown => inits' \in {0, 1} /\ (Loaded' # {} => inits' = 1),
         refs' = References(listed') + References(built') + One(Counted /\ pc' = "build")
  PROVE  AccountInv'
<1> DEFINE a == current
<1>1. a \in Apis /\ 0 \in Nat /\ "none" \in Stages /\ Is(unwinding', a, 0, "none")
  BY NothingPlanned DEF TypeOK, Stages
<1>2. IsFiniteSet(listed') /\ IsFiniteSet(built')
  BY DEF DriverInv
<1>3. /\ References(listed') \in Nat /\ References(built') \in Nat
      /\ \A b : Cardinality(Of(b, listed')) \in Nat /\ Cardinality(Of(b, built')) \in Nat
  BY <1>2, CountsAreNumbers
<1>4. Cardinality(Loaded') \in Nat /\ Cardinality(Initialised') \in Nat
  <2>1. Loaded' \in SUBSET Apis /\ Initialised' \in SUBSET Apis
    BY DEF Loaded, Initialised
  <2> QED  BY <2>1, StorageAssumption, FS_Subset, FS_CardinalityType
<1>5. \A b \in Apis :
        api'[b].uses = Cardinality(Of(b, listed')) + Cardinality(Of(b, built'))
                         + One(b = current' /\ pc' \in Sharing)
                         + One(b = a /\ "none" \in {"share", "failed"})
  BY <1>3 DEF One
<1>6. /\ opens' = Cardinality(Loaded') + One(local')
                    + One("none" \in {"failed", "shutdown", "close"})
      /\ ShutsDown => inits' = stray' + Cardinality(Initialised') + One("none" = "shutdown")
      /\ refs' = References(listed') + References(built') + 0 + One(Counted /\ pc' = "build")
  BY <1>3, <1>4, StrayIsNumber DEF One
<1> HIDE DEF a
<1> QED  BY <1>1, <1>5, <1>6, Balanced

(***************************************************************************)
(* Drivers.                                                                *)
(***************************************************************************)
LEMMA NextDriverInv == TypeOK /\ DriverInv /\ [Next]_vars => DriverInv'
<1> SUFFICES ASSUME TypeOK, DriverInv, [Next]_vars  PROVE DriverInv'
  OBVIOUS
<1>1. CASE Unwind \/ Quit \/ UNCHANGED vars
  BY <1>1 DEF Unwind, Quit, Running, vars, probing, DriverInv
<1>2. CASE Load
  <2>1. UNCHANGED <<built, listed, todo>> /\ pc \notin {"build", "adopt"} /\ pc' \notin {"build", "adopt"}
    BY <1>2 DEF Load, StartProbe, Open, Resolve, Initialise, InitialiseInVain, LoadFails, Running
  <2>2. local' <=> pc' \in {"resolve", "init"}
    BY <1>2 DEF Load, StartProbe, Open, Resolve, Initialise, InitialiseInVain, LoadFails, Keep,
                Running, DriverInv
  <2> QED  BY <2>1, <2>2 DEF DriverInv
<1>3. CASE Enumerate
  BY <1>3 DEF Enumerate, Running, DriverInv
<1>4. CASE FinishBuild \/ FinishProbe
  BY <1>4 DEF FinishBuild, FinishProbe, Running, DriverInv
<1>5. ASSUME NEW g \in Gpus, Skip(g)  PROVE DriverInv'
  BY <1>5 DEF Skip, Running, DriverInv
<1>6. ASSUME NEW g \in Gpus, Build(g)  PROVE DriverInv'
  <2>1. PICK d \in Drivers : d.gpu = g /\ built' = IF d.healthy THEN built \cup {d} ELSE built
    BY <1>6 DEF Build
  <2>2. IsFiniteSet(built')
    BY <2>1, FS_AddElement DEF DriverInv
  <2>3. /\ pc = "build" /\ pc' = pc /\ local' = local /\ listed' = listed
        /\ g \in todo /\ todo' = todo \ {g}
    BY <1>6 DEF Build, Running
  <2> QED  BY <2>1, <2>2, <2>3 DEF DriverInv
<1>7. ASSUME NEW d \in built, Adopt(d)  PROVE DriverInv'
  <2>1. /\ pc = "adopt" /\ pc' = pc /\ built' = built \ {d} /\ UNCHANGED <<local, todo>>
        /\ \/ listed' = listed
           \/ listed' = listed \cup {d} /\ \A other \in listed : other.gpu # d.gpu
    BY <1>7 DEF Adopt, Running
  <2>2. IsFiniteSet(built') /\ IsFiniteSet(listed')
    BY <2>1, FS_AddElement, FS_RemoveElement DEF DriverInv
  <2> QED  BY <2>1, <2>2 DEF DriverInv
<1>8. ASSUME NEW d \in listed, Sample(d)  PROVE DriverInv'
  <2> DEFINE failed == [d EXCEPT !.healthy = FALSE]
  <2>1. /\ UNCHANGED <<built, todo, pc, local>>
        /\ listed' \in {listed, (listed \ {d}) \cup {failed}}
    BY <1>8 DEF Sample, probing
  <2>2. failed.gpu = d.gpu
    BY DEF TypeOK, Drivers
  <2> HIDE DEF failed
  <2>3. IsFiniteSet(listed \ {d}) /\ IsFiniteSet((listed \ {d}) \cup {failed})
    BY FS_AddElement, FS_RemoveElement DEF DriverInv
  <2>4. IsFiniteSet(listed')
    BY <2>1, <2>3 DEF DriverInv
  <2> QED  BY <2>1, <2>2, <2>4 DEF DriverInv
<1>9. ASSUME NEW d \in listed, Retire(d) \/ DestroyDriver(d)  PROVE DriverInv'
  <2>1. UNCHANGED <<built, todo, pc, local>> /\ listed' = listed \ {d}
    BY <1>9 DEF Retire, DestroyDriver, probing
  <2>2. IsFiniteSet(listed')
    BY <2>1, FS_RemoveElement DEF DriverInv
  <2> QED  BY <2>1, <2>2 DEF DriverInv
<1> QED
  BY <1>1, <1>2, <1>3, <1>4, <1>5, <1>6, <1>7, <1>8, <1>9 DEF Next, Probe, Registry

(***************************************************************************)
(* API objects.                                                            *)
(***************************************************************************)
\* There is always storage for one more: each driver holds one API object, and the
\* devices differ.
LEMMA StorageIsFree ==
  ASSUME TypeOK, DriverInv, AccountInv, unwinding = <<>>, pc = "open"
  PROVE  \E a \in Apis : api[a].uses = 0
<1> SUFFICES ASSUME \A a \in Apis : api[a].uses # 0  PROVE FALSE
  OBVIOUS
<1>1. ASSUME NEW a \in Apis  PROVE \E d \in listed : d.api = a
  <2>1. built = {} /\ pc \notin Sharing
    BY DEF DriverInv, Sharing
  <2>2. Cardinality(Of(a, listed)) # 0
    <3>1. Cardinality(Of(a, built)) = 0
      BY <2>1, NoDrivers
    <3>2. Cardinality(Of(a, listed)) \in Nat
      BY CountsAreNumbers DEF DriverInv
    <3>3. api[a].uses = Cardinality(Of(a, listed)) + Cardinality(Of(a, built))
                          + One(a = current /\ pc \in Sharing)
      BY AccountAtRest
    <3>4. api[a].uses = Cardinality(Of(a, listed)) + Cardinality(Of(a, built)) + 0
      BY <2>1, <3>3 DEF One
    <3>5. api[a].uses # 0
      OBVIOUS
    <3> QED  BY <3>1, <3>2, <3>4, <3>5
  <2>3. Of(a, listed) # {}
    BY <2>2, FS_EmptySet
  <2> QED  BY <2>3 DEF Of
<1> DEFINE gpuOf == [a \in Apis |-> (CHOOSE d \in listed : d.api = a).gpu]
<1>2. gpuOf \in [Apis -> Gpus]
  BY <1>1 DEF TypeOK, Drivers
<1>3. PICK a \in Apis, b \in Apis : a # b /\ gpuOf[a] = gpuOf[b]
  <2> HIDE DEF gpuOf
  <2> QED  BY <1>2, StorageAssumption, FS_PigeonHole
<1>4. PICK d \in listed, e \in listed : d.api = a /\ e.api = b /\ d.gpu = e.gpu
  BY <1>1, <1>3
<1> QED  BY <1>3, <1>4 DEF DriverInv

\* An API object that a probe holds has a share.
LEMMA HeldIsShared ==
  ASSUME TypeOK, DriverInv, AccountInv, unwinding = <<>>, pc \in Sharing
  PROVE  api[current].uses > 0
<1>1. /\ Cardinality(Of(current, listed)) \in Nat /\ Cardinality(Of(current, built)) \in Nat
  BY CountsAreNumbers DEF DriverInv
<1>2. api[current].uses = Cardinality(Of(current, listed)) + Cardinality(Of(current, built)) + 1
  BY AccountAtRest DEF One, TypeOK
<1> QED  BY <1>1, <1>2

\* When the share that is dropped is the last, no driver and no probe has another.
LEMMA LastShare ==
  ASSUME TypeOK, DriverInv, NEW a \in Apis, NEW k \in Nat, NEW stage \in {"share", "failed"},
         Account(a, k, stage), ~(api[a].uses > 1)
  PROVE  /\ \A d \in listed \cup built : d.api # a
         /\ pc \in Sharing => current # a
<1> DEFINE n == Cardinality(Of(a, listed))
           m == Cardinality(Of(a, built))
<1>1. n \in Nat /\ m \in Nat
  BY CountsAreNumbers DEF DriverInv
<1>2. api[a].uses = n + m + One(a = current /\ pc \in Sharing) + 1
  BY <1>1 DEF Account, Shares, One
<1>3. n = 0 /\ m = 0 /\ ~(a = current /\ pc \in Sharing)
  <2>1. api[a].uses <= 1
    <3>1. api[a].uses \in Nat
      BY DEF TypeOK
    <3> QED  BY <3>1
  <2> HIDE DEF n, m
  <2> QED  BY <1>1, <1>2, <2>1 DEF One
<1>4. Of(a, listed) = {} /\ Of(a, built) = {}
  <2>1. IsFiniteSet(Of(a, listed)) /\ IsFiniteSet(Of(a, built))
    BY FS_Subset, Of(a, listed) \in SUBSET listed, Of(a, built) \in SUBSET built DEF DriverInv, Of
  <2> QED  BY <1>3, <2>1, FS_EmptySet
<1> QED  BY <1>3, <1>4 DEF Of

\* What DropApi does to the API objects.
LEMMA DropShape ==
  ASSUME TypeOK, DriverInv, DropApi, NEW a \in Apis, NEW k \in Nat, NEW stage \in Stages,
         unwinding # <<>>, Plan(a, k, stage), Account(a, k, stage)
  PROVE  /\ k = 0 /\ stage \in {"share", "failed"}
         /\ api[a].uses > 1 =>
              api' = [api EXCEPT ![a].uses = @ - 1] /\ unwinding' = Tail(unwinding)
         /\ ~(api[a].uses > 1) =>
              /\ api' = [api EXCEPT ![a] = NoApi]
              /\ unwinding' = ApiDestructor(a) \o Tail(unwinding)
<1>1. Is(unwinding, a, k, stage) /\ unwinding \in Seq(Destructors)
  BY DEF Plan, TypeOK
<1>2. Head(unwinding).of = "shared_ptr"
  BY DEF DropApi
<1>3. k = 0 /\ stage \in {"share", "failed"} /\ Head(unwinding) = Drop(a)
  BY <1>1, <1>2, PlanUnwinds, DestructorTypes DEF Stages
<1>4. Head(unwinding).api = a
  BY <1>3, DestructorTypes
<1>5. \/ /\ api[a].uses > 1 /\ api' = [api EXCEPT ![a].uses = @ - 1]
         /\ unwinding' = Tail(unwinding)
      \/ /\ ~(api[a].uses > 1) /\ api' = [api EXCEPT ![a] = NoApi]
         /\ unwinding' = ApiDestructor(a) \o Tail(unwinding)
  BY <1>4 DEF DropApi
<1> QED  BY <1>3, <1>5

LEMMA NextApiInv == IInv /\ [Next]_vars => ApiInv'
<1> SUFFICES ASSUME IInv, [Next]_vars  PROVE ApiInv'
  OBVIOUS
<1>0. TypeOK /\ DriverInv /\ ApiInv /\ AccountInv /\ (ShutsDown' <=> ShutsDown)
  BY SameVendor DEF IInv
<1>a. ASSUME UNCHANGED <<api, current, listed, built>>,
             pc' \in {"resolve", "init", "enumerate", "build"} =>
               pc' = pc \/ (pc = "resolve" /\ pc' = "init") \/ (pc = "enumerate" /\ pc' = "build")
      PROVE  ApiInv'
  BY <1>0, <1>a DEF ApiInv
<1>1. CASE Unwind
  <2>1. UNCHANGED <<pc, current, listed, built>>
    BY <1>1 DEF Unwind, probing
  <2>2. CASE ReleaseHandle \/ ShutDown \/ CloseLibrary
    BY <1>a, <2>1, <2>2 DEF ReleaseHandle, ShutDown, CloseLibrary
  <2>3. CASE DropApi
    <3>1. PICK a \in Apis, k \in Nat, stage \in Stages : Plan(a, k, stage) /\ Account(a, k, stage)
      BY <1>0 DEF AccountInv
    <3>2. /\ stage \in {"share", "failed"}
          /\ api[a].uses > 1 => api' = [api EXCEPT ![a].uses = @ - 1]
          /\ ~(api[a].uses > 1) => api' = [api EXCEPT ![a] = NoApi]
      BY <1>0, <1>1, <2>3, <3>1, DropShape DEF Unwind
    <3>3. CASE api[a].uses > 1
      <4>1. /\ api' = [api EXCEPT ![a].uses = @ - 1] /\ api[a].uses - 1 # 0
            /\ api \in [Apis -> [uses : Nat, initialised : BOOLEAN, library : BOOLEAN]]
        BY <1>0, <3>2, <3>3 DEF TypeOK
      <4>2. \A b \in Apis : /\ api'[b].library = api[b].library
                            /\ api'[b].initialised = api[b].initialised
                            /\ b # a => api'[b] = api[b]
        BY <4>1
      <4>3. api'[a].uses # 0
        BY <4>1
      <4>4. current \in Apis /\ \A d \in listed \cup built : d.api \in Apis
        BY <1>0 DEF TypeOK, Drivers
      <4> QED  BY <1>0, <2>1, <4>2, <4>3, <4>4 DEF ApiInv
    <3>4. CASE ~(api[a].uses > 1)
      <4>1. /\ \A d \in listed \cup built : d.api # a
            /\ pc \in Sharing => current # a
        BY <1>0, <3>1, <3>2, <3>4, LastShare
      <4>2. /\ api'[a] = NoApi /\ \A b \in Apis : b # a => api'[b] = api[b]
        BY <1>0, <3>2, <3>4 DEF TypeOK
      <4>3. NoApi.library = FALSE /\ NoApi.initialised = FALSE
        BY DEF NoApi
      <4>4. current \in Apis /\ \A d \in listed \cup built : d.api \in Apis
        BY <1>0 DEF TypeOK, Drivers
      <4> QED  BY <1>0, <2>1, <4>1, <4>2, <4>3, <4>4 DEF ApiInv, Sharing
    <3> QED  BY <3>3, <3>4
  <2> QED  BY <1>1, <2>2, <2>3 DEF Unwind
<1>2. CASE StartProbe \/ Resolve \/ Enumerate \/ FinishBuild \/ FinishProbe \/ Quit
           \/ (\E g \in Gpus : Skip(g)) \/ UNCHANGED vars
  BY <1>a, <1>2
  DEF StartProbe, Resolve, LoadFails, Enumerate, FinishBuild, FinishProbe, Quit, Skip, Running,
      vars, probing
<1>3. CASE Open
  <2>1. CASE pc' = "idle"
    BY <1>a, <1>3, <2>1 DEF Open
  <2>2. CASE pc' # "idle"
    <3> DEFINE a == CHOOSE b \in Apis : api[b].uses = 0
    <3>1. a \in Apis /\ api[a].uses = 0
      BY <1>0, <1>3, StorageIsFree DEF Open, Running
    <3>2. /\ current' = a /\ api' = [api EXCEPT ![a].uses = 1] /\ pc' = "resolve"
          /\ UNCHANGED <<listed, built>>
      BY <1>3, <2>2 DEF Open
    <3> HIDE DEF a
    <3>3. api[a] = NoApi
      BY <1>0, <3>1 DEF ApiInv
    <3>4. /\ \A b \in Apis : b # a => api'[b] = api[b]
          /\ api'[a].uses = 1 /\ api'[a].library = FALSE /\ api'[a].initialised = FALSE
      BY <1>0, <3>1, <3>2, <3>3 DEF TypeOK, NoApi
    <3>5. \A d \in listed \cup built : d.api \in Apis /\ d.api # a
      BY <1>0, <3>3 DEF TypeOK, Drivers, ApiInv, NoApi
    <3> QED  BY <1>0, <3>1, <3>2, <3>4, <3>5 DEF ApiInv
  <2> QED  BY <2>1, <2>2
<1>4. CASE Initialise \/ InitialiseInVain
  <2>1. CASE LoadFails /\ UNCHANGED api
    BY <1>a, <1>4, <2>1 DEF Initialise, InitialiseInVain, LoadFails
  <2>2. CASE Keep /\ pc' = "enumerate"
    <3>1. /\ api' = [api EXCEPT ![current].initialised = ShutsDown, ![current].library = TRUE]
          /\ UNCHANGED <<current, listed, built>> /\ current \in Apis
      BY <1>0, <1>4, <2>2 DEF Initialise, InitialiseInVain, LoadFails, Keep, TypeOK
    <3>2. api[current].uses > 0 /\ api[current].uses \in Nat
      BY <1>0, <1>4, HeldIsShared DEF Initialise, InitialiseInVain, Running, Sharing, TypeOK
    <3>3. /\ api'[current].uses = api[current].uses /\ api'[current].library
          /\ \A b \in Apis : b # current => api'[b] = api[b]
      BY <1>0, <3>1 DEF TypeOK
    <3>4. api'[current].initialised = ShutsDown
      BY <1>0, <3>1 DEF TypeOK
    <3>5. api'[current].initialised <=> ShutsDown
      BY <3>4, Zenon
    <3>6. ASSUME NEW b \in Apis, api'[b].uses = 0  PROVE api'[b] = NoApi
      <4>1. b # current
        BY <3>2, <3>3, <3>6
      <4>2. api'[b] = api[b]
        BY <3>3, <4>1
      <4> QED  BY <1>0, <3>6, <4>2 DEF ApiInv
    <3>7. \A b \in Apis : api'[b].initialised <=> api'[b].library /\ ShutsDown'
      BY <1>0, <3>1, <3>3, <3>5 DEF ApiInv
    <3>8. \A d \in listed \cup built : d.api \in Apis /\ api'[d.api].library
      BY <1>0, <3>1, <3>3 DEF TypeOK, Drivers, ApiInv
    <3> QED  BY <2>2, <3>1, <3>3, <3>6, <3>7, <3>8 DEF ApiInv
  <2> QED  BY <1>4, <2>1, <2>2 DEF Initialise, InitialiseInVain
<1>5. ASSUME NEW g \in Gpus, Build(g)  PROVE ApiInv'
  <2>1. /\ api' = [api EXCEPT ![current].uses = @ + 1] /\ current \in Apis
        /\ UNCHANGED <<pc, current, listed>> /\ pc = "build"
        /\ api[current].uses \in Nat
    BY <1>0, <1>5 DEF Build, Running, TypeOK
  <2>2. \A d \in built' : d \in built \/ d.api = current
    BY <1>5 DEF Build
  <2>3. \A b \in Apis : /\ api'[b].library = api[b].library
                        /\ api'[b].initialised = api[b].initialised
                        /\ b # current => api'[b] = api[b]
    BY <1>0, <2>1 DEF TypeOK
  <2>4. api'[current].uses # 0
    BY <1>0, <2>1 DEF TypeOK
  <2>5. \A d \in listed \cup built : d.api \in Apis
    BY <1>0 DEF TypeOK, Drivers
  <2> QED  BY <1>0, <2>1, <2>2, <2>3, <2>4, <2>5 DEF ApiInv
<1>6. ASSUME NEW d \in built, Adopt(d)  PROVE ApiInv'
  BY <1>0, <1>6 DEF Adopt, Running, ApiInv
<1>7. ASSUME NEW d \in listed, Sample(d)  PROVE ApiInv'
  <2>1. /\ UNCHANGED <<api, pc, current, built>>
        /\ listed' \in {listed, (listed \ {d}) \cup {[d EXCEPT !.healthy = FALSE]}}
    BY <1>7 DEF Sample, probing
  <2>2. [d EXCEPT !.healthy = FALSE].api = d.api
    BY <1>0 DEF TypeOK, Drivers
  <2> QED  BY <1>0, <2>1, <2>2 DEF ApiInv
<1>8. ASSUME NEW d \in listed, Retire(d) \/ DestroyDriver(d)  PROVE ApiInv'
  BY <1>0, <1>8 DEF Retire, DestroyDriver, probing, ApiInv
<1> QED
  BY <1>1, <1>2, <1>3, <1>4, <1>5, <1>6, <1>7, <1>8 DEF Next, Load, Probe, Registry

(***************************************************************************)
(* The account, action by action.  First the probe.                        *)
(***************************************************************************)
\* Nothing that is counted has changed.
LEMMA NothingCounted ==
  ASSUME IInv, [Next]_vars, unwinding = <<>>, unwinding' = <<>>,
         UNCHANGED <<api, opens, inits, stray, refs, listed, built, local, current>>,
         pc' \in Sharing <=> pc \in Sharing, pc' = "build" <=> pc = "build"
  PROVE  AccountInv'
<1>1. TypeOK /\ DriverInv /\ AccountInv /\ DriverInv'
  BY NextDriverInv DEF IInv
<1>2. Loaded' = Loaded /\ Initialised' = Initialised
  BY DEF Loaded, Initialised
<1>3. One(Counted /\ pc' = "build") = One(Counted /\ pc = "build")
  BY DEF One
<1>4. \A b \in Apis : One(b = current' /\ pc' \in Sharing) = One(b = current /\ pc \in Sharing)
  BY DEF One
<1> QED  BY <1>1, <1>2, <1>3, <1>4, AccountAtRest, BalancedAtRest

LEMMA OpenAccount == IInv /\ Open => AccountInv'
<1> SUFFICES ASSUME IInv, Open  PROVE AccountInv'
  OBVIOUS
<1>1. /\ TypeOK /\ DriverInv /\ ApiInv /\ AccountInv /\ DriverInv' /\ [Next]_vars
      /\ unwinding = <<>> /\ unwinding' = <<>> /\ pc = "open"
  BY NextDriverInv DEF IInv, Open, Running, Next, Load
<1>2. CASE pc' = "idle"
  <2>1. UNCHANGED <<api, opens, inits, stray, refs, listed, built, local, current>>
    BY <1>2 DEF Open
  <2> QED  BY <1>1, <1>2, <2>1, NothingCounted DEF Sharing
<1>3. CASE pc' # "idle"
  <2> DEFINE a == CHOOSE b \in Apis : api[b].uses = 0
  <2>1. a \in Apis /\ api[a].uses = 0
    BY <1>1, StorageIsFree
  <2>2. /\ current' = a /\ api' = [api EXCEPT ![a].uses = 1] /\ pc' = "resolve"
        /\ opens' = opens + 1 /\ local' = TRUE /\ UNCHANGED <<inits, stray, refs, listed, built>>
    BY <1>3 DEF Open
  <2> HIDE DEF a
  <2>3. Loaded' = Loaded /\ Initialised' = Initialised
    BY <1>1, <2>1, <2>2 DEF Loaded, Initialised, TypeOK
  <2>4. local = FALSE
    BY <1>1 DEF DriverInv, TypeOK
  <2>5. opens' = Cardinality(Loaded') + One(local')
    BY <1>1, <2>2, <2>3, <2>4, AccountAtRest, SetsAreFinite DEF One
  <2>6. ASSUME NEW b \in Apis
        PROVE  api'[b].uses = Cardinality(Of(b, listed')) + Cardinality(Of(b, built'))
                                + One(b = current' /\ pc' \in Sharing)
    <3>1. Cardinality(Of(b, listed)) \in Nat /\ Cardinality(Of(b, built)) \in Nat
      BY <1>1, CountsAreNumbers DEF DriverInv
    <3>2. api[b].uses = Cardinality(Of(b, listed)) + Cardinality(Of(b, built))
      BY <1>1, <3>1, AccountAtRest DEF One, Sharing
    <3>3. CASE b = a
      <4>1. api'[b].uses = 1 /\ One(b = current' /\ pc' \in Sharing) = 1
        BY <1>1, <2>2, <3>3 DEF One, Sharing, TypeOK
      <4>2. Cardinality(Of(b, listed)) + Cardinality(Of(b, built)) = 0
        BY <2>1, <3>2, <3>3
      <4> QED  BY <2>2, <4>1, <4>2, <3>1
    <3>4. CASE b # a
      <4>1. api'[b].uses = api[b].uses /\ One(b = current' /\ pc' \in Sharing) = 0
        BY <1>1, <2>2, <3>4 DEF One, TypeOK
      <4> QED  BY <2>2, <3>1, <3>2, <4>1
    <3> QED  BY <3>3, <3>4
  <2>7. refs' = References(listed') + References(built') + One(Counted /\ pc' = "build")
    <3>1. One(Counted /\ pc' = "build") = One(Counted /\ pc = "build")
      BY <1>1, <2>2 DEF One
    <3> QED  BY <1>1, <2>2, <3>1, AccountAtRest
  <2> QED  BY <1>1, <2>2, <2>3, <2>5, <2>6, <2>7, AccountAtRest, BalancedAtRest
<1> QED  BY <1>2, <1>3

\* load() gives up: its share of the API object and the handle it has opened are left.
LEMMA LoadFailsAccount ==
  ASSUME IInv, [Next]_vars, unwinding = <<>>, pc \in {"resolve", "init"}, LoadFails,
         UNCHANGED <<api, opens, refs, current, listed, built>>,
         NEW n \in Nat, inits' = inits + n, stray' = stray + n, ~ShutsDown => n = 0
  PROVE  AccountInv'
<1>1. /\ TypeOK /\ DriverInv /\ ApiInv /\ AccountInv
      /\ current \in Apis /\ local = TRUE /\ ~api[current].library
  BY DEF IInv, DriverInv, ApiInv, TypeOK
<1>2. pc' = "idle" /\ local' = FALSE /\ unwinding' = <<Drop(current), Close(current)>>
  BY DEF LoadFails
<1>3. Is(unwinding', current, 0, "failed")
  BY <1>1, <1>2, PlansAreMade
<1>4. Loaded' = Loaded /\ Initialised' = Initialised
  BY DEF Loaded, Initialised
<1>5. ASSUME NEW b \in Apis
      PROVE  api'[b].uses = Cardinality(Of(b, listed')) + Cardinality(Of(b, built'))
                              + One(b = current' /\ pc' \in Sharing)
                              + One(b = current /\ "failed" \in {"share", "failed"})
  <2>1. Cardinality(Of(b, listed)) \in Nat /\ Cardinality(Of(b, built)) \in Nat
    BY <1>1, CountsAreNumbers DEF DriverInv
  <2> QED  BY <1>1, <1>2, <2>1, AccountAtRest DEF One, Sharing
<1>6. opens' = Cardinality(Loaded') + One(local') + One("failed" \in {"failed", "shutdown", "close"})
  BY <1>1, <1>2, <1>4, AccountAtRest, SetsAreFinite DEF One
<1>7. ShutsDown => inits' = stray' + Cardinality(Initialised') + One("failed" = "shutdown")
  BY <1>1, <1>4, AccountAtRest, SetsAreFinite, StrayIsNumber DEF One, TypeOK
<1>8. refs' = References(listed') + References(built') + 0 + One(Counted /\ pc' = "build")
  <2>1. References(listed) \in Nat /\ References(built) \in Nat
    BY <1>1, CountsAreNumbers DEF DriverInv
  <2> QED  BY <1>1, <1>2, <2>1, AccountAtRest DEF One
<1>9. "failed" \in Stages /\ 0 \in Nat
  BY DEF Stages
<1>10. ~ShutsDown => inits' \in {0, 1} /\ (Loaded' # {} => inits' = 1)
  <2>1. ASSUME ~ShutsDown  PROVE inits' = inits
    BY <1>1, <2>1 DEF TypeOK
  <2>2. ASSUME ~ShutsDown  PROVE inits \in {0, 1} /\ (Loaded # {} => inits = 1)
    BY <1>1, <2>2, AccountAtRest
  <2> QED  BY <1>4, <2>1, <2>2
<1> QED
  BY <1>1, <1>3, <1>4, <1>5, <1>6, <1>7, <1>8, <1>9, <1>10, Balanced

LEMMA ResolveAccount == IInv /\ Resolve => AccountInv'
<1> SUFFICES ASSUME IInv, Resolve  PROVE AccountInv'
  OBVIOUS
<1>1. [Next]_vars /\ unwinding = <<>> /\ pc = "resolve"
  BY DEF Resolve, Running, Next, Load
<1>2. UNCHANGED <<api, opens, inits, stray, refs, current, listed, built>>
  BY DEF Resolve, library
<1>3. CASE pc' = "init" /\ UNCHANGED <<local, unwinding>>
  BY <1>1, <1>2, <1>3, NothingCounted DEF Sharing
<1>4. CASE LoadFails
  <2>1. inits' = inits + 0 /\ stray' = stray + 0 /\ 0 \in Nat
    BY <1>2 DEF IInv, TypeOK
  <2> QED  BY <1>1, <1>2, <1>4, <2>1, LoadFailsAccount
<1> QED  BY <1>3, <1>4 DEF Resolve

LEMMA InitialiseAccount == IInv /\ Initialise => AccountInv'
<1> SUFFICES ASSUME IInv, Initialise  PROVE AccountInv'
  OBVIOUS
<1>1. /\ TypeOK /\ DriverInv /\ ApiInv /\ AccountInv /\ DriverInv' /\ [Next]_vars
      /\ unwinding = <<>> /\ pc = "init" /\ current \in Apis /\ ~api[current].library
      /\ UNCHANGED <<opens, stray, refs, current, listed, built>>
  BY NextDriverInv DEF IInv, Initialise, Running, Next, Load, ApiInv, TypeOK
<1>2. CASE LoadFails /\ UNCHANGED <<inits, api>>
  <2>1. inits' = inits + 0 /\ stray' = stray + 0 /\ 0 \in Nat
    BY <1>1, <1>2 DEF TypeOK
  <2> QED  BY <1>1, <1>2, <2>1, LoadFailsAccount
<1>3. CASE Keep /\ pc' = "enumerate" /\ inits' = IF ShutsDown THEN inits + 1 ELSE 1
  <2>1. /\ api' = [api EXCEPT ![current].initialised = ShutsDown, ![current].library = TRUE]
        /\ local' = FALSE /\ unwinding' = <<>> /\ local = TRUE
    BY <1>1, <1>3 DEF Keep, DriverInv, TypeOK
  <2>2. /\ api'[current].library /\ api'[current].initialised = ShutsDown
        /\ \A b \in Apis : b # current => api'[b] = api[b]
        /\ \A b \in Apis : api'[b].uses = api[b].uses
    BY <1>1, <2>1 DEF TypeOK
  <2>3. api'[current].initialised <=> ShutsDown
    BY <2>2, Zenon
  <2>4. Loaded' = Loaded \cup {current} /\ current \notin Loaded
    BY <1>1, <2>2 DEF Loaded
  <2>5. opens' = Cardinality(Loaded') + One(local')
    <3>1. Cardinality(Loaded') = Cardinality(Loaded) + 1
      BY <2>4, SetsAreFinite, FS_AddElement
    <3>2. opens = Cardinality(Loaded) + 1
      BY <1>1, <2>1, AccountAtRest DEF One
    <3> QED  BY <1>1, <2>1, <3>1, <3>2, SetsAreFinite DEF One
  <2>6. ASSUME ShutsDown  PROVE inits' = stray' + Cardinality(Initialised')
    <3>1. Initialised' = Initialised \cup {current} /\ current \notin Initialised
      BY <1>1, <2>2, <2>3, <2>6 DEF Initialised, ApiInv
    <3>2. Cardinality(Initialised') = Cardinality(Initialised) + 1
      BY <3>1, SetsAreFinite, FS_AddElement
    <3>3. inits = stray + Cardinality(Initialised)
      BY <1>1, <2>6, AccountAtRest
    <3> QED  BY <1>1, <1>3, <2>6, <3>2, <3>3, SetsAreFinite DEF TypeOK
  <2>7. ~ShutsDown => inits' \in {0, 1} /\ (Loaded' # {} => inits' = 1)
    BY <1>3
  <2>8. \A b \in Apis :
          api'[b].uses = Cardinality(Of(b, listed')) + Cardinality(Of(b, built'))
                           + One(b = current' /\ pc' \in Sharing)
    BY <1>1, <1>3, <2>2, AccountAtRest DEF One, Sharing
  <2>9. refs' = References(listed') + References(built') + One(Counted /\ pc' = "build")
    BY <1>1, <1>3, AccountAtRest DEF One
  <2> QED  BY <1>1, <2>1, <2>5, <2>6, <2>7, <2>8, <2>9, BalancedAtRest
<1> QED  BY <1>2, <1>3 DEF Initialise

LEMMA InitialiseInVainAccount == IInv /\ InitialiseInVain => AccountInv'
<1> SUFFICES ASSUME IInv, InitialiseInVain  PROVE AccountInv'
  OBVIOUS
<1>1. /\ [Next]_vars /\ unwinding = <<>> /\ pc = "init" /\ LoadFails /\ ShutsDown
      /\ UNCHANGED <<api, opens, refs, current, listed, built>>
      /\ inits' = inits + 1 /\ stray' = stray + 1
  BY DEF InitialiseInVain, Running, Next, Load, ShutsDown
<1> QED  BY <1>1, LoadFailsAccount

\* The probe lets go of its share, with n references to be given back before that.
LEMMA ShareIsLeft ==
  ASSUME IInv, [Next]_vars, unwinding = <<>>, pc \in Sharing, pc' \notin Sharing,
         NEW n \in Nat, n > 0 => Counted /\ api[current].library,
         Is(unwinding', current, n, "share"),
         UNCHANGED <<api, opens, inits, stray, refs, local, current, listed, built>>,
         One(Counted /\ pc = "build") = n
  PROVE  AccountInv'
<1>1. TypeOK /\ DriverInv /\ AccountInv /\ current \in Apis
  BY DEF IInv, TypeOK
<1>2. Loaded' = Loaded /\ Initialised' = Initialised
  BY DEF Loaded, Initialised
<1>3. ASSUME NEW b \in Apis
      PROVE  api'[b].uses = Cardinality(Of(b, listed')) + Cardinality(Of(b, built'))
                              + One(b = current' /\ pc' \in Sharing)
                              + One(b = current /\ "share" \in {"share", "failed"})
  <2>1. Cardinality(Of(b, listed)) \in Nat /\ Cardinality(Of(b, built)) \in Nat
    BY <1>1, CountsAreNumbers DEF DriverInv
  <2> QED  BY <1>1, <2>1, AccountAtRest DEF One
<1>4. opens' = Cardinality(Loaded') + One(local') + One("share" \in {"failed", "shutdown", "close"})
  BY <1>1, <1>2, AccountAtRest, SetsAreFinite DEF One
<1>5. ShutsDown => inits' = stray' + Cardinality(Initialised') + One("share" = "shutdown")
  BY <1>1, <1>2, AccountAtRest, SetsAreFinite DEF One, TypeOK
<1>6. refs' = References(listed') + References(built') + n + One(Counted /\ pc' = "build")
  <2>1. References(listed) \in Nat /\ References(built) \in Nat
    BY <1>1, CountsAreNumbers DEF DriverInv
  <2> QED  BY <1>1, <2>1, AccountAtRest DEF One, Sharing
<1>7. "share" \in Stages
  BY DEF Stages
<1> QED  BY <1>1, <1>2, <1>3, <1>4, <1>5, <1>6, <1>7, AccountAtRest, Balanced

LEMMA EnumerateAccount == IInv /\ Enumerate => AccountInv'
<1> SUFFICES ASSUME IInv, Enumerate  PROVE AccountInv'
  OBVIOUS
<1>1. /\ TypeOK /\ DriverInv /\ AccountInv /\ DriverInv' /\ [Next]_vars
      /\ unwinding = <<>> /\ pc = "enumerate" /\ current \in Apis
      /\ UNCHANGED <<api, opens, inits, stray, local, current, listed, built>>
  BY NextDriverInv DEF IInv, Enumerate, Running, Next, Probe, TypeOK
<1>2. CASE pc' = "idle" /\ unwinding' = <<Drop(current)>> /\ UNCHANGED refs
  <2>1. Is(unwinding', current, 0, "share")
    BY <1>1, <1>2, PlansAreMade
  <2>2. One(Counted /\ pc = "build") = 0
    BY <1>1 DEF One
  <2> QED  BY <1>1, <1>2, <2>1, <2>2, ShareIsLeft DEF Sharing
<1>3. CASE pc' = "build" /\ UNCHANGED unwinding /\ refs' = IF Counted THEN refs + 1 ELSE refs
  <2>1. Loaded' = Loaded /\ Initialised' = Initialised
    BY <1>1 DEF Loaded, Initialised
  <2>2. \A b \in Apis : One(b = current' /\ pc' \in Sharing) = One(b = current /\ pc \in Sharing)
    BY <1>1, <1>3 DEF One, Sharing
  <2>3. refs' = References(listed') + References(built') + One(Counted /\ pc' = "build")
    <3>1. References(listed) \in Nat /\ References(built) \in Nat
      BY <1>1, CountsAreNumbers DEF DriverInv
    <3> QED  BY <1>1, <1>3, <3>1, AccountAtRest DEF One
  <2> QED  BY <1>1, <1>3, <2>1, <2>2, <2>3, AccountAtRest, BalancedAtRest
<1> QED  BY <1>2, <1>3 DEF Enumerate

LEMMA FinishBuildAccount == IInv /\ FinishBuild => AccountInv'
<1> SUFFICES ASSUME IInv, FinishBuild  PROVE AccountInv'
  OBVIOUS
<1>1. /\ TypeOK /\ ApiInv /\ [Next]_vars /\ unwinding = <<>> /\ pc = "build" /\ pc' = "adopt"
      /\ current \in Apis /\ api[current].library
      /\ UNCHANGED <<api, opens, inits, stray, refs, local, current, listed, built>>
  BY DEF IInv, FinishBuild, Running, Next, Probe, TypeOK, ApiInv, library
<1>2. unwinding' = (IF Counted THEN <<Release(current)>> ELSE <<>>) \o <<Drop(current)>>
  BY DEF FinishBuild
<1>3. CASE Counted
  <2>1. <<Release(current)>> = [i \in 1..1 |-> Release(current)]
    OBVIOUS
  <2>2. Is(unwinding', current, 1, "share")
    BY <1>1, <1>2, <1>3, <2>1, PlansAreMade
  <2> QED  BY <1>1, <1>3, <2>2, ShareIsLeft DEF Sharing, One
<1>4. CASE ~Counted
  <2>1. <<>> \o <<Drop(current)>> = <<Drop(current)>>
    BY <1>1, PlansAreMade, ConcatEmptySeq
  <2>2. Is(unwinding', current, 0, "share")
    BY <1>1, <1>2, <1>4, <2>1, PlansAreMade
  <2> QED  BY <1>1, <1>4, <2>2, ShareIsLeft DEF Sharing, One
<1> QED  BY <1>3, <1>4

(***************************************************************************)
(* Drivers that come and go.                                               *)
(***************************************************************************)
LEMMA DestructorPlan ==
  ASSUME NEW d \in Drivers
  PROVE  /\ d.api \in Apis /\ Handles(d) \in Nat /\ (Handles(d) > 0 => Counted)
         /\ Is(DriverDestructor(d), d.api, Handles(d), "share")
         /\ DriverDestructor(d) \in Seq(Destructors)
<1>1. d.api \in Apis
  BY DEF Drivers
<1>2. Handles(d) \in Nat
  BY DEF Handles
<1>3. Handles(d) > 0 => Counted
  BY DEF Handles
<1> QED  BY <1>1, <1>2, <1>3, PlansAreMade DEF DriverDestructor

\* A driver's destructor takes over the share and the references that it had.
LEMMA DriverIsDestroyed ==
  ASSUME IInv, [Next]_vars, unwinding = <<>>, NEW d \in listed \cup built,
         References(listed') \in Int, References(built') \in Int,
         References(listed') + References(built')
           = References(listed) + References(built) - Handles(d),
         \A b : /\ Cardinality(Of(b, listed')) \in Int /\ Cardinality(Of(b, built')) \in Int
                /\ Cardinality(Of(b, listed')) + Cardinality(Of(b, built'))
                     = Cardinality(Of(b, listed)) + Cardinality(Of(b, built)) - One(d.api = b),
         unwinding' = DriverDestructor(d),
         UNCHANGED <<api, opens, inits, stray, refs, local, current, pc>>
  PROVE  AccountInv'
<1>1. TypeOK /\ ApiInv /\ DriverInv /\ AccountInv /\ d \in Drivers /\ api[d.api].library
  BY DEF IInv, TypeOK, ApiInv
<1>2. Loaded' = Loaded /\ Initialised' = Initialised
  BY DEF Loaded, Initialised
<1>3. /\ d.api \in Apis /\ Handles(d) \in Nat /\ (Handles(d) > 0 => Counted)
      /\ Is(unwinding', d.api, Handles(d), "share") /\ "share" \in Stages
  BY <1>1, DestructorPlan DEF Stages
<1>4. /\ References(listed) \in Nat /\ References(built) \in Nat
      /\ \A b : Cardinality(Of(b, listed)) \in Nat /\ Cardinality(Of(b, built)) \in Nat
  BY <1>1, CountsAreNumbers DEF DriverInv
<1>6. ASSUME NEW b \in Apis
      PROVE  api'[b].uses = Cardinality(Of(b, listed')) + Cardinality(Of(b, built'))
                              + One(b = current' /\ pc' \in Sharing)
                              + One(b = d.api /\ "share" \in {"share", "failed"})
  <2>1. api[b].uses = Cardinality(Of(b, listed)) + Cardinality(Of(b, built))
                        + One(b = current /\ pc \in Sharing)
    BY <1>1, AccountAtRest
  <2>2. One(b = current' /\ pc' \in Sharing) = One(b = current /\ pc \in Sharing)
    BY DEF One
  <2>3. One(b = d.api /\ "share" \in {"share", "failed"}) = One(d.api = b)
    BY DEF One
  <2>4. One(b = current /\ pc \in Sharing) \in Nat /\ One(d.api = b) \in Nat
    BY DEF One
  <2> QED  BY <1>4, <2>1, <2>2, <2>3, <2>4
<1>7. opens' = Cardinality(Loaded') + One(local') + One("share" \in {"failed", "shutdown", "close"})
  BY <1>1, <1>2, AccountAtRest, SetsAreFinite DEF One
<1>8. ShutsDown => inits' = stray' + Cardinality(Initialised') + One("share" = "shutdown")
  BY <1>1, <1>2, AccountAtRest, SetsAreFinite DEF One, TypeOK
<1>9. refs' = References(listed') + References(built') + Handles(d) + One(Counted /\ pc' = "build")
  <2>1. refs = References(listed) + References(built) + One(Counted /\ pc = "build")
    BY <1>1, AccountAtRest
  <2>2. One(Counted /\ pc' = "build") = One(Counted /\ pc = "build")
    BY DEF One
  <2>3. One(Counted /\ pc = "build") \in Nat
    BY DEF One
  <2> QED  BY <1>3, <1>4, <2>1, <2>2, <2>3
<1>10. Handles(d) > 0 => Counted /\ api'[d.api].library
  BY <1>1, <1>3
<1> QED  BY <1>1, <1>2, <1>3, <1>6, <1>7, <1>8, <1>9, <1>10, AccountAtRest, Balanced

LEMMA ListedIsDestroyed ==
  ASSUME IInv, [Next]_vars, unwinding = <<>>, NEW d \in listed,
         listed' = listed \ {d}, built' = built, unwinding' = DriverDestructor(d),
         UNCHANGED <<api, opens, inits, stray, refs, local, current, pc>>
  PROVE  AccountInv'
<1>3. IsFiniteSet(listed) /\ IsFiniteSet(built)
  BY DEF IInv, DriverInv
<1>4. /\ \A b : Cardinality(Of(b, listed')) = Cardinality(Of(b, listed)) - One(d.api = b)
      /\ References(listed') = References(listed) - Handles(d)
  <2>1. /\ \A b : Cardinality(Of(b, listed \ {d})) = Cardinality(Of(b, listed)) - One(d.api = b)
        /\ References(listed \ {d}) = References(listed) - Handles(d)
    BY <1>3, OneDriverLess
  <2>2. listed' = listed \ {d}
    OBVIOUS
  <2> QED  BY <2>1, <2>2
<1>5. /\ References(listed) \in Nat /\ References(built) \in Nat /\ Handles(d) \in Nat
      /\ \A b : /\ Cardinality(Of(b, listed)) \in Nat /\ Cardinality(Of(b, built)) \in Nat
                /\ One(d.api = b) \in Nat
  BY <1>3, CountsAreNumbers DEF Handles, One
<1>6. ASSUME NEW b
      PROVE  /\ Cardinality(Of(b, listed')) \in Int /\ Cardinality(Of(b, built')) \in Int
             /\ Cardinality(Of(b, listed')) + Cardinality(Of(b, built'))
                  = Cardinality(Of(b, listed)) + Cardinality(Of(b, built)) - One(d.api = b)
  <2>1. /\ Cardinality(Of(b, listed')) = Cardinality(Of(b, listed)) - One(d.api = b)
        /\ Cardinality(Of(b, built')) = Cardinality(Of(b, built))
    BY <1>4
  <2>2. /\ Cardinality(Of(b, listed)) \in Nat /\ Cardinality(Of(b, built)) \in Nat
        /\ One(d.api = b) \in Nat
    BY <1>5
  <2> QED  BY <2>1, <2>2
<1>7. /\ References(listed') \in Int /\ References(built') \in Int
      /\ References(listed') + References(built')
           = References(listed) + References(built) - Handles(d)
  BY <1>4, <1>5
<1> QED  BY <1>6, <1>7, DriverIsDestroyed

LEMMA DestroyAccount == IInv /\ (\E d \in listed : Retire(d) \/ DestroyDriver(d)) => AccountInv'
<1> SUFFICES ASSUME IInv, NEW d \in listed, Retire(d) \/ DestroyDriver(d)  PROVE AccountInv'
  OBVIOUS
<1>1. [Next]_vars /\ unwinding = <<>>
  BY DEF Next, Registry, Retire, DestroyDriver, Running
<1>2. /\ listed' = listed \ {d} /\ unwinding' = DriverDestructor(d)
      /\ UNCHANGED <<api, opens, inits, stray, refs, local, current, pc, built>>
  BY DEF Retire, DestroyDriver, library, probing
<1> QED  BY <1>1, <1>2, ListedIsDestroyed

LEMMA AdoptAccount == IInv /\ (\E d \in built : Adopt(d)) => AccountInv'
<1> SUFFICES ASSUME IInv, NEW d \in built, Adopt(d)  PROVE AccountInv'
  OBVIOUS
<1>1. /\ TypeOK /\ DriverInv /\ AccountInv /\ DriverInv' /\ [Next]_vars /\ unwinding = <<>>
      /\ built' = built \ {d} /\ UNCHANGED <<api, opens, inits, stray, refs, local, current, pc>>
  BY NextDriverInv DEF IInv, Next, Registry, Adopt, Running, library
<1>2. /\ \A b : Cardinality(Of(b, built')) = Cardinality(Of(b, built)) - One(d.api = b)
      /\ References(built') = References(built) - Handles(d)
  BY <1>1, OneDriverLess DEF DriverInv
<1>3. /\ References(listed) \in Nat /\ References(built) \in Nat /\ Handles(d) \in Nat
      /\ \A b : /\ Cardinality(Of(b, listed)) \in Nat /\ Cardinality(Of(b, built)) \in Nat
                /\ One(d.api = b) \in Nat
  BY <1>1, CountsAreNumbers DEF DriverInv, Handles, One
<1>4. CASE unwinding' = DriverDestructor(d) /\ UNCHANGED listed
  <2>1. /\ References(listed') \in Int /\ References(built') \in Int
        /\ References(listed') + References(built')
             = References(listed) + References(built) - Handles(d)
        /\ \A b : /\ Cardinality(Of(b, listed')) \in Int /\ Cardinality(Of(b, built')) \in Int
                  /\ Cardinality(Of(b, listed')) + Cardinality(Of(b, built'))
                       = Cardinality(Of(b, listed)) + Cardinality(Of(b, built)) - One(d.api = b)
    BY <1>2, <1>3, <1>4
  <2> QED  BY <1>1, <1>4, <2>1, DriverIsDestroyed
<1>5. CASE /\ \A other \in listed : other.gpu # d.gpu
           /\ listed' = listed \cup {d} /\ UNCHANGED unwinding
  <2>1. d \notin listed
    BY <1>5
  <2>3. /\ \A b : Cardinality(Of(b, listed')) = Cardinality(Of(b, listed)) + One(d.api = b)
        /\ References(listed') = References(listed) + Handles(d)
    BY <1>1, <1>5, <2>1, OneMoreDriver DEF DriverInv
  <2>5. /\ References(listed') + References(built') = References(listed) + References(built)
        /\ \A b : Cardinality(Of(b, listed')) + Cardinality(Of(b, built'))
                    = Cardinality(Of(b, listed)) + Cardinality(Of(b, built))
    BY <1>2, <1>3, <2>3
  <2>6. Loaded' = Loaded /\ Initialised' = Initialised
    BY <1>1 DEF Loaded, Initialised
  <2>7. /\ One(Counted /\ pc' = "build") = One(Counted /\ pc = "build")
        /\ \A b \in Apis : One(b = current' /\ pc' \in Sharing) = One(b = current /\ pc \in Sharing)
    BY <1>1 DEF One
  <2> QED  BY <1>1, <1>5, <2>5, <2>6, <2>7, AccountAtRest, BalancedAtRest
<1> QED  BY <1>4, <1>5 DEF Adopt

\* A new driver is one more of those built, or dies at once with the share it had got.
LEMMA BuildAccount == IInv /\ (\E g \in Gpus : Build(g)) => AccountInv'
<1> SUFFICES ASSUME IInv, NEW g \in Gpus, Build(g)  PROVE AccountInv'
  OBVIOUS
<1>1. /\ TypeOK /\ ApiInv /\ DriverInv /\ AccountInv /\ [Next]_vars
      /\ unwinding = <<>> /\ pc = "build" /\ g \in todo
      /\ current \in Apis /\ api[current].library
      /\ api' = [api EXCEPT ![current].uses = @ + 1]
      /\ UNCHANGED <<opens, inits, stray, local, current, pc, listed>>
  BY DEF IInv, Next, Probe, Build, Running, TypeOK, ApiInv
<1>2. PICK d \in Drivers :
        /\ d.gpu = g /\ d.api = current /\ (d.healthy \/ vendor = "nvml")
        /\ \E services \in {<<>>, Services} :
             /\ refs' = refs + Handles(d) + Len(services)
             /\ built' = IF d.healthy THEN built \cup {d} ELSE built
             /\ unwinding' = services \o Locals
                               \o (IF d.healthy THEN <<>> ELSE DriverDestructor(d))
  BY DEF Build
<1>3. PICK services \in {<<>>, Services} :
        /\ refs' = refs + Handles(d) + Len(services)
        /\ built' = IF d.healthy THEN built \cup {d} ELSE built
        /\ unwinding' = services \o Locals \o (IF d.healthy THEN <<>> ELSE DriverDestructor(d))
  BY <1>2
<1>4. /\ References(listed) \in Nat /\ References(built) \in Nat
      /\ \A b : Cardinality(Of(b, listed)) \in Nat /\ Cardinality(Of(b, built)) \in Nat
  BY <1>1, CountsAreNumbers DEF DriverInv
<1>5. Loaded' = Loaded /\ Initialised' = Initialised
  <2>1. \A b \in Apis : /\ api'[b].library = api[b].library
                        /\ api'[b].initialised = api[b].initialised
    BY <1>1 DEF TypeOK
  <2> QED  BY <2>1 DEF Loaded, Initialised
<1>6. refs = References(listed) + References(built) + One(Counted /\ pc = "build")
  BY <1>1, AccountAtRest
<1>7. One(Counted /\ pc' = "build") = One(Counted /\ pc = "build")
      /\ One(Counted /\ pc = "build") \in Nat
  BY <1>1 DEF One
<1>8. ASSUME NEW b \in Apis
      PROVE  /\ api'[b].uses = Cardinality(Of(b, listed)) + Cardinality(Of(b, built))
                                 + One(b = current' /\ pc' \in Sharing) + One(d.api = b)
             /\ One(b = current' /\ pc' \in Sharing) \in Nat
  <2>1. api'[b].uses = api[b].uses + One(d.api = b) /\ api[b].uses \in Nat
    BY <1>1, <1>2 DEF One, TypeOK
  <2>2. One(b = current' /\ pc' \in Sharing) = One(b = current /\ pc \in Sharing)
    BY <1>1 DEF One
  <2> QED  BY <1>1, <1>4, <2>1, <2>2, AccountAtRest DEF One
<1>9. CASE d.healthy
  <2>1. PICK n \in {0, 1} : /\ Len(services) = n /\ (n > 0 => Counted)
                            /\ services = [i \in 1..n |-> Release(current)]
    <3>1. CASE services = <<>>
      <4>1. <<>> = [i \in 1..0 |-> Release(current)] /\ Len(<<>>) = 0
        OBVIOUS
      <4> QED  BY <3>1, <4>1
    <3>2. CASE services # <<>>
      <4>1. services = <<Release(current)>> /\ Counted
        BY <3>2 DEF Services
      <4>2. <<Release(current)>> = [i \in 1..1 |-> Release(current)]
        OBVIOUS
      <4> QED  BY <4>1, <4>2
    <3> QED  BY <3>1, <3>2
  <2>a. services \in Seq(Destructors) /\ Is(services, current, n, "none")
    <3>1. /\ [i \in 1..n |-> Release(current)] \in Seq(Destructors)
          /\ Is([i \in 1..n |-> Release(current)], current, n, "none")
      BY <1>1, PlansAreMade
    <3> QED  BY <2>1, <3>1
  <2>2. unwinding' = services
    BY <1>3, <1>9, <2>a, ConcatEmptySeq DEF Locals
  <2>3. Is(unwinding', current, n, "none") /\ "none" \in Stages
    BY <2>a, <2>2 DEF Stages
  <2>4. /\ d \notin built /\ built' = built \cup {d}
    BY <1>1, <1>2, <1>3, <1>9 DEF DriverInv
  <2>5. /\ \A b : Cardinality(Of(b, built')) = Cardinality(Of(b, built)) + One(d.api = b)
        /\ References(built') = References(built) + Handles(d) /\ Handles(d) \in Nat
    <3>1. IsFiniteSet(built)
      BY <1>1 DEF DriverInv
    <3>2. /\ \A b : Cardinality(Of(b, built \cup {d})) = Cardinality(Of(b, built)) + One(d.api = b)
          /\ References(built \cup {d}) = References(built) + Handles(d)
      BY <2>4, <3>1, OneMoreDriver
    <3> QED  BY <2>4, <3>2 DEF Handles
  <2>6. ASSUME NEW b \in Apis
        PROVE  api'[b].uses = Cardinality(Of(b, listed')) + Cardinality(Of(b, built'))
                                + One(b = current' /\ pc' \in Sharing)
                                + One(b = current /\ "none" \in {"share", "failed"})
    <3>1. /\ Cardinality(Of(b, built')) = Cardinality(Of(b, built)) + One(d.api = b)
          /\ One(d.api = b) \in Nat /\ One(b = current /\ "none" \in {"share", "failed"}) = 0
      BY <2>5 DEF One
    <3> QED  BY <1>1, <1>4, <1>8, <3>1
  <2>7. /\ opens' = Cardinality(Loaded') + One(local')
                      + One("none" \in {"failed", "shutdown", "close"})
        /\ ShutsDown => inits' = stray' + Cardinality(Initialised') + One("none" = "shutdown")
        /\ ~ShutsDown => inits' \in {0, 1} /\ (Loaded' # {} => inits' = 1)
    BY <1>1, <1>5, AccountAtRest, SetsAreFinite DEF One, TypeOK
  <2>8. refs' = References(listed') + References(built') + n + One(Counted /\ pc' = "build")
    BY <1>1, <1>3, <1>4, <1>6, <1>7, <2>1, <2>5
  <2>9. n > 0 => Counted /\ api'[current].library
    BY <1>1, <2>1 DEF TypeOK
  <2> QED  BY <1>1, <2>3, <2>6, <2>7, <2>8, <2>9, Balanced
<1>10. CASE ~d.healthy
  <2>1. ~Counted /\ services = <<>> /\ Handles(d) = 0
    BY <1>2, <1>3, <1>10 DEF Counted, Services, Handles
  <2>2. unwinding' = DriverDestructor(d)
    <3>1. DriverDestructor(d) \in Seq(Destructors) /\ <<>> \in Seq(Destructors)
      BY DestructorPlan
    <3> QED  BY <1>3, <1>10, <2>1, <3>1, ConcatEmptySeq DEF Locals
  <2>3. Is(unwinding', current, 0, "share") /\ "share" \in Stages
    BY <1>2, <2>1, <2>2, DestructorPlan DEF Stages
  <2>4. built' = built
    BY <1>3, <1>10
  <2>5. ASSUME NEW b \in Apis
        PROVE  api'[b].uses = Cardinality(Of(b, listed')) + Cardinality(Of(b, built'))
                                + One(b = current' /\ pc' \in Sharing)
                                + One(b = current /\ "share" \in {"share", "failed"})
    <3>1. One(b = current /\ "share" \in {"share", "failed"}) = One(d.api = b)
      BY <1>2 DEF One
    <3> QED  BY <1>1, <1>8, <2>4, <3>1
  <2>6. /\ opens' = Cardinality(Loaded') + One(local')
                      + One("share" \in {"failed", "shutdown", "close"})
        /\ ShutsDown => inits' = stray' + Cardinality(Initialised') + One("share" = "shutdown")
        /\ ~ShutsDown => inits' \in {0, 1} /\ (Loaded' # {} => inits' = 1)
    BY <1>1, <1>5, AccountAtRest, SetsAreFinite DEF One, TypeOK
  <2>7. refs' = References(listed') + References(built') + 0 + One(Counted /\ pc' = "build")
    <3>1. Len(services) = 0
      BY <2>1
    <3>2. refs' = refs
      <4>1. refs \in Nat /\ refs' = refs + 0 + 0
        BY <1>1, <1>3, <2>1, <3>1 DEF TypeOK
      <4> QED  BY <4>1
    <3>3. listed' = listed /\ built' = built
      BY <1>1, <2>4
    <3> QED  BY <1>4, <1>6, <1>7, <3>2, <3>3
  <2> QED  BY <1>1, <2>3, <2>5, <2>6, <2>7, Balanced
<1> QED  BY <1>9, <1>10

\* A driver whose device turns out to be lost is the same driver, no longer healthy.
LEMMA SampleAccount == IInv /\ (\E d \in listed : Sample(d)) => AccountInv'
<1> SUFFICES ASSUME IInv, NEW d \in listed, Sample(d)  PROVE AccountInv'
  OBVIOUS
<1> DEFINE failed == [d EXCEPT !.healthy = FALSE]
<1>1. /\ TypeOK /\ ApiInv /\ DriverInv /\ AccountInv /\ [Next]_vars
      /\ unwinding = <<>> /\ d \in Drivers /\ d.healthy
      /\ UNCHANGED <<api, opens, inits, stray, local, current, pc, built>>
  BY DEF IInv, Next, Registry, Sample, Running, TypeOK, probing
<1>2. PICK taken \in IF Counted THEN 0..2 ELSE {0}, lost \in BOOLEAN :
        /\ refs' = refs + taken
        /\ unwinding' = [i \in 1..taken |-> Release(d.api)]
        /\ listed' = IF lost THEN (listed \ {d}) \cup {failed} ELSE listed
  BY DEF Sample
<1>3. taken \in Nat /\ (taken > 0 => Counted)
  OBVIOUS
<1>4. d.api \in Apis /\ api[d.api].library
  BY <1>1 DEF Drivers, ApiInv
<1>5. Is(unwinding', d.api, taken, "none") /\ "none" \in Stages
  BY <1>2, <1>3, <1>4, PlansAreMade DEF Stages
<1>6. failed.api = d.api /\ failed.gpu = d.gpu /\ failed.support = d.support /\ ~failed.healthy
  BY <1>1 DEF Drivers
<1> HIDE DEF failed
<1>7. IsFiniteSet(listed) /\ IsFiniteSet(built)
  BY <1>1 DEF DriverInv
<1>8. /\ References(listed) \in Nat /\ References(built) \in Nat
      /\ \A b : Cardinality(Of(b, listed)) \in Nat /\ Cardinality(Of(b, built)) \in Nat
  BY <1>7, CountsAreNumbers
<1>9. /\ References(listed') = References(listed)
      /\ \A b : Cardinality(Of(b, listed')) = Cardinality(Of(b, listed))
  <2>1. CASE ~lost
    BY <1>2, <2>1
  <2>2. CASE lost
    <3>1. failed \notin listed \ {d}
      BY <1>1, <1>6 DEF DriverInv
    <3>2. Handles(failed) = Handles(d)
      BY <1>6 DEF Handles
    <3>3. listed' = (listed \ {d}) \cup {failed}
      BY <1>2, <2>2
    <3>4. /\ References((listed \ {d}) \cup {failed}) = References(listed)
          /\ \A b : Cardinality(Of(b, (listed \ {d}) \cup {failed})) = Cardinality(Of(b, listed))
      <4>1. IsFiniteSet(listed \ {d}) /\ d \notin listed \ {d} /\ (listed \ {d}) \cup {d} = listed
        BY <1>7, OneDriverLess
      <4> QED  BY <1>6, <3>1, <3>2, <4>1, SwappedDriver
    <3> QED  BY <3>3, <3>4
  <2> QED  BY <2>1, <2>2
<1>10. ASSUME NEW b \in Apis
       PROVE  api'[b].uses = Cardinality(Of(b, listed')) + Cardinality(Of(b, built'))
                               + One(b = current' /\ pc' \in Sharing)
                               + One(b = d.api /\ "none" \in {"share", "failed"})
  <2>1. /\ One(b = current' /\ pc' \in Sharing) = One(b = current /\ pc \in Sharing)
        /\ One(b = current /\ pc \in Sharing) \in Nat
        /\ One(b = d.api /\ "none" \in {"share", "failed"}) = 0
    BY <1>1 DEF One
  <2>2. api[b].uses = Cardinality(Of(b, listed)) + Cardinality(Of(b, built))
                        + One(b = current /\ pc \in Sharing)
    BY <1>1, AccountAtRest
  <2>3. /\ Cardinality(Of(b, listed)) \in Nat /\ Cardinality(Of(b, built)) \in Nat
        /\ Cardinality(Of(b, listed')) = Cardinality(Of(b, listed))
        /\ built' = built /\ api' = api
    BY <1>1, <1>8, <1>9
  <2> QED  BY <2>1, <2>2, <2>3
<1>11. Loaded' = Loaded /\ Initialised' = Initialised
  BY <1>1 DEF Loaded, Initialised
<1>12. /\ opens' = Cardinality(Loaded') + One(local')
                     + One("none" \in {"failed", "shutdown", "close"})
       /\ ShutsDown => inits' = stray' + Cardinality(Initialised') + One("none" = "shutdown")
       /\ ~ShutsDown => inits' \in {0, 1} /\ (Loaded' # {} => inits' = 1)
  BY <1>1, <1>11, AccountAtRest, SetsAreFinite DEF One, TypeOK
<1>13. refs' = References(listed') + References(built') + taken + One(Counted /\ pc' = "build")
  <2>1. /\ One(Counted /\ pc' = "build") = One(Counted /\ pc = "build")
        /\ One(Counted /\ pc = "build") \in Nat
    BY <1>1 DEF One
  <2>2. refs = References(listed) + References(built) + One(Counted /\ pc = "build")
    BY <1>1, AccountAtRest
  <2>3. References(listed') = References(listed) /\ built' = built
    BY <1>1, <1>9
  <2> QED  BY <1>2, <1>3, <1>8, <2>1, <2>2, <2>3
<1>14. taken > 0 => Counted /\ api'[d.api].library
  BY <1>1, <1>3, <1>4
<1> QED  BY <1>1, <1>3, <1>4, <1>5, <1>10, <1>12, <1>13, <1>14, Balanced

(***************************************************************************)
(* The destructors.                                                        *)
(***************************************************************************)
LEMMA UnwindAccount == IInv /\ Unwind => AccountInv'
<1> SUFFICES ASSUME IInv, Unwind  PROVE AccountInv'
  OBVIOUS
<1>1. /\ TypeOK /\ ApiInv /\ DriverInv /\ AccountInv /\ [Next]_vars
      /\ unwinding # <<>> /\ unwinding \in Seq(Destructors)
      /\ UNCHANGED <<local, current, pc, listed, built>>
  BY DEF IInv, Next, Unwind, TypeOK, probing
<1>2. PICK a \in Apis, k \in Nat, stage \in Stages : Plan(a, k, stage) /\ Account(a, k, stage)
  BY <1>1 DEF AccountInv
<1>3. /\ Is(unwinding, a, k, stage) /\ (k > 0 => Counted /\ api[a].library)
      /\ (stage = "shutdown" => ShutsDown) /\ (stage = "failed" => ~api[a].library)
  BY <1>2 DEF Plan
<1>4. /\ \A b \in Apis : api[b].uses = Shares(b, a, stage)
      /\ opens = Cardinality(Loaded) + One(local) + One(stage \in {"failed", "shutdown", "close"})
      /\ ShutsDown => inits = stray + Cardinality(Initialised) + One(stage = "shutdown")
      /\ ~ShutsDown => inits \in {0, 1} /\ (Loaded # {} => inits = 1)
      /\ refs = Handed(k)
  BY <1>2 DEF Account
<1>5. /\ k > 0 => Head(unwinding) = Release(a) /\ Is(Tail(unwinding), a, k - 1, stage)
      /\ k = 0 =>
           /\ stage # "none"
           /\ stage \in {"share", "failed"} => Head(unwinding) = Drop(a)
           /\ stage = "shutdown" => Head(unwinding) = Shutdown(a)
           /\ stage = "close" => Head(unwinding) = Close(a)
           /\ stage \in {"share", "close"} => Tail(unwinding) = <<>>
           /\ stage \in {"failed", "shutdown"} =>
                Tail(unwinding) = <<Close(a)>> /\ Is(Tail(unwinding), a, 0, "close")
  BY <1>1, <1>3, PlanUnwinds
<1>6. /\ References(listed) \in Nat /\ References(built) \in Nat
      /\ \A b : Cardinality(Of(b, listed)) \in Nat /\ Cardinality(Of(b, built)) \in Nat
  BY <1>1, CountsAreNumbers DEF DriverInv
<1>7. {"none", "share", "failed", "shutdown", "close"} = Stages /\ 0 \in Nat
  BY DEF Stages
<1>8. /\ Release(a).of = "AdlxPtr" /\ Drop(a).of = "shared_ptr"
      /\ Shutdown(a).of = "Api" /\ Close(a).of = "DynamicLibrary"
  BY DestructorTypes
<1>9. CASE ReleaseHandle
  <2>1. /\ refs' = refs - 1 /\ unwinding' = Tail(unwinding) /\ UNCHANGED <<opens, inits, stray, api>>
        /\ Head(unwinding).of = "AdlxPtr"
    BY <1>9 DEF ReleaseHandle
  <2>2. k > 0
    BY <1>5, <1>8, <2>1 DEF Stages
  <2>3. Is(unwinding', a, k - 1, stage) /\ k - 1 \in Nat
    BY <1>5, <2>1, <2>2
  <2>4. Loaded' = Loaded /\ Initialised' = Initialised
    BY <2>1 DEF Loaded, Initialised
  <2>5. \A b \in Apis :
          api'[b].uses = Cardinality(Of(b, listed')) + Cardinality(Of(b, built'))
                           + One(b = current' /\ pc' \in Sharing)
                           + One(b = a /\ stage \in {"share", "failed"})
    BY <1>1, <1>4, <2>1 DEF Shares
  <2>6. refs' = References(listed') + References(built') + (k - 1) + One(Counted /\ pc' = "build")
    BY <1>1, <1>4, <1>6, <2>1 DEF Handed, One
  <2> QED  BY <1>1, <1>3, <1>4, <2>1, <2>2, <2>3, <2>4, <2>5, <2>6, Balanced
<1>10. CASE ShutDown
  <2>1. /\ inits' = inits - 1 /\ unwinding' = Tail(unwinding) /\ UNCHANGED <<opens, stray, refs, api>>
        /\ Head(unwinding).of = "Api"
    BY <1>10 DEF ShutDown
  <2>2. k = 0 /\ stage = "shutdown"
    BY <1>5, <1>8, <2>1 DEF Stages
  <2>3. Is(unwinding', a, 0, "close") /\ ShutsDown
    BY <1>3, <1>5, <2>1, <2>2
  <2>4. Loaded' = Loaded /\ Initialised' = Initialised
    BY <2>1 DEF Loaded, Initialised
  <2>5. \A b \in Apis :
          api'[b].uses = Cardinality(Of(b, listed')) + Cardinality(Of(b, built'))
                           + One(b = current' /\ pc' \in Sharing)
                           + One(b = a /\ "close" \in {"share", "failed"})
    BY <1>1, <1>4, <2>1, <2>2 DEF Shares, One
  <2>6. /\ opens' = Cardinality(Loaded') + One(local')
                      + One("close" \in {"failed", "shutdown", "close"})
        /\ inits' = stray' + Cardinality(Initialised') + One("close" = "shutdown")
    BY <1>1, <1>4, <2>1, <2>2, <2>3, <2>4, SetsAreFinite DEF One, TypeOK
  <2>7. refs' = References(listed') + References(built') + 0 + One(Counted /\ pc' = "build")
    BY <1>1, <1>4, <1>6, <2>1, <2>2 DEF Handed, One
  <2> QED  BY <1>1, <1>7, <2>3, <2>5, <2>6, <2>7, Balanced
<1>11. CASE CloseLibrary
  <2>1. /\ opens' = opens - 1 /\ unwinding' = Tail(unwinding) /\ UNCHANGED <<stray, refs, api>>
        /\ inits' = IF ~ShutsDown /\ opens = 1 THEN 0 ELSE inits
        /\ Head(unwinding).of = "DynamicLibrary"
    BY <1>11 DEF CloseLibrary
  <2>2. k = 0 /\ stage = "close"
    BY <1>5, <1>8, <2>1 DEF Stages
  <2>3. Is(unwinding', a, 0, "none")
    BY <1>5, <2>1, <2>2, NothingPlanned DEF Stages
  <2>4. Loaded' = Loaded /\ Initialised' = Initialised
    BY <2>1 DEF Loaded, Initialised
  <2>5. \A b \in Apis :
          api'[b].uses = Cardinality(Of(b, listed')) + Cardinality(Of(b, built'))
                           + One(b = current' /\ pc' \in Sharing)
                           + One(b = a /\ "none" \in {"share", "failed"})
    BY <1>1, <1>4, <2>1, <2>2 DEF Shares, One
  <2>6. opens = Cardinality(Loaded) + One(local) + 1
    BY <1>4, <2>2, SetsAreFinite DEF One
  <2>7. opens' = Cardinality(Loaded') + One(local') + One("none" \in {"failed", "shutdown", "close"})
    BY <1>1, <2>1, <2>4, <2>6, SetsAreFinite DEF One
  <2>8. ASSUME ~ShutsDown  PROVE inits' \in {0, 1} /\ (Loaded' # {} => inits' = 1)
    <3>1. opens = 1 => Cardinality(Loaded) = 0
      BY <2>6, SetsAreFinite DEF One
    <3>2. opens = 1 => Loaded = {}
      BY <3>1, SetsAreFinite, FS_EmptySet
    <3> QED  BY <1>4, <2>1, <2>4, <2>8, <3>2
  <2>9. ShutsDown => inits' = stray' + Cardinality(Initialised') + One("none" = "shutdown")
    BY <1>4, <2>1, <2>2, <2>4, SetsAreFinite DEF One
  <2>10. refs' = References(listed') + References(built') + 0 + One(Counted /\ pc' = "build")
    BY <1>1, <1>4, <1>6, <2>1, <2>2 DEF Handed, One
  <2> QED  BY <1>1, <1>7, <2>3, <2>5, <2>7, <2>8, <2>9, <2>10, Balanced
<1>12. CASE DropApi
  <2>1. /\ k = 0 /\ stage \in {"share", "failed"} /\ UNCHANGED <<opens, inits, stray, refs>>
        /\ api[a].uses > 1 =>
             api' = [api EXCEPT ![a].uses = @ - 1] /\ unwinding' = Tail(unwinding)
        /\ ~(api[a].uses > 1) =>
             api' = [api EXCEPT ![a] = NoApi] /\ unwinding' = ApiDestructor(a) \o Tail(unwinding)
    BY <1>1, <1>2, <1>12, DropShape DEF DropApi, library
  <2>2. refs' = References(listed') + References(built') + 0 + One(Counted /\ pc' = "build")
    BY <1>1, <1>4, <1>6, <2>1 DEF Handed, One
  <2>3. ASSUME NEW b \in Apis
        PROVE  /\ api[b].uses = Cardinality(Of(b, listed')) + Cardinality(Of(b, built'))
                                  + One(b = current' /\ pc' \in Sharing) + One(b = a)
               /\ Cardinality(Of(b, listed')) \in Nat /\ Cardinality(Of(b, built')) \in Nat
               /\ One(b = current' /\ pc' \in Sharing) \in Nat
    BY <1>1, <1>4, <1>6, <2>1 DEF Shares, One
  <2>4. ASSUME \A b \in Apis : api'[b].uses = api[b].uses - One(b = a),
               NEW left \in {"none", "shutdown", "close"}
        PROVE  \A b \in Apis :
                 api'[b].uses = Cardinality(Of(b, listed')) + Cardinality(Of(b, built'))
                                  + One(b = current' /\ pc' \in Sharing)
                                  + One(b = a /\ left \in {"share", "failed"})
    <3> SUFFICES ASSUME NEW b \in Apis
                 PROVE  api'[b].uses = Cardinality(Of(b, listed')) + Cardinality(Of(b, built'))
                                         + One(b = current' /\ pc' \in Sharing)
                                         + One(b = a /\ left \in {"share", "failed"})
      OBVIOUS
    <3>1. One(b = a /\ left \in {"share", "failed"}) = 0 /\ One(b = a) \in Nat
      BY DEF One
    <3> QED  BY <2>3, <2>4, <3>1
  <2>5. CASE api[a].uses > 1
    <3>1. api' = [api EXCEPT ![a].uses = @ - 1] /\ unwinding' = Tail(unwinding)
      BY <2>1, <2>5
    <3>2. \A b \in Apis : /\ api'[b].library = api[b].library
                          /\ api'[b].initialised = api[b].initialised
                          /\ api'[b].uses = api[b].uses - One(b = a)
      BY <1>1, <3>1 DEF TypeOK, One
    <3>3. Loaded' = Loaded /\ Initialised' = Initialised
      BY <3>2 DEF Loaded, Initialised
    <3>4. CASE stage = "share"
      <4>1. Is(unwinding', a, 0, "none")
        BY <1>5, <2>1, <3>1, <3>4, NothingPlanned DEF Stages
      <4>2. /\ opens' = Cardinality(Loaded') + One(local')
                          + One("none" \in {"failed", "shutdown", "close"})
            /\ ShutsDown => inits' = stray' + Cardinality(Initialised') + One("none" = "shutdown")
        BY <1>1, <1>4, <2>1, <3>3, <3>4, SetsAreFinite DEF One
      <4>3. "none" \in {"none", "shutdown", "close"}
        OBVIOUS
      <4> QED  BY <1>1, <1>4, <1>7, <2>1, <2>2, <2>4, <3>2, <3>3, <4>1, <4>2, <4>3, Balanced
    <3>5. CASE stage = "failed"
      <4>1. Is(unwinding', a, 0, "close")
        BY <1>5, <2>1, <3>1, <3>5
      <4>2. /\ opens' = Cardinality(Loaded') + One(local')
                          + One("close" \in {"failed", "shutdown", "close"})
            /\ ShutsDown => inits' = stray' + Cardinality(Initialised') + One("close" = "shutdown")
        BY <1>1, <1>4, <2>1, <3>3, <3>5, SetsAreFinite DEF One
      <4>3. "close" \in {"none", "shutdown", "close"}
        OBVIOUS
      <4> QED  BY <1>1, <1>4, <1>7, <2>1, <2>2, <2>4, <3>2, <3>3, <4>1, <4>2, <4>3, Balanced
    <3> QED  BY <2>1, <3>4, <3>5
  <2>6. CASE ~(api[a].uses > 1)
    <3>1. /\ api' = [api EXCEPT ![a] = NoApi]
          /\ unwinding' = ApiDestructor(a) \o Tail(unwinding)
      BY <2>1, <2>6
    <3>2. /\ NoApi.library = FALSE /\ NoApi.initialised = FALSE /\ NoApi.uses = 0
          /\ api'[a] = NoApi /\ \A b \in Apis : b # a => api'[b] = api[b]
      BY <1>1, <3>1 DEF NoApi, TypeOK
    <3>3. api[a].uses = 1
      <4> DEFINE n == Cardinality(Of(a, listed'))
                 m == Cardinality(Of(a, built'))
                 o == One(a = current' /\ pc' \in Sharing)
      <4>1. One(a = a) = 1 /\ api[a].uses \in Nat
        BY <1>1 DEF One, TypeOK
      <4>2. api[a].uses = n + m + o + One(a = a)
        BY <2>3
      <4>3. n \in Nat /\ m \in Nat /\ o \in Nat
        BY <2>3
      <4> HIDE DEF n, m, o
      <4> QED  BY <2>6, <4>1, <4>2, <4>3
    <3>4. \A b \in Apis : api'[b].uses = api[b].uses - One(b = a)
      BY <1>1, <3>2, <3>3 DEF One, TypeOK
    <3>5. CASE api[a].library
      <4>1. stage = "share" /\ Tail(unwinding) = <<>>
        BY <1>3, <1>5, <2>1, <3>5
      <4>2. Loaded' = Loaded \ {a} /\ a \in Loaded
        BY <3>2, <3>5 DEF Loaded
      <4>3. opens' = Cardinality(Loaded') + One(local') + 1
        <5>1. Cardinality(Loaded') = Cardinality(Loaded) - 1
          BY <4>2, SetsAreFinite, FS_RemoveElement
        <5>2. opens = Cardinality(Loaded) + One(local)
          BY <1>4, <4>1, SetsAreFinite DEF One
        <5>3. opens' = opens /\ local' = local
          BY <1>1, <2>1
        <5>4. Cardinality(Loaded) \in Nat /\ One(local) \in Nat /\ One(local') = One(local)
          BY <5>3, SetsAreFinite DEF One
        <5> HIDE DEF Loaded
        <5> QED  BY <5>1, <5>2, <5>3, <5>4
      <4>4. ~ShutsDown => inits' \in {0, 1} /\ (Loaded' # {} => inits' = 1)
        BY <1>4, <2>1, <4>2
      <4>5. CASE ShutsDown
        <5>1. api[a].initialised
          BY <1>1, <3>5, <4>5 DEF ApiInv
        <5>2. ApiDestructor(a) = <<Shutdown(a)>> \o <<Close(a)>>
          BY <3>5, <5>1 DEF ApiDestructor
        <5>3. <<Shutdown(a)>> \o <<Close(a)>> = <<Shutdown(a), Close(a)>>
          BY TwoLeft
        <5>4. unwinding' = <<Shutdown(a), Close(a)>>
          BY <3>1, <4>1, <5>2, <5>3, PlansAreMade, ConcatEmptySeq
        <5>5. Is(unwinding', a, 0, "shutdown")
          BY <5>4, PlansAreMade
        <5>6. Initialised' = Initialised \ {a} /\ a \in Initialised
          BY <3>2, <5>1 DEF Initialised
        <5>7. inits' = stray' + Cardinality(Initialised') + 1
          <6>1. Cardinality(Initialised') = Cardinality(Initialised) - 1
            BY <5>6, SetsAreFinite, FS_RemoveElement
          <6>2. inits = stray + Cardinality(Initialised)
            BY <1>1, <1>4, <4>1, <4>5, SetsAreFinite DEF One, TypeOK
          <6> QED  BY <1>1, <2>1, <6>1, <6>2, SetsAreFinite DEF TypeOK
        <5>8. /\ opens' = Cardinality(Loaded') + One(local')
                            + One("shutdown" \in {"failed", "shutdown", "close"})
              /\ inits' = stray' + Cardinality(Initialised') + One("shutdown" = "shutdown")
          BY <4>3, <5>7 DEF One
        <5>9. "shutdown" \in {"none", "shutdown", "close"}
          OBVIOUS
        <5> QED  BY <1>1, <1>7, <2>2, <2>4, <3>4, <4>5, <5>5, <5>8, <5>9, Balanced
      <4>6. CASE ~ShutsDown
        <5>1. ~api[a].initialised
          BY <1>1, <4>6 DEF ApiInv
        <5>2. ApiDestructor(a) = <<>> \o <<Close(a)>>
          BY <3>5, <5>1 DEF ApiDestructor
        <5>3. unwinding' = <<Close(a)>>
          BY <3>1, <4>1, <5>2, PlansAreMade, ConcatEmptySeq
        <5>4. Is(unwinding', a, 0, "close")
          BY <5>3, PlansAreMade
        <5>5. opens' = Cardinality(Loaded') + One(local')
                         + One("close" \in {"failed", "shutdown", "close"})
          BY <4>3 DEF One
        <5>6. "close" \in {"none", "shutdown", "close"}
          OBVIOUS
        <5> QED  BY <1>1, <1>7, <2>2, <2>4, <3>4, <4>4, <4>6, <5>4, <5>5, <5>6, Balanced
      <4> QED  BY <4>5, <4>6
    <3>6. CASE ~api[a].library
      <4>1. ~api[a].initialised
        BY <1>1, <3>6 DEF ApiInv
      <4>2. ApiDestructor(a) = <<>> \o <<>>
        BY <3>6, <4>1 DEF ApiDestructor
      <4>3. unwinding' = Tail(unwinding)
        <5>1. <<>> \in Seq(Destructors) /\ Tail(unwinding) \in Seq(Destructors)
          BY <1>1, HeadTailProperties
        <5> QED  BY <3>1, <4>2, <5>1, ConcatEmptySeq
      <4>4. Loaded' = Loaded /\ Initialised' = Initialised
        BY <3>2, <3>6, <4>1 DEF Loaded, Initialised
      <4>5. CASE stage = "share"
        <5>1. Is(unwinding', a, 0, "none")
          BY <1>5, <2>1, <4>3, <4>5, NothingPlanned DEF Stages
        <5>2. /\ opens' = Cardinality(Loaded') + One(local')
                            + One("none" \in {"failed", "shutdown", "close"})
              /\ ShutsDown => inits' = stray' + Cardinality(Initialised') + One("none" = "shutdown")
          BY <1>1, <1>4, <2>1, <4>4, <4>5, SetsAreFinite DEF One
        <5>3. "none" \in {"none", "shutdown", "close"}
          OBVIOUS
        <5> QED  BY <1>1, <1>4, <1>7, <2>1, <2>2, <2>4, <3>4, <4>4, <5>1, <5>2, <5>3, Balanced
      <4>6. CASE stage = "failed"
        <5>1. Is(unwinding', a, 0, "close")
          BY <1>5, <2>1, <4>3, <4>6
        <5>2. /\ opens' = Cardinality(Loaded') + One(local')
                            + One("close" \in {"failed", "shutdown", "close"})
              /\ ShutsDown => inits' = stray' + Cardinality(Initialised') + One("close" = "shutdown")
          BY <1>1, <1>4, <2>1, <4>4, <4>6, SetsAreFinite DEF One
        <5>3. "close" \in {"none", "shutdown", "close"}
          OBVIOUS
        <5> QED  BY <1>1, <1>4, <1>7, <2>1, <2>2, <2>4, <3>4, <4>4, <5>1, <5>2, <5>3, Balanced
      <4> QED  BY <2>1, <4>5, <4>6
    <3> QED  BY <3>5, <3>6
  <2> QED  BY <2>5, <2>6
<1> QED  BY <1>9, <1>10, <1>11, <1>12 DEF Unwind

LEMMA NextAccountInv == IInv /\ [Next]_vars => AccountInv'
<1> SUFFICES ASSUME IInv, [Next]_vars  PROVE AccountInv'
  OBVIOUS
<1>1. CASE StartProbe \/ FinishProbe \/ Quit \/ (\E g \in Gpus : Skip(g))
  <2>1. /\ unwinding = <<>> /\ unwinding' = <<>>
        /\ UNCHANGED <<api, opens, inits, stray, refs, listed, built, local, current>>
        /\ (pc' \in Sharing <=> pc \in Sharing) /\ (pc' = "build" <=> pc = "build")
    BY <1>1 DEF StartProbe, FinishProbe, Quit, Skip, Running, Sharing, library
  <2> QED  BY <2>1, NothingCounted
<1>2. CASE UNCHANGED vars
  <2>1. /\ UNCHANGED <<vendor, api, opens, inits, stray, refs, listed, built, local, current, pc, unwinding>>
    BY <1>2 DEF vars, library, probing
  <2>2. PICK a \in Apis, k \in Nat, stage \in Stages : Plan(a, k, stage) /\ Account(a, k, stage)
    BY DEF IInv, AccountInv
  <2>3. /\ Loaded' = Loaded /\ Initialised' = Initialised
        /\ (ShutsDown' <=> ShutsDown) /\ (Counted' <=> Counted)
        /\ References(listed)' = References(listed') /\ References(built)' = References(built')
    BY <2>1, SameVendor DEF Loaded, Initialised
  <2>4. Plan(a, k, stage)'
    BY <2>1, <2>2, <2>3 DEF Plan
  <2>5. \A b \in Apis : api'[b].uses = Shares(b, a, stage)'
    BY <2>1, <2>2 DEF Account, Shares
  <2>6. refs' = Handed(k)'
    <3>1. refs = References(listed) + References(built) + k + One(Counted /\ pc = "build")
      BY <2>2 DEF Account, Handed
    <3>2. One(Counted' /\ pc' = "build") = One(Counted /\ pc = "build")
      BY <2>1, <2>3 DEF One
    <3> QED  BY <2>1, <2>3, <3>1, <3>2 DEF Handed
  <2>7. Account(a, k, stage)'
    BY <2>1, <2>2, <2>3, <2>5, <2>6 DEF Account
  <2> QED  BY <2>4, <2>7 DEF AccountInv
<1> QED
  BY <1>1, <1>2, UnwindAccount, OpenAccount, ResolveAccount, InitialiseAccount,
     InitialiseInVainAccount, EnumerateAccount, FinishBuildAccount, BuildAccount, AdoptAccount, SampleAccount, DestroyAccount
  DEF Next, Load, Probe, Registry

(***************************************************************************)
(* Types.  No count goes below zero: the account says that each was above  *)
(* it.                                                                     *)
(***************************************************************************)
LEMMA CountsStayNumbers ==
  ASSUME DriverInv', AccountInv', stray' \in Nat
  PROVE  opens' \in Nat /\ inits' \in Nat /\ refs' \in Nat
<1>1. PICK a \in Apis, k \in Nat, stage \in Stages : Account(a, k, stage)'
  BY DEF AccountInv
<1>2. Cardinality(Loaded') \in Nat /\ Cardinality(Initialised') \in Nat
  <2>1. Loaded' \in SUBSET Apis /\ Initialised' \in SUBSET Apis
    BY DEF Loaded, Initialised
  <2> QED  BY <2>1, StorageAssumption, FS_Subset, FS_CardinalityType
<1>3. opens' \in Nat
  BY <1>1, <1>2 DEF Account, One
<1>4. inits' \in Nat
  BY <1>1, <1>2 DEF Account, One
<1>5. refs' \in Nat
  <2>1. IsFiniteSet(listed') /\ IsFiniteSet(built')
    BY DEF DriverInv
  <2>2. References(listed)' \in Nat /\ References(built)' \in Nat
    <3>1. Cardinality(listed') \in Nat /\ Cardinality(built') \in Nat
      BY <2>1, FS_CardinalityType
    <3>2. /\ Cardinality({d \in listed' : d.support}) \in Nat
          /\ Cardinality({d \in built' : d.support}) \in Nat
      BY <2>1, FS_Subset, FS_CardinalityType,
         {d \in listed' : d.support} \in SUBSET listed', {d \in built' : d.support} \in SUBSET built'
    <3> QED  BY <3>1, <3>2 DEF References
  <2> QED  BY <1>1, <2>2 DEF Account, Handed, One
<1> QED  BY <1>3, <1>4, <1>5

\* What is left of the types: the API objects, the drivers and the destructors to be run.
LEMMA UnwindTypes ==
  ASSUME IInv, Unwind
  PROVE  /\ api' \in [Apis -> [uses : Nat, initialised : BOOLEAN, library : BOOLEAN]]
         /\ unwinding' \in Seq(Destructors)
<1>1. /\ TypeOK /\ DriverInv /\ AccountInv /\ unwinding # <<>> /\ unwinding \in Seq(Destructors)
      /\ api \in [Apis -> [uses : Nat, initialised : BOOLEAN, library : BOOLEAN]]
  BY DEF IInv, Unwind, TypeOK
<1>2. Tail(unwinding) \in Seq(Destructors)
  BY <1>1, HeadTailProperties
<1>3. CASE ReleaseHandle \/ ShutDown \/ CloseLibrary
  BY <1>1, <1>2, <1>3 DEF ReleaseHandle, ShutDown, CloseLibrary
<1>4. CASE DropApi
  <2>1. PICK a \in Apis, k \in Nat, stage \in Stages : Plan(a, k, stage) /\ Account(a, k, stage)
    BY <1>1 DEF AccountInv
  <2>2. /\ api[a].uses > 1 =>
             api' = [api EXCEPT ![a].uses = @ - 1] /\ unwinding' = Tail(unwinding)
        /\ ~(api[a].uses > 1) =>
             api' = [api EXCEPT ![a] = NoApi] /\ unwinding' = ApiDestructor(a) \o Tail(unwinding)
    BY <1>1, <1>4, <2>1, DropShape
  <2>3. CASE api[a].uses > 1
    <3>1. api[a].uses - 1 \in Nat
      BY <1>1, <2>3
    <3> QED  BY <1>1, <1>2, <2>2, <2>3, <3>1
  <2>4. CASE ~(api[a].uses > 1)
    <3>1. NoApi \in [uses : Nat, initialised : BOOLEAN, library : BOOLEAN]
      BY DEF NoApi
    <3>2. ApiDestructor(a) \in Seq(Destructors)
      <4>1. <<Shutdown(a)>> \in Seq(Destructors) /\ <<Close(a)>> \in Seq(Destructors)
            /\ <<>> \in Seq(Destructors)
        BY DestructorTypes
      <4> QED  BY <4>1, ConcatProperties DEF ApiDestructor
    <3>3. ApiDestructor(a) \o Tail(unwinding) \in Seq(Destructors)
      BY <1>2, <3>2, ConcatProperties
    <3> QED  BY <1>1, <2>2, <2>4, <3>1, <3>3
  <2> QED  BY <2>3, <2>4
<1> QED  BY <1>3, <1>4 DEF Unwind

LEMMA NextTypeOK == IInv /\ [Next]_vars => TypeOK'
<1> SUFFICES ASSUME IInv, [Next]_vars  PROVE TypeOK'
  OBVIOUS
<1> DEFINE Api == [uses : Nat, initialised : BOOLEAN, library : BOOLEAN]
           Rest == /\ api' \in [Apis -> Api]
                   /\ pc' \in {"idle", "open", "resolve", "init", "enumerate", "build", "adopt", "quit"}
                   /\ local' \in BOOLEAN /\ current' \in Apis /\ todo' \subseteq Gpus
                   /\ built' \subseteq Drivers /\ listed' \subseteq Drivers
                   /\ due' \in BOOLEAN /\ unwinding' \in Seq(Destructors)
<1>1. /\ TypeOK /\ DriverInv /\ AccountInv /\ current \in Apis /\ api \in [Apis -> Api]
      /\ \A d \in listed \cup built : d \in Drivers
  BY DEF IInv, TypeOK
<1>2. opens' \in Nat /\ inits' \in Nat /\ stray' \in Nat /\ refs' \in Nat
  BY <1>1, NextDriverInv, NextAccountInv, StrayIsNumber, CountsStayNumbers
<1>3. vendor' \in Vendors
  BY <1>1, SameVendor DEF TypeOK
<1>4. CASE Unwind
  BY <1>1, <1>2, <1>3, <1>4, UnwindTypes DEF Unwind, TypeOK, probing
<1>5. CASE StartProbe \/ FinishProbe \/ Quit \/ (\E g \in Gpus : Skip(g)) \/ UNCHANGED vars
  BY <1>1, <1>2, <1>3, <1>5 DEF StartProbe, FinishProbe, Quit, Skip,
         ComesBackWith, TypeOK, vars, library, probing
<1>6. CASE Open
  <2>1. CASE pc' = "idle"
    BY <1>1, <1>2, <1>3, <1>6, <2>1 DEF Open, ComesBackWith, TypeOK
  <2>2. CASE pc' # "idle"
    <3> DEFINE a == CHOOSE b \in Apis : api[b].uses = 0
    <3>1. a \in Apis
      BY <1>1, <1>6, StorageIsFree DEF Open, Running
    <3>2. /\ local' = TRUE /\ current' = a /\ api' = [api EXCEPT ![a].uses = 1]
          /\ pc' = "resolve" /\ UNCHANGED <<todo, built, listed, due, unwinding>>
      BY <1>6, <2>2 DEF Open
    <3> HIDE DEF a
    <3> QED  BY <1>1, <1>2, <1>3, <3>1, <3>2 DEF TypeOK
  <2> QED  BY <2>1, <2>2
<1>7. CASE Resolve \/ Initialise \/ InitialiseInVain
  <2>1. LoadFails => unwinding' \in Seq(Destructors)
    BY <1>1, PlansAreMade DEF LoadFails
  <2>2. ASSUME Keep  PROVE api' \in [Apis -> Api]
    <3>1. ShutsDown \in BOOLEAN
      BY Zenon DEF ShutsDown
    <3>2. api' = [api EXCEPT ![current].initialised = ShutsDown, ![current].library = TRUE]
      BY <2>2 DEF Keep
    <3> QED  BY <1>1, <3>1, <3>2
  <2> QED
    BY <1>1, <1>2, <1>3, <1>7, <2>1, <2>2 DEF Resolve, Initialise,
       InitialiseInVain, LoadFails, Keep, ComesBackWith, TypeOK, library
<1>8. CASE Enumerate
  <2>1. <<Drop(current)>> \in Seq(Destructors)
    BY <1>1, PlansAreMade
  <2> QED  BY <1>1, <1>2, <1>3, <1>8, <2>1 DEF Enumerate, ComesBackWith, TypeOK
<1>9. CASE FinishBuild
  <2>1. <<Drop(current)>> \in Seq(Destructors) /\ <<Release(current)>> \in Seq(Destructors)
        /\ <<>> \in Seq(Destructors)
    BY <1>1, DestructorTypes
  <2>2. (IF Counted THEN <<Release(current)>> ELSE <<>>) \o <<Drop(current)>> \in Seq(Destructors)
    BY <2>1, ConcatProperties
  <2> QED  BY <1>1, <1>2, <1>3, <1>9, <2>2 DEF FinishBuild, TypeOK, library
<1>10. ASSUME NEW g \in Gpus, Build(g)  PROVE Rest
  <2>1. PICK d \in Drivers, services \in {<<>>, Services} :
          /\ built' = IF d.healthy THEN built \cup {d} ELSE built
          /\ unwinding' = services \o Locals \o (IF d.healthy THEN <<>> ELSE DriverDestructor(d))
    BY <1>10 DEF Build
  <2>2. services \in Seq(Destructors) /\ <<>> \in Seq(Destructors)
        /\ DriverDestructor(d) \in Seq(Destructors)
    <3>1. <<Release(current)>> \in Seq(Destructors)
      BY <1>1, DestructorTypes
    <3>2. Services \in {<<Release(current)>>, <<>>} /\ <<>> \in Seq(Destructors)
      BY DEF Services
    <3>3. services \in Seq(Destructors)
      BY <3>1, <3>2
    <3> QED  BY <3>2, <3>3, DestructorPlan
  <2>3. unwinding' \in Seq(Destructors)
    <3>1. services \o Locals \in Seq(Destructors)
      BY <2>2, ConcatProperties DEF Locals
    <3> QED  BY <2>1, <2>2, <3>1, ConcatProperties
  <2>4. api' \in [Apis -> Api]
    BY <1>1, <1>10 DEF Build
  <2> QED  BY <1>1, <1>10, <2>1, <2>3, <2>4 DEF Build, TypeOK
<1>11. ASSUME NEW d \in built, Adopt(d)  PROVE Rest
  <2>1. DriverDestructor(d) \in Seq(Destructors)
    BY <1>1, DestructorPlan
  <2> QED  BY <1>1, <1>11, <2>1 DEF Adopt, TypeOK, library
<1>12. ASSUME NEW d \in listed, Sample(d)  PROVE Rest
  <2>1. d \in Drivers /\ d.api \in Apis /\ [d EXCEPT !.healthy = FALSE] \in Drivers
    <3>1. d \in [gpu : Gpus, api : Apis, support : BOOLEAN, healthy : BOOLEAN]
      BY <1>1 DEF Drivers
    <3>2. [d EXCEPT !.healthy = FALSE] \in [gpu : Gpus, api : Apis, support : BOOLEAN, healthy : BOOLEAN]
      BY <3>1
    <3> QED  BY <3>1, <3>2 DEF Drivers
  <2>2. PICK taken \in IF Counted THEN 0..2 ELSE {0}, lost \in BOOLEAN :
          /\ unwinding' = [i \in 1..taken |-> Release(d.api)]
          /\ listed' = IF lost THEN (listed \ {d}) \cup {[d EXCEPT !.healthy = FALSE]} ELSE listed
    BY <1>12 DEF Sample
  <2>3. taken \in Nat
    OBVIOUS
  <2>4. unwinding' \in Seq(Destructors)
    BY <2>1, <2>2, <2>3, PlansAreMade
  <2> QED  BY <1>1, <1>12, <2>1, <2>2, <2>4 DEF Sample, TypeOK, probing
<1>13. ASSUME NEW d \in listed, Retire(d) \/ DestroyDriver(d)  PROVE Rest
  <2>1. DriverDestructor(d) \in Seq(Destructors)
    BY <1>1, DestructorPlan
  <2> QED  BY <1>1, <1>13, <2>1 DEF Retire, DestroyDriver, TypeOK, library, probing
<1> QED
  BY <1>2, <1>3, <1>4, <1>5, <1>6, <1>7, <1>8, <1>9, <1>10, <1>11, <1>12, <1>13
  DEF Next, Load, Probe, Registry, TypeOK

LEMMA InitIInv == Init => IInv
<1> SUFFICES ASSUME Init  PROVE IInv
  OBVIOUS
<1>1. AnyApi \in Apis
  <2>1. Apis # {}
    BY StorageAssumption, FS_EmptySet, FS_CardinalityType
  <2> QED  BY <2>1 DEF AnyApi
<1>2. TypeOK
  <2>1. NoApi \in [uses : Nat, initialised : BOOLEAN, library : BOOLEAN]
    BY DEF NoApi
  <2>2. api \in [Apis -> [uses : Nat, initialised : BOOLEAN, library : BOOLEAN]]
    BY <2>1 DEF Init
  <2>3. unwinding \in Seq(Destructors) /\ current \in Apis
    BY <1>1 DEF Init
  <2> QED  BY <2>2, <2>3 DEF Init, TypeOK
<1>3. ApiInv
  BY <1>1 DEF Init, ApiInv, NoApi
<1>4. DriverInv
  BY FS_EmptySet DEF Init, DriverInv
<1>5. Loaded = {} /\ Initialised = {}
  BY DEF Init, Loaded, Initialised, NoApi
<1>6. Plan(current, 0, "none")
  BY NothingPlanned DEF Init, Plan, Is, Steps, Stages
<1>7. Account(current, 0, "none")
  <2>1. Cardinality(Loaded) = 0 /\ Cardinality(Initialised) = 0
    BY <1>5, FS_EmptySet
  <2>2. References(listed) = 0 /\ References(built) = 0
    BY NoDrivers DEF Init
  <2>3. \A b \in Apis : api[b].uses = 0
    BY DEF Init, NoApi
  <2>4. \A b \in Apis : Shares(b, current, "none") = 0
    BY NoDrivers DEF Init, Shares, One, Sharing
  <2>5. opens = 0 /\ inits = 0 /\ stray = 0 /\ refs = 0 /\ local = FALSE /\ pc = "idle"
    BY DEF Init
  <2> QED  BY <1>5, <2>1, <2>2, <2>3, <2>4, <2>5 DEF Account, Handed, One
<1> QED  BY <1>1, <1>2, <1>3, <1>4, <1>6, <1>7 DEF IInv, AccountInv, Init, Stages

(***************************************************************************)
(* What the invariant says of the properties.                              *)
(***************************************************************************)
\* Whoever has the library through an API object finds it loaded and initialised.
LEMMA LoadedIsThere ==
  ASSUME TypeOK, ApiInv, NEW a \in Apis, NEW k \in Nat, NEW stage \in Stages, Account(a, k, stage),
         NEW b \in Apis, api[b].library
  PROVE  opens > 0 /\ inits > 0
<1>1. /\ b \in Loaded /\ (ShutsDown => b \in Initialised)
      /\ IsFiniteSet(Loaded) /\ IsFiniteSet(Initialised)
      /\ Cardinality(Loaded) \in Nat /\ Cardinality(Initialised) \in Nat
  BY SetsAreFinite DEF Loaded, Initialised, ApiInv
<1>2. Cardinality(Loaded) > 0 /\ (ShutsDown => Cardinality(Initialised) > 0)
  BY <1>1, FS_EmptySet
<1>3. opens > 0
  BY <1>1, <1>2 DEF Account, One
<1>4. ASSUME ShutsDown  PROVE inits > 0
  BY <1>1, <1>2, <1>4 DEF Account, One, TypeOK
<1>5. ASSUME ~ShutsDown  PROVE inits > 0
  <2>1. inits = 1
    BY <1>1, <1>5 DEF Account
  <2> QED  BY <2>1
<1> QED  BY <1>3, <1>4, <1>5

LEMMA ServedWhereverTheyAre == IInv => DriversAreServed
<1> SUFFICES ASSUME IInv, NEW d \in built \cup listed
             PROVE  api[d.api].uses > 0 /\ api[d.api].library /\ opens > 0 /\ inits > 0
  BY DEF DriversAreServed
<1>1. /\ TypeOK /\ ApiInv /\ DriverInv /\ AccountInv /\ api[d.api].library /\ d.api \in Apis
  BY DEF IInv, ApiInv, TypeOK, Drivers
<1>2. PICK a \in Apis, k \in Nat, stage \in Stages : Account(a, k, stage)
  BY <1>1 DEF AccountInv
<1>3. opens > 0 /\ inits > 0
  BY <1>1, <1>2, LoadedIsThere
<1>4. api[d.api].uses > 0
  <2> DEFINE n == Cardinality(Of(d.api, listed))
             m == Cardinality(Of(d.api, built))
  <2>1. IsFiniteSet(Of(d.api, listed)) /\ IsFiniteSet(Of(d.api, built)) /\ n \in Nat /\ m \in Nat
    BY <1>1, FS_Subset, FS_CardinalityType, Of(d.api, listed) \in SUBSET listed,
       Of(d.api, built) \in SUBSET built DEF DriverInv, Of
  <2>2. d \in Of(d.api, listed) \/ d \in Of(d.api, built)
    BY DEF Of
  <2>3. n > 0 \/ m > 0
    BY <2>1, <2>2, FS_EmptySet
  <2>4. api[d.api].uses = n + m + One(d.api = current /\ pc \in Sharing)
                            + One(d.api = a /\ stage \in {"share", "failed"})
    BY <1>1, <1>2 DEF Account, Shares
  <2>5. /\ One(d.api = current /\ pc \in Sharing) \in Nat
        /\ One(d.api = a /\ stage \in {"share", "failed"}) \in Nat
    BY DEF One
  <2> HIDE DEF n, m
  <2> QED  BY <2>1, <2>3, <2>4, <2>5
<1> QED  BY <1>1, <1>3, <1>4

LEMMA AccountsAreClosed == IInv => NothingLeaks
<1> SUFFICES ASSUME IInv, unwinding = <<>>, pc \in {"idle", "quit"}
             PROVE  LET live == {d.api : d \in listed} IN
                      /\ opens = Cardinality(live)
                      /\ ShutsDown => inits = Cardinality(live) + stray
                      /\ refs = References(listed)
                      /\ \A a \in Apis : api[a].uses = Cardinality({d \in listed : d.api = a})
  BY DEF NothingLeaks
<1> DEFINE live == {d.api : d \in listed}
<1>1. /\ TypeOK /\ ApiInv /\ DriverInv /\ AccountInv /\ built = {} /\ local = FALSE
      /\ pc \notin Sharing /\ pc # "build"
  BY DEF IInv, DriverInv, TypeOK, Sharing
<1>2. /\ References(listed) \in Nat /\ References(built) = 0
      /\ \A b : Cardinality(Of(b, listed)) \in Nat /\ Cardinality(Of(b, built)) = 0
  BY <1>1, CountsAreNumbers, NoDrivers DEF DriverInv
<1>3. ASSUME NEW b \in Apis  PROVE api[b].uses = Cardinality(Of(b, listed))
  <2>1. api[b].uses = Cardinality(Of(b, listed)) + Cardinality(Of(b, built))
                        + One(b = current /\ pc \in Sharing)
    BY <1>1, AccountAtRest
  <2>2. One(b = current /\ pc \in Sharing) = 0
    BY <1>1 DEF One
  <2> QED  BY <1>2, <2>1, <2>2
<1>4. Loaded = live
  <2>1. ASSUME NEW b \in Loaded  PROVE b \in live
    <3>1. b \in Apis /\ api[b] # NoApi
      BY DEF Loaded, NoApi
    <3>2. Cardinality(Of(b, listed)) # 0
      BY <1>1, <1>3, <3>1 DEF ApiInv
    <3>3. Of(b, listed) # {}
      BY <3>2, FS_EmptySet
    <3> QED  BY <3>3 DEF Of
  <2>2. \A d \in listed : d.api \in Loaded
    BY <1>1 DEF ApiInv, Loaded, TypeOK, Drivers
  <2> QED  BY <2>1, <2>2
<1>5. ShutsDown => Initialised = Loaded
  BY <1>1 DEF ApiInv, Initialised, Loaded
<1>6. opens = Cardinality(live) /\ (ShutsDown => inits = Cardinality(live) + stray)
  <2>1. opens = Cardinality(Loaded) + One(local) /\ (ShutsDown => inits = stray + Cardinality(Initialised))
    BY <1>1, AccountAtRest
  <2>2. Cardinality(Loaded) \in Nat /\ One(local) = 0
    BY <1>1, SetsAreFinite DEF One
  <2>3. opens = Cardinality(Loaded) /\ (ShutsDown => inits = stray + Cardinality(Loaded))
    BY <1>5, <2>1, <2>2
  <2> QED  BY <1>1, <1>4, <2>2, <2>3 DEF TypeOK
<1>7. refs = References(listed)
  BY <1>1, <1>2, AccountAtRest DEF One
<1>8. \A a \in Apis : api[a].uses = Cardinality({d \in listed : d.api = a})
  BY <1>3 DEF Of
<1> QED  BY <1>6, <1>7, <1>8

\* Only the destructor of an AdlxPtr gives a reference back.
LEMMA ReferencesFall ==
  ASSUME IInv, [Next]_vars, refs' < refs
  PROVE  unwinding # <<>> /\ ReleaseHandle
<1>1. refs \in Nat
  BY DEF IInv, TypeOK
<1>2. CASE Unwind
  BY <1>1, <1>2 DEF Unwind, DropApi, ShutDown, CloseLibrary, library
<1>3. CASE StartProbe \/ Open \/ Resolve \/ Initialise \/ InitialiseInVain
           \/ FinishBuild \/ FinishProbe \/ Quit
           \/ (\E g \in Gpus : Skip(g)) \/ (\E d \in built : Adopt(d))
           \/ (\E d \in listed : Retire(d) \/ DestroyDriver(d)) \/ UNCHANGED vars
  BY <1>1, <1>3 DEF StartProbe, Open, Resolve, Initialise, InitialiseInVain, FinishBuild, FinishProbe, Quit, Skip,
                    Adopt, Retire, DestroyDriver, vars, library
<1>4. CASE Enumerate
  BY <1>1, <1>4 DEF Enumerate
<1>5. ASSUME NEW g \in Gpus, Build(g)  PROVE FALSE
  <2>1. PICK d \in Drivers, services \in {<<>>, Services} : refs' = refs + Handles(d) + Len(services)
    BY <1>5 DEF Build
  <2>2. Handles(d) \in Nat
    BY DEF Handles
  <2>3. Len(services) \in Nat
    BY DEF Services
  <2> QED  BY <1>1, <2>1, <2>2, <2>3
<1>6. ASSUME NEW d \in listed, Sample(d)  PROVE FALSE
  <2>1. PICK taken \in IF Counted THEN 0..2 ELSE {0} : refs' = refs + taken
    BY <1>6 DEF Sample
  <2>2. taken \in Nat
    OBVIOUS
  <2> QED  BY <1>1, <2>1, <2>2
<1> QED  BY <1>2, <1>3, <1>4, <1>5, <1>6 DEF Next, Load, Probe, Registry

\* Only the destructor of an API object, or of the library itself, undoes an initialisation.
LEMMA InitialisationsFall ==
  ASSUME IInv, [Next]_vars, inits' < inits
  PROVE  unwinding # <<>> /\ (ShutDown \/ CloseLibrary)
<1>1. inits \in Nat /\ (~ShutsDown => inits \in {0, 1})
  BY DEF IInv, TypeOK, AccountInv, Account
<1>2. CASE Unwind
  BY <1>1, <1>2 DEF Unwind, DropApi, ReleaseHandle, library
<1>3. CASE Initialise \/ InitialiseInVain
  BY <1>1, <1>3 DEF Initialise, InitialiseInVain
<1>4. CASE StartProbe \/ Open \/ Resolve \/ Probe \/ Registry \/ UNCHANGED vars
  <2>1. inits' = inits
    BY <1>4 DEF StartProbe, Open, Resolve, Probe, Enumerate, Skip, Build, FinishBuild, Registry,
                FinishProbe, Quit, Adopt, Sample, Retire, DestroyDriver, vars, library
  <2> QED  BY <1>1, <2>1
<1> QED  BY <1>2, <1>3, <1>4 DEF Next, Load

LEMMA CallsAreServed ==
  ASSUME IInv, [Next]_vars
  PROVE  /\ refs' < refs => opens > 0 /\ inits > 0
         /\ inits' < inits => opens > 0
<1>1. TypeOK /\ ApiInv /\ AccountInv /\ unwinding \in Seq(Destructors)
  BY DEF IInv, TypeOK
<1>2. PICK a \in Apis, k \in Nat, stage \in Stages : Plan(a, k, stage) /\ Account(a, k, stage)
  BY <1>1 DEF AccountInv
<1>3. /\ Is(unwinding, a, k, stage) /\ (k > 0 => api[a].library)
      /\ Release(a).of = "AdlxPtr" /\ Drop(a).of = "shared_ptr"
      /\ Shutdown(a).of = "Api" /\ Close(a).of = "DynamicLibrary"
  BY <1>2, DestructorTypes DEF Plan
<1>4. ASSUME refs' < refs  PROVE opens > 0 /\ inits > 0
  <2>1. unwinding # <<>> /\ Head(unwinding).of = "AdlxPtr"
    BY <1>4, ReferencesFall DEF ReleaseHandle
  <2>2. k > 0
    BY <1>1, <1>3, <2>1, PlanUnwinds DEF Stages
  <2> QED  BY <1>1, <1>2, <1>3, <2>2, LoadedIsThere
<1>5. ASSUME inits' < inits  PROVE opens > 0
  <2>1. unwinding # <<>> /\ Head(unwinding).of \in {"Api", "DynamicLibrary"}
    BY <1>5, InitialisationsFall DEF ShutDown, CloseLibrary
  <2>2. stage \in {"shutdown", "close", "failed"} \/ k > 0
    BY <1>1, <1>3, <2>1, PlanUnwinds DEF Stages
  <2>3. ~(k > 0)
    BY <1>1, <1>3, <2>1, PlanUnwinds
  <2>4. opens = Cardinality(Loaded) + One(local) + 1
    BY <1>2, <2>2, <2>3, SetsAreFinite DEF Account, One
  <2>5. Cardinality(Loaded) \in Nat /\ One(local) \in Nat
    BY SetsAreFinite DEF One
  <2> QED  BY <2>4, <2>5
<1> QED  BY <1>4, <1>5

(***************************************************************************)
(* The theorems.                                                           *)
(***************************************************************************)
\* At every step of every destructor the counts of the process, of the library and of
\* each API object are what those who hold a share, a handle or a reference add up to.
THEOREM VendorInvariant == Spec => []IInv
<1>1. IInv /\ [Next]_vars => IInv'
  BY NextTypeOK, NextApiInv, NextDriverInv, NextAccountInv DEF IInv
<1> QED  BY <1>1, InitIInv, PTL DEF Spec

\* A driver that exists finds its API object alive and the library loaded and initialised,
\* however many probes over the same library have come and gone.
THEOREM ServedAsLongAsTheyLive == Spec => []DriversAreServed
BY VendorInvariant, ServedWhereverTheyAre, PTL

\* No reference is given back, and no shutdown made, through a library that is not there.
THEOREM NothingIsCalledUnloaded == Spec => NoCallAfterUnload
<1>1. IInv /\ [Next]_vars => [/\ refs' < refs => opens > 0 /\ inits > 0
                              /\ inits' < inits => opens > 0]_vars
  BY CallsAreServed
<1> QED  BY <1>1, VendorInvariant, PTL DEF Spec, NoCallAfterUnload

\* Between two calls of the registry the process holds of the library what the listed
\* drivers account for, and the initialisations that load() leaves behind when ADLX has
\* no system to give: those, and nothing else, are leaked.
THEOREM NothingIsLeaked == Spec => []NothingLeaks
BY VendorInvariant, AccountsAreClosed, PTL
================================================================================
