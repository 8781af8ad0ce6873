------------------------------ MODULE VendorApi ------------------------------
(***************************************************************************)
(* The lifetime of a vendor's library in gtop: NvmlApi, LevelZeroApi and   *)
(* AdlxApi, the probes that load them and the drivers that share them.     *)
(*                                                                         *)
(* Every probe of a backend loads an API object of its own, and the        *)
(* registry probes again a backend that has just lost a device, so several *)
(* of them, over the same library, may live side by side.  What a C++      *)
(* scope destroys on its way out is a sequence, "unwinding": the           *)
(* destructors still to run, innermost first.                              *)
(***************************************************************************)
EXTENDS Integers, FiniteSets, Sequences

CONSTANTS
  Vendors,  \* the libraries looked at, one in each behaviour
  Gpus,     \* the devices it may enumerate
  Apis,     \* storage for the API objects
  MaxStray  \* a bound: how often ADLX initialises and has no system to give

ASSUME VendorAssumption == Vendors \subseteq {"nvml", "level-zero", "adlx"}
ASSUME StorageAssumption ==
  /\ MaxStray \in Nat
  /\ IsFiniteSet(Gpus) /\ IsFiniteSet(Apis)
  /\ Cardinality(Apis) > Cardinality(Gpus)

VARIABLES
  vendor,     \* whose library it is; never changes
  opens,      \* the process: handles on the library not yet closed
  inits,      \* the library: initialisations not yet shut down
  stray,      \* history: those of them that no API object will shut down
  refs,       \* the library: references it has given out and not got back
  api,        \* api[a]: an API object, "uses" its shared_ptr count, 0 when there is none
  pc,         \* where the probe is; "idle" between two calls of the registry
  local,      \* load(): its local library holds a handle
  current,    \* load(), probe(): the API object of this probe
  todo,       \* probe(): devices of the library's list yet to be looked at
  built,      \* drivers built by this probe and not yet offered to the registry
  listed,     \* the drivers the registry holds
  due,        \* the registry: the backend's next_probe is not "never"
  unwinding   \* destructors still to run, in order

library == <<vendor, opens, inits, stray, refs>>
probing == <<pc, local, current, todo, built>>
vars == <<library, api, probing, listed, due, unwinding>>

ShutsDown == vendor # "level-zero"  \* the API's destructor has a call to make
Counted == vendor = "adlx"          \* its objects are references to be released

NoApi == [uses |-> 0, initialised |-> FALSE, library |-> FALSE]
Drivers == [gpu : Gpus, api : Apis, support : BOOLEAN, healthy : BOOLEAN]
AnyApi == CHOOSE a \in Apis : TRUE     \* before the first load
Destructors == [of : {"AdlxPtr", "shared_ptr", "Api", "DynamicLibrary"}, api : Apis]

Init ==
  /\ vendor \in Vendors
  /\ opens = 0 /\ inits = 0 /\ stray = 0 /\ refs = 0
  /\ api = [a \in Apis |-> NoApi]
  /\ pc = "idle" /\ local = FALSE /\ current = AnyApi
  /\ todo = {} /\ built = {} /\ listed = {}
  /\ due = TRUE /\ unwinding = <<>>

(***************************************************************************)
(* Destructors, in the order C++ runs them: the members of an object after *)
(* its body, in the reverse of their declaration.                          *)
(***************************************************************************)
Release(a) == [of |-> "AdlxPtr", api |-> a]
Drop(a) == [of |-> "shared_ptr", api |-> a]
Shutdown(a) == [of |-> "Api", api |-> a]
Close(a) == [of |-> "DynamicLibrary", api |-> a]

\* How many references an AdlxDriver holds: gpu_, and support_ when it has one; and
\* so how many a set of drivers does.
Handles(d) == IF ~Counted THEN 0 ELSE IF d.support THEN 2 ELSE 1

References(drivers) ==
  IF Counted THEN Cardinality(drivers) + Cardinality({d \in drivers : d.support}) ELSE 0

\* Mutated: api_ is declared after the references taken through it.
DriverReversed(d) == <<Drop(d.api)>> \o [i \in 1..Handles(d) |-> Release(d.api)]

DriverDestructor(d) == [i \in 1..Handles(d) |-> Release(d.api)] \o <<Drop(d.api)>>

ApiDestructor(a) ==
  (IF api[a].initialised THEN <<Shutdown(a)>> ELSE <<>>)
    \o (IF api[a].library THEN <<Close(a)>> ELSE <<>>)

ReleaseHandle ==
  /\ Head(unwinding).of = "AdlxPtr"
  /\ refs' = refs - 1 /\ unwinding' = Tail(unwinding)
  /\ UNCHANGED <<opens, inits, stray, api>>

DropApi ==
  /\ Head(unwinding).of = "shared_ptr"
  /\ LET a == Head(unwinding).api IN
       IF api[a].uses > 1
       THEN /\ api' = [api EXCEPT ![a].uses = @ - 1]
            /\ unwinding' = Tail(unwinding)
       ELSE /\ api' = [api EXCEPT ![a] = NoApi]
            /\ unwinding' = ApiDestructor(a) \o Tail(unwinding)
  /\ UNCHANGED library

ShutDown ==
  /\ Head(unwinding).of = "Api"
  /\ inits' = inits - 1 /\ unwinding' = Tail(unwinding)
  /\ UNCHANGED <<opens, stray, refs, api>>

\* An unloaded library forgets that it was initialised.
CloseLibrary ==
  /\ Head(unwinding).of = "DynamicLibrary"
  /\ opens' = opens - 1
  /\ inits' = IF ~ShutsDown /\ opens = 1 THEN 0 ELSE inits
  /\ unwinding' = Tail(unwinding)
  /\ UNCHANGED <<stray, refs, api>>

Unwind ==
  /\ unwinding # <<>>
  /\ ReleaseHandle \/ DropApi \/ ShutDown \/ CloseLibrary
  /\ UNCHANGED <<vendor, probing, listed, due>>

Running(at) == unwinding = <<>> /\ pc = at

(***************************************************************************)
(* load(): open the library, resolve what enumeration needs, initialise.   *)
(* Every early return destroys the API object and then the local library.  *)
(***************************************************************************)
StartProbe ==
  /\ Running("idle") /\ due
  /\ pc' = "open"
  /\ UNCHANGED <<library, api, local, current, todo, built, listed, due, unwinding>>

\* probe() returned nothing: next_probe is a retry away or never, by what is held.
ComesBackWith(drivers) == due' = (drivers = {})

Open ==
  /\ Running("open")
  /\ \/ /\ pc' = "idle" /\ ComesBackWith(listed)
        /\ UNCHANGED <<opens, api, local, current>>
     \/ LET a == CHOOSE b \in Apis : api[b].uses = 0 IN
          /\ opens' = opens + 1 /\ local' = TRUE
          /\ current' = a /\ api' = [api EXCEPT ![a].uses = 1]
          /\ pc' = "resolve" /\ UNCHANGED due
  /\ UNCHANGED <<vendor, inits, stray, refs, todo, built, listed, unwinding>>

\* Mutated: the handle is a bare pointer that nothing closes.
LoadFailsOpen ==
  /\ pc' = "idle" /\ local' = FALSE /\ ComesBackWith(listed)
  /\ unwinding' = <<Drop(current)>>

LoadFails ==
  /\ pc' = "idle" /\ local' = FALSE /\ ComesBackWith(listed)
  /\ unwinding' = <<Drop(current), Close(current)>>

\* A missing entry point, or for ADLX a version that says this is not ADLX.
Resolve ==
  /\ Running("resolve")
  /\ \/ pc' = "init" /\ UNCHANGED <<local, due, unwinding>>
     \/ LoadFails
  /\ UNCHANGED <<library, api, current, todo, built, listed>>

\* Mutated: library_ is not moved into, so load() closes the library as it returns.
Unkept ==
  /\ api' = [api EXCEPT ![current].initialised = ShutsDown]
  /\ local' = FALSE /\ unwinding' = <<Close(current)>>

Keep ==
  /\ api' = [api EXCEPT ![current].initialised = ShutsDown, ![current].library = TRUE]
  /\ local' = FALSE /\ UNCHANGED unwinding

\* Initialisations are counted (nvml.h:3838), save for Level Zero, whose are never
\* undone; ADLX, whose headers do not say, is taken to count one or to refuse it.
Initialise ==
  /\ Running("init")
  /\ \/ /\ inits' = IF ShutsDown THEN inits + 1 ELSE 1
        /\ Keep
        /\ pc' = "enumerate" /\ UNCHANGED due
     \/ LoadFails /\ UNCHANGED <<inits, api>>
  /\ UNCHANGED <<vendor, opens, stray, refs, current, todo, built, listed>>

\* ADLX has initialised and left "system" null: load() gives up with initialised_ still
\* false, and nothing calls terminate() for it.
InitialiseInVain ==
  /\ Running("init") /\ vendor = "adlx" /\ stray < MaxStray
  /\ inits' = inits + 1 /\ stray' = stray + 1
  /\ LoadFails
  /\ UNCHANGED <<vendor, opens, refs, api, current, todo, built, listed>>

(***************************************************************************)
(* probe(): one driver for each device of the library that can be reached. *)
(***************************************************************************)
\* For ADLX the list of devices is itself a reference.
Enumerate ==
  /\ Running("enumerate")
  /\ \/ /\ pc' = "idle" /\ ComesBackWith(listed) /\ unwinding' = <<Drop(current)>>
        /\ UNCHANGED <<refs, todo>>
     \/ \E devices \in SUBSET Gpus :
          /\ todo' = devices /\ pc' = "build"
          /\ refs' = IF Counted THEN refs + 1 ELSE refs
          /\ UNCHANGED <<due, unwinding>>
  /\ UNCHANGED <<vendor, opens, inits, stray, api, local, current, built, listed>>

Skip(g) ==
  /\ Running("build") /\ g \in todo
  /\ todo' = todo \ {g}
  /\ UNCHANGED <<library, api, pc, local, current, built, listed, due, unwinding>>

\* What an iteration of probe()'s loop leaves to destroy: gpu has been moved from.
\* An AdlxDriver's constructor gives back the services it asked for support_.
Locals == <<>>
Services == IF Counted THEN <<Release(current)>> ELSE <<>>

\* Only the NVML probe drops a driver whose construction met a lost device.
Build(g) ==
  /\ Running("build") /\ g \in todo
  /\ todo' = todo \ {g}
  /\ api' = [api EXCEPT ![current].uses = @ + 1]
  /\ \E d \in Drivers :
       /\ d.gpu = g /\ d.api = current
       /\ d.support => Counted
       /\ d.healthy \/ vendor = "nvml"
       /\ \E services \in {s \in {<<>>, Services} : d.support => s # <<>>} :
            /\ refs' = refs + Handles(d) + Len(services)
            /\ built' = IF d.healthy THEN built \cup {d} ELSE built
            /\ unwinding' = services \o Locals
                              \o (IF d.healthy THEN <<>> ELSE DriverDestructor(d))
  /\ UNCHANGED <<vendor, opens, inits, stray, pc, local, current, listed, due>>

\* probe() returns: the list of devices goes first, then its share of the API.
FinishBuild ==
  /\ Running("build") /\ todo = {}
  /\ pc' = "adopt"
  /\ unwinding' = (IF Counted THEN <<Release(current)>> ELSE <<>>) \o <<Drop(current)>>
  /\ UNCHANGED <<library, api, local, current, todo, built, listed, due>>

(***************************************************************************)
(* The registry: adopt() keeps a driver or destroys it, a sample may find  *)
(* that its device is gone, and a driver that is not healthy is retired.   *)
(***************************************************************************)
\* A device this backend already lists is dropped; so is one another backend has.
\* (Every device identifies itself here; Registry has those that do not.)
Adopt(d) ==
  /\ Running("adopt") /\ d \in built
  /\ built' = built \ {d}
  /\ \/ /\ \A other \in listed : other.gpu # d.gpu
        /\ listed' = listed \cup {d} /\ UNCHANGED unwinding
     \/ unwinding' = DriverDestructor(d) /\ UNCHANGED listed
  /\ UNCHANGED <<library, api, pc, local, current, todo, due>>

FinishProbe ==
  /\ Running("adopt") /\ built = {}
  /\ pc' = "idle" /\ ComesBackWith(listed)
  /\ UNCHANGED <<library, api, local, current, todo, built, listed, unwinding>>

\* An ADLX sample takes two references, or one when the second call fails and the
\* driver gives up, or none; other samples take none.
Sample(d) ==
  /\ Running("idle") /\ d \in listed /\ d.healthy
  /\ \E taken \in IF Counted THEN 0..2 ELSE {0}, lost \in BOOLEAN :
       /\ lost => (vendor = "nvml" \/ taken = 1)
       /\ Counted /\ taken = 1 => lost
       /\ refs' = refs + taken
       /\ unwinding' = [i \in 1..taken |-> Release(d.api)]
       /\ listed' = IF lost THEN (listed \ {d}) \cup {[d EXCEPT !.healthy = FALSE]} ELSE listed
  /\ UNCHANGED <<vendor, opens, inits, stray, api, probing, due>>

Retire(d) ==
  /\ Running("idle") /\ d \in listed /\ ~d.healthy
  /\ listed' = listed \ {d} /\ due' = TRUE
  /\ unwinding' = DriverDestructor(d)
  /\ UNCHANGED <<library, api, probing>>

\* The registry is destroyed, and with it each driver it holds.
Quit ==
  /\ Running("idle")
  /\ pc' = "quit"
  /\ UNCHANGED <<library, api, local, current, todo, built, listed, due, unwinding>>

DestroyDriver(d) ==
  /\ Running("quit") /\ d \in listed
  /\ listed' = listed \ {d} /\ unwinding' = DriverDestructor(d)
  /\ UNCHANGED <<library, api, probing, due>>

Load == StartProbe \/ Open \/ Resolve \/ Initialise \/ InitialiseInVain
Probe == Enumerate \/ (\E g \in Gpus : Skip(g) \/ Build(g)) \/ FinishBuild
Registry == FinishProbe \/ Quit \/ (\E d \in built : Adopt(d))
              \/ \E d \in listed : Sample(d) \/ Retire(d) \/ DestroyDriver(d)

Next == Unwind \/ Load \/ Probe \/ Registry

Spec == Init /\ [][Next]_vars

(***************************************************************************)
(* Properties.                                                             *)
(***************************************************************************)
\* Types, and no count that a release too many has taken below zero.
TypeOK ==
  /\ vendor \in Vendors
  /\ opens \in Nat /\ inits \in Nat /\ stray \in Nat /\ refs \in Nat
  /\ api \in [Apis -> [uses : Nat, initialised : BOOLEAN, library : BOOLEAN]]
  /\ pc \in {"idle", "open", "resolve", "init", "enumerate", "build", "adopt", "quit"}
  /\ local \in BOOLEAN /\ current \in Apis /\ todo \subseteq Gpus
  /\ built \subseteq Drivers /\ listed \subseteq Drivers
  /\ due \in BOOLEAN /\ unwinding \in Seq(Destructors)

\* A driver that exists, listed or on its way there, finds its API object alive and
\* the library loaded and initialised, whatever other API objects over the same
\* library have come and gone meanwhile (the shared_ptr each driver keeps).
DriversAreServed ==
  \A d \in built \cup listed :
    /\ api[d.api].uses > 0 /\ api[d.api].library
    /\ opens > 0 /\ inits > 0

\* No call goes into a library that is not there: a reference is given back only
\* while the library is initialised, and a shutdown made only while it is loaded.
NoCallAfterUnload ==
  [][/\ refs' < refs => opens > 0 /\ inits > 0
     /\ inits' < inits => opens > 0]_vars

\* Between two calls of the registry, and after the last, what the process holds of
\* the library is what the listed drivers account for and the initialisations that came
\* without a system, which are never undone, and no more: however many probes failed,
\* found duplicates or were repeated, nothing else is leaked or given up early.
NothingLeaks ==
  unwinding = <<>> /\ pc \in {"idle", "quit"} =>
    LET live == {d.api : d \in listed} IN
      /\ opens = Cardinality(live)
      /\ ShutsDown => inits = Cardinality(live) + stray
      /\ refs = References(listed)
      /\ \A a \in Apis : api[a].uses = Cardinality({d \in listed : d.api = a})
================================================================================
