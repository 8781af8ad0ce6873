--------------------------- MODULE IntelSysfsDriver ---------------------------
(***************************************************************************)
(* gtop's IntelSysfsDriver: what one sample computes out of files that the *)
(* kernel goes on changing between two reads.  Utilization is the growth   *)
(* of the RC6 (sleep) residency counter against wall time, so it spans two *)
(* samples; the throttle reasons are a roll-up file and one file for each  *)
(* reason; the card's directory says whether the GPU is still there.       *)
(* Time is counted in ticks, in each of which the GPU is busy or asleep.   *)
(* While the device is bound its counter is taken never to restart, and to *)
(* advance whenever the GPU sleeps.                                        *)
(***************************************************************************)
EXTENDS Integers, FiniteSets

CONSTANTS
  Wrap,     \* the counter counts modulo Wrap
  MaxGap,   \* a bound: ticks between the readings that utilization is drawn from
  MaxLag,   \* a bound: ticks between the sample's timestamp and the read
  Files,    \* the throttle reasons that have a file of their own
  Bucket    \* Bucket[f]: where core::ThrottleFlags has that reason

Hidden == "hidden"                  \* a reason only the roll-up shows
Reasons == Files \cup {Hidden}
Buckets == {"thermal", "power", "reliability"}
None == MaxGap + 1                  \* no utilization

ASSUME TimeAssumption == Wrap \in Nat /\ MaxGap \in Nat /\ MaxLag \in Nat /\ MaxGap < Wrap
ASSUME ReasonAssumption == Hidden \notin Files /\ IsFiniteSet(Files) /\ Bucket \in [Files -> Buckets]

VARIABLES
  present,   \* the machine: the card node exists
  counter,   \* the machine: rc6_residency_ms
  asserted,  \* the machine: the reasons asserted now
  healthy,   \* healthy_
  pc,        \* where sample() is; "idle" between samples
  last,      \* last_rc6_ms_
  have,      \* have_previous_
  since,     \* now - last_sample_
  slept,     \* history: how much of that the GPU has slept
  window,    \* this sample: since and slept, when it took its timestamp
  lag,       \* history: ticks from the last baseline's timestamp to its read
  slack,     \* history: the longer lag of the two readings busy is drawn from
  busy,      \* this sample: busy ticks of the window, or None
  unread,    \* read_throttle(): files yet to be read
  flags,     \* this sample: throttle
  missed,    \* history: the reasons whose files could not be read
  always,    \* history: reasons asserted all through read_throttle()
  ever,      \* history: reasons asserted at some time in it
  found      \* history: the card was there when the sample began

machine == <<present, counter, asserted>>
clock == <<since, slept>>
meter == <<last, have, lag, slack, window, busy>>
throttle == <<unread, flags, missed, always, ever>>
vars == <<machine, healthy, pc, clock, meter, throttle, found>>

NoWindow == [elapsed |-> 0, slept |-> 0]

Init ==
  /\ present = TRUE /\ counter \in 0..(Wrap - 1) /\ asserted = {}
  /\ healthy = TRUE /\ pc = "idle"
  /\ last = 0 /\ have = FALSE /\ since = 0 /\ slept = 0
  /\ window = NoWindow /\ lag = 0 /\ slack = 0 /\ busy = None
  /\ unread = {} /\ flags = {} /\ missed = {} /\ always = {} /\ ever = {} /\ found = TRUE

(***************************************************************************)
(* The machine.  A tick passes between samples, or between the timestamp   *)
(* and the read; later than that it is as good as between samples.         *)
(***************************************************************************)
Late == since - window.elapsed

\* Until there is a baseline only the ticks that may follow its timestamp count.
Tick ==
  /\ \/ pc = "idle" /\ have
     \/ pc = "rc6" /\ Late < MaxLag
  /\ since < MaxGap
  /\ since' = since + 1
  /\ \E asleep \in {0, 1} :
       /\ slept' = slept + asleep
       /\ counter' = IF present THEN (counter + asleep) % Wrap ELSE counter
  /\ UNCHANGED <<present, asserted, healthy, pc, meter, throttle, found>>

Remove ==
  /\ present /\ present' = FALSE
  /\ asserted' = {} /\ always' = {}
  /\ UNCHANGED <<counter, healthy, pc, clock, meter, unread, flags, missed, ever, found>>

\* Reasons matter, and so change, only while they are being read.
Reassert ==
  /\ present /\ pc = "reasons"
  /\ asserted' \in SUBSET Reasons
  /\ always' = always \cap asserted' /\ ever' = ever \cup asserted'
  /\ UNCHANGED <<present, counter, healthy, pc, clock, meter, unread, flags, missed, found>>

(***************************************************************************)
(* busy_percent()                                                          *)
(***************************************************************************)
\* The registry samples a driver only while it is healthy.
StartSample ==
  /\ pc = "idle" /\ healthy
  /\ pc' = "rc6" /\ found' = present
  /\ window' = [elapsed |-> since, slept |-> slept]
  /\ busy' = None /\ unread' = {} /\ flags' = {} /\ missed' = {} /\ always' = {} /\ ever' = {}
  /\ UNCHANGED <<machine, healthy, clock, last, have, lag, slack>>

Busy(rc6) ==
  IF ~have \/ window.elapsed <= 0 \/ rc6 < last THEN None
  ELSE LET idle == rc6 - last
       IN  IF idle > window.elapsed THEN 0 ELSE window.elapsed - idle

\* Mutated: a reading after the first replaces the time, not the residency.
NewBaselineTimeOnly(rc6) ==
  /\ last' = (IF have THEN last ELSE rc6) /\ have' = TRUE
  /\ since' = Late /\ slept' = slept - window.slept
  /\ lag' = Late /\ slack' = IF Late > lag THEN Late ELSE lag

NewBaseline(rc6) ==
  /\ last' = rc6 /\ have' = TRUE
  /\ since' = Late /\ slept' = slept - window.slept
  /\ lag' = Late /\ slack' = IF Late > lag THEN Late ELSE lag

ReadResidency ==
  /\ pc = "rc6" /\ present
  /\ busy' = Busy(counter) /\ NewBaseline(counter)
  /\ pc' = "throttle"
  /\ UNCHANGED <<machine, healthy, window, throttle, found>>

\* A read that fails leaves the baseline where it was.
ResidencyUnreadable ==
  /\ pc = "rc6" /\ pc' = "throttle"
  /\ IF have THEN UNCHANGED clock ELSE since' = 0 /\ slept' = 0
  /\ UNCHANGED <<machine, healthy, meter, throttle, found>>

(***************************************************************************)
(* read_throttle(), and the end of sample()                                *)
(***************************************************************************)
ReadRollUp ==
  /\ pc = "throttle" /\ present
  /\ \E now \in SUBSET Reasons :
       /\ asserted' = now /\ always' = now /\ ever' = now
       /\ IF now = {} THEN pc' = "present" /\ UNCHANGED unread
                      ELSE pc' = "reasons" /\ unread' = Files
  /\ UNCHANGED <<present, counter, healthy, clock, meter, flags, missed, found>>

RollUpUnreadable ==
  /\ pc = "throttle" /\ pc' = "present"
  /\ UNCHANGED <<machine, healthy, clock, meter, throttle, found>>

\* Mutated: the first reason that is asserted is the only one.
RaisedOnce(f) == IF flags = {} THEN {Bucket[f]} ELSE flags

Raised(f) == flags \cup {Bucket[f]}

ReadReason(f) ==
  /\ pc = "reasons" /\ f \in unread /\ present
  /\ unread' = unread \ {f}
  /\ flags' = IF f \in asserted THEN Raised(f) ELSE flags
  /\ UNCHANGED <<machine, healthy, pc, clock, meter, missed, always, ever, found>>

\* A file that cannot be read, be the card there or not, is passed over.
ReasonUnreadable(f) ==
  /\ pc = "reasons" /\ f \in unread
  /\ unread' = unread \ {f} /\ missed' = missed \cup {f}
  /\ UNCHANGED <<machine, healthy, pc, clock, meter, flags, always, ever, found>>

\* Mutated: a roll-up always counts as electrical.
UnclassifiedAlways == flags \cup {"reliability"}

\* A roll-up that no file agreed with is recorded all the same.
Unclassified == IF flags = {} THEN {"reliability"} ELSE flags

FinishThrottle ==
  /\ pc = "reasons" /\ unread = {}
  /\ flags' = Unclassified
  /\ pc' = "present"
  /\ UNCHANGED <<machine, healthy, clock, meter, unread, missed, always, ever, found>>

\* Mutated: the card's directory is looked for only when the counter was read.
LookedForWhenRead == IF busy = None THEN healthy ELSE present

StillThere == present

FinishSample ==
  /\ pc = "present" /\ pc' = "sampled"
  /\ healthy' = StillThere
  /\ UNCHANGED <<machine, clock, meter, throttle, found>>

\* The reading is handed over; an unhealthy driver is never sampled again.
HandOver ==
  /\ pc = "sampled" /\ pc' = "idle"
  /\ busy' = None /\ flags' = {} /\ window' = NoWindow /\ slack' = 0 /\ found' = TRUE
  /\ unread' = {} /\ missed' = {} /\ always' = {} /\ ever' = {} /\ asserted' = {}
  /\ UNCHANGED <<present, counter, healthy, clock, last, have, lag>>

Machine == Tick \/ Remove \/ Reassert
Utilization == StartSample \/ ReadResidency \/ ResidencyUnreadable
Throttle ==
  \/ ReadRollUp \/ RollUpUnreadable \/ FinishThrottle
  \/ \E f \in Files : ReadReason(f) \/ ReasonUnreadable(f)

Next == Machine \/ Utilization \/ Throttle \/ FinishSample \/ HandOver

Spec == Init /\ [][Next]_vars

(***************************************************************************)
(* Properties, of the sample that is about to be handed over.              *)
(***************************************************************************)
TypeOK ==
  /\ present \in BOOLEAN /\ counter \in 0..(Wrap - 1) /\ asserted \subseteq Reasons
  /\ healthy \in BOOLEAN /\ have \in BOOLEAN /\ found \in BOOLEAN
  /\ pc \in {"idle", "rc6", "throttle", "reasons", "present", "sampled"}
  /\ last \in 0..(Wrap - 1) /\ since \in 0..MaxGap /\ slept \in 0..since
  /\ window \in [elapsed : 0..MaxGap, slept : 0..MaxGap] /\ lag \in 0..MaxLag
  /\ slack \in 0..MaxLag /\ busy \in {None} \cup 0..MaxGap
  /\ unread \subseteq Files /\ missed \subseteq Files /\ flags \subseteq Buckets
  /\ always \subseteq asserted /\ ever \subseteq Reasons

\* A utilization that is reported is the truth about the time between the timestamps
\* it is drawn from, but for the delay between a timestamp and its read: whatever
\* reads failed in between, and whenever the counter wrapped. It is never negative.
BusyIsTrue ==
  pc = "sampled" /\ busy # None =>
    LET truth == window.elapsed - window.slept IN
      /\ busy \in 0..window.elapsed
      /\ busy - truth <= slack
      /\ truth - busy <= slack

\* A reason that is asserted all through read_throttle() raises its bucket's flag unless
\* its own file could not be read; and then, as when only the roll-up shows it, it still
\* raises some flag: whatever else comes and goes, throttling is never reported as none.
SteadyReasonIsReported ==
  pc = "sampled" =>
    /\ \A f \in (always \cap Files) \ missed : Bucket[f] \in flags
    /\ always # {} => flags # {}

\* Every flag has its cause among the reasons asserted while they were read: one of
\* its bucket, or, for reliability on its own, one that no file was seen to have,
\* which may be one that cleared before its file was read.
NoFlagWithoutCause ==
  pc = "sampled" => \A bucket \in flags :
    \/ \E f \in ever \cap Files : Bucket[f] = bucket
    \/ flags = {"reliability"} /\ ever # {}

\* The first sample of a card that is gone reports nothing of it and is the last one;
\* and a driver gives up on no card that is there.
GoneIsNoticed ==
  /\ pc = "sampled" /\ ~found => ~healthy /\ busy = None /\ flags = {}
  /\ ~healthy => ~present
================================================================================
