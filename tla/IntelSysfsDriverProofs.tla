------------------------- MODULE IntelSysfsDriverProofs -------------------------
(***************************************************************************)
(* That a sample of an Intel GPU tells the truth, for every wrap of the    *)
(* counter, every bound on the ticks and every set of throttle files: one  *)
(* inductive invariant, IInv, of which each of the four properties of      *)
(* IntelSysfsDriver is a consequence.  None of them is inductive: each     *)
(* speaks of the finished sample alone, and what it says is decided by     *)
(* reads that lie several steps, or a whole sample, before that.           *)
(***************************************************************************)
EXTENDS IntelSysfsDriver, TLAPS

(***************************************************************************)
(* The inductive invariant.                                                *)
(***************************************************************************)
\* The window begins with the baseline's timestamp and ends with the sample's: what has
\* passed since is the lag of the read, and part of it is sleep.
WindowInv ==
  pc = "rc6" =>
    /\ window.slept <= window.elapsed /\ window.slept <= slept
    /\ slept - window.slept <= since - window.elapsed
    /\ since - window.elapsed \in 0..MaxLag

\* What the counter has grown by since it was read is what the GPU has slept since the
\* baseline's timestamp, but for what it slept before that read: no more than the lag,
\* and less than a whole turn of the counter.
Growth(early) == slept - early
CounterInv ==
  have /\ present =>
    \E early \in 0..lag :
      /\ Growth(early) >= 0
      /\ counter \in {last + Growth(early), last + Growth(early) - Wrap}

\* From the moment it is computed, a utilization is true but for the lags.
BusyInv ==
  busy # None =>
    /\ pc \notin {"idle", "rc6"}
    /\ busy \in 0..window.elapsed
    /\ busy - (window.elapsed - window.slept) <= slack
    /\ (window.elapsed - window.slept) - busy <= slack

\* Nothing is known of the reasons before the roll-up has been read.
FreshInv == pc \in {"rc6", "throttle"} => flags = {} /\ always = {} /\ ever = {}

\* While the files are read: those that could be read and were asserted all along have
\* their flag, each flag has its cause, and the roll-up had one.
ReadingInv ==
  pc = "reasons" =>
    /\ asserted \subseteq ever /\ ever # {}
    /\ \A f \in (always \cap Files) \ (unread \cup missed) : Bucket[f] \in flags
    /\ \A b \in flags : \E f \in ever \cap Files : Bucket[f] = b

\* Once they have been read, that is what the sample says.
ReadInv ==
  pc \in {"present", "sampled"} =>
    /\ \A f \in (always \cap Files) \ missed : Bucket[f] \in flags
    /\ always # {} => flags # {}
    /\ \A b \in flags :
         \/ \E f \in ever \cap Files : Bucket[f] = b
         \/ flags = {"reliability"} /\ ever # {}

\* A card that is gone stays gone, and whatever its driver reads fails.
GoneInv ==
  /\ ~healthy => ~present
  /\ ~found => ~present /\ busy = None /\ flags = {} /\ pc # "reasons"
  /\ ~found /\ pc = "sampled" => ~healthy

IInv ==
  /\ TypeOK
  /\ WindowInv /\ CounterInv /\ BusyInv
  /\ FreshInv /\ ReadingInv /\ ReadInv
  /\ GoneInv

(***************************************************************************)
(* The arithmetic of the counter, and the shape of the steps.              *)
(***************************************************************************)
\* One more tick of sleep either counts or turns the counter back to 0.
LEMMA OneMore ==
  ASSUME NEW n \in 0..(Wrap - 1), NEW asleep \in {0, 1}
  PROVE  /\ (n + asleep) % Wrap \in 0..(Wrap - 1)
         /\ (n + asleep) % Wrap = n + asleep \/ (n + asleep = Wrap /\ (n + asleep) % Wrap = 0)
BY TimeAssumption

\* A reading ends the window: what follows is counted from the sample's timestamp.
LEMMA ReadingShape ==
  ASSUME ReadResidency
  PROVE  /\ pc = "rc6" /\ pc' = "throttle" /\ present /\ present'
         /\ last' = counter /\ counter' = counter /\ have'
         /\ since' = since - window.elapsed /\ slept' = slept - window.slept
         /\ lag' = since - window.elapsed /\ window' = window
         /\ ~(since - window.elapsed > lag) => slack' = lag
         /\ since - window.elapsed > lag => slack' = since - window.elapsed
<1>1. slack' = IF since - window.elapsed > lag THEN since - window.elapsed ELSE lag
  BY DEF ReadResidency, NewBaseline, Late
<1>2. present /\ present' = present /\ have' = TRUE
  BY DEF ReadResidency, NewBaseline, machine
<1>3. /\ pc = "rc6" /\ pc' = "throttle" /\ window' = window
      /\ last' = counter /\ counter' = counter
  BY DEF ReadResidency, NewBaseline, machine
<1>4. /\ since' = since - window.elapsed /\ slept' = slept - window.slept
      /\ lag' = since - window.elapsed
  BY DEF ReadResidency, NewBaseline, Late
<1>5. present' /\ have'
  BY <1>2, Zenon
<1>6. /\ ~(since - window.elapsed > lag) => slack' = lag
      /\ since - window.elapsed > lag => slack' = since - window.elapsed
  BY <1>1, Zenon
<1> QED  BY <1>2, <1>3, <1>4, <1>5, <1>6

\* Within a window shorter than a turn, growth that shows is the growth there was.
LEMMA BusyCases ==
  ASSUME TypeOK
  PROVE  \/ Busy(counter) = None
         \/ /\ have /\ window.elapsed > 0 /\ counter >= last
            /\ \/ counter - last > window.elapsed /\ Busy(counter) = 0
               \/ /\ counter - last <= window.elapsed
                  /\ Busy(counter) = window.elapsed - (counter - last)
BY TimeAssumption DEF Busy, TypeOK

(***************************************************************************)
(* Types.                                                                  *)
(***************************************************************************)
LEMMA InitTypeOK == Init => TypeOK
<1> SUFFICES ASSUME Init  PROVE TypeOK
  OBVIOUS
<1>1. window \in [elapsed : 0..MaxGap, slept : 0..MaxGap]
  BY TimeAssumption DEF Init, NoWindow
<1>2. present \in BOOLEAN /\ healthy \in BOOLEAN /\ have \in BOOLEAN /\ found \in BOOLEAN
  BY DEF Init
<1>3. /\ counter \in 0..(Wrap - 1) /\ pc = "idle" /\ last = 0 /\ since = 0 /\ slept = 0
      /\ lag = 0 /\ slack = 0 /\ busy = None
      /\ asserted = {} /\ unread = {} /\ flags = {} /\ missed = {} /\ always = {} /\ ever = {}
  BY DEF Init
<1> QED  BY <1>1, <1>2, <1>3, TimeAssumption DEF TypeOK

LEMMA NextTypeOK == TypeOK /\ WindowInv /\ [Next]_vars => TypeOK'
<1> SUFFICES ASSUME TypeOK, WindowInv, [Next]_vars  PROVE TypeOK'
  OBVIOUS
<1>1. CASE Tick
  <2>1. PICK asleep \in {0, 1} :
          /\ slept' = slept + asleep
          /\ counter' = IF present THEN (counter + asleep) % Wrap ELSE counter
    BY <1>1 DEF Tick
  <2>2. counter' \in 0..(Wrap - 1)
    BY <2>1, OneMore DEF TypeOK
  <2>3. since' \in 0..MaxGap /\ slept' \in 0..since'
    BY <1>1, <2>1, TimeAssumption DEF Tick, TypeOK
  <2> QED  BY <1>1, <2>2, <2>3 DEF Tick, TypeOK, meter, throttle
<1>2. CASE Remove
  BY <1>2 DEF Remove, TypeOK, clock, meter
<1>3. CASE Reassert
  BY <1>3 DEF Reassert, TypeOK, clock, meter
<1>4. CASE StartSample
  <2>1. window' \in [elapsed : 0..MaxGap, slept : 0..MaxGap]
    BY <1>4, TimeAssumption DEF StartSample, TypeOK
  <2> QED  BY <1>4, <2>1 DEF StartSample, TypeOK, machine, clock
<1>5. CASE ReadResidency
  <2>1. window.elapsed \in 0..MaxGap /\ window.slept \in 0..MaxGap
    BY DEF TypeOK
  <2>2. /\ since' \in 0..MaxGap /\ slept' \in 0..since'
        /\ lag' \in 0..MaxLag /\ slack' \in 0..MaxLag
    BY <1>5, <2>1, ReadingShape, TimeAssumption DEF WindowInv, TypeOK
  <2>3. busy' \in {None} \cup 0..MaxGap
    <3>1. busy' = Busy(counter)
      BY <1>5 DEF ReadResidency
    <3> QED  BY <3>1, <2>1, BusyCases, TimeAssumption DEF TypeOK
  <2>4. last' \in 0..(Wrap - 1) /\ have' \in BOOLEAN
    BY <1>5, ReadingShape DEF TypeOK
  <2> QED  BY <1>5, <2>2, <2>3, <2>4 DEF ReadResidency, TypeOK, machine, throttle
<1>6. CASE ResidencyUnreadable
  <2>1. since' \in 0..MaxGap /\ slept' \in 0..since'
    BY <1>6, TimeAssumption DEF ResidencyUnreadable, clock, TypeOK
  <2> QED  BY <1>6, <2>1 DEF ResidencyUnreadable, TypeOK, machine, meter, throttle
<1>7. CASE ReadRollUp
  BY <1>7 DEF ReadRollUp, TypeOK, clock, meter
<1>8. CASE RollUpUnreadable
  BY <1>8 DEF RollUpUnreadable, TypeOK, machine, clock, meter, throttle
<1>9. ASSUME NEW f \in Files, ReadReason(f)  PROVE TypeOK'
  BY <1>9, ReasonAssumption DEF ReadReason, Raised, TypeOK, machine, clock, meter
<1>10. CASE FinishThrottle
  BY <1>10 DEF FinishThrottle, Unclassified, Buckets, TypeOK, machine, clock, meter
<1>11. CASE FinishSample
  BY <1>11 DEF FinishSample, StillThere, TypeOK, machine, clock, meter, throttle
<1>12. CASE HandOver
  <2>1. window' \in [elapsed : 0..MaxGap, slept : 0..MaxGap] /\ slack' \in 0..MaxLag
    BY <1>12, TimeAssumption DEF HandOver, NoWindow
  <2> QED  BY <1>12, <2>1 DEF HandOver, TypeOK, clock
<1>13. CASE UNCHANGED vars
  BY <1>13 DEF vars, machine, clock, meter, throttle, TypeOK
<1>14. ASSUME NEW f \in Files, ReasonUnreadable(f)  PROVE TypeOK'
  BY <1>14 DEF ReasonUnreadable, TypeOK, machine, clock, meter
<1> QED
  BY <1>1, <1>2, <1>3, <1>4, <1>5, <1>6, <1>7, <1>8, <1>9, <1>10, <1>11, <1>12, <1>13, <1>14
  DEF Next, Machine, Utilization, Throttle

(***************************************************************************)
(* The counter and the clock.                                              *)
(***************************************************************************)
LEMMA NextWindowInv == TypeOK /\ WindowInv /\ [Next]_vars => WindowInv'
<1> SUFFICES ASSUME TypeOK, WindowInv, [Next]_vars, pc' = "rc6"
             PROVE  /\ window'.slept <= window'.elapsed /\ window'.slept <= slept'
                    /\ slept' - window'.slept <= since' - window'.elapsed
                    /\ since' - window'.elapsed \in 0..MaxLag
  BY DEF WindowInv
<1>0. window.elapsed \in 0..MaxGap /\ window.slept \in 0..MaxGap
  BY DEF TypeOK
<1>1. CASE StartSample
  <2>1. /\ window'.elapsed = since /\ window'.slept = slept
        /\ since' = since /\ slept' = slept
    BY <1>1 DEF StartSample, clock
  <2> QED  BY <2>1, TimeAssumption DEF TypeOK
<1>2. CASE Tick
  <2>1. PICK asleep \in {0, 1} : slept' = slept + asleep
    BY <1>2 DEF Tick
  <2>2. /\ since' = since + 1 /\ window' = window /\ pc = "rc6"
        /\ since - window.elapsed < MaxLag
    BY <1>2 DEF Tick, Late, meter
  <2> QED  BY <2>1, <2>2, <1>0, TimeAssumption DEF WindowInv, TypeOK
<1>3. CASE Remove
  BY <1>3 DEF Remove, WindowInv, clock, meter
<1>4. CASE UNCHANGED vars
  BY <1>4 DEF vars, WindowInv, clock, meter
<1> QED
  BY <1>1, <1>2, <1>3, <1>4
  DEF Next, Machine, Utilization, Throttle, Reassert, ReadResidency, ResidencyUnreadable,
      ReadRollUp, RollUpUnreadable, ReadReason, ReasonUnreadable, FinishThrottle, FinishSample,
      HandOver

LEMMA NextCounterInv == TypeOK /\ WindowInv /\ CounterInv /\ [Next]_vars => CounterInv'
<1> SUFFICES ASSUME TypeOK, WindowInv, CounterInv, [Next]_vars  PROVE CounterInv'
  OBVIOUS
<1>1. CASE UNCHANGED <<present, counter, last, have, lag, slept>>
  BY <1>1 DEF CounterInv, Growth
<1>2. CASE Tick
  <2> SUFFICES ASSUME have', present'  PROVE CounterInv'
    BY DEF CounterInv
  <2>1. have /\ present /\ last' = last /\ lag' = lag
    BY <1>2 DEF Tick, meter
  <2>2. PICK asleep \in {0, 1} : slept' = slept + asleep /\ counter' = (counter + asleep) % Wrap
    BY <1>2, <2>1 DEF Tick
  <2>3. PICK early \in 0..lag :
          /\ Growth(early) >= 0
          /\ counter \in {last + Growth(early), last + Growth(early) - Wrap}
    BY <2>1 DEF CounterInv
  <2>4. since < MaxGap
    BY <1>2 DEF Tick
  <2>5. counter' = counter + asleep \/ (counter + asleep = Wrap /\ counter' = 0)
    BY <2>2, OneMore DEF TypeOK
  <2>6. slept' - early >= 0
    BY <2>2, <2>3 DEF Growth, TypeOK
  <2>7. counter' \in {last + (slept' - early), last + (slept' - early) - Wrap}
    BY <2>2, <2>3, <2>4, <2>5, TimeAssumption DEF Growth, TypeOK
  <2> QED  BY <2>1, <2>6, <2>7 DEF CounterInv, Growth
<1>3. CASE ReadResidency
  <2> DEFINE early == slept - window.slept
  <2>0. window.elapsed \in 0..MaxGap /\ window.slept \in 0..MaxGap
    BY DEF TypeOK
  <2>1. slept' = early /\ lag' = since - window.elapsed /\ last' = counter /\ counter' = counter
    BY <1>3, ReadingShape
  <2>2. early \in 0..lag'
    BY <1>3, <2>0, <2>1, ReadingShape DEF WindowInv, TypeOK
  <2>3. slept' - early = 0 /\ counter' = last' + (slept' - early)
    BY <2>0, <2>1 DEF TypeOK
  <2> QED  BY <2>2, <2>3 DEF CounterInv, Growth
<1>4. CASE ResidencyUnreadable
  <2>1. CASE have
    BY <1>1, <1>4, <2>1 DEF ResidencyUnreadable, clock, machine, meter
  <2>2. CASE ~have
    BY <1>4, <2>2 DEF ResidencyUnreadable, meter, CounterInv
  <2> QED  BY <2>1, <2>2
<1>5. CASE Remove
  BY <1>5 DEF Remove, CounterInv
<1>6. CASE Reassert
  BY <1>1, <1>6 DEF Reassert, clock, meter
<1>7. CASE StartSample
  BY <1>1, <1>7 DEF StartSample, clock, machine
<1>8. CASE Throttle \/ FinishSample \/ HandOver \/ UNCHANGED vars
  BY <1>1, <1>8
  DEF Throttle, ReadRollUp, RollUpUnreadable, ReadReason, ReasonUnreadable, FinishThrottle,
      FinishSample, HandOver, vars, clock, machine, meter
<1> QED
  BY <1>2, <1>3, <1>4, <1>5, <1>6, <1>7, <1>8 DEF Next, Machine, Utilization

\* The heart of the proof: what the counter shows against what the clocks say.
LEMMA BusyIsComputed ==
  ASSUME TypeOK, WindowInv, CounterInv, ReadResidency, Busy(counter) # None
  PROVE  /\ Busy(counter) \in 0..window.elapsed
         /\ Busy(counter) - (window.elapsed - window.slept) <= slack'
         /\ (window.elapsed - window.slept) - Busy(counter) <= slack'
<1> DEFINE e == window.elapsed
           ws == window.slept
           idle == counter - last
<1>1. e \in 0..MaxGap /\ ws \in 0..MaxGap /\ ws <= e /\ ws <= slept /\ slept - ws <= since - e
  BY ReadingShape DEF TypeOK, WindowInv
<1>2. /\ have /\ e > 0 /\ counter >= last
      /\ \/ idle > e /\ Busy(counter) = 0
         \/ idle <= e /\ Busy(counter) = e - idle
  BY BusyCases
<1>3. PICK early \in 0..lag :
        /\ Growth(early) >= 0
        /\ counter \in {last + Growth(early), last + Growth(early) - Wrap}
  BY <1>2, ReadingShape DEF CounterInv
<1>4. idle = slept - early
  BY <1>2, <1>3, TimeAssumption DEF Growth, TypeOK
<1>5. slack' >= since - e /\ slack' >= lag /\ slack' \in Int
  BY <1>1, ReadingShape DEF TypeOK
<1>6. idle >= 0 /\ early <= slack' /\ slept - ws <= slack'
  BY <1>1, <1>3, <1>4, <1>5 DEF Growth, TypeOK
<1>7. Busy(counter) \in 0..e
  BY <1>1, <1>2, <1>6, <1>4, <1>3 DEF TypeOK
<1>8. Busy(counter) - (e - ws) <= slack'
  BY <1>1, <1>2, <1>3, <1>4, <1>5, <1>6 DEF TypeOK
<1>9. (e - ws) - Busy(counter) <= slack'
  BY <1>1, <1>2, <1>3, <1>4, <1>5, <1>6 DEF TypeOK
<1> QED  BY <1>7, <1>8, <1>9

LEMMA NextBusyInv == TypeOK /\ WindowInv /\ CounterInv /\ BusyInv /\ [Next]_vars => BusyInv'
<1> SUFFICES ASSUME TypeOK, WindowInv, CounterInv, BusyInv, [Next]_vars  PROVE BusyInv'
  OBVIOUS
<1>1. CASE ReadResidency
  <2>1. busy' = Busy(counter) /\ window' = window /\ pc' = "throttle"
    BY <1>1, ReadingShape DEF ReadResidency
  <2> HIDE DEF Busy
  <2>2. SUFFICES ASSUME Busy(counter) # None  PROVE BusyInv'
    BY <2>1 DEF BusyInv, None
  <2> QED  BY <1>1, <2>1, <2>2, BusyIsComputed DEF BusyInv
<1>2. CASE StartSample \/ HandOver
  BY <1>2 DEF StartSample, HandOver, BusyInv, None
<1>3. CASE /\ UNCHANGED <<busy, window, slack>>
           /\ pc \notin {"idle", "rc6"} => pc' \notin {"idle", "rc6"}
  BY <1>3 DEF BusyInv, None
<1>4. CASE Machine \/ ResidencyUnreadable \/ Throttle \/ FinishSample \/ UNCHANGED vars
  BY <1>3, <1>4
  DEF Machine, Tick, Remove, Reassert, ResidencyUnreadable, Throttle, ReadRollUp,
      RollUpUnreadable, ReadReason, ReasonUnreadable, FinishThrottle, FinishSample, vars, meter
<1> QED  BY <1>1, <1>2, <1>4 DEF Next, Utilization

(***************************************************************************)
(* The throttle reasons.                                                   *)
(***************************************************************************)
LEMMA NextFreshInv == TypeOK /\ FreshInv /\ [Next]_vars => FreshInv'
<1> SUFFICES ASSUME TypeOK, FreshInv, [Next]_vars  PROVE FreshInv'
  OBVIOUS
<1>1. CASE StartSample \/ ReadResidency \/ ResidencyUnreadable
  BY <1>1 DEF StartSample, ReadResidency, ResidencyUnreadable, throttle, FreshInv
<1>2. CASE Machine \/ UNCHANGED vars
  BY <1>2 DEF Machine, Tick, Remove, Reassert, vars, throttle, FreshInv
<1>3. CASE Throttle \/ FinishSample \/ HandOver
  BY <1>3 DEF Throttle, ReadRollUp, RollUpUnreadable, ReadReason, ReasonUnreadable,
              FinishThrottle, FinishSample, HandOver, FreshInv
<1> QED  BY <1>1, <1>2, <1>3 DEF Next, Utilization

\* Nothing but read_throttle() touches the flags once the roll-up has been read, and the
\* machine can only end what has been asserted all along, or add a reason.
LEMMA NextReadingInv == TypeOK /\ FreshInv /\ ReadingInv /\ [Next]_vars => ReadingInv'
<1> SUFFICES ASSUME TypeOK, FreshInv, ReadingInv, [Next]_vars, pc' = "reasons"
             PROVE  /\ asserted' \subseteq ever' /\ ever' # {}
                    /\ \A f \in (always' \cap Files) \ (unread' \cup missed') : Bucket[f] \in flags'
                    /\ \A b \in flags' : \E f \in ever' \cap Files : Bucket[f] = b
  BY DEF ReadingInv
<1>1. CASE ReadRollUp
  BY <1>1 DEF ReadRollUp, FreshInv
<1>2. ASSUME NEW f \in Files, ReadReason(f)  PROVE ReadingInv'
  <2>1. CASE f \in asserted
    BY <1>2, <2>1 DEF ReadReason, Raised, ReadingInv, machine
  <2>2. CASE f \notin asserted
    BY <1>2, <2>2 DEF ReadReason, ReadingInv, TypeOK, machine
  <2> QED  BY <2>1, <2>2
<1>3. CASE Machine \/ UNCHANGED vars
  <2>1. /\ pc = "reasons" /\ UNCHANGED <<unread, flags, missed>>
        /\ always' \subseteq always /\ ever \subseteq ever'
        /\ asserted' \subseteq ever'
    BY <1>3 DEF Machine, Tick, Remove, Reassert, vars, machine, throttle, ReadingInv
  <2> QED  BY <2>1 DEF ReadingInv
<1>4. CASE Utilization \/ RollUpUnreadable \/ FinishThrottle \/ FinishSample \/ HandOver
  BY <1>4 DEF Utilization, StartSample, ReadResidency, ResidencyUnreadable, RollUpUnreadable,
              FinishThrottle, FinishSample, HandOver
<1>5. ASSUME NEW f \in Files, ReasonUnreadable(f)  PROVE ReadingInv'
  BY <1>5 DEF ReasonUnreadable, ReadingInv, machine
<1> QED  BY <1>1, <1>2, <1>3, <1>4, <1>5 DEF Next, Throttle, ReadingInv

LEMMA NextReadInv == TypeOK /\ FreshInv /\ ReadingInv /\ ReadInv /\ [Next]_vars => ReadInv'
<1> SUFFICES ASSUME TypeOK, FreshInv, ReadingInv, ReadInv, [Next]_vars,
                    pc' \in {"present", "sampled"}
             PROVE  ReadInv'
  BY DEF ReadInv
<1>1. CASE ReadRollUp \/ RollUpUnreadable
  <2>1. flags' = {} /\ always' = {}
    BY <1>1 DEF ReadRollUp, RollUpUnreadable, throttle, FreshInv
  <2> QED  BY <2>1 DEF ReadInv
<1>2. CASE FinishThrottle
  <2>1. /\ pc = "reasons" /\ unread = {} /\ flags' = Unclassified
        /\ always' = always /\ ever' = ever /\ ever # {} /\ missed' = missed
        /\ \A f \in (always \cap Files) \ missed : Bucket[f] \in flags
        /\ \A b \in flags : \E f \in ever \cap Files : Bucket[f] = b
    BY <1>2 DEF FinishThrottle, ReadingInv
  <2>2. CASE flags = {}
    BY <2>1, <2>2 DEF Unclassified, ReadInv
  <2>3. CASE flags # {}
    BY <2>1, <2>3 DEF Unclassified, ReadInv
  <2> QED  BY <2>2, <2>3
<1>3. CASE Machine \/ FinishSample \/ UNCHANGED vars
  <2>1. /\ pc \in {"present", "sampled"} /\ flags' = flags /\ missed' = missed
        /\ always' \subseteq always /\ ever' = ever
    BY <1>3 DEF Machine, Tick, Remove, Reassert, FinishSample, vars, throttle
  <2> QED  BY <2>1 DEF ReadInv
<1>4. CASE Utilization \/ (\E f \in Files : ReadReason(f) \/ ReasonUnreadable(f)) \/ HandOver
  BY <1>4 DEF Utilization, StartSample, ReadResidency, ResidencyUnreadable, ReadReason,
              ReasonUnreadable, HandOver
<1> QED  BY <1>1, <1>2, <1>3, <1>4 DEF Next, Throttle

(***************************************************************************)
(* The card.                                                               *)
(***************************************************************************)
LEMMA NextGoneInv == TypeOK /\ FreshInv /\ BusyInv /\ GoneInv /\ [Next]_vars => GoneInv'
<1> SUFFICES ASSUME TypeOK, FreshInv, BusyInv, GoneInv, [Next]_vars  PROVE GoneInv'
  OBVIOUS
<1>1. CASE StartSample
  BY <1>1 DEF StartSample, GoneInv, machine
<1>2. CASE ReadResidency \/ ReadRollUp
  BY <1>2 DEF ReadResidency, ReadRollUp, GoneInv, machine
<1>3. CASE Remove
  BY <1>3 DEF Remove, GoneInv, meter
<1>4. CASE FinishSample
  <2>1. healthy' = present /\ present' = present /\ found' = found /\ busy' = busy /\ flags' = flags
    BY <1>4 DEF FinishSample, StillThere, machine, meter, throttle
  <2>2. pc' # "reasons"
    BY <1>4 DEF FinishSample
  <2>3. (~found => ~present /\ busy = None /\ flags = {}) /\ (~healthy' => ~present')
    BY <2>1, Zenon DEF GoneInv
  <2>4. ~found' => ~present' /\ busy' = None /\ flags' = {} /\ ~healthy'
    BY <2>1, <2>3, Zenon
  <2> QED  BY <2>2, <2>3, <2>4, Zenon DEF GoneInv
<1>5. CASE HandOver
  BY <1>5 DEF HandOver, GoneInv
<1>6. CASE Tick \/ Reassert \/ ResidencyUnreadable \/ RollUpUnreadable \/ UNCHANGED vars
  BY <1>6 DEF Tick, Reassert, ResidencyUnreadable, RollUpUnreadable, vars, machine, meter,
              throttle, GoneInv
<1>7. CASE FinishThrottle \/ (\E f \in Files : ReadReason(f) \/ ReasonUnreadable(f))
  BY <1>7 DEF FinishThrottle, ReadReason, ReasonUnreadable, GoneInv, machine, meter
<1> QED
  BY <1>1, <1>2, <1>3, <1>4, <1>5, <1>6, <1>7 DEF Next, Machine, Utilization, Throttle

(***************************************************************************)
(* The theorems.                                                           *)
(***************************************************************************)
\* What a driver reads of its files, and what of it is left from the sample before: the
\* clock, the counter, the reasons and the card, each at every step of a sample.
THEOREM IntelInvariant == Spec => []IInv
<1>1. Init => IInv
  <2> SUFFICES ASSUME Init  PROVE IInv
    OBVIOUS
  <2>1. /\ pc = "idle" /\ have = FALSE /\ busy = None /\ found = TRUE /\ healthy = TRUE
    BY DEF Init
  <2>2. WindowInv /\ CounterInv /\ BusyInv /\ FreshInv /\ ReadingInv /\ ReadInv /\ GoneInv
    BY <2>1 DEF WindowInv, CounterInv, BusyInv, FreshInv, ReadingInv, ReadInv, GoneInv
  <2> QED  BY <2>2, InitTypeOK DEF IInv
<1>2. IInv /\ [Next]_vars => IInv'
  BY NextTypeOK, NextWindowInv, NextCounterInv, NextBusyInv, NextFreshInv, NextReadingInv,
     NextReadInv, NextGoneInv DEF IInv
<1> QED  BY <1>1, <1>2, PTL DEF Spec

\* busy_percent() reports the truth, but for the lags of its two readings, however often
\* the counter wrapped and whichever reads failed.
THEOREM UtilizationIsTrue == Spec => []BusyIsTrue
<1>1. IInv => BusyIsTrue
  BY DEF IInv, BusyInv, BusyIsTrue
<1> QED  BY <1>1, IntelInvariant, PTL

\* read_throttle() reports a reason that is asserted from its first read to its last: in
\* its bucket if its file could be read, and if it could not, in some bucket.
THEOREM SteadyReasonsAreSeen == Spec => []SteadyReasonIsReported
<1>1. IInv => SteadyReasonIsReported
  BY DEF IInv, ReadInv, SteadyReasonIsReported
<1> QED  BY <1>1, IntelInvariant, PTL

\* read_throttle() invents no reason.
THEOREM FlagsHaveCauses == Spec => []NoFlagWithoutCause
<1>1. IInv => NoFlagWithoutCause
  BY DEF IInv, ReadInv, NoFlagWithoutCause
<1> QED  BY <1>1, IntelInvariant, PTL

\* The first sample of a card that is gone is empty and the last, and no card that is
\* there is given up.
THEOREM RemovalIsNoticed == Spec => []GoneIsNoticed
<1>1. IInv => GoneIsNoticed
  BY DEF IInv, GoneInv, GoneIsNoticed
<1> QED  BY <1>1, IntelInvariant, PTL
================================================================================
