---------------------------- MODULE PlatformProofs ----------------------------
(***************************************************************************)
(* Proofs about what gtop asks of the machine it runs on. For any number   *)
(* of sessions, the console is owed by one of them only. For any fields    *)
(* that PCI addresses are spelled with, the registry's keys tell cards     *)
(* apart, and the power state of no card is ever known.                    *)
(***************************************************************************)
EXTENDS TerminalSession, PciAddress, SequenceTheorems, WellFoundedInduction, TLAPS

IInv == TypeOK /\ OneSessionOwes

LEMMA SessionsAreRecords ==
  ASSUME TypeOK
  PROVE  /\ Len(sessions) \in Nat /\ DOMAIN sessions = 1..Len(sessions)
         /\ \A i \in DOMAIN sessions : sessions[i] \in Sessions
BY LenProperties, ElementOfSeq DEF TypeOK

\* With nobody owing it the console is as the shell left it.
LEMMA NothingOwed ==
  ASSUME IInv, Owed = {}
  PROVE  console = original
<1>1. \A s \in Settings : console[s] = original[s]
  BY DEF IInv, OneSessionOwes, Owed
<1> QED  BY <1>1 DEF IInv, TypeOK, Consoles

\* restore() undoes everything there is to undo, or nothing.
LEMMA RestoredIsOriginal ==
  ASSUME IInv, NEW i \in Owed
  PROVE  Restored(sessions[i], console) = original
<1>1. sessions[i].previous = original /\ \A j \in Owed : j = i
  BY DEF IInv, OneSessionOwes
<1>2. \A s \in Settings : s \notin sessions[i].restores => console[s] = original[s]
  BY <1>1 DEF IInv, OneSessionOwes, Owed
<1> QED  BY <1>1, <1>2 DEF IInv, TypeOK, Restored, Consoles

LEMMA RestoredIsUnchanged ==
  ASSUME NEW session, session.restores = {}, NEW now \in Consoles
  PROVE  Restored(session, now) = now
BY DEF Restored, Consoles

\* A new session owes what may be set, and that has been set.
LEMMA FreshOwes ==
  ASSUME IInv, Owed = {}
  PROVE  /\ Fresh \in Sessions /\ Changed \in Consoles /\ Fresh.previous = original
         /\ \A s \in Settings : Changed[s] # original[s] => s \in Fresh.restores
         /\ \A s \in Fresh.restores : Changed[s] = "gtop"
<1>1. console = original
  BY NothingOwed
<1> QED  BY <1>1 DEF IInv, TypeOK, Fresh, Changed, Sessions, Consoles, Values

LEMMA InitialiseKeeps == IInv /\ Initialise => IInv'
<1> SUFFICES ASSUME IInv, Initialise  PROVE IInv'
  OBVIOUS
<1>1. /\ Len(sessions) < MaxSessions /\ Owed = {}
      /\ console' = Changed /\ sessions' = Append(sessions, Fresh)
      /\ original' = original /\ settable' = settable
  BY DEF Initialise
<1>2. /\ Fresh \in Sessions /\ Changed \in Consoles /\ Fresh.previous = original
      /\ \A s \in Settings : Changed[s] # original[s] => s \in Fresh.restores
      /\ \A s \in Fresh.restores : Changed[s] = "gtop"
  BY <1>1, FreshOwes
<1>3. Len(sessions) \in Nat /\ DOMAIN sessions = 1..Len(sessions)
  BY SessionsAreRecords DEF IInv
<1> DEFINE n == Len(sessions) + 1
<1>4. /\ sessions' \in Seq(Sessions) /\ Len(sessions') = n /\ DOMAIN sessions' = 1..n
      /\ \A i \in 1..Len(sessions) : sessions'[i] = sessions[i]
      /\ sessions'[n] = Fresh
  BY <1>1, <1>2, <1>3, AppendProperties DEF IInv, TypeOK
<1>5. \A i \in 1..Len(sessions) : sessions'[i].restores = {}
  BY <1>1, <1>3, <1>4 DEF Owed
<1>6. Owed' \subseteq {n} /\ n \in DOMAIN sessions'
  BY <1>3, <1>4, <1>5 DEF Owed
<1>7. OneSessionOwes'
  BY <1>1, <1>2, <1>4, <1>6 DEF OneSessionOwes
<1>8. TypeOK'
  BY <1>1, <1>2, <1>3, <1>4, SessionsAssumption DEF IInv, TypeOK
<1> QED  BY <1>7, <1>8 DEF IInv

\* Where what is owed is a matter of indices: was[k] is where session k was before.
LEMMA OwedHasMoved ==
  ASSUME IInv, console' = console, original' = original,
         NEW was \in [Owed' -> Owed],
         \A k, m \in Owed' : was[k] = was[m] => k = m,
         \A k \in Owed' : sessions'[k] = sessions[was[k]]
  PROVE  /\ \A k \in Owed' : sessions'[k].previous = original'
         /\ \A k, m \in Owed' : k = m
         /\ \A k \in Owed' : \A s \in sessions'[k].restores : console'[s] = "gtop"
<1>1. \A k \in Owed' : was[k] \in Owed
  OBVIOUS
<1>2. \A k, m \in Owed' : k = m
  BY <1>1 DEF IInv, OneSessionOwes
<1> QED  BY <1>1, <1>2 DEF IInv, OneSessionOwes

\* A session that moves takes what is owed with it.
LEMMA MoveConstructKeeps == ASSUME IInv, NEW i \in DOMAIN sessions, MoveConstruct(i)  PROVE IInv'
<1> DEFINE n == Len(sessions) + 1
           left == [sessions EXCEPT ![i] = MovedFrom(@)]
<1>1. /\ Len(sessions) < MaxSessions /\ sessions' = Append(left, sessions[i])
      /\ console' = console /\ original' = original /\ settable' = settable
  BY DEF MoveConstruct
<1>2. /\ Len(sessions) \in Nat /\ DOMAIN sessions = 1..Len(sessions)
      /\ \A k \in DOMAIN sessions : sessions[k] \in Sessions
      /\ sessions \in Seq(Sessions)
  BY SessionsAreRecords DEF IInv, TypeOK
<1>3. MovedFrom(sessions[i]) \in Sessions /\ MovedFrom(sessions[i]).restores = {}
  BY <1>2 DEF MovedFrom, Sessions
<1>4. /\ left \in Seq(Sessions) /\ Len(left) = Len(sessions)
      /\ left[i] = MovedFrom(sessions[i])
      /\ \A k \in DOMAIN sessions \ {i} : left[k] = sessions[k]
  BY <1>2, <1>3, ExceptSeq
<1> HIDE DEF left
<1>5. /\ sessions' \in Seq(Sessions) /\ Len(sessions') = n /\ DOMAIN sessions' = 1..n
      /\ \A k \in 1..Len(sessions) : sessions'[k] = left[k]
      /\ sessions'[n] = sessions[i]
  BY <1>1, <1>2, <1>4, AppendProperties
<1>6. /\ \A k \in Owed' : IF k = n THEN i \in Owed ELSE k \in Owed \ {i}
      /\ \A k \in Owed' : sessions'[k] = IF k = n THEN sessions[i] ELSE sessions[k]
  BY <1>2, <1>3, <1>4, <1>5 DEF Owed
<1>7. \A k \in DOMAIN sessions, s \in Settings : s \in sessions[k].restores =>
         \E m \in DOMAIN sessions' : s \in sessions'[m].restores
  BY <1>2, <1>4, <1>5
<1>8. OneSessionOwes'
  <2> DEFINE was == [k \in Owed' |-> IF k = n THEN i ELSE k]
  <2>1. was \in [Owed' -> Owed] /\ \A k \in Owed' : sessions'[k] = sessions[was[k]]
    BY <1>6
  <2>2. \A k, m \in Owed' : was[k] = was[m] => k = m
    BY <1>6
  <2>3. \A s \in Settings : console'[s] # original'[s] =>
           \E m \in DOMAIN sessions' : s \in sessions'[m].restores
    BY <1>1, <1>7 DEF IInv, OneSessionOwes
  <2> HIDE DEF was
  <2> QED  BY <1>1, <2>1, <2>2, <2>3, OwedHasMoved DEF OneSessionOwes
<1>9. TypeOK'
  BY <1>1, <1>2, <1>5, SessionsAssumption DEF IInv, TypeOK
<1> QED  BY <1>8, <1>9 DEF IInv

\* A session moved over another: the one that is overwritten gives back what it owed.
LEMMA MoveAssignKeeps ==
  ASSUME IInv, NEW i \in DOMAIN sessions, NEW j \in DOMAIN sessions, MoveAssign(i, j)
  PROVE  IInv'
<1> DEFINE over == [sessions EXCEPT ![i] = sessions[j]]
<1>1. /\ i # j /\ console' = Restored(sessions[i], console)
      /\ sessions' = [over EXCEPT ![j] = MovedFrom(@)]
      /\ original' = original /\ settable' = settable
  BY DEF MoveAssign
<1>2. /\ Len(sessions) \in Nat /\ DOMAIN sessions = 1..Len(sessions)
      /\ \A k \in DOMAIN sessions : sessions[k] \in Sessions
      /\ sessions \in Seq(Sessions)
  BY SessionsAreRecords DEF IInv, TypeOK
<1>3. MovedFrom(sessions[j]) \in Sessions /\ MovedFrom(sessions[j]).restores = {}
  BY <1>2 DEF MovedFrom, Sessions
<1>4. /\ over \in Seq(Sessions) /\ Len(over) = Len(sessions)
      /\ \A k \in DOMAIN sessions : over[k] = IF k = i THEN sessions[j] ELSE sessions[k]
  BY <1>2, ExceptSeq
<1> HIDE DEF over
<1>5. sessions' = [over EXCEPT ![j] = MovedFrom(sessions[j])]
  BY <1>1, <1>4
<1>6. /\ sessions' \in Seq(Sessions) /\ Len(sessions') = Len(sessions)
      /\ \A k \in DOMAIN sessions : sessions'[k] =
           IF k = j THEN MovedFrom(sessions[j]) ELSE IF k = i THEN sessions[j] ELSE sessions[k]
  BY <1>2, <1>3, <1>4, <1>5, ExceptSeq
<1>7. DOMAIN sessions' = DOMAIN sessions
  BY <1>2, <1>6, LenProperties
<1>8. \A k \in Owed' :
        /\ k = i => j \in Owed /\ sessions'[k] = sessions[j]
        /\ k # i => k \in Owed /\ sessions'[k] = sessions[k] /\ k # j
  BY <1>1, <1>3, <1>6, <1>7 DEF Owed
<1>9. CASE i \in Owed
  <2>1. console' = original /\ \A k \in Owed : k = i
    BY <1>1, <1>9, RestoredIsOriginal DEF IInv, OneSessionOwes
  <2>2. Owed' = {}
    BY <1>1, <1>8, <2>1
  <2>3. OneSessionOwes'
    BY <1>1, <2>1, <2>2 DEF OneSessionOwes
  <2>4. TypeOK'
    BY <1>1, <1>6, <2>1 DEF IInv, TypeOK
  <2> QED  BY <2>3, <2>4 DEF IInv
<1>10. CASE i \notin Owed
  <2>1. console' = console
    BY <1>1, <1>10, RestoredIsUnchanged DEF IInv, TypeOK, Owed
  <2> DEFINE was == [k \in Owed' |-> IF k = i THEN j ELSE k]
  <2>2. /\ was \in [Owed' -> Owed]
        /\ \A k \in Owed' : sessions'[k] = sessions[was[k]]
    BY <1>8
  <2>3. \A k, m \in Owed' : was[k] = was[m] => k = m
    BY <1>8
  <2>4. ASSUME NEW s \in Settings, console'[s] # original'[s]
        PROVE  \E m \in DOMAIN sessions' : s \in sessions'[m].restores
    <3>1. PICK k \in DOMAIN sessions : s \in sessions[k].restores
      BY <1>1, <2>1, <2>4 DEF IInv, OneSessionOwes
    <3>2. k # i
      BY <1>10, <3>1 DEF Owed
    <3> QED  BY <1>1, <1>6, <1>7, <3>1, <3>2
  <2>5. OneSessionOwes'
    <3> HIDE DEF was
    <3> QED  BY <1>1, <2>1, <2>2, <2>3, <2>4, OwedHasMoved DEF OneSessionOwes
  <2>6. TypeOK'
    BY <1>1, <1>6, <2>1 DEF IInv, TypeOK
  <2> QED  BY <2>5, <2>6 DEF IInv
<1> QED  BY <1>9, <1>10

LEMMA AssignInitialisedKeeps ==
  ASSUME IInv, NEW i \in DOMAIN sessions, AssignInitialised(i)
  PROVE  IInv'
<1>1. /\ Owed = {} /\ console' = Restored(sessions[i], Changed)
      /\ sessions' = [sessions EXCEPT ![i] = Fresh]
      /\ original' = original /\ settable' = settable
  BY DEF AssignInitialised
<1>2. /\ Fresh \in Sessions /\ Changed \in Consoles /\ Fresh.previous = original
      /\ \A s \in Settings : Changed[s] # original[s] => s \in Fresh.restores
      /\ \A s \in Fresh.restores : Changed[s] = "gtop"
  BY <1>1, FreshOwes
<1>3. /\ Len(sessions) \in Nat /\ DOMAIN sessions = 1..Len(sessions)
      /\ sessions \in Seq(Sessions)
  BY SessionsAreRecords DEF IInv, TypeOK
<1>4. console' = Changed
  BY <1>1, <1>2, RestoredIsUnchanged DEF Owed
<1>5. /\ sessions' \in Seq(Sessions) /\ Len(sessions') = Len(sessions)
      /\ \A k \in DOMAIN sessions : sessions'[k] = IF k = i THEN Fresh ELSE sessions[k]
  BY <1>1, <1>2, <1>3, ExceptSeq
<1>6. DOMAIN sessions' = DOMAIN sessions
  BY <1>3, <1>5, LenProperties
<1>7. \A k \in Owed' : k = i
  BY <1>1, <1>5, <1>6 DEF Owed
<1>8. OneSessionOwes'
  BY <1>1, <1>2, <1>4, <1>5, <1>6, <1>7 DEF OneSessionOwes
<1>9. TypeOK'
  BY <1>1, <1>2, <1>4, <1>5 DEF IInv, TypeOK
<1> QED  BY <1>8, <1>9 DEF IInv

LEMMA DestroyKeeps == IInv /\ Destroy => IInv'
<1> SUFFICES ASSUME IInv, Destroy  PROVE IInv'
  OBVIOUS
<1> DEFINE n == Len(sessions)
<1>1. /\ sessions # <<>> /\ console' = Restored(sessions[n], console)
      /\ sessions' = SubSeq(sessions, 1, n - 1)
      /\ original' = original /\ settable' = settable
  BY DEF Destroy
<1>2. /\ n \in Nat /\ n <= MaxSessions /\ DOMAIN sessions = 1..n /\ sessions \in Seq(Sessions)
  BY SessionsAreRecords DEF IInv, TypeOK
<1>3. n >= 1 /\ n \in DOMAIN sessions
  BY <1>1, <1>2, EmptySeq
<1>4. /\ sessions' \in Seq(Sessions) /\ Len(sessions') = n - 1
      /\ DOMAIN sessions' = 1..(n - 1)
      /\ \A k \in 1..(n - 1) : sessions'[k] = sessions[k]
  BY <1>1, <1>2, <1>3, SubSeqProperties, LenProperties, Z3
<1> HIDE DEF n
<1>5. \A k \in Owed' : k \in Owed /\ k # n /\ sessions'[k] = sessions[k]
  BY <1>2, <1>4 DEF Owed
<1>6. CASE n \in Owed
  <2>1. console' = original /\ \A k \in Owed : k = n
    BY <1>1, <1>6, RestoredIsOriginal DEF IInv, OneSessionOwes
  <2>2. Owed' = {}
    BY <1>5, <2>1
  <2>3. OneSessionOwes'
    BY <1>1, <2>1, <2>2 DEF OneSessionOwes
  <2>4. TypeOK'
    BY <1>1, <1>2, <1>4, <2>1, SessionsAssumption DEF IInv, TypeOK
  <2> QED  BY <2>3, <2>4 DEF IInv
<1>7. CASE n \notin Owed
  <2>1. console' = console
    BY <1>1, <1>3, <1>7, RestoredIsUnchanged DEF IInv, TypeOK, Owed
  <2>2. ASSUME NEW s \in Settings, console'[s] # original'[s]
        PROVE  \E m \in DOMAIN sessions' : s \in sessions'[m].restores
    <3>1. PICK k \in DOMAIN sessions : s \in sessions[k].restores
      BY <1>1, <2>1, <2>2 DEF IInv, OneSessionOwes
    <3>2. k # n
      BY <1>7, <3>1 DEF Owed
    <3> QED  BY <1>2, <1>4, <3>1, <3>2
  <2>3. OneSessionOwes'
    BY <1>1, <1>5, <2>1, <2>2 DEF IInv, OneSessionOwes
  <2>4. TypeOK'
    BY <1>1, <1>2, <1>4, <2>1, SessionsAssumption DEF IInv, TypeOK
  <2> QED  BY <2>3, <2>4 DEF IInv
<1> QED  BY <1>6, <1>7

LEMMA SessionsInvariant == Spec => []IInv
<1>1. Init => IInv
  <2> SUFFICES ASSUME Init  PROVE IInv
    OBVIOUS
  <2>1. sessions = <<>> /\ sessions \in Seq(Sessions) /\ Len(sessions) = 0
    BY EmptySeq DEF Init
  <2> QED  BY <2>1, SessionsAssumption DEF Init, IInv, TypeOK, OneSessionOwes, Owed
<1>2. IInv /\ [Next]_vars => IInv'
  <2> SUFFICES ASSUME IInv, [Next]_vars  PROVE IInv'
    OBVIOUS
  <2>1. CASE Initialise
    BY <2>1, InitialiseKeeps
  <2>2. CASE Destroy
    BY <2>2, DestroyKeeps
  <2>3. CASE \E i \in DOMAIN sessions : MoveConstruct(i)
    BY <2>3, MoveConstructKeeps
  <2>4. CASE \E i \in DOMAIN sessions : AssignInitialised(i)
    BY <2>4, AssignInitialisedKeeps
  <2>5. CASE \E i, j \in DOMAIN sessions : MoveAssign(i, j)
    BY <2>5, MoveAssignKeeps
  <2>6. CASE UNCHANGED vars
    BY <2>6 DEF vars, IInv, TypeOK, OneSessionOwes, Owed
  <2> QED  BY <2>1, <2>2, <2>3, <2>4, <2>5, <2>6 DEF Next
<1> QED  BY <1>1, <1>2, PTL DEF Spec

\* However sessions are made, moved and destroyed, a setting that was changed is owed by
\* exactly one of them, with the shell's value: operator= and the move constructor
\* neither lose nor double what there is to undo.
THEOREM OneOfThemOwes == Spec => []OneSessionOwes
<1>1. IInv => OneSessionOwes
  BY DEF IInv
<1> QED  BY <1>1, SessionsInvariant, PTL

-------------------------------------------------------------------------------
(***************************************************************************)
(* The value of a field. It is defined by recursion on its digits; Values  *)
(* of the first i digits are what the lemmas below speak of.               *)
(***************************************************************************)
Fields == Seq(0..NotHex)
HexFields == Seq(0..15)

PrefixValues(field, value) ==
  /\ value \in [0..Len(field) -> Nat]
  /\ value[0] = 0
  /\ \A i \in 1..Len(field) : value[i] = 16 * value[i - 1] + field[i]

\* What holds of 0, and of n + 1 when it holds of n, holds up to any number.
LEMMA UpTo ==
  ASSUME NEW n \in Nat, NEW S, 0 \in S, \A i \in 0..n : i \in S /\ i < n => i + 1 \in S
  PROVE  0..n \subseteq S
<1> DEFINE C == {i \in 0..n : i \notin S}
<1>1. SUFFICES ASSUME C # {} PROVE FALSE
  OBVIOUS
<1>2. PICK m \in C : \A i \in C : <<i, m>> \notin OpToRel(<, Nat)
  <2>1. C \subseteq Nat
    OBVIOUS
  <2> HIDE DEF C
  <2> QED  BY <1>1, <2>1, WFMin, NatLessThanWellFounded, Zenon
<1>3. m \in 0..n /\ m \notin S
  OBVIOUS
<1>4. m \in 1..n
  BY <1>3
<1>5. m - 1 \in 0..n /\ m - 1 < n /\ m - 1 \notin C
  <2>1. m - 1 \in Nat /\ m \in Nat /\ m - 1 < m /\ m - 1 < n /\ m - 1 \in 0..n
    BY <1>4
  <2>2. <<m - 1, m>> \in OpToRel(<, Nat)
    BY <2>1 DEF OpToRel
  <2> HIDE DEF C
  <2> QED  BY <1>2, <2>1, <2>2
<1>6. m - 1 \in S
  BY <1>5
<1>7. m - 1 + 1 \in S /\ m - 1 + 1 = m
  BY <1>4, <1>5, <1>6
<1> QED
  BY <1>3, <1>7

LEMMA HasPrefixValues ==
  ASSUME NEW field \in Seq(Nat)
  PROVE  \E value : PrefixValues(field, value)
<1> DEFINE n == Len(field)
           Upto(v, m) == /\ v \in [0..m -> Nat] /\ v[0] = 0
                         /\ \A i \in 1..m : v[i] = 16 * v[i - 1] + field[i]
           S == {m \in 0..n : \E v \in [0..m -> Nat] : Upto(v, m)}
<1>1. n \in Nat /\ \A i \in 1..n : field[i] \in Nat
  BY ElementOfSeq, LenProperties
<1>2. 0 \in S
  <2> DEFINE v == [i \in 0..0 |-> 0]
  <2>1. v \in [0..0 -> Nat] /\ Upto(v, 0) /\ 0 \in 0..n
    BY <1>1
  <2> HIDE DEF v, Upto
  <2> QED  BY <2>1
<1>3. ASSUME NEW m \in 0..n, m \in S, m < n  PROVE m + 1 \in S
  <2>1. PICK v \in [0..m -> Nat] : Upto(v, m)
    BY <1>3
  <2> DEFINE x == 16 * v[m] + field[m + 1]
             w == [i \in 0..(m + 1) |-> IF i <= m THEN v[i] ELSE x]
  <2>2. m + 1 \in 1..n /\ x \in Nat /\ m \in 0..m
    BY <1>1, <1>3, <2>1
  <2>3. /\ w \in [0..(m + 1) -> Nat] /\ w[0] = v[0] /\ w[m + 1] = x /\ w[m] = v[m]
        /\ \A i \in 1..m : w[i] = v[i] /\ w[i - 1] = v[i - 1]
    <3> HIDE DEF x
    <3> QED  BY <2>2
  <2> HIDE DEF w
  <2>4. ASSUME NEW i \in 1..(m + 1)  PROVE w[i] = 16 * w[i - 1] + field[i]
    <3>1. CASE i \in 1..m
      BY <2>1, <2>3, <3>1
    <3>2. CASE i = m + 1
      BY <2>2, <2>3, <3>2
    <3> QED  BY <3>1, <3>2
  <2>5. Upto(w, m + 1)
    BY <2>1, <2>3, <2>4
  <2>6. m + 1 \in 0..n
    BY <1>1, <1>3
  <2> HIDE DEF Upto
  <2> QED  BY <2>3, <2>5, <2>6
<1>4. n \in S
  <2> HIDE DEF S
  <2>1. \A m \in 0..n : m \in S /\ m < n => m + 1 \in S
    BY <1>3
  <2>2. 0..n \subseteq S
    BY <1>1, <1>2, <2>1, UpTo
  <2> QED  BY <1>1, <2>2
<1> QED  BY <1>4 DEF PrefixValues

\* Two accounts of the values of the prefixes are the same.
LEMMA PrefixValuesAgree ==
  ASSUME NEW field \in Seq(Nat), NEW v, PrefixValues(field, v),
         NEW w, w[0] = 0, \A i \in 1..Len(field) : w[i] = 16 * w[i - 1] + field[i]
  PROVE  \A i \in 0..Len(field) : w[i] = v[i]
<1> DEFINE S == {i \in 0..Len(field) : w[i] = v[i]}
<1>1. Len(field) \in Nat
  BY LenProperties
<1>2. 0 \in S
  BY <1>1 DEF PrefixValues
<1>3. \A i \in 0..Len(field) : i \in S /\ i < Len(field) => i + 1 \in S
  <2> SUFFICES ASSUME NEW i \in S, i < Len(field)  PROVE i + 1 \in S
    OBVIOUS
  <2>1. i + 1 \in 1..Len(field) /\ i + 1 - 1 = i
    BY <1>1
  <2> QED  BY <2>1 DEF PrefixValues
<1> HIDE DEF S
<1>4. 0..Len(field) \subseteq S
  BY <1>1, <1>2, <1>3, UpTo
<1> QED  BY <1>4 DEF S

LEMMA ValueIs ==
  ASSUME NEW field \in Seq(Nat), NEW v, PrefixValues(field, v)
  PROVE  ValueOf(field) = v[Len(field)]
<1> DEFINE n == Len(field)
           Equation(f) == f = [i \in 0..n |-> IF i = 0 THEN 0 ELSE 16 * f[i - 1] + field[i]]
           chosen == CHOOSE f : Equation(f)
<1>1. n \in Nat
  BY LenProperties
<1>2. Equation(v)
  BY <1>1 DEF PrefixValues
<1>3. Equation(chosen)
  <2> HIDE DEF Equation
  <2> QED  BY <1>2
<1>4. ValueOf(field) = chosen[n]
  BY DEF ValueOf
<1>5. chosen[0] = 0 /\ \A i \in 1..n : chosen[i] = 16 * chosen[i - 1] + field[i]
  <2> HIDE DEF chosen
  <2> QED  BY <1>1, <1>3
<1>6. chosen[n] = v[n]
  <2> HIDE DEF chosen, Equation
  <2> QED  BY <1>1, <1>5, PrefixValuesAgree
<1> QED  BY <1>4, <1>6

LEMMA FieldsAreNumbers == Fields \subseteq Seq(Nat)
<1> SUFFICES ASSUME NEW f \in Fields  PROVE f \in Seq(Nat)
  OBVIOUS
<1>1. 0..NotHex \subseteq Nat
  BY DEF NotHex
<1> QED  BY <1>1, SeqMonotonic DEF Fields

LEMMA ValueIsNumber ==
  ASSUME NEW field \in Seq(Nat)
  PROVE  ValueOf(field) \in Nat
<1>1. PICK v : PrefixValues(field, v)
  BY HasPrefixValues
<1>2. Len(field) \in 0..Len(field)
  <2>1. Len(field) \in Nat
    BY LenProperties
  <2> QED  BY <2>1
<1> QED  BY <1>1, <1>2, ValueIs DEF PrefixValues

LEMMA HexFieldsAreNumbers == HexFields \subseteq Seq(Nat) /\ HexFields \subseteq Fields
<1> SUFFICES ASSUME NEW f \in HexFields  PROVE f \in Seq(Nat) /\ f \in Fields
  OBVIOUS
<1>1. 0..15 \subseteq Nat /\ 0..15 \subseteq 0..NotHex
  BY DEF NotHex
<1> QED  BY <1>1, SeqMonotonic DEF HexFields, Fields

\* Fields of one length and one value are the same digits.
LEMMA OneSpellingAValue ==
  ASSUME NEW f \in HexFields, NEW g \in HexFields, Len(f) = Len(g), ValueOf(f) = ValueOf(g)
  PROVE  f = g
<1> DEFINE n == Len(f)
<1>1. /\ n \in Nat /\ f \in Seq(Nat) /\ g \in Seq(Nat)
      /\ \A i \in 1..n : f[i] \in 0..15 /\ g[i] \in 0..15
  <2>1. n \in Nat /\ \A i \in 1..n : f[i] \in 0..15 /\ g[i] \in 0..15
    BY LenProperties, ElementOfSeq DEF HexFields
  <2> QED  BY <2>1, HexFieldsAreNumbers
<1>2. PICK v : PrefixValues(f, v)
  BY <1>1, HasPrefixValues
<1>3. PICK w : PrefixValues(g, w)
  BY <1>1, HasPrefixValues
<1> DEFINE S == {j \in 0..n : v[n - j] = w[n - j]}
<1>4. v[n] = w[n]
  BY <1>1, <1>2, <1>3, ValueIs
<1>5. ASSUME NEW i \in 1..n, v[i] = w[i]  PROVE v[i - 1] = w[i - 1] /\ f[i] = g[i]
  <2>1. v[i] = 16 * v[i - 1] + f[i] /\ w[i] = 16 * w[i - 1] + g[i]
    BY <1>2, <1>3 DEF PrefixValues
  <2>2. v[i - 1] \in Nat /\ w[i - 1] \in Nat /\ f[i] \in 0..15 /\ g[i] \in 0..15
    <3>1. i - 1 \in 0..n
      BY <1>1
    <3>2. v \in [0..n -> Nat] /\ w \in [0..n -> Nat]
      BY <1>2, <1>3 DEF PrefixValues
    <3> QED  BY <1>1, <3>1, <3>2
  <2> DEFINE a == v[i - 1]
             b == w[i - 1]
             c == f[i]
             d == g[i]
  <2>3. 16 * a + c = 16 * b + d /\ a \in Nat /\ b \in Nat /\ c \in 0..15 /\ d \in 0..15
    BY <1>5, <2>1, <2>2
  <2> HIDE DEF a, b, c, d
  <2>4. a = b /\ c = d
    BY <2>3
  <2> QED  BY <2>4 DEF a, b, c, d
<1>6. 0 \in S
  BY <1>1, <1>4
<1>7. \A j \in 0..n : j \in S /\ j < n => j + 1 \in S
  <2> SUFFICES ASSUME NEW j \in 0..n, j \in S, j < n  PROVE j + 1 \in S
    OBVIOUS
  <2>1. n - j \in 1..n /\ v[n - j] = w[n - j] /\ n - j - 1 = n - (j + 1)
    BY <1>1
  <2>2. v[n - j - 1] = w[n - j - 1]
    BY <1>5, <2>1
  <2> QED  BY <2>1, <2>2
<1>8. 0..n \subseteq S
  <2> HIDE DEF S
  <2> QED  BY <1>1, <1>6, <1>7, UpTo
<1>9. \A i \in 1..n : f[i] = g[i]
  <2> SUFFICES ASSUME NEW i \in 1..n  PROVE f[i] = g[i]
    OBVIOUS
  <2>1. n - i \in 0..n /\ n - (n - i) = i
    BY <1>1
  <2>2. v[i] = w[i]
    BY <1>8, <2>1
  <2> QED  BY <1>5, <2>2
<1> QED  BY <1>1, <1>9, SeqEqual

\* Zeros in front are worth nothing.
LEMMA ZerosInFront ==
  ASSUME NEW f \in Seq(Nat), NEW g \in Seq(Nat), NEW k \in Nat, Len(g) = Len(f) + k,
         \A i \in 1..k : g[i] = 0, \A i \in 1..Len(f) : g[k + i] = f[i]
  PROVE  ValueOf(g) = ValueOf(f)
<1> DEFINE n == Len(f)
<1>1. n \in Nat
  BY LenProperties
<1>2. PICK v : PrefixValues(f, v)
  BY HasPrefixValues
<1> DEFINE w == [i \in 0..(n + k) |-> IF i <= k THEN 0 ELSE v[i - k]]
<1>3. w \in [0..Len(g) -> Nat] /\ w[0] = 0
  BY <1>1, <1>2 DEF PrefixValues
<1>4. ASSUME NEW i \in 1..Len(g)  PROVE w[i] = 16 * w[i - 1] + g[i]
  <2>1. CASE i <= k
    BY <1>1, <2>1
  <2>2. CASE i = k + 1
    <3>1. v[1] = 16 * v[0] + f[1] /\ g[k + 1] = f[1] /\ v[0] = 0
      BY <1>1, <1>2, <2>2 DEF PrefixValues
    <3>2. f[1] \in Nat
      BY <1>1, <2>2, ElementOfSeq
    <3> QED  BY <1>1, <2>2, <3>1, <3>2
  <2>3. CASE i > k + 1
    <3>1. i - k \in 1..n /\ i - k - 1 \in 1..n /\ k + (i - k) = i
      BY <1>1, <2>3
    <3>2. v[i - k] = 16 * v[i - k - 1] + f[i - k] /\ g[i] = f[i - k]
      BY <1>2, <3>1 DEF PrefixValues
    <3> QED  BY <1>1, <2>3, <3>1, <3>2
  <2> QED  BY <1>1, <2>1, <2>2, <2>3
<1>5. PrefixValues(g, w)
  <2> HIDE DEF w
  <2> QED  BY <1>3, <1>4 DEF PrefixValues
<1>6. w[n + k] = v[n]
  BY <1>1, <1>2 DEF PrefixValues
<1>7. ValueOf(g) = w[n + k] /\ ValueOf(f) = v[n]
  <2> HIDE DEF w
  <2> QED  BY <1>2, <1>5, ValueIs
<1> QED  BY <1>6, <1>7

\* A field that begins with a digit that counts is worth as much as its length says.
LEMMA WideIsLarge ==
  ASSUME NEW f \in HexFields, Len(f) > 4, f[1] # 0
  PROVE  ValueOf(f) > 65535
<1> DEFINE n == Len(f)
<1>1. n \in Nat /\ f \in Seq(Nat) /\ \A i \in 1..n : f[i] \in Nat
  BY LenProperties, ElementOfSeq, HexFieldsAreNumbers
<1>2. PICK v : PrefixValues(f, v)
  BY <1>1, HasPrefixValues
<1>3. v[0] = 0 /\ \A i \in 1..n : v[i] = 16 * v[i - 1] + f[i]
  BY <1>2 DEF PrefixValues
<1>4. v[1] >= 1 /\ v[1] \in Nat
  BY <1>1, <1>3
<1>5. v[2] >= 16 /\ v[2] \in Nat
  BY <1>1, <1>3, <1>4
<1>6. v[3] >= 256 /\ v[3] \in Nat
  <2>1. v[3] = 16 * v[2] + f[3] /\ f[3] \in Nat
    BY <1>1, <1>3
  <2> QED  BY <1>5, <2>1
<1>7. v[4] >= 4096 /\ v[4] \in Nat
  <2>1. v[4] = 16 * v[3] + f[4] /\ f[4] \in Nat
    BY <1>1, <1>3
  <2> QED  BY <1>6, <2>1
<1>8. v[5] >= 65536 /\ v[5] \in Nat
  <2>1. v[5] = 16 * v[4] + f[5] /\ f[5] \in Nat
    BY <1>1, <1>3
  <2> QED  BY <1>7, <2>1
<1> DEFINE S == {i \in 0..n : i >= 5 => v[i] \in Nat /\ v[i] >= 65536}
<1>9. \A i \in 0..n : i \in S /\ i < n => i + 1 \in S
  <2> SUFFICES ASSUME NEW i \in 0..n, i \in S, i < n, i + 1 >= 5
               PROVE  v[i + 1] \in Nat /\ v[i + 1] >= 65536
    BY <1>1
  <2>1. CASE i = 4
    BY <1>8, <2>1
  <2>2. CASE i >= 5
    <3>1. i + 1 \in 1..n /\ i + 1 - 1 = i /\ v[i] \in Nat /\ v[i] >= 65536
      BY <1>1, <2>2
    <3>2. v[i + 1] = 16 * v[i] + f[i + 1] /\ f[i + 1] \in Nat
      BY <1>1, <1>3, <3>1
    <3> QED  BY <3>1, <3>2
  <2> QED  BY <2>1, <2>2
<1>10. 0 \in S
  BY <1>1
<1>11. 0..n \subseteq S
  <2> HIDE DEF S, n
  <2> QED  BY <1>1, <1>9, <1>10, UpTo
<1>12. v[n] \in Nat /\ v[n] >= 65536
  <2>1. n \in 0..n /\ n >= 5
    BY <1>1
  <2> QED  BY <1>11, <2>1
<1>13. ValueOf(f) = v[n]
  BY <1>1, <1>2, ValueIs
<1> QED  BY <1>12, <1>13

(***************************************************************************)
(* What becomes of the zeros in front of a field.                          *)
(***************************************************************************)
\* padded is field with k zeros in front of it.
Pads(padded, field, k) ==
  /\ k \in Nat /\ Len(padded) = Len(field) + k
  /\ \A i \in 1..k : padded[i] = 0
  /\ \A i \in 1..Len(field) : padded[k + i] = field[i]

LEMMA PadsFacts ==
  ASSUME NEW field \in Fields, NEW padded \in Fields, NEW k, Pads(padded, field, k)
  PROVE  /\ AllHex(padded) <=> AllHex(field)
         /\ AllHex(field) => ValueOf(padded) = ValueOf(field)
<1>1. /\ Len(field) \in Nat /\ Len(padded) \in Nat
      /\ DOMAIN field = 1..Len(field) /\ DOMAIN padded = 1..Len(padded)
  BY LenProperties DEF Fields
<1>2. \A i \in DOMAIN padded : i <= k \/ (i - k \in DOMAIN field /\ padded[i] = field[i - k])
  <2> SUFFICES ASSUME NEW i \in DOMAIN padded, i > k
               PROVE  i - k \in DOMAIN field /\ padded[i] = field[i - k]
    BY <1>1 DEF Pads
  <2>1. i - k \in 1..Len(field) /\ k + (i - k) = i
    BY <1>1 DEF Pads
  <2> QED  BY <1>1, <2>1 DEF Pads
<1>3. \A i \in DOMAIN field : k + i \in DOMAIN padded /\ padded[k + i] = field[i]
  BY <1>1 DEF Pads
<1>4. AllHex(padded) <=> AllHex(field)
  BY <1>1, <1>2, <1>3 DEF AllHex, NotHex, Pads
<1>5. ASSUME AllHex(field)  PROVE ValueOf(padded) = ValueOf(field)
  <2>1. field \in Seq(Nat) /\ padded \in Seq(Nat)
    BY FieldsAreNumbers
  <2> QED  BY <2>1, ZerosInFront DEF Pads
<1> QED  BY <1>4, <1>5

LEMMA PaddedField ==
  ASSUME NEW field \in Fields, NEW n \in Nat, Len(field) <= n
  PROVE  /\ PadTo(n, field) \in Fields /\ Len(PadTo(n, field)) = n
         /\ Pads(PadTo(n, field), field, n - Len(field))
         /\ Len(field) = n => PadTo(n, field) = field
<1> DEFINE k == n - Len(field)
           zeros == [i \in 1..k |-> 0]
<1>1. Len(field) \in Nat /\ k \in Nat
  BY LenProperties DEF Fields
<1>2. zeros \in Fields /\ Len(zeros) = k /\ \A i \in 1..k : zeros[i] = 0
  BY <1>1 DEF Fields, NotHex
<1>3. PadTo(n, field) = zeros \o field
  BY DEF PadTo
<1> HIDE DEF zeros
<1>4. /\ zeros \o field \in Fields /\ Len(zeros \o field) = k + Len(field)
      /\ \A i \in 1..(k + Len(field)) :
           (zeros \o field)[i] = IF i <= k THEN zeros[i] ELSE field[i - k]
  BY <1>2, ConcatProperties DEF Fields
<1>5. Pads(zeros \o field, field, k)
  <2>1. \A i \in 1..k : (zeros \o field)[i] = 0
    BY <1>1, <1>2, <1>4
  <2>2. ASSUME NEW i \in 1..Len(field)  PROVE (zeros \o field)[k + i] = field[i]
    <3> DEFINE j == k + i
    <3>1. j \in 1..(k + Len(field)) /\ ~(j <= k) /\ j - k = i
      BY <1>1
    <3> HIDE DEF k, j
    <3>2. (zeros \o field)[j] = field[j - k]
      BY <1>4, <3>1
    <3> QED  BY <3>1, <3>2 DEF j
  <2> QED  BY <1>1, <1>4, <2>1, <2>2 DEF Pads
<1>6. ASSUME Len(field) = n  PROVE zeros \o field = field
  <2>1. \A i \in 1..Len(field) : (zeros \o field)[i] = field[i]
    BY <1>1, <1>4, <1>6
  <2> QED  BY <1>1, <1>4, <1>6, <2>1, SeqEqual DEF Fields
<1>7. k + Len(field) = n
  BY <1>1
<1> QED  BY <1>3, <1>4, <1>5, <1>6, <1>7

LEMMA StrippedField ==
  ASSUME NEW field \in Fields, field # <<>>
  PROVE  /\ StripZeros(field) \in Fields
         /\ Len(StripZeros(field)) \in 1..Len(field)
         /\ Pads(field, StripZeros(field), Len(field) - Len(StripZeros(field)))
         /\ StripZeros(field)[1] # 0 \/ Len(StripZeros(field)) = 1
<1> DEFINE n == Len(field)
           S == {n} \cup {i \in DOMAIN field : field[i] # 0}
           m == Min(S)
           s == StripZeros(field)
<1>1. n \in Nat /\ n >= 1 /\ DOMAIN field = 1..n /\ \A i \in 1..n : field[i] \in 0..NotHex
  <2>1. n \in Nat \ {0}
    BY EmptySeq DEF Fields
  <2>2. DOMAIN field = 1..n /\ \A i \in 1..n : field[i] \in 0..NotHex
    BY LenProperties, ElementOfSeq DEF Fields
  <2> QED  BY <2>1, <2>2
<1>2. m \in S /\ \A i \in S : m <= i
  <2>1. S # {} /\ S \subseteq Nat
    BY <1>1
  <2> HIDE DEF S
  <2>2. PICK j \in S : \A i \in S : <<i, j>> \notin OpToRel(<, Nat)
    BY <2>1, WFMin, NatLessThanWellFounded, Zenon
  <2>3. \A i \in S : j <= i
    <3> SUFFICES ASSUME NEW i \in S, ~(j <= i)  PROVE FALSE
      OBVIOUS
    <3>1. <<i, j>> \in OpToRel(<, Nat)
      BY <2>1 DEF OpToRel
    <3> QED  BY <2>2, <3>1
  <2> QED  BY <2>3 DEF Min
<1> HIDE DEF m
<1>3. m \in 1..n /\ \A i \in 1..(m - 1) : field[i] = 0
  <2>1. m \in 1..n
    BY <1>1, <1>2
  <2>2. ASSUME NEW i \in 1..(m - 1)  PROVE field[i] = 0
    <3>1. i \in DOMAIN field /\ ~(m <= i)
      BY <1>1, <2>1
    <3> QED  BY <1>2, <3>1
  <2> QED  BY <2>1, <2>2
<1>4. s = SubSeq(field, m, n)
  BY DEF StripZeros, m
<1>5. /\ s \in Fields /\ Len(s) = n - m + 1
      /\ \A i \in 1..(n - m + 1) : s[i] = field[m + i - 1]
  <2>1. \A i \in m..n : field[i] \in 0..NotHex
    BY <1>1, <1>3
  <2> QED  BY <1>1, <1>3, <1>4, <2>1, SubSeqProperties DEF Fields
<1>6. Pads(field, s, n - Len(s))
  <2>1. n - Len(s) = m - 1 /\ m - 1 \in Nat /\ Len(s) \in Nat
    BY <1>1, <1>3, <1>5
  <2>2. ASSUME NEW i \in 1..Len(s)  PROVE field[m - 1 + i] = s[i]
    <3>1. m - 1 + i = m + i - 1
      BY <1>3, <2>1
    <3> QED  BY <1>5, <3>1
  <2> HIDE DEF s
  <2> QED  BY <1>1, <1>3, <1>5, <2>1, <2>2 DEF Pads
<1>7. s[1] # 0 \/ Len(s) = 1
  <2>1. CASE m = n
    BY <1>1, <1>5, <2>1
  <2>2. CASE field[m] # 0
    <3>1. 1 \in 1..(n - m + 1) /\ m + 1 - 1 = m
      BY <1>3
    <3> QED  BY <1>5, <2>2, <3>1
  <2> QED  BY <1>2, <2>1, <2>2
<1> QED  BY <1>1, <1>3, <1>5, <1>6, <1>7

(***************************************************************************)
(* Spellings, and the key that is made of one.                             *)
(***************************************************************************)
AnySpelling == [domain : Fields, bus : Fields \ {Absent}, device : Fields \ {Absent},
                function : Fields \ {Absent}, upper : BOOLEAN, spaced : BOOLEAN]

\* normalise_pci_bus_id() understands it.
Parses(r) ==
  /\ IsHex(r) /\ Len(DomainDigits(r.domain)) <= 4
  /\ Len(r.bus) \in {1, 2} /\ Len(r.device) \in {1, 2} /\ Len(r.function) = 1

\* As sysfs spells it.
Canonical(r) ==
  /\ r \in AnySpelling /\ IsHex(r) /\ ~r.upper /\ ~r.spaced
  /\ Len(r.domain) = 4 /\ Len(r.bus) = 2 /\ Len(r.device) = 2 /\ Len(r.function) = 1

LEMMA SpellingsAreFields == Spellings \subseteq AnySpelling
<1> SUFFICES ASSUME NEW r \in Spellings  PROVE r \in AnySpelling
  OBVIOUS
<1>1. /\ r.domain \in Domains /\ r.bus \in Buses /\ r.device \in Devices
      /\ r.function \in Functions /\ r.upper \in BOOLEAN /\ r.spaced \in BOOLEAN
      /\ r = [domain |-> r.domain, bus |-> r.bus, device |-> r.device,
              function |-> r.function, upper |-> r.upper, spaced |-> r.spaced]
  BY DEF Spellings
<1>2. /\ r.domain \in Fields /\ r.bus \in Fields \ {Absent}
      /\ r.device \in Fields \ {Absent} /\ r.function \in Fields \ {Absent}
  BY <1>1, FieldsAssumption, FieldsAreThere DEF Fields
<1> QED  BY <1>1, <1>2 DEF AnySpelling

LEMMA HexFieldsAreHex ==
  ASSUME NEW f \in Fields
  PROVE  AllHex(f) <=> f \in HexFields
<1>1. /\ Len(f) \in Nat /\ DOMAIN f = 1..Len(f) /\ f \in [1..Len(f) -> 0..NotHex]
      /\ \A i \in 1..Len(f) : f[i] \in 0..NotHex
  BY LenProperties, ElementOfSeq DEF Fields
<1>2. ASSUME AllHex(f)  PROVE f \in HexFields
  <2>1. \A i \in 1..Len(f) : f[i] \in 0..15
    BY <1>1, <1>2 DEF AllHex, NotHex
  <2>2. f \in [1..Len(f) -> 0..15]
    BY <1>1, <2>1
  <2>3. Seq(0..15) = UNION {[1..n -> 0..15] : n \in Nat}
    BY SeqDef
  <2> QED  BY <1>1, <2>2, <2>3 DEF HexFields
<1>3. ASSUME f \in HexFields  PROVE AllHex(f)
  <2>1. \A i \in 1..Len(f) : f[i] \in 0..15
    BY <1>3, ElementOfSeq DEF HexFields
  <2> QED  BY <1>1, <2>1 DEF AllHex, NotHex
<1> QED  BY <1>2, <1>3

\* The digits of a domain, whether there is one or not.
LEMMA DomainDigitsOf ==
  ASSUME NEW f \in Fields
  PROVE  /\ DomainDigits(f) \in Fields /\ Len(DomainDigits(f)) \in Nat \ {0}
         /\ AllHex(DomainDigits(f)) <=> AllHex(f)
         /\ AllHex(f) => ValueOf(DomainDigits(f)) = ValueOf(f)
         /\ Len(DomainDigits(f)) <= Len(f) \/ Len(DomainDigits(f)) = 1
         /\ AllHex(f) /\ ValueOf(f) <= 65535 => Len(DomainDigits(f)) <= 4
<1>1. CASE f = Absent
  <2> DEFINE zero == <<0>>
  <2>1. zero \in Fields /\ Len(zero) = 1 /\ f \in Fields /\ Len(f) = 0
    BY <1>1 DEF Fields, NotHex, Absent
  <2>2. DomainDigits(f) = zero
    BY <1>1 DEF DomainDigits
  <2>3. Pads(zero, f, 1)
    BY <2>1 DEF Pads
  <2> HIDE DEF zero
  <2>4. (AllHex(zero) <=> AllHex(f)) /\ (AllHex(f) => ValueOf(zero) = ValueOf(f))
    BY <2>1, <2>3, PadsFacts
  <2>5. Len(zero) \in Nat \ {0} /\ Len(zero) <= 4
    BY <2>1
  <2> QED  BY <2>1, <2>2, <2>4, <2>5
<1>2. CASE f # Absent
  <2> DEFINE s == StripZeros(f)
  <2>1. s = DomainDigits(f)
    BY <1>2 DEF DomainDigits
  <2>2. /\ s \in Fields /\ Len(s) \in 1..Len(f) /\ Pads(f, s, Len(f) - Len(s))
        /\ s[1] # 0 \/ Len(s) = 1
    BY <1>2, StrippedField DEF Absent
  <2> HIDE DEF s
  <2>3. Len(f) \in Nat
    BY LenProperties DEF Fields
  <2>4. (AllHex(f) <=> AllHex(s)) /\ (AllHex(s) => ValueOf(f) = ValueOf(s))
    BY <2>2, PadsFacts
  <2>5. ASSUME AllHex(f), ValueOf(f) <= 65535  PROVE Len(s) <= 4
    <3>1. s \in HexFields /\ ValueOf(s) <= 65535
      BY <2>2, <2>4, <2>5, HexFieldsAreHex
    <3>2. ValueOf(s) \in Nat
      BY <3>1, HexFieldsAreNumbers, ValueIsNumber
    <3>3. ~(Len(s) > 4 /\ s[1] # 0)
      BY <3>1, <3>2, WideIsLarge
    <3> QED  BY <2>2, <2>3, <3>3
  <2>6. Len(s) \in Nat \ {0} /\ Len(s) <= Len(f)
    BY <2>2, <2>3
  <2> QED  BY <2>1, <2>2, <2>4, <2>5, <2>6
<1> QED  BY <1>1, <1>2

LEMMA NormaliseOfParsed ==
  ASSUME NEW r \in AnySpelling, Parses(r)
  PROVE  LET k == Normalise(r)
         IN  /\ Canonical(k) /\ CardOf(k) = CardOf(r)
             /\ k.domain = PadTo(4, DomainDigits(r.domain)) /\ k.bus = PadTo(2, r.bus)
             /\ k.device = PadTo(2, r.device) /\ k.function = r.function
<1> DEFINE d == DomainDigits(r.domain)
           t == Trimmed(r)
           u == Lowercased(t)
           k == [u EXCEPT !.domain = PadTo(4, d), !.bus = PadTo(2, r.bus),
                          !.device = PadTo(2, r.device)]
<1>1. /\ r.domain \in Fields /\ r.bus \in Fields /\ r.device \in Fields
      /\ r.function \in Fields \ {Absent}
  BY DEF AnySpelling
<1>2. /\ AllHex(r.domain) /\ AllHex(r.bus) /\ AllHex(r.device) /\ AllHex(r.function)
      /\ Len(d) <= 4 /\ Len(r.bus) \in {1, 2} /\ Len(r.device) \in {1, 2} /\ Len(r.function) = 1
  BY DEF Parses, IsHex
<1>0. Len(r.bus) <= 2 /\ Len(r.device) <= 2
  <2>1. \A n : n \in {1, 2} => n <= 2
    OBVIOUS
  <2> QED  BY <1>2, <2>1, Zenon
<1>3. d \in Fields /\ AllHex(d) /\ ValueOf(d) = ValueOf(r.domain)
  BY <1>1, <1>2, DomainDigitsOf
<1>4. /\ t \in AnySpelling /\ t.domain = r.domain /\ t.bus = r.bus /\ t.device = r.device
      /\ t.function = r.function /\ ~t.spaced
  BY DEF Trimmed, AnySpelling
<1>5. Normalise(r) = k
  BY <1>2, <1>4 DEF Normalise, IsHex
<1> HIDE DEF d, t
<1>6. u \in AnySpelling /\ u.function = r.function /\ ~u.upper /\ ~u.spaced
  BY <1>4 DEF Lowercased, AnySpelling
<1> HIDE DEF u
<1>7. /\ PadTo(4, d) \in Fields /\ Len(PadTo(4, d)) = 4 /\ Pads(PadTo(4, d), d, 4 - Len(d))
  BY <1>2, <1>3, PaddedField
<1>8. /\ PadTo(2, r.bus) \in Fields /\ Len(PadTo(2, r.bus)) = 2
      /\ Pads(PadTo(2, r.bus), r.bus, 2 - Len(r.bus))
  <2> HIDE DEF k
  <2> QED  BY <1>0, <1>1, PaddedField
<1>9. /\ PadTo(2, r.device) \in Fields /\ Len(PadTo(2, r.device)) = 2
      /\ Pads(PadTo(2, r.device), r.device, 2 - Len(r.device))
  <2> HIDE DEF k
  <2> QED  BY <1>0, <1>1, PaddedField
<1>10. /\ AllHex(PadTo(4, d)) /\ ValueOf(PadTo(4, d)) = ValueOf(r.domain)
       /\ AllHex(PadTo(2, r.bus)) /\ ValueOf(PadTo(2, r.bus)) = ValueOf(r.bus)
       /\ AllHex(PadTo(2, r.device)) /\ ValueOf(PadTo(2, r.device)) = ValueOf(r.device)
  BY <1>1, <1>2, <1>3, <1>7, <1>8, <1>9, PadsFacts
<1>11. PadTo(4, d) # Absent /\ PadTo(2, r.bus) # Absent /\ PadTo(2, r.device) # Absent
  <2>1. \A f : Len(f) = 2 \/ Len(f) = 4 => f # Absent
    BY DEF Absent
  <2> QED  BY <1>7, <1>8, <1>9, <2>1, Zenon
<1>12. /\ k \in AnySpelling /\ k.domain = PadTo(4, d) /\ k.bus = PadTo(2, r.bus)
       /\ k.device = PadTo(2, r.device) /\ k.function = r.function /\ ~k.upper /\ ~k.spaced
  BY <1>6, <1>7, <1>8, <1>9, <1>11 DEF AnySpelling
<1> HIDE DEF k
<1>13. CardOf(k) = CardOf(r)
  BY <1>10, <1>12 DEF CardOf
<1>14. Canonical(k)
  BY <1>2, <1>7, <1>8, <1>9, <1>10, <1>12 DEF Canonical, IsHex
<1> QED  BY <1>5, <1>12, <1>13, <1>14 DEF d

LEMMA NormaliseOfOther ==
  ASSUME NEW r \in AnySpelling, ~Parses(r)
  PROVE  /\ Normalise(r) \in AnySpelling /\ ~Parses(Normalise(r))
         /\ Normalise(r) = [r EXCEPT !.upper = FALSE, !.spaced = FALSE]
<1> DEFINE k == [r EXCEPT !.upper = FALSE, !.spaced = FALSE]
<1>1. /\ k \in AnySpelling /\ k.domain = r.domain /\ k.bus = r.bus /\ k.device = r.device
      /\ k.function = r.function
  BY DEF AnySpelling
<1>2. Lowercased(Trimmed(r)) = k
  BY DEF Lowercased, Trimmed, AnySpelling
<1>3. /\ Trimmed(r).domain = r.domain /\ Trimmed(r).bus = r.bus
      /\ Trimmed(r).device = r.device /\ Trimmed(r).function = r.function
  BY DEF Trimmed, AnySpelling
<1> HIDE DEF k
<1>4. Normalise(r) = k
  BY <1>2, <1>3 DEF Normalise, Parses, IsHex
<1>5. ~Parses(k)
  BY <1>1 DEF Parses, IsHex
<1> QED  BY <1>1, <1>4, <1>5 DEF k

\* Canonical spellings of one card are one.
LEMMA CanonicalIsUnique ==
  ASSUME NEW r, NEW q, Canonical(r), Canonical(q), CardOf(r) = CardOf(q)
  PROVE  r = q
<1>1. /\ r \in AnySpelling /\ q \in AnySpelling
      /\ ~r.upper /\ ~q.upper /\ ~r.spaced /\ ~q.spaced
  BY DEF Canonical
<1>2. /\ r = [domain |-> r.domain, bus |-> r.bus, device |-> r.device,
              function |-> r.function, upper |-> FALSE, spaced |-> FALSE]
      /\ q = [domain |-> q.domain, bus |-> q.bus, device |-> q.device,
              function |-> q.function, upper |-> FALSE, spaced |-> FALSE]
  BY <1>1 DEF AnySpelling
<1>3. /\ r.domain \in HexFields /\ r.bus \in HexFields /\ r.device \in HexFields
      /\ r.function \in HexFields /\ q.domain \in HexFields /\ q.bus \in HexFields
      /\ q.device \in HexFields /\ q.function \in HexFields
  BY <1>1, HexFieldsAreHex DEF Canonical, IsHex, AnySpelling
<1>4. /\ ValueOf(r.domain) = ValueOf(q.domain) /\ ValueOf(r.bus) = ValueOf(q.bus)
      /\ ValueOf(r.device) = ValueOf(q.device) /\ ValueOf(r.function) = ValueOf(q.function)
  BY DEF CardOf
<1>5. /\ Len(r.domain) = Len(q.domain) /\ Len(r.bus) = Len(q.bus)
      /\ Len(r.device) = Len(q.device) /\ Len(r.function) = Len(q.function)
  BY DEF Canonical
<1>6. /\ r.domain = q.domain /\ r.bus = q.bus /\ r.device = q.device
      /\ r.function = q.function
  BY <1>3, <1>4, <1>5, OneSpellingAValue
<1> QED  BY <1>2, <1>6

LEMMA CanonicalParses ==
  ASSUME NEW r, Canonical(r)
  PROVE  Parses(r)
<1>1. r.domain \in Fields /\ Len(r.domain) = 4
  BY DEF Canonical, AnySpelling
<1>2. Len(DomainDigits(r.domain)) <= 4
  <2>1. ASSUME NEW f \in Fields, Len(f) = 4  PROVE Len(DomainDigits(f)) <= 4
    <3> DEFINE n == Len(DomainDigits(f))
    <3>1. n \in Nat \ {0}
      BY DomainDigitsOf
    <3>0. n <= Len(f) \/ n = 1
      BY DomainDigitsOf
    <3> HIDE DEF n
    <3>2. n <= 4
      BY <2>1, <3>0, <3>1
    <3> QED  BY <3>2 DEF n
  <2> QED  BY <1>1, <2>1, Zenon
<1> QED  BY <1>2 DEF Canonical, Parses

\* The registry normalises what a driver has normalised, to no effect.
LEMMA NormaliseTwice ==
  ASSUME NEW r \in AnySpelling
  PROVE  Normalise(Normalise(r)) = Normalise(r)
<1> DEFINE k == Normalise(r)
<1>1. CASE Parses(r)
  <2>1. Canonical(k)
    BY <1>1, NormaliseOfParsed
  <2>2. Parses(k) /\ k \in AnySpelling
    BY <2>1, CanonicalParses DEF Canonical
  <2> HIDE DEF k
  <2>3. Canonical(Normalise(k)) /\ CardOf(Normalise(k)) = CardOf(k)
    BY <2>2, NormaliseOfParsed
  <2>4. Normalise(k) = k
    BY <2>1, <2>3, CanonicalIsUnique
  <2> QED  BY <2>4 DEF k
<1>2. CASE ~Parses(r)
  <2>1. k = [r EXCEPT !.upper = FALSE, !.spaced = FALSE] /\ k \in AnySpelling /\ ~Parses(k)
    BY <1>2, NormaliseOfOther
  <2>2. [k EXCEPT !.upper = FALSE, !.spaced = FALSE] = k
    BY <2>1 DEF AnySpelling
  <2> HIDE DEF k
  <2>3. Normalise(k) = k
    BY <2>1, <2>2, NormaliseOfOther
  <2> QED  BY <2>3 DEF k
<1> QED  BY <1>1, <1>2

(***************************************************************************)
(* One key a card, and no power state.                                     *)
(***************************************************************************)
\* A common spelling is understood.
LEMMA CommonParses ==
  ASSUME NEW r \in AnySpelling, Common(r)
  PROVE  Parses(r)
<1>1. /\ IsHex(r) /\ AllHex(r.domain) /\ ValueOf(r.domain) <= 65535 /\ r.domain \in Fields
      /\ Len(r.bus) <= 2 /\ Len(r.device) <= 2 /\ Len(r.function) = 1
      /\ r.bus \in Fields \ {Absent} /\ r.device \in Fields \ {Absent}
  BY DEF Common, AnySpelling, IsHex
<1>2. Len(DomainDigits(r.domain)) <= 4
  BY <1>1, DomainDigitsOf
<1>3. ASSUME NEW f \in Fields \ {Absent}, Len(f) <= 2  PROVE Len(f) \in {1, 2}
  <2> DEFINE n == Len(f)
  <2>1. n \in Nat /\ n # 0
    BY EmptySeq, LenProperties DEF Fields, Absent
  <2> HIDE DEF n
  <2>2. n <= 2
    BY <1>3 DEF n
  <2>3. n \in {1, 2}
    BY <2>1, <2>2
  <2> QED  BY <2>3 DEF n
<1> QED  BY <1>1, <1>2, <1>3 DEF Parses

\* Which keys are equal.
LEMMA KeysTellCardsApart ==
  ASSUME NEW r \in AnySpelling, NEW q \in AnySpelling
  PROVE  /\ Normalise(r) = Normalise(q) => CardOf(r) = CardOf(q) /\ (IsHex(r) <=> IsHex(q))
         /\ Common(r) /\ Common(q) /\ CardOf(r) = CardOf(q) => Normalise(r) = Normalise(q)
<1>1. ASSUME Normalise(r) = Normalise(q)
      PROVE  CardOf(r) = CardOf(q) /\ (IsHex(r) <=> IsHex(q))
  <2>1. CASE Parses(r) /\ Parses(q)
    <3>1. CardOf(Normalise(r)) = CardOf(r) /\ CardOf(Normalise(q)) = CardOf(q)
      BY <2>1, NormaliseOfParsed
    <3> QED  BY <1>1, <2>1, <3>1 DEF Parses
  <2>2. CASE ~Parses(r) /\ ~Parses(q)
    <3>1. /\ Normalise(r) = [r EXCEPT !.upper = FALSE, !.spaced = FALSE]
          /\ Normalise(q) = [q EXCEPT !.upper = FALSE, !.spaced = FALSE]
      BY <2>2, NormaliseOfOther
    <3>2. ASSUME NEW s \in AnySpelling
          PROVE  LET k == [s EXCEPT !.upper = FALSE, !.spaced = FALSE]
                 IN  /\ k.domain = s.domain /\ k.bus = s.bus
                     /\ k.device = s.device /\ k.function = s.function
      BY DEF AnySpelling
    <3> DEFINE k(s) == [s EXCEPT !.upper = FALSE, !.spaced = FALSE]
    <3>4. k(r) = k(q)
      BY <1>1, <3>1
    <3>5. \A s \in AnySpelling : /\ k(s).domain = s.domain /\ k(s).bus = s.bus
                                 /\ k(s).device = s.device /\ k(s).function = s.function
      BY <3>2
    <3> HIDE DEF k
    <3>3. r.domain = q.domain /\ r.bus = q.bus /\ r.device = q.device /\ r.function = q.function
      BY <3>4, <3>5, Zenon
    <3> QED  BY <3>3 DEF CardOf, IsHex
  <2>3. ASSUME NEW s \in AnySpelling  PROVE Parses(Normalise(s)) <=> Parses(s)
    <3>1. CASE Parses(s)
      BY <3>1, NormaliseOfParsed, CanonicalParses
    <3>2. CASE ~Parses(s)
      BY <3>2, NormaliseOfOther
    <3> QED  BY <3>1, <3>2
  <2> QED  BY <1>1, <2>1, <2>2, <2>3
<1>2. ASSUME Common(r), Common(q), CardOf(r) = CardOf(q)  PROVE Normalise(r) = Normalise(q)
  <2>1. Parses(r) /\ Parses(q)
    BY <1>2, CommonParses
  <2>2. /\ Canonical(Normalise(r)) /\ CardOf(Normalise(r)) = CardOf(r)
        /\ Canonical(Normalise(q)) /\ CardOf(Normalise(q)) = CardOf(q)
    BY <2>1, NormaliseOfParsed
  <2> QED  BY <1>2, <2>2, CanonicalIsUnique
<1> QED  BY <1>1, <1>2

\* A directory's name has a bus in it, and what is looked for has none.
LEMMA NoDirectoryIsFound ==
  ASSUME NEW r \in AnySpelling, NEW k
  PROVE  ToSysfsAddress(k) # DirectoryOf(r)
<1>1. r.bus \in Fields /\ r.bus # <<>>
  BY DEF AnySpelling, Absent
<1> DEFINE s == StripZeros(r.bus)
           b == PadTo(2, s)
<1>2. s \in Fields /\ Len(s) \in 1..Len(r.bus) /\ Len(r.bus) \in Nat
  BY <1>1, StrippedField, LenProperties DEF Fields
<1>3. b # Absent
  <2> HIDE DEF s
  <2>1. Len(s) \in Nat \ {0}
    BY <1>2
  <2>2. CASE Len(s) <= 2
    <3>1. Len(b) = 2
      BY <1>2, <2>2, PaddedField
    <3> HIDE DEF b
    <3> QED  BY <3>1, EmptySeq DEF Absent
  <2>3. CASE Len(s) > 2
    <3>1. [i \in 1..(2 - Len(s)) |-> 0] = <<>>
      BY <2>1, <2>3, 1..(2 - Len(s)) = {}
    <3>2. b = <<>> \o s
      BY <3>1 DEF PadTo
    <3>3. b = s
      BY <1>2, <3>2 DEF Fields
    <3> QED  BY <2>1, <3>3 DEF Absent
  <2> QED  BY <2>1, <2>2, <2>3
<1>4. DirectoryOf(r).bus = b
  BY DEF DirectoryOf
<1>5. ToSysfsAddress(k).bus = Absent
  BY DEF ToSysfsAddress, NoAddress
<1> HIDE DEF b
<1> QED  BY <1>3, <1>4, <1>5

\* What the two keys are made of, and what the power state was worked out from.
PciInv ==
  /\ raw \in Spellings \X Spellings
  /\ keys # None => keys = <<Normalise(Normalise(raw[1])), Normalise(Normalise(raw[2]))>>
  /\ power # None => power = PowerOf(AsKept)

LEMMA PciHolds == PciSpec => []PciInv
<1>1. PciInit => PciInv
  BY DEF PciInit, PciInv
<1>2. PciInv /\ [PciNext]_pciVars => PciInv'
  <2> SUFFICES ASSUME PciInv, [PciNext]_pciVars  PROVE PciInv'
    OBVIOUS
  <2>1. CASE Adopt
    BY <2>1 DEF PciInv, Adopt, PowerOf, AsKept
  <2>2. CASE AskPower
    BY <2>2 DEF PciInv, AskPower, PowerOf, AsKept
  <2>3. CASE UNCHANGED pciVars
    BY <2>3 DEF PciInv, pciVars, PowerOf, AsKept
  <2> QED  BY <2>1, <2>2, <2>3 DEF PciNext
<1> QED  BY <1>1, <1>2, PTL DEF PciSpec

LEMMA RawAreSpellings ==
  ASSUME PciInv
  PROVE  raw[1] \in AnySpelling /\ raw[2] \in AnySpelling
BY SpellingsAreFields DEF PciInv

\* Whatever fields an address is spelled with, however they are padded, whatever their
\* case and with no domain at all: two spellings of one card that
\* normalise_pci_bus_id() understands make one key, and no key stands for two cards.
THEOREM KeysAreCards == PciSpec => []OneKeyPerCard
<1>1. PciInv => OneKeyPerCard
  <2> SUFFICES ASSUME PciInv, keys # None  PROVE OneKeyPerCard
    BY DEF OneKeyPerCard
  <2> DEFINE r == raw[1]
             q == raw[2]
  <2>1. r \in AnySpelling /\ q \in AnySpelling
    BY RawAreSpellings
  <2>2. keys[1] = Normalise(Normalise(r)) /\ keys[2] = Normalise(Normalise(q))
    BY DEF PciInv
  <2>3. OneKeyPerCard <=>
          /\ keys[1] = keys[2] => CardOf(r) = CardOf(q) /\ (IsHex(r) <=> IsHex(q))
          /\ Common(r) /\ Common(q) /\ CardOf(r) = CardOf(q) => keys[1] = keys[2]
    BY DEF OneKeyPerCard
  <2> HIDE DEF r, q
  <2>4. keys[1] = Normalise(r) /\ keys[2] = Normalise(q)
    BY <2>1, <2>2, NormaliseTwice
  <2> QED  BY <2>1, <2>3, <2>4, KeysTellCardsApart
<1> QED  BY <1>1, PciHolds, PTL

\* pci_power_state(), asked with the address a backend keeps, says kUnknown of every
\* card, asleep or awake, whatever fields the vendor spelled that address with: the name
\* to_sysfs_address() makes has no bus, and there is no such directory.
THEOREM PowerIsNeverKnown == PciSpec => [](power \in {None, "unknown"})
<1>1. PciInv => power \in {None, "unknown"}
  <2> SUFFICES ASSUME PciInv, power # None  PROVE power = "unknown"
    OBVIOUS
  <2>1. ToSysfsAddress(AsKept) # DirectoryOf(raw[1])
    BY RawAreSpellings, NoDirectoryIsFound
  <2>2. power = PowerOf(AsKept)
    BY DEF PciInv
  <2> QED  BY <2>1, <2>2 DEF PowerOf
<1> QED  BY <1>1, PciHolds, PTL
===============================================================================
