---------------------------- MODULE RegistryProofs ----------------------------
(***************************************************************************)
(* Proofs, for every number of backends, every set of GPUs and every       *)
(* identity they are given, of the invariants of Registry.                 *)
(***************************************************************************)
EXTENDS Registry, FiniteSetTheorems, SequenceTheorems, TLAPS

(***************************************************************************)
(* What erase() and std::sort do to a sequence.                            *)
(***************************************************************************)
LEMMA RemoveAtElements ==
  ASSUME NEW S, NEW s \in Seq(S), NEW i \in 1..Len(s)
  PROVE  /\ RemoveAt(s, i) \in Seq(S)
         /\ Len(RemoveAt(s, i)) = Len(s) - 1
         /\ \A j \in 1..(Len(s) - 1) :
              RemoveAt(s, i)[j] = IF j < i THEN s[j] ELSE s[j + 1]
<1> DEFINE before == SubSeq(s, 1, i - 1)
           after == SubSeq(s, i + 1, Len(s))
<1>1. Len(s) \in Nat /\ \A j \in 1..Len(s) : s[j] \in S
  BY LenProperties, ElementOfSeq
<1>2. /\ before \in Seq(S) /\ Len(before) = i - 1
      /\ \A j \in 1..(i - 1) : before[j] = s[j]
  BY <1>1, SubSeqProperties, Z3
<1>3. /\ after \in Seq(S) /\ Len(after) = Len(s) - i
      /\ \A j \in 1..(Len(s) - i) : after[j] = s[i + j]
  <2>1. CASE i = Len(s)
    BY <1>1, <2>1, SubSeqEmpty, EmptySeq
  <2>2. CASE i < Len(s)
    BY <1>1, <2>2, SubSeqProperties, Z3
  <2> QED  BY <1>1, <2>1, <2>2
<1>4. RemoveAt(s, i) = before \o after
  BY DEF RemoveAt
<1> HIDE DEF before, after
<1>5. /\ before \o after \in Seq(S)
      /\ Len(before \o after) = Len(before) + Len(after)
      /\ \A j \in 1..(Len(before) + Len(after)) : (before \o after)[j] =
           IF j <= Len(before) THEN before[j] ELSE after[j - Len(before)]
  BY <1>2, <1>3, ConcatProperties, Zenon
<1>6. ASSUME NEW j \in 1..(Len(s) - 1)
      PROVE  RemoveAt(s, i)[j] = IF j < i THEN s[j] ELSE s[j + 1]
  <2>1. RemoveAt(s, i)[j] = IF j <= i - 1 THEN before[j] ELSE after[j - (i - 1)]
    BY <1>1, <1>2, <1>3, <1>4, <1>5
  <2>2. CASE j < i
    BY <1>1, <1>2, <2>1, <2>2
  <2>3. CASE j >= i
    <3>1. RemoveAt(s, i)[j] = after[j - (i - 1)]
      BY <1>1, <2>1, <2>3
    <3>2. j - (i - 1) \in 1..(Len(s) - i) /\ i + (j - (i - 1)) = j + 1
      BY <1>1, <2>3
    <3>3. after[j - (i - 1)] = s[i + (j - (i - 1))]
      BY <1>3, <3>2
    <3> QED  BY <1>1, <2>3, <3>1, <3>2, <3>3
  <2> QED  BY <1>1, <2>2, <2>3
<1> QED  BY <1>1, <1>2, <1>3, <1>4, <1>5, <1>6

LEMMA SortingElements ==
  ASSUME NEW S, NEW s \in Seq(S), NEW t \in Sortings(s)
  PROVE  /\ t \in Seq(S) /\ Len(t) = Len(s) /\ InKeyOrder(t)
         /\ \E p \in Bijection(1..Len(s), 1..Len(s)) :
              \A i \in 1..Len(s) : t[i] = s[p[i]]
<1>1. PICK p \in Bijection(1..Len(s), 1..Len(s)) :
        t = [i \in 1..Len(s) |-> s[p[i]]]
  BY DEF Sortings
<1>2. p \in [1..Len(s) -> 1..Len(s)]
  BY <1>1 DEF Bijection, Injection
<1>3. t \in Seq(S) /\ Len(t) = Len(s)
  BY <1>1, <1>2
<1> QED  BY <1>1, <1>2, <1>3 DEF Sortings

(***************************************************************************)
(* The inductive invariant. Neither the types nor the counts are inductive *)
(* alone: live stays a natural number because it is exact, it is exact     *)
(* because an erased entry is the only one with its key, keys stay         *)
(* distinct because an anonymous key in the list is below the counter.     *)
(***************************************************************************)
AnonymousKeysAreOld ==
  \A e \in Listed : e.key \in AnonymousKeys => e.key < AnonBase + anonymous

ListInv ==
  /\ OneEntryPerKey
  /\ IsFiniteSet(Listed)
  /\ LiveCountsExact
  /\ AnonymousKeysAreOld
  /\ EmptyBackendAskedAgain

IInv == TypeOK /\ ListInv

LEMMA ListedAreEntries ==
  ASSUME devices \in Seq(Entries)
  PROVE  /\ Len(devices) \in Nat /\ DOMAIN devices = 1..Len(devices)
         /\ \A i \in 1..Len(devices) : devices[i] \in Entries
         /\ Listed \subseteq Entries
BY ElementOfSeq, LenProperties DEF Listed

\* push_back.
LEMMA ListedAfterPush ==
  ASSUME devices \in Seq(Entries), NEW e \in Entries,
         devices' = Append(devices, e)
  PROVE  /\ devices' \in Seq(Entries) /\ Len(devices') = Len(devices) + 1
         /\ Listed' = Listed \cup {e}
         /\ OneEntryPerKey /\ ~Known(e.key) => OneEntryPerKey'
<1>1. /\ devices' \in Seq(Entries) /\ Len(devices') = Len(devices) + 1
      /\ \A i \in 1..Len(devices) : devices'[i] = devices[i]
      /\ devices'[Len(devices) + 1] = e
  BY AppendProperties, ListedAreEntries
<1>2. /\ Len(devices) \in Nat
      /\ DOMAIN devices = 1..Len(devices) /\ DOMAIN devices' = 1..(Len(devices) + 1)
  BY <1>1, ListedAreEntries, LenProperties
<1>3. Listed' = Listed \cup {e}
  BY <1>1, <1>2 DEF Listed
<1>4. ASSUME OneEntryPerKey, ~Known(e.key)  PROVE OneEntryPerKey'
  <2>1. \A i \in 1..Len(devices) : devices[i].key # e.key
    BY <1>2, <1>4 DEF Known, Listed
  <2> QED  BY <1>1, <1>2, <1>4, <2>1 DEF OneEntryPerKey
<1> QED  BY <1>1, <1>3, <1>4

\* erase.
LEMMA ListedAfterErase ==
  ASSUME devices \in Seq(Entries), OneEntryPerKey, NEW i \in DOMAIN devices,
         devices' = RemoveAt(devices, i)
  PROVE  /\ devices' \in Seq(Entries) /\ Len(devices') = Len(devices) - 1
         /\ Listed' = Listed \ {devices[i]} /\ devices[i] \in Listed
         /\ OneEntryPerKey'
<1>1. /\ Len(devices) \in Nat /\ i \in 1..Len(devices)
      /\ DOMAIN devices = 1..Len(devices)
  BY ListedAreEntries
<1>2. /\ devices' \in Seq(Entries) /\ Len(devices') = Len(devices) - 1
      /\ \A j \in 1..(Len(devices) - 1) :
           devices'[j] = IF j < i THEN devices[j] ELSE devices[j + 1]
  BY <1>1, RemoveAtElements
<1>3. DOMAIN devices' = 1..(Len(devices) - 1)
  BY <1>2, LenProperties
<1>4. Listed' \subseteq Listed \ {devices[i]}
  <2>1. SUFFICES ASSUME NEW j \in 1..(Len(devices) - 1)
                 PROVE  devices'[j] \in Listed \ {devices[i]}
    BY <1>3 DEF Listed
  <2>2. PICK k \in 1..Len(devices) : k # i /\ devices'[j] = devices[k]
    <3>1. CASE j < i   BY <1>1, <1>2, <3>1
    <3>2. CASE j >= i  BY <1>1, <1>2, <3>2
    <3> QED  BY <1>1, <3>1, <3>2
  <2> QED  BY <1>1, <2>2 DEF Listed, OneEntryPerKey
<1>5. Listed \ {devices[i]} \subseteq Listed'
  <2>1. SUFFICES ASSUME NEW k \in 1..Len(devices), devices[k] # devices[i]
                 PROVE  devices[k] \in Listed'
    BY <1>1 DEF Listed
  <2>2. PICK j \in 1..(Len(devices) - 1) : devices'[j] = devices[k]
    <3>1. k # i
      BY <2>1
    <3>2. CASE k < i
      <4>1. k \in 1..(Len(devices) - 1) /\ devices'[k] = devices[k]
        BY <1>1, <1>2, <3>2
      <4> QED  BY <4>1
    <3>3. CASE k > i
      <4>1. k - 1 \in 1..(Len(devices) - 1) /\ devices'[k - 1] = devices[k]
        BY <1>1, <1>2, <3>3
      <4> QED  BY <4>1
    <3> QED  BY <1>1, <3>1, <3>2, <3>3
  <2> QED  BY <1>3, <2>2 DEF Listed
<1>6. OneEntryPerKey'
  <2>1. SUFFICES ASSUME NEW j \in 1..(Len(devices) - 1), NEW k \in 1..(Len(devices) - 1),
                        devices'[j].key = devices'[k].key
                 PROVE  j = k
    BY <1>3 DEF OneEntryPerKey
  <2> DEFINE Old(m) == IF m < i THEN m ELSE m + 1
  <2>2. /\ Old(j) \in 1..Len(devices) /\ Old(k) \in 1..Len(devices)
        /\ devices'[j] = devices[Old(j)] /\ devices'[k] = devices[Old(k)]
    BY <1>1, <1>2
  <2>3. Old(j) = Old(k)
    <3> HIDE DEF Old
    <3> QED  BY <1>1, <2>1, <2>2 DEF OneEntryPerKey
  <2> QED  BY <1>1, <2>3
<1> QED  BY <1>1, <1>2, <1>4, <1>5, <1>6 DEF Listed

\* std::sort.
LEMMA ListedAfterSort ==
  ASSUME devices \in Seq(Entries), OneEntryPerKey, devices' \in Sortings(devices)
  PROVE  /\ devices' \in Seq(Entries) /\ Listed' = Listed
         /\ OneEntryPerKey' /\ InKeyOrder(devices')
<1>1. /\ devices' \in Seq(Entries) /\ Len(devices') = Len(devices) /\ InKeyOrder(devices')
      /\ \E p \in Bijection(1..Len(devices), 1..Len(devices)) :
           \A i \in 1..Len(devices) : devices'[i] = devices[p[i]]
  BY SortingElements
<1>2. PICK p \in Bijection(1..Len(devices), 1..Len(devices)) :
        \A i \in 1..Len(devices) : devices'[i] = devices[p[i]]
  BY <1>1
<1>3. /\ p \in [1..Len(devices) -> 1..Len(devices)]
      /\ \A i, j \in 1..Len(devices) : p[i] = p[j] => i = j
      /\ \A k \in 1..Len(devices) : \E i \in 1..Len(devices) : p[i] = k
  BY DEF Bijection, Injection, Surjection, IsInjective
<1>4. DOMAIN devices = 1..Len(devices) /\ DOMAIN devices' = 1..Len(devices)
  BY <1>1, ListedAreEntries, LenProperties
<1>5. Listed' = Listed
  <2>1. ASSUME NEW i \in 1..Len(devices)
        PROVE  \E k \in 1..Len(devices) : devices'[i] = devices[k]
    BY <1>2, <1>3
  <2>2. ASSUME NEW k \in 1..Len(devices)
        PROVE  \E i \in 1..Len(devices) : devices[k] = devices'[i]
    BY <1>2, <1>3
  <2>3. Listed' \subseteq Listed
    BY <1>4, <2>1 DEF Listed
  <2>4. Listed \subseteq Listed'
    BY <1>4, <2>2 DEF Listed
  <2> QED  BY <2>3, <2>4
<1>6. OneEntryPerKey'
  <2>1. SUFFICES ASSUME NEW i \in 1..Len(devices), NEW j \in 1..Len(devices),
                        devices'[i].key = devices'[j].key
                 PROVE  i = j
    BY <1>4 DEF OneEntryPerKey
  <2>2. devices[p[i]].key = devices[p[j]].key
    BY <1>2, <2>1
  <2>3. p[i] \in 1..Len(devices) /\ p[j] \in 1..Len(devices)
    BY <1>3
  <2>4. p[i] = p[j]
    BY <1>4, <2>2, <2>3 DEF OneEntryPerKey
  <2> QED  BY <1>3, <2>4
<1> QED  BY <1>1, <1>5, <1>6

(***************************************************************************)
(* The list invariants, step by step.                                      *)
(***************************************************************************)
LEMMA ListUntouched ==
  ASSUME ListInv, UNCHANGED <<devices, live, wait, anonymous>>
  PROVE  ListInv'
<1>1. Listed' = Listed
  BY DEF Listed
<1>2. \A b : OwnedBy(b)' = OwnedBy(b)
  BY <1>1 DEF OwnedBy
<1> QED
  BY <1>1, <1>2 DEF ListInv, OneEntryPerKey, LiveCountsExact, AnonymousKeysAreOld,
                    EmptyBackendAskedAgain

\* push_back and ++live, for a key nobody has.
LEMMA AdoptKeepsListInv ==
  ASSUME TypeOK, ListInv, NEW d \in Drivers, NEW key \in Keys, ~Known(key),
         at \in Backends, Adopt(d, key), UNCHANGED wait,
         anonymous' \in Nat, anonymous' >= anonymous,
         key \in AnonymousKeys => key < AnonBase + anonymous'
  PROVE  ListInv' /\ devices' \in Seq(Entries) /\ live' \in [Backends -> Nat]
<1> DEFINE e == [gpu |-> d.gpu, healthy |-> d.healthy,
                 backend |-> at, key |-> key]
<1>1. e \in Entries /\ e.key = key /\ e.backend = at /\ devices' = Append(devices, e)
  BY DEF Adopt, Entries, Drivers
<1> HIDE DEF e
<1>2. /\ devices' \in Seq(Entries) /\ Listed' = Listed \cup {e} /\ OneEntryPerKey'
  BY <1>1, ListedAfterPush DEF TypeOK, ListInv
<1>3. e \notin Listed
  BY <1>1 DEF Known
<1>4. IsFiniteSet(Listed')
  BY <1>2, FS_AddElement DEF ListInv
<1>5. live' = [live EXCEPT ![at] = @ + 1] /\ live \in [Backends -> Nat]
  BY DEF Adopt, TypeOK
<1>6. ASSUME NEW b \in Backends
      PROVE  live'[b] = Cardinality(OwnedBy(b)')
  <2>1. IsFiniteSet(OwnedBy(b)) /\ live[b] = Cardinality(OwnedBy(b))
    BY FS_Subset DEF ListInv, LiveCountsExact, OwnedBy
  <2>2. CASE b = at
    <3>1. OwnedBy(b)' = OwnedBy(b) \cup {e} /\ e \notin OwnedBy(b)
      BY <1>1, <1>2, <1>3, <2>2 DEF OwnedBy
    <3>2. Cardinality(OwnedBy(b)') = Cardinality(OwnedBy(b)) + 1
      BY <2>1, <3>1, FS_AddElement
    <3> QED  BY <1>5, <2>1, <2>2, <3>2
  <2>3. CASE b # at
    <3>1. OwnedBy(b)' = OwnedBy(b)
      BY <1>1, <1>2, <2>3 DEF OwnedBy
    <3> QED  BY <1>5, <2>1, <2>3, <3>1
  <2> QED  BY <2>2, <2>3
<1>7. AnonymousKeysAreOld'
  <2>1. SUFFICES ASSUME NEW f \in Listed', f.key \in AnonymousKeys
                 PROVE  f.key < AnonBase + anonymous'
    BY DEF AnonymousKeysAreOld, AnonymousKeys
  <2>2. CASE f = e
    BY <1>1, <2>1, <2>2
  <2>3. CASE f \in Listed
    <3>1. f.key < AnonBase + anonymous /\ f.key \in Int
      BY <2>1, <2>3, IdentityAssumption DEF ListInv, AnonymousKeysAreOld, AnonymousKeys
    <3> QED  BY <3>1, IdentityAssumption DEF TypeOK
  <2> QED  BY <1>2, <2>1, <2>2, <2>3
<1>8. EmptyBackendAskedAgain'
  BY <1>2 DEF ListInv, EmptyBackendAskedAgain, OwnedBy
<1> QED  BY <1>2, <1>4, <1>5, <1>6, <1>7, <1>8 DEF ListInv, LiveCountsExact

\* erase, --live and next_probe = now + kRetryInterval.
LEMMA RetireKeepsListInv ==
  ASSUME TypeOK, ListInv, NEW i \in DOMAIN devices, RetireAt(i), UNCHANGED anonymous
  PROVE  /\ ListInv' /\ devices' \in Seq(Entries) /\ live' \in [Backends -> Nat]
         /\ wait' \in [Backends -> 0..Never]
<1> DEFINE e == devices[i]
<1>1. /\ devices' \in Seq(Entries)
      /\ Listed' = Listed \ {e} /\ e \in Listed /\ OneEntryPerKey'
  BY ListedAfterErase DEF TypeOK, ListInv, RetireAt, Retire
<1>2. e.backend \in Backends
  BY <1>1, ListedAreEntries DEF TypeOK, Entries
<1>3. /\ live' = [live EXCEPT ![e.backend] = @ - 1] /\ live \in [Backends -> Nat]
      /\ wait' = [wait EXCEPT ![e.backend] = Retry] /\ wait \in [Backends -> 0..Never]
  BY DEF RetireAt, Retire, TypeOK
<1> HIDE DEF e
<1>4. IsFiniteSet(Listed')
  BY <1>1, FS_RemoveElement DEF ListInv
<1>5. ASSUME NEW b \in Backends
      PROVE  /\ live'[b] = Cardinality(OwnedBy(b)') /\ live'[b] \in Nat
             /\ b # e.backend => OwnedBy(b)' = OwnedBy(b)
  <2>1. IsFiniteSet(OwnedBy(b)) /\ live[b] = Cardinality(OwnedBy(b))
    BY FS_Subset DEF ListInv, LiveCountsExact, OwnedBy
  <2>2. CASE b = e.backend
    <3>1. OwnedBy(b)' = OwnedBy(b) \ {e} /\ e \in OwnedBy(b)
      BY <1>1, <2>2 DEF OwnedBy
    <3>2. IsFiniteSet(OwnedBy(b)') /\ Cardinality(OwnedBy(b)') = Cardinality(OwnedBy(b)) - 1
      BY <2>1, <3>1, FS_RemoveElement
    <3> QED  BY <1>2, <1>3, <2>1, <2>2, <3>2, FS_CardinalityType
  <2>3. CASE b # e.backend
    <3>1. OwnedBy(b)' = OwnedBy(b)
      BY <1>1, <2>3 DEF OwnedBy
    <3> QED  BY <1>2, <1>3, <2>1, <2>3, <3>1
  <2> QED  BY <2>2, <2>3
<1>6. AnonymousKeysAreOld'
  BY <1>1 DEF ListInv, AnonymousKeysAreOld
<1>7. wait' \in [Backends -> 0..Never] /\ wait'[e.backend] # Never
  BY <1>2, <1>3, BackendAssumption DEF Never
<1>8. EmptyBackendAskedAgain'
  <2>1. SUFFICES ASSUME NEW b \in Backends, wait'[b] = Never
                 PROVE  OwnedBy(b)' # {}
    BY DEF EmptyBackendAskedAgain, Never
  <2>2. b # e.backend /\ wait[b] = Never
    BY <1>2, <1>3, <1>7, <2>1
  <2> QED  BY <1>5, <2>2 DEF ListInv, EmptyBackendAskedAgain
<1>9. live' \in [Backends -> Nat]
  BY <1>3, <1>5
<1> QED  BY <1>1, <1>4, <1>5, <1>6, <1>7, <1>8, <1>9 DEF ListInv, LiveCountsExact

\* Sorting moves entries and changes none.
LEMMA SortKeepsListInv ==
  ASSUME TypeOK, ListInv, devices' \in Sortings(devices),
         UNCHANGED <<live, wait, anonymous>>
  PROVE  ListInv' /\ devices' \in Seq(Entries)
<1>1. devices' \in Seq(Entries) /\ Listed' = Listed /\ OneEntryPerKey'
  BY ListedAfterSort DEF TypeOK, ListInv
<1>2. \A b : OwnedBy(b)' = OwnedBy(b)
  BY <1>1 DEF OwnedBy
<1> QED
  BY <1>1, <1>2 DEF ListInv, LiveCountsExact, AnonymousKeysAreOld, EmptyBackendAskedAgain

\* The schedule of a backend that answered, and the passing of time.
LEMMA ScheduleKeepsListInv ==
  ASSUME TypeOK, ListInv, UNCHANGED <<devices, live, anonymous>>,
         wait' \in [Backends -> 0..Never],
         \A b \in Backends : wait'[b] = Never => wait[b] = Never \/ live[b] # 0
  PROVE  ListInv'
<1>1. Listed' = Listed /\ \A b : OwnedBy(b)' = OwnedBy(b)
  BY DEF Listed, OwnedBy
<1>2. EmptyBackendAskedAgain'
  <2>1. SUFFICES ASSUME NEW b \in Backends, wait'[b] = Never
                 PROVE  OwnedBy(b) # {}
    BY <1>1 DEF EmptyBackendAskedAgain, Never
  <2>2. CASE wait[b] = Never
    BY <2>2 DEF ListInv, EmptyBackendAskedAgain
  <2>3. CASE live[b] # 0
    BY <2>3, FS_EmptySet DEF ListInv, LiveCountsExact
  <2> QED  BY <2>1, <2>2, <2>3
<1> QED
  BY <1>1, <1>2 DEF ListInv, OneEntryPerKey, LiveCountsExact, AnonymousKeysAreOld

(***************************************************************************)
(* IInv is inductive.                                                      *)
(***************************************************************************)
LEMMA ConstantFacts ==
  /\ NBackends \in Nat /\ Retry \in Nat /\ Retry > 0 /\ Never = Retry + 1
  /\ MaxAnon \in Nat /\ AnonBase \in Nat \ {0} /\ CountMod \in Nat \ {0}
  /\ \A n \in Nat : (n + 1) % CountMod \in 0..(CountMod - 1)
BY BackendAssumption, CounterAssumption, IdentityAssumption DEF Never

LEMMA InitIInv == Init => IInv
<1> SUFFICES ASSUME Init  PROVE IInv
  OBVIOUS
<1>1. Listed = {} /\ \A b : OwnedBy(b) = {}
  BY DEF Init, Listed, OwnedBy
<1>2. TypeOK
  <2>1. live \in [Backends -> Nat] /\ wait \in [Backends -> 0..Never]
    BY ConstantFacts DEF Init
  <2>2. retired \in 0..(CountMod - 1) /\ anonymous \in 0..MaxAnon
    BY ConstantFacts DEF Init
  <2>3. devices \in Seq(Entries) /\ readings \in Seq(Readings) /\ roster \in Seq(Entries)
    BY EmptySeq DEF Init
  <2> QED  BY <2>1, <2>2, <2>3, BackendAssumption DEF Init, TypeOK
<1>3. ListInv
  BY <1>1, FS_EmptySet, ConstantFacts
     DEF Init, ListInv, OneEntryPerKey, LiveCountsExact, AnonymousKeysAreOld,
         EmptyBackendAskedAgain
<1> QED  BY <1>2, <1>3 DEF IInv

\* An identity is a key, and none of the anonymous ones.
LEMMA IdentityIsKey ==
  ASSUME NEW d, d.gpu \in Gpus, at \in Backends, IdentityOf(d) # NoIdentity
  PROVE  IdentityOf(d) \in Keys /\ IdentityOf(d) \notin AnonymousKeys
<1>1. IdentityOf(d) \in {Identity[at][d.gpu], Fallback[at][d.gpu]}
  BY DEF IdentityOf
<1>2. IdentityOf(d) \in Identities
  BY <1>1 DEF Identities
<1>3. {Identity[at][d.gpu], Fallback[at][d.gpu]} \cap AnonymousKeys = {}
  BY IdentityAssumption DEF AnonymousKeys
<1> QED  BY <1>1, <1>2, <1>3 DEF Keys

\* An adoption, whatever the key.
LEMMA AdoptFoundKeepsIInv == IInv /\ AdoptFound => IInv'
<1> SUFFICES ASSUME IInv, AdoptFound  PROVE IInv'
  OBVIOUS
<1> USE DEF IInv
<1>1. PICK d \in found :
        /\ AdoptIdentified(d) \/ DropDuplicate(d) \/ AdoptAnonymous(d)
        /\ found' = found \ {d}
  BY DEF AdoptFound
<1>2. /\ pc = "adopt" /\ at \in Backends /\ d \in Drivers /\ d.gpu \in Gpus
      /\ UNCHANGED <<power, wait, retired, pc, at, seen, readings, roster>>
  BY DEF AdoptFound, TypeOK, Drivers
<1>3. CASE DropDuplicate(d)
  <2>1. ListInv'
    BY <1>2, <1>3, ListUntouched DEF DropDuplicate
  <2>2. TypeOK'
    BY <1>1, <1>2, <1>3 DEF DropDuplicate, TypeOK
  <2> QED  BY <2>1, <2>2
<1>4. CASE AdoptIdentified(d)
  <2> DEFINE key == IdentityOf(d)
  <2>1. key \in Keys /\ ~Known(key) /\ Adopt(d, key) /\ UNCHANGED anonymous
    BY <1>2, <1>4, IdentityIsKey DEF AdoptIdentified
  <2>2. key \notin AnonymousKeys
    BY <1>2, <1>4, IdentityIsKey DEF AdoptIdentified
  <2> HIDE DEF key
  <2>3. ListInv' /\ devices' \in Seq(Entries) /\ live' \in [Backends -> Nat]
    BY <1>2, <2>1, <2>2, AdoptKeepsListInv, ConstantFacts DEF TypeOK
  <2>4. TypeOK'
    BY <1>1, <1>2, <2>1, <2>3 DEF Adopt, TypeOK
  <2> QED  BY <2>3, <2>4
<1>5. CASE AdoptAnonymous(d)
  <2> DEFINE key == AnonBase + anonymous
  <2>1. /\ Adopt(d, key) /\ anonymous' = anonymous + 1 /\ anonymous < MaxAnon
        /\ anonymous \in Nat
    BY <1>5 DEF AdoptAnonymous, TypeOK
  <2>2. key \in AnonymousKeys /\ key \in Keys /\ key \in Int
    BY <2>1, ConstantFacts DEF AnonymousKeys, Keys
  <2>3. ~Known(key)
    BY <2>1, <2>2, ConstantFacts DEF Known, ListInv, AnonymousKeysAreOld
  <2>4. key < AnonBase + anonymous' /\ anonymous' \in 0..MaxAnon /\ anonymous' >= anonymous
    BY <2>1, ConstantFacts
  <2> HIDE DEF key
  <2>5. ListInv' /\ devices' \in Seq(Entries) /\ live' \in [Backends -> Nat]
    BY <1>2, <2>1, <2>2, <2>3, <2>4, AdoptKeepsListInv
  <2>6. TypeOK'
    BY <1>1, <1>2, <2>1, <2>4, <2>5 DEF Adopt, TypeOK
  <2> QED  BY <2>5, <2>6
<1> QED  BY <1>1, <1>3, <1>4, <1>5

\* A retirement, from either place in the loop.
LEMMA RetireKeepsIInv ==
  ASSUME IInv, at \in DOMAIN devices, RetireAt(at), pc' = "sample",
         power' \in [Gpus -> PowerStates], seen' \in {"unknown", "suspended", "active"},
         UNCHANGED <<anonymous, found, adopted, roster>>
  PROVE  IInv'
<1>1. /\ ListInv' /\ devices' \in Seq(Entries) /\ live' \in [Backends -> Nat]
      /\ wait' \in [Backends -> 0..Never]
  BY RetireKeepsListInv DEF IInv
<1>2. retired' \in 0..(CountMod - 1) /\ UNCHANGED <<at, readings>>
  BY ConstantFacts DEF RetireAt, Retire, IInv, TypeOK
<1> QED  BY <1>1, <1>2 DEF IInv, TypeOK

\* A report, from either place in the loop.
LEMMA ReportKeepsIInv ==
  ASSUME IInv, at \in DOMAIN devices, NEW polled \in BOOLEAN, ReportAt(at, polled),
         pc' = "sample", power' \in [Gpus -> PowerStates], seen' = "unknown",
         UNCHANGED <<anonymous, found, adopted, roster>>
  PROVE  IInv'
<1>1. [key |-> devices[at].key, polled |-> polled] \in Readings
  BY ListedAreEntries DEF IInv, TypeOK, Entries, Readings
<1>2. readings' \in Seq(Readings)
  BY <1>1, AppendProperties DEF ReportAt, IInv, TypeOK
<1>3. ListInv'
  BY ListUntouched DEF ReportAt, IInv
<1> QED  BY <1>2, <1>3 DEF ReportAt, IInv, TypeOK

LEMMA PollKeepsIInv == IInv /\ Poll => IInv'
<1> SUFFICES ASSUME IInv, Poll  PROVE IInv'
  OBVIOUS
<1>1. at \in DOMAIN devices /\ power' \in [Gpus -> PowerStates]
  <2>1. at \in DOMAIN devices /\ Entry.gpu \in Gpus
    BY ListedAreEntries DEF Poll, IInv, TypeOK, Entry, Entries
  <2> QED  BY <2>1 DEF Poll, Touch, IInv, TypeOK, PowerStates
<1>2. CASE ReportAt(at, TRUE)
  BY <1>1, <1>2, ReportKeepsIInv DEF Poll
<1>3. CASE RetireAt(at)
  BY <1>1, <1>3, RetireKeepsIInv DEF Poll
<1> QED  BY <1>2, <1>3 DEF Poll

LEMMA NextIInv == IInv /\ [Next]_vars => IInv'
<1> SUFFICES ASSUME IInv, [Next]_vars  PROVE IInv'
  OBVIOUS
<1>1. CASE UNCHANGED vars
  <2>1. ListInv'
    BY <1>1, ListUntouched DEF IInv, vars
  <2> QED  BY <1>1, <2>1 DEF IInv, TypeOK, vars
<1>2. CASE StartProbe
  BY <1>2, ListUntouched DEF StartProbe, IInv, TypeOK
<1>3. CASE SkipBackend
  BY <1>3, ListUntouched DEF SkipBackend, IInv, TypeOK, Backends
<1>4. CASE AskBackend
  <2>1. at \in Backends /\ Listable(at) \subseteq Gpus
    BY <1>4, BackendAssumption DEF AskBackend, Listable
  <2>2. PICK dead, lost : found' = {[gpu |-> g, healthy |-> g \notin dead, addressed |-> g \notin lost] : g \in Listable(at)}
    BY <1>4 DEF AskBackend
  <2>3. \A g \in Gpus : [gpu |-> g, healthy |-> g \notin dead, addressed |-> g \notin lost] \in Drivers
    BY DEF Drivers
  <2>4. found' \in SUBSET Drivers
    BY <2>1, <2>2, <2>3
  <2> QED  BY <1>4, <2>4, ListUntouched DEF AskBackend, IInv, TypeOK
<1>5. CASE AdoptFound
  BY <1>5, AdoptFoundKeepsIInv
<1>6. CASE ScheduleBackend
  <2>1. at \in Backends /\ at \in Nat /\ wait' = [wait EXCEPT ![at] = NextProbe(at)]
    BY <1>6 DEF ScheduleBackend, IInv, TypeOK
  <2>2. /\ wait' \in [Backends -> 0..Never]
        /\ \A b \in Backends : wait'[b] = Never => wait[b] = Never \/ live[b] # 0
    BY <2>1, ConstantFacts DEF NextProbe, IInv, TypeOK
  <2>3. ListInv'
    BY <1>6, <2>2, ScheduleKeepsListInv DEF ScheduleBackend, IInv
  <2> QED  BY <1>6, <2>1, <2>2, <2>3 DEF ScheduleBackend, IInv, TypeOK
<1>7. CASE FinishProbe
  <2>1. ListInv' /\ devices' \in Seq(Entries)
    <3>1. CASE adopted
      BY <1>7, <3>1, SortKeepsListInv DEF FinishProbe, IInv
    <3>2. CASE ~adopted
      BY <1>7, <3>2, ListUntouched DEF FinishProbe, IInv, TypeOK
    <3> QED  BY <3>1, <3>2
  <2> QED  BY <1>7, <2>1 DEF FinishProbe, IInv, TypeOK
<1>8. CASE StartPass
  BY <1>8, ListUntouched DEF StartPass, IInv, TypeOK
<1>9. CASE RetireDead
  BY <1>9, RetireKeepsIInv DEF RetireDead, IInv, TypeOK
<1>10. CASE AskPowerState
  <2>1. seen' \in {"unknown", "suspended", "active"}
    BY <1>10 DEF AskPowerState, PowerAnswers
  <2> QED  BY <1>10, <2>1, ListUntouched DEF AskPowerState, IInv, TypeOK
<1>11. CASE ReportSuspended
  BY <1>11, ReportKeepsIInv DEF ReportSuspended, IInv, TypeOK
<1>12. CASE Poll
  BY <1>12, PollKeepsIInv
<1>13. CASE FinishPass
  BY <1>13, ListUntouched DEF FinishPass, IInv, TypeOK
<1>14. CASE Tick
  <2>1. /\ wait' \in [Backends -> 0..Never]
        /\ \A b \in Backends : wait'[b] = Never => wait[b] = Never \/ live[b] # 0
    BY <1>14, ConstantFacts DEF Tick, IInv, TypeOK
  <2>2. ListInv'
    BY <1>14, <2>1, ScheduleKeepsListInv DEF Tick, IInv
  <2> QED  BY <1>14, <2>1, <2>2 DEF Tick, IInv, TypeOK
<1>15. CASE Machine
  <2>1. PICK g \in Gpus, before \in SUBSET PowerStates, after \in PowerStates :
          PowerChange(g, before, after)
    BY <1>15 DEF Machine, PlugIn, Unplug, FallAsleep, WakeUp, BeginTransition, PowerStates
  <2> QED  BY <2>1, ListUntouched DEF PowerChange, IInv, TypeOK
<1> QED
  BY <1>1, <1>2, <1>3, <1>4, <1>5, <1>6, <1>7, <1>8, <1>9, <1>10, <1>11, <1>12,
     <1>13, <1>14, <1>15 DEF Next, Step, ProbeStep, PassStep

\* Every reachable state has its types and the list invariants.
THEOREM RegistryInvariant == Spec => []IInv
<1>1. Init => IInv  BY InitIInv
<1>2. IInv /\ [Next]_vars => IInv'  BY NextIInv
<1> QED  BY <1>1, <1>2, PTL DEF Spec

\* The state of every reachable call has its type: live never wraps below zero.
THEOREM TypeCorrect == Spec => []TypeOK
<1>1. IInv => TypeOK  BY DEF IInv
<1> QED  BY <1>1, RegistryInvariant, PTL

\* No key is listed twice, whatever the backends, the re-probes and the losses.
THEOREM KeysAreUnique == Spec => []OneEntryPerKey
<1>1. IInv => OneEntryPerKey  BY DEF IInv, ListInv
<1> QED  BY <1>1, RegistryInvariant, PTL

\* live is the number of entries of the backend at every step of every call.
THEOREM CountsAreExact == Spec => []LiveCountsExact
<1>1. IInv => LiveCountsExact  BY DEF IInv, ListInv
<1> QED  BY <1>1, RegistryInvariant, PTL

\* No backend without a device is ever written off.
THEOREM NoBackendForgotten == Spec => []EmptyBackendAskedAgain
<1>1. IInv => EmptyBackendAskedAgain  BY DEF IInv, ListInv
<1> QED  BY <1>1, RegistryInvariant, PTL

--------------------------------------------------------------------------------
(***************************************************************************)
(* What follows from the inductive invariant, with a strengthening of its  *)
(* own for each: the order of the list, one entry for one GPU, who is      *)
(* retired, who is woken, that Registry implements GpuList, and that a     *)
(* pass covers the survivors and every call ends.                          *)
(***************************************************************************)

(***************************************************************************)
(* What a step does to the list: it adopts, or it retires the entry the    *)
(* pass is at, or the same entries are listed after it.                    *)
(***************************************************************************)
RetiresAtIndex == pc \in {"sample", "read"} /\ at \in DOMAIN devices /\ RetireAt(at)

LEMMA RetirementErases ==
  ASSUME IInv, RetiresAtIndex
  PROVE  Listed' = Listed \ {Entry} /\ Entry \in Listed
BY ListedAfterErase DEF IInv, TypeOK, ListInv, RetiresAtIndex, RetireAt, Retire, Entry

LEMMA StepCases ==
  ASSUME IInv, [Next]_vars
  PROVE  \/ AdoptFound
         \/ RetiresAtIndex /\ (RetireDead \/ Poll)
         \/ Listed' = Listed
<1>1. CASE UNCHANGED devices
  BY <1>1 DEF Listed
<1>2. CASE FinishProbe
  <2>1. CASE adopted
    BY <1>2, <2>1, ListedAfterSort DEF FinishProbe, IInv, TypeOK, ListInv
  <2>2. CASE ~adopted
    BY <1>1, <1>2, <2>2 DEF FinishProbe
  <2> QED  BY <2>1, <2>2
<1>3. CASE RetireDead
  BY <1>3 DEF RetireDead, RetiresAtIndex
<1>4. CASE Poll
  <2>1. CASE RetireAt(at)
    BY <1>4, <2>1 DEF Poll, RetiresAtIndex, IInv, TypeOK
  <2>2. CASE ReportAt(at, TRUE)
    BY <1>1, <2>2 DEF ReportAt
  <2> QED  BY <1>4, <2>1, <2>2 DEF Poll
<1>5. CASE \/ StartProbe \/ SkipBackend \/ AskBackend \/ ScheduleBackend \/ StartPass
           \/ AskPowerState \/ ReportSuspended \/ FinishPass \/ Tick \/ UNCHANGED vars
  BY <1>1, <1>5 DEF StartProbe, SkipBackend, AskBackend, ScheduleBackend, StartPass,
     AskPowerState, ReportSuspended, ReportAt, FinishPass, Tick, vars
<1>6. CASE Machine
  <2>1. \E g, before, after : PowerChange(g, before, after)
    BY <1>6 DEF Machine, PlugIn, Unplug, FallAsleep, WakeUp, BeginTransition
  <2> QED  BY <1>1, <2>1 DEF PowerChange
<1> QED
  BY <1>2, <1>3, <1>4, <1>5, <1>6 DEF Next, Step, ProbeStep, PassStep

(***************************************************************************)
(* The order of the list.                                                  *)
(***************************************************************************)
OrderInv ==
  /\ pc \notin {"probe", "adopt"} => ~adopted
  /\ ~adopted => InKeyOrder(devices)

LEMMA EraseKeepsOrder ==
  ASSUME TypeOK, InKeyOrder(devices), NEW i \in DOMAIN devices,
         devices' = RemoveAt(devices, i)
  PROVE  InKeyOrder(devices')
<1>1. Len(devices) \in Nat /\ i \in 1..Len(devices)
  BY ListedAreEntries DEF TypeOK
<1>2. /\ Len(devices') = Len(devices) - 1
      /\ \A j \in 1..(Len(devices) - 1) :
           devices'[j] = IF j < i THEN devices[j] ELSE devices[j + 1]
  BY <1>1, RemoveAtElements DEF TypeOK
<1>3. SUFFICES ASSUME NEW j \in 1..(Len(devices) - 1), NEW k \in 1..(Len(devices) - 1), j < k
               PROVE  devices'[j].key <= devices'[k].key
  BY <1>2 DEF InKeyOrder
<1> DEFINE Old(m) == IF m < i THEN m ELSE m + 1
<1>4. /\ Old(j) \in 1..Len(devices) /\ Old(k) \in 1..Len(devices) /\ Old(j) < Old(k)
      /\ devices'[j] = devices[Old(j)] /\ devices'[k] = devices[Old(k)]
  BY <1>1, <1>2, <1>3
<1> HIDE DEF Old
<1> QED  BY <1>4 DEF InKeyOrder

LEMMA NextOrderInv == IInv /\ OrderInv /\ [Next]_vars => OrderInv'
<1> SUFFICES ASSUME IInv, OrderInv, [Next]_vars  PROVE OrderInv'
  OBVIOUS
<1>1. CASE UNCHANGED <<devices, adopted>> /\ (pc' \notin {"probe", "adopt"} => pc \notin {"probe", "adopt"})
  BY <1>1 DEF OrderInv, InKeyOrder
<1>2. CASE AdoptFound
  <2>1. pc' = "adopt"
    BY <1>2 DEF AdoptFound
  <2>2. adopted' = TRUE \/ UNCHANGED <<devices, adopted>>
    BY <1>2 DEF AdoptFound, AdoptIdentified, DropDuplicate, AdoptAnonymous, Adopt
  <2> QED  BY <2>1, <2>2 DEF OrderInv, InKeyOrder
<1>3. CASE FinishProbe
  <2>1. CASE adopted
    BY <1>3, <2>1, SortingElements DEF FinishProbe, OrderInv, IInv, TypeOK
  <2>2. CASE ~adopted
    BY <1>3, <2>2 DEF FinishProbe, OrderInv, InKeyOrder
  <2> QED  BY <2>1, <2>2
<1>4. CASE RetireAt(at) /\ at \in DOMAIN devices /\ pc \notin {"probe", "adopt"} /\ UNCHANGED adopted
  BY <1>4, EraseKeepsOrder DEF OrderInv, RetireAt, Retire, IInv
<1>5. CASE RetireDead
  BY <1>4, <1>5 DEF RetireDead
<1>6. CASE Poll
  <2>1. CASE RetireAt(at)
    BY <1>4, <1>6, <2>1 DEF Poll, IInv, TypeOK
  <2>2. CASE ReportAt(at, TRUE)
    BY <1>1, <1>6, <2>2 DEF Poll, ReportAt
  <2> QED  BY <1>6, <2>1, <2>2 DEF Poll
<1>7. CASE \/ StartProbe \/ SkipBackend \/ AskBackend \/ ScheduleBackend \/ StartPass
           \/ AskPowerState \/ ReportSuspended \/ FinishPass \/ Tick \/ UNCHANGED vars
  BY <1>1, <1>7 DEF StartProbe, SkipBackend, AskBackend, ScheduleBackend, StartPass,
     AskPowerState, ReportSuspended, ReportAt, FinishPass, Tick, vars
<1>8. CASE Machine
  <2>1. \E g, before, after : PowerChange(g, before, after)
    BY <1>8 DEF Machine, PlugIn, Unplug, FallAsleep, WakeUp, BeginTransition
  <2> QED  BY <1>1, <2>1 DEF PowerChange
<1> QED
  BY <1>2, <1>3, <1>5, <1>6, <1>7, <1>8 DEF Next, Step, ProbeStep, PassStep

\* Outside probe() the list is in key order, however much was adopted or lost.
THEOREM ListIsInOrder == Spec => []ListedInOrder
<1>1. Init => OrderInv
  BY DEF Init, OrderInv, InKeyOrder
<1>2. IInv /\ OrderInv /\ [Next]_vars => OrderInv'
  BY NextOrderInv
<1>3. OrderInv => ListedInOrder
  BY DEF OrderInv, ListedInOrder
<1> QED  BY <1>1, <1>2, <1>3, RegistryInvariant, PTL DEF Spec

(***************************************************************************)
(* One entry for one GPU.                                                  *)
(***************************************************************************)

\* Every backend describes a GPU by the same identity, always, and has one for it.
IdentitiesAgree ==
  \A b, c \in Backends, g \in Gpus :
    /\ Identity[b][g] = Identity[c][g] /\ Identity[b][g] # NoIdentity
    /\ b \in Forgetful => Fallback[b][g] = Identity[b][g]

KeysAreIdentities == \A e \in Listed : e.key = Identity[e.backend][e.gpu]

\* Only a forgetful backend hands over a driver without the address.
AddressesAreThere == pc = "adopt" => \A d \in found : d.addressed \/ at \in Forgetful

LEMMA NextAddressesAreThere == AddressesAreThere /\ [Next]_vars => AddressesAreThere'
<1> SUFFICES ASSUME AddressesAreThere, [Next]_vars, pc' = "adopt", NEW d \in found'
             PROVE  d.addressed \/ at' \in Forgetful
  BY DEF AddressesAreThere
<1>1. CASE AskBackend
  <2>1. PICK dead \in SUBSET (IF at \in Stillborn THEN Listable(at) ELSE {}),
             lost \in SUBSET (IF at \in Forgetful THEN Listable(at) ELSE {}) :
          found' = {[gpu |-> g, healthy |-> g \notin dead, addressed |-> g \notin lost] :
                      g \in Listable(at)}
    BY <1>1 DEF AskBackend
  <2>2. PICK g \in Listable(at) : d.addressed = (g \notin lost)
    BY <2>1
  <2>3. at' = at /\ (lost # {} => at \in Forgetful)
    BY <1>1 DEF AskBackend
  <2> QED  BY <2>2, <2>3
<1>2. CASE AdoptFound \/ Machine \/ UNCHANGED vars
  BY <1>2 DEF AdoptFound, Machine, PlugIn, Unplug, FallAsleep, WakeUp, BeginTransition,
              PowerChange, AddressesAreThere, vars
<1>3. CASE ~(AskBackend \/ AdoptFound \/ Machine \/ UNCHANGED vars)
  BY <1>3 DEF Next, Step, ProbeStep, PassStep, StartProbe, SkipBackend, ScheduleBackend,
     FinishProbe, StartPass, RetireDead, AskPowerState, ReportSuspended, Poll, FinishPass,
     Tick
<1> QED  BY <1>1, <1>2, <1>3

LEMMA NextKeysAreIdentities ==
  ASSUME IdentitiesAgree
  PROVE  IInv /\ AddressesAreThere /\ KeysAreIdentities /\ [Next]_vars => KeysAreIdentities'
<1> SUFFICES ASSUME IInv, AddressesAreThere, KeysAreIdentities, [Next]_vars
             PROVE  KeysAreIdentities'
  OBVIOUS
<1>1. CASE Listed' \subseteq Listed
  BY <1>1 DEF KeysAreIdentities
<1>2. CASE AdoptFound
  <2>1. PICK d \in found : AdoptIdentified(d) \/ DropDuplicate(d) \/ AdoptAnonymous(d)
    BY <1>2 DEF AdoptFound
  <2>2. d \in Drivers /\ at \in Backends /\ d.gpu \in Gpus
    BY <1>2 DEF AdoptFound, IInv, TypeOK, Drivers
  <2>. IdentityOf(d) = Identity[at][d.gpu] /\ IdentityOf(d) # NoIdentity
    BY <1>2, <2>2 DEF AdoptFound, AddressesAreThere, IdentityOf, IdentitiesAgree
  <2>3. ~AdoptAnonymous(d)
    BY DEF AdoptAnonymous
  <2>4. CASE DropDuplicate(d)
    BY <1>1, <2>4 DEF DropDuplicate, Listed
  <2>5. CASE AdoptIdentified(d)
    <3> DEFINE e == [gpu |-> d.gpu, healthy |-> d.healthy,
                     backend |-> at, key |-> IdentityOf(d)]
    <3>1. devices' = Append(devices, e)
      BY <2>5 DEF AdoptIdentified, Adopt
    <3>2. e \in Entries
      BY <2>2, <2>5, IdentityIsKey DEF AdoptIdentified, Entries, Drivers
    <3>3. Listed' = Listed \cup {e}
      BY <3>1, <3>2, ListedAfterPush DEF IInv, TypeOK
    <3> QED  BY <3>3 DEF KeysAreIdentities
  <2> QED  BY <2>1, <2>3, <2>4, <2>5
<1>3. CASE RetiresAtIndex
  BY <1>1, <1>3, RetirementErases
<1> QED  BY <1>1, <1>2, <1>3, StepCases

\* One physical GPU appears once, when the backends agree on what to call it.
THEOREM GpusAppearOnce ==
  ASSUME IdentitiesAgree
  PROVE  Spec => []OneEntryPerGpu
<1>1. Init => AddressesAreThere /\ KeysAreIdentities
  BY DEF Init, AddressesAreThere, KeysAreIdentities, Listed
<1>2. /\ AddressesAreThere /\ [Next]_vars => AddressesAreThere'
      /\ IInv /\ AddressesAreThere /\ KeysAreIdentities /\ [Next]_vars => KeysAreIdentities'
  BY NextAddressesAreThere, NextKeysAreIdentities
<1>3. IInv /\ KeysAreIdentities => OneEntryPerGpu
  <2> SUFFICES ASSUME IInv, KeysAreIdentities, NEW e \in Listed, NEW f \in Listed,
                      e.gpu = f.gpu
               PROVE  e = f
    BY DEF OneEntryPerGpu
  <2>1. e \in Entries /\ f \in Entries
    BY ListedAreEntries DEF IInv, TypeOK
  <2>2. e.key = f.key
    BY <2>1 DEF KeysAreIdentities, IdentitiesAgree, Entries
  <2> QED  BY <2>2 DEF IInv, ListInv, OneEntryPerKey, Listed
<1> QED  BY <1>1, <1>2, <1>3, RegistryInvariant, PTL DEF Spec

(***************************************************************************)
(* Who is retired.                                                         *)
(***************************************************************************)

\* A driver leaves the list only in its own iteration of a pass, and only dead.
THEOREM RetirementsAreJustified == Spec => OnlyTheDeadAreRetired
<1> DEFINE Justified ==
      \A e \in Listed :
        \/ e \in Listed'
        \/ /\ pc \in {"sample", "read"} /\ e = Entry
           /\ ~e.healthy \/ power[e.gpu] = "absent" \/ e.backend \in Erratic
<1>1. IInv /\ [Next]_vars => Justified
  <2> SUFFICES ASSUME IInv, [Next]_vars, NEW e \in Listed, e \notin Listed'
               PROVE  /\ pc \in {"sample", "read"} /\ e = Entry
                      /\ ~e.healthy \/ power[e.gpu] = "absent" \/ e.backend \in Erratic
    OBVIOUS
  <2>1. ~AdoptFound
    <3> SUFFICES ASSUME AdoptFound  PROVE FALSE
      OBVIOUS
    <3>1. \/ UNCHANGED devices
          \/ \E d \in Drivers, key \in Keys : Adopt(d, key) /\ at \in Backends
      <4>1. PICK d \in Drivers : AdoptIdentified(d) \/ DropDuplicate(d) \/ AdoptAnonymous(d)
        BY DEF AdoptFound, IInv, TypeOK
      <4>2. at \in Backends /\ d.gpu \in Gpus
        BY DEF AdoptFound, IInv, TypeOK, Drivers
      <4>3. CASE DropDuplicate(d)
        BY <4>3 DEF DropDuplicate
      <4>4. CASE AdoptIdentified(d)
        BY <4>2, <4>4, IdentityIsKey DEF AdoptIdentified
      <4>5. CASE AdoptAnonymous(d)
        <5>1. AnonBase + anonymous \in Keys
          BY <4>5, ConstantFacts DEF AdoptAnonymous, Keys, AnonymousKeys, IInv, TypeOK
        <5> QED  BY <4>2, <4>5, <5>1 DEF AdoptAnonymous
      <4> QED  BY <4>1, <4>3, <4>4, <4>5
    <3>2. CASE UNCHANGED devices
      BY <3>2 DEF Listed
    <3>3. ASSUME NEW d \in Drivers, NEW key \in Keys, Adopt(d, key), at \in Backends
          PROVE  FALSE
      <4> DEFINE new == [gpu |-> d.gpu, healthy |-> d.healthy,
                         backend |-> at, key |-> key]
      <4>1. devices' = Append(devices, new) /\ new \in Entries
        BY <3>3 DEF Adopt, Entries, Drivers
      <4>2. Listed' = Listed \cup {new}
        BY <4>1, ListedAfterPush DEF IInv, TypeOK
      <4> QED  BY <4>2
    <3> QED  BY <3>1, <3>2, <3>3
  <2>2. RetiresAtIndex /\ (RetireDead \/ Poll)
    BY <2>1, StepCases
  <2>3. e = Entry /\ pc \in {"sample", "read"}
    BY <2>2, RetirementErases DEF RetiresAtIndex
  <2>4. CASE RetireDead
    BY <2>3, <2>4 DEF RetireDead
  <2>5. CASE Poll
    <3>1. devices' # devices
      BY DEF Listed
    <3>2. FALSE \in HealthAfterSample(Entry)
      <4>1. PICK alive \in HealthAfterSample(Entry) :
              IF alive THEN ReportAt(at, TRUE) ELSE RetireAt(at)
        BY <2>5 DEF Poll
      <4>2. alive \in BOOLEAN
        BY <4>1 DEF HealthAfterSample
      <4>3. ~alive
        BY <3>1, <4>1 DEF ReportAt
      <4> QED  BY <4>1, <4>2, <4>3
    <3> QED  BY <2>3, <3>2 DEF HealthAfterSample
  <2> QED  BY <2>2, <2>3, <2>4, <2>5
<1> QED  BY <1>1, RegistryInvariant, PTL DEF Spec, OnlyTheDeadAreRetired

(***************************************************************************)
(* Registry implements GpuList.                                            *)
(***************************************************************************)

\* The backend whose answer is being adopted is one that was due.
AskedIsDue == pc = "adopt" => wait[at] = 0

LEMMA NextAskedIsDue == IInv /\ AskedIsDue /\ [Next]_vars => AskedIsDue'
<1> SUFFICES ASSUME IInv, AskedIsDue, [Next]_vars, pc' = "adopt"  PROVE wait'[at'] = 0
  BY DEF AskedIsDue
<1>1. CASE AskBackend
  BY <1>1 DEF AskBackend, Due
<1>2. CASE AdoptFound \/ Machine \/ UNCHANGED vars
  BY <1>2 DEF AdoptFound, Machine, PlugIn, Unplug, FallAsleep, WakeUp, BeginTransition,
              PowerChange, AskedIsDue, vars
<1>3. CASE ~(AskBackend \/ AdoptFound \/ Machine \/ UNCHANGED vars)
  BY <1>3 DEF Next, Step, ProbeStep, PassStep, StartProbe, SkipBackend, ScheduleBackend,
     FinishProbe, StartPass, RetireDead, AskPowerState, ReportSuspended, Poll, FinishPass,
     Tick
<1> QED  BY <1>1, <1>2, <1>3

LEMMA AdoptionIsClaim ==
  ASSUME IInv, AskedIsDue, AdoptFound
  PROVE  [Promise!Next]_(Promise!listVars)
<1>1. at \in Backends /\ UNCHANGED wait /\ at \in Scheduled /\ Scheduled' = Scheduled
  BY ConstantFacts DEF AdoptFound, AskedIsDue, Scheduled, Never, IInv, TypeOK
<1>2. \/ UNCHANGED devices
      \/ \E d \in Drivers, key \in Keys : Adopt(d, key) /\ ~Known(key)
  <2>1. PICK d \in Drivers : AdoptIdentified(d) \/ DropDuplicate(d) \/ AdoptAnonymous(d)
    BY DEF AdoptFound, IInv, TypeOK
  <2>2. d.gpu \in Gpus
    BY DEF Drivers
  <2>3. CASE DropDuplicate(d)
    BY <2>3 DEF DropDuplicate
  <2>4. CASE AdoptIdentified(d)
    BY <1>1, <2>2, <2>4, IdentityIsKey DEF AdoptIdentified
  <2>5. CASE AdoptAnonymous(d)
    <3>1. /\ AnonBase + anonymous \in Keys /\ AnonBase + anonymous \in AnonymousKeys
          /\ anonymous \in Nat
      BY <2>5, ConstantFacts DEF AdoptAnonymous, Keys, AnonymousKeys, IInv, TypeOK
    <3>2. ~Known(AnonBase + anonymous)
      BY <3>1, ConstantFacts DEF Known, IInv, ListInv, AnonymousKeysAreOld
    <3> QED  BY <2>5, <3>1, <3>2 DEF AdoptAnonymous
  <2> QED  BY <2>1, <2>3, <2>4, <2>5
<1>3. CASE UNCHANGED devices
  BY <1>1, <1>3 DEF Promise!listVars, Claims, Listed
<1>4. ASSUME NEW d \in Drivers, NEW key \in Keys, Adopt(d, key), ~Known(key)
      PROVE  Promise!Next
  <2> DEFINE new == [gpu |-> d.gpu, healthy |-> d.healthy,
                     backend |-> at, key |-> key]
  <2>1. devices' = Append(devices, new) /\ new \in Entries /\ new.key = key /\ new.backend = at
    BY <1>1, <1>4 DEF Adopt, Entries, Drivers
  <2> HIDE DEF new
  <2>2. Listed' = Listed \cup {new}
    BY <2>1, ListedAfterPush DEF IInv, TypeOK
  <2>3. Claims' = Claims \cup {[key |-> key, backend |-> at]}
    BY <2>1, <2>2 DEF Claims
  <2>4. ~Promise!Owned(key)
    BY <1>4 DEF Promise!Owned, Claims, Known
  <2>5. Promise!Claim(key, at)
    BY <1>1, <2>3, <2>4 DEF Promise!Claim
  <2> QED  BY <1>1, <2>5 DEF Promise!Next
<1> QED  BY <1>2, <1>3, <1>4

LEMMA RetirementIsLoss ==
  ASSUME IInv, RetiresAtIndex
  PROVE  Promise!Next
<1> DEFINE c == [key |-> Entry.key, backend |-> Entry.backend]
<1>1. Listed' = Listed \ {Entry} /\ Entry \in Listed /\ Entry \in Entries
  BY RetirementErases, ListedAreEntries DEF IInv, TypeOK
<1>2. Entry.backend \in Backends
  BY <1>1 DEF Entries
<1>3. \A e \in Listed : e.key = Entry.key => e = Entry
  BY <1>1 DEF IInv, ListInv, OneEntryPerKey, Listed
<1>4. c \in Claims /\ Claims' = Claims \ {c}
  BY <1>1, <1>3 DEF Claims
<1>5. wait' = [wait EXCEPT ![Entry.backend] = Retry]
  BY DEF RetiresAtIndex, RetireAt, Retire, Entry
<1>6. Scheduled' = Scheduled \cup {Entry.backend}
  BY <1>2, <1>5, ConstantFacts DEF Scheduled, Never, IInv, TypeOK
<1>7. Promise!Lose(c)
  BY <1>4, <1>6 DEF Promise!Lose
<1> QED  BY <1>4, <1>7 DEF Promise!Next

LEMMA ScheduleIsLeaveAlone ==
  ASSUME IInv, AskedIsDue, ScheduleBackend
  PROVE  [Promise!Next]_(Promise!listVars)
<1>1. /\ at \in Backends /\ wait[at] = 0 /\ wait' = [wait EXCEPT ![at] = NextProbe(at)]
      /\ wait \in [Backends -> 0..Never]
  BY DEF ScheduleBackend, AskedIsDue, IInv, TypeOK
<1>2. Claims' = Claims
  BY DEF ScheduleBackend, Claims, Listed
<1>3. CASE live[at] = 0
  <2>1. Scheduled' = Scheduled
    BY <1>1, <1>3, ConstantFacts DEF NextProbe, Scheduled
  <2> QED  BY <1>2, <2>1 DEF Promise!listVars
<1>4. CASE live[at] # 0
  <2>1. Scheduled' = Scheduled \ {at} /\ at \in Scheduled
    BY <1>1, <1>4, ConstantFacts DEF NextProbe, Scheduled
  <2>2. OwnedBy(at) # {}
    BY <1>1, <1>4, FS_EmptySet DEF IInv, ListInv, LiveCountsExact
  <2>3. Promise!Owns(at)
    <3>1. PICK e \in Listed : e.backend = at
      BY <2>2 DEF OwnedBy
    <3>2. [key |-> e.key, backend |-> e.backend] \in Claims
      BY DEF Claims
    <3> QED  BY <3>1, <3>2 DEF Promise!Owns
  <2>4. Promise!LeaveAlone(at)
    BY <1>2, <2>1, <2>3 DEF Promise!LeaveAlone
  <2> QED  BY <2>1, <2>4 DEF Promise!Next
<1> QED  BY <1>3, <1>4

LEMMA NextImplements ==
  IInv /\ AskedIsDue /\ [Next]_vars => [Promise!Next]_(Promise!listVars)
<1> SUFFICES ASSUME IInv, AskedIsDue, [Next]_vars
             PROVE  [Promise!Next]_(Promise!listVars)
  OBVIOUS
<1>1. CASE AdoptFound
  BY <1>1, AdoptionIsClaim
<1>2. CASE RetiresAtIndex
  BY <1>2, RetirementIsLoss
<1>3. CASE ScheduleBackend
  BY <1>3, ScheduleIsLeaveAlone
<1>4. CASE Listed' = Listed /\ ~ScheduleBackend /\ ~RetiresAtIndex /\ ~AdoptFound
  <2>1. Scheduled' = Scheduled
    <3>1. CASE Tick
      BY <3>1, ConstantFacts DEF Tick, Scheduled
    <3>2. CASE UNCHANGED wait
      BY <3>2 DEF Scheduled
    <3>3. CASE ~Tick
      <4>1. CASE Machine
        BY <3>2, <4>1 DEF Machine, PlugIn, Unplug, FallAsleep, WakeUp, BeginTransition,
                          PowerChange
      <4>2. CASE Poll
        <5>1. ~RetireAt(at)
          BY <1>4, <4>2 DEF Poll, RetiresAtIndex, IInv, TypeOK
        <5> QED  BY <3>2, <4>2, <5>1 DEF Poll, ReportAt
      <4>3. CASE RetireDead
        BY <1>4, <4>3 DEF RetireDead, RetiresAtIndex
      <4>4. CASE ~Machine /\ ~Poll /\ ~RetireDead
        BY <1>4, <3>2, <3>3, <4>4 DEF Next, Step, ProbeStep, PassStep, StartProbe, SkipBackend,
           AskBackend, FinishProbe, StartPass, AskPowerState, ReportSuspended, ReportAt,
           FinishPass, vars
      <4> QED  BY <4>1, <4>2, <4>3, <4>4
    <3> QED  BY <3>1, <3>3
  <2> QED  BY <1>4, <2>1 DEF Claims, Promise!listVars
<1> QED  BY <1>1, <1>2, <1>3, <1>4, StepCases

\* The registry is an implementation of GpuList.
THEOREM RegistryImplementsGpuList == Spec => ImplementsGpuList
<1>1. Init => Promise!Init /\ AskedIsDue
  BY ConstantFacts
     DEF Init, Promise!Init, Claims, Listed, Scheduled, Never, AskedIsDue
<1>2. IInv /\ AskedIsDue /\ [Next]_vars => AskedIsDue'
  BY NextAskedIsDue
<1>3. IInv /\ AskedIsDue /\ [Next]_vars => [Promise!Next]_(Promise!listVars)
  BY NextImplements
<1> QED
  BY <1>1, <1>2, <1>3, RegistryInvariant, PTL DEF Spec, ImplementsGpuList, Promise!Spec

--------------------------------------------------------------------------------
(***************************************************************************)
(* The loops of probe() and sample_all(): a pass that erases while it      *)
(* iterates covers what it leaves listed, and every call ends.             *)
(***************************************************************************)

(***************************************************************************)
(* Where a pass is: how far, with which readings, through which list.      *)
(***************************************************************************)
Reported ==
  /\ at \in 1..(Len(devices) + 1) /\ Len(readings) = at - 1
  /\ \A i \in 1..(at - 1) : readings[i].key = devices[i].key

InRosterOrder ==
  \A i, j \in DOMAIN devices : i <= j =>
    \E k, l \in DOMAIN roster :
      k <= l /\ roster[k] = devices[i] /\ roster[l] = devices[j]

PassInv == pc \in {"sample", "read"} => Reported /\ InRosterOrder

LEMMA RetireKeepsPass ==
  ASSUME TypeOK, ListInv, NEW i \in DOMAIN devices, at = i, RetireAt(i),
         Reported, InRosterOrder, roster' = roster
  PROVE  Reported' /\ InRosterOrder'
<1>1. /\ Len(devices) \in Nat /\ i \in 1..Len(devices)
      /\ DOMAIN devices = 1..Len(devices)
  BY ListedAreEntries DEF TypeOK
<1>2. devices' = RemoveAt(devices, i) /\ at' = i /\ readings' = readings
  BY DEF RetireAt, Retire
<1>3. /\ Len(devices') = Len(devices) - 1 /\ DOMAIN devices' = 1..(Len(devices) - 1)
      /\ \A j \in 1..(Len(devices) - 1) :
           devices'[j] = IF j < i THEN devices[j] ELSE devices[j + 1]
  <2>1. /\ devices' \in Seq(Entries) /\ Len(devices') = Len(devices) - 1
        /\ \A j \in 1..(Len(devices) - 1) :
             devices'[j] = IF j < i THEN devices[j] ELSE devices[j + 1]
    BY <1>1, <1>2, RemoveAtElements DEF TypeOK
  <2> QED  BY <2>1, LenProperties
<1>4. Reported'
  BY <1>1, <1>2, <1>3 DEF Reported
<1>5. ASSUME NEW j \in DOMAIN devices', NEW k \in DOMAIN devices', j <= k
      PROVE  \E m, n \in DOMAIN roster :
               m <= n /\ roster[m] = devices'[j] /\ roster[n] = devices'[k]
  <2> DEFINE Old(m) == IF m < i THEN m ELSE m + 1
  <2>1. /\ Old(j) \in DOMAIN devices /\ Old(k) \in DOMAIN devices /\ Old(j) <= Old(k)
        /\ devices'[j] = devices[Old(j)] /\ devices'[k] = devices[Old(k)]
    BY <1>1, <1>3, <1>5
  <2> HIDE DEF Old
  <2> QED  BY <2>1 DEF InRosterOrder
<1>6. InRosterOrder'
  BY <1>5 DEF InRosterOrder
<1> QED  BY <1>4, <1>6

LEMMA ReportKeepsPass ==
  ASSUME TypeOK, NEW polled \in BOOLEAN, at \in DOMAIN devices, ReportAt(at, polled),
         Reported, InRosterOrder, roster' = roster
  PROVE  Reported' /\ InRosterOrder'
<1> DEFINE new == [key |-> devices[at].key, polled |-> polled]
<1>1. /\ Len(devices) \in Nat /\ at \in 1..Len(devices) /\ new \in Readings
      /\ readings \in Seq(Readings)
  BY ListedAreEntries DEF TypeOK, Entries, Readings
<1>2. devices' = devices /\ at' = at + 1 /\ readings' = Append(readings, new)
  BY DEF ReportAt
<1>3. /\ Len(readings') = Len(readings) + 1
      /\ \A i \in 1..Len(readings) : readings'[i] = readings[i]
      /\ readings'[Len(readings) + 1] = new
  BY <1>1, <1>2, AppendProperties
<1>4. Reported'
  BY <1>1, <1>2, <1>3 DEF Reported
<1> QED  BY <1>2, <1>4 DEF InRosterOrder

LEMMA NextPassInv == IInv /\ PassInv /\ [Next]_vars => PassInv'
<1> SUFFICES ASSUME IInv, PassInv, [Next]_vars  PROVE PassInv'
  OBVIOUS
<1> USE DEF PassInv
<1>1. CASE UNCHANGED <<devices, roster, at, readings>> /\ (pc' \in {"sample", "read"} => pc \in {"sample", "read"})
  BY <1>1 DEF Reported, InRosterOrder
<1>2. CASE StartPass
  <2>1. /\ at' = 1 /\ readings' = <<>> /\ roster' = devices /\ devices' = devices
        /\ Len(devices) \in Nat
    BY <1>2, ListedAreEntries DEF StartPass, IInv, TypeOK
  <2> QED  BY <2>1 DEF Reported, InRosterOrder
<1>3. CASE RetireDead
  BY <1>3, RetireKeepsPass DEF RetireDead, IInv
<1>4. CASE ReportSuspended
  BY <1>4, ReportKeepsPass DEF ReportSuspended, IInv, TypeOK
<1>5. CASE Poll
  <2>1. at \in DOMAIN devices /\ Reported /\ InRosterOrder /\ roster' = roster
    BY <1>5 DEF Poll, IInv, TypeOK
  <2>2. CASE RetireAt(at)
    BY <2>1, <2>2, RetireKeepsPass DEF IInv
  <2>3. CASE ReportAt(at, TRUE)
    BY <2>1, <2>3, ReportKeepsPass DEF IInv
  <2> QED  BY <1>5, <2>2, <2>3 DEF Poll
<1>6. CASE AskPowerState \/ UNCHANGED vars
  BY <1>1, <1>6 DEF AskPowerState, vars
<1>7. CASE Machine
  <2>1. \E g, before, after : PowerChange(g, before, after)
    BY <1>7 DEF Machine, PlugIn, Unplug, FallAsleep, WakeUp, BeginTransition
  <2> QED  BY <1>1, <2>1 DEF PowerChange
<1>8. CASE \/ StartProbe \/ SkipBackend \/ AskBackend \/ AdoptFound \/ ScheduleBackend
           \/ FinishProbe \/ FinishPass \/ Tick
  BY <1>8 DEF StartProbe, SkipBackend, AskBackend, AdoptFound, ScheduleBackend,
     FinishProbe, FinishPass, Tick
<1> QED
  BY <1>2, <1>3, <1>4, <1>5, <1>6, <1>7, <1>8 DEF Next, Step, ProbeStep, PassStep

\* A pass reports every device it leaves in the list, once and in its place, whatever
\* it erases on the way.
THEOREM PassesCoverTheSurvivors == Spec => []PassCoversTheSurvivors
<1>1. Init => PassInv
  BY DEF Init, PassInv
<1>2. IInv /\ PassInv /\ [Next]_vars => PassInv'
  BY NextPassInv
<1>3. IInv /\ PassInv => PassCoversTheSurvivors
  BY ListedAreEntries DEF IInv, TypeOK, PassInv, Reported, InRosterOrder, PassCoversTheSurvivors
<1> QED  BY <1>1, <1>2, <1>3, RegistryInvariant, PTL DEF Spec

(***************************************************************************)
(* Every step of a call leaves less of it to do.                           *)
(***************************************************************************)
LoopInv == pc = "probe" => at \in 1..(NBackends + 1)

LEMMA NextLoopInv == IInv /\ LoopInv /\ [Next]_vars => LoopInv'
<1> SUFFICES ASSUME IInv, LoopInv, [Next]_vars, pc' = "probe"
             PROVE  at' \in 1..(NBackends + 1)
  BY DEF LoopInv
<1>1. CASE StartProbe
  BY <1>1, BackendAssumption DEF StartProbe
<1>2. CASE SkipBackend \/ ScheduleBackend
  BY <1>2, BackendAssumption DEF SkipBackend, ScheduleBackend, IInv, TypeOK, Backends
<1>3. CASE Machine
  BY <1>3 DEF Machine, PlugIn, Unplug, FallAsleep, WakeUp, BeginTransition, PowerChange, LoopInv
<1>4. CASE Tick \/ UNCHANGED vars
  BY <1>4 DEF Tick, LoopInv, vars
<1>5. CASE \/ AskBackend \/ AdoptFound \/ FinishProbe \/ StartPass \/ PassStep
  BY <1>5 DEF AskBackend, AdoptFound, FinishProbe, StartPass, PassStep, RetireDead,
     AskPowerState, ReportSuspended, Poll, FinishPass
<1> QED  BY <1>1, <1>2, <1>3, <1>4, <1>5 DEF Next, Step, ProbeStep

\* A backend returns at most one driver for each GPU.
LEMMA FoundIsFew ==
  ASSUME IInv, AskBackend
  PROVE  IsFiniteSet(found') /\ Cardinality(found') <= Cardinality(Gpus)
<1>1. PICK dead, lost : found' =
        {[gpu |-> g, healthy |-> g \notin dead, addressed |-> g \notin lost] : g \in Listable(at)}
  BY DEF AskBackend
<1> DEFINE made == [g \in Listable(at) |->
                      [gpu |-> g, healthy |-> g \notin dead, addressed |-> g \notin lost]]
<1>2. IsFiniteSet(Gpus) /\ Listable(at) \subseteq Gpus
  BY BackendAssumption DEF AskBackend, Listable
<1>3. IsFiniteSet(Listable(at)) /\ Cardinality(Listable(at)) <= Cardinality(Gpus)
  BY <1>2, FS_Subset
<1>4. made \in Surjection(Listable(at), found')
  BY <1>1 DEF Surjection
<1>5. IsFiniteSet(found') /\ Cardinality(found') <= Cardinality(Listable(at))
  BY <1>3, <1>4, FS_Surjection
<1> QED  BY <1>2, <1>3, <1>5, FS_CardinalityType

FoundIsFinite == IsFiniteSet(found)

LEMMA NextFoundIsFinite == IInv /\ FoundIsFinite /\ [Next]_vars => FoundIsFinite'
<1> SUFFICES ASSUME IInv, FoundIsFinite, [Next]_vars  PROVE FoundIsFinite'
  OBVIOUS
<1>1. CASE AskBackend
  BY <1>1, FoundIsFew DEF FoundIsFinite
<1>2. CASE AdoptFound
  BY <1>2, FS_RemoveElement DEF AdoptFound, FoundIsFinite
<1>3. CASE Machine
  BY <1>3 DEF Machine, PlugIn, Unplug, FallAsleep, WakeUp, BeginTransition, PowerChange, FoundIsFinite
<1>4. CASE ~AskBackend /\ ~AdoptFound /\ ~Machine
  BY <1>4 DEF Next, Step, ProbeStep, PassStep, StartProbe, SkipBackend, ScheduleBackend,
     FinishProbe, StartPass, RetireDead, AskPowerState, ReportSuspended, ReportAt, Poll,
     RetireAt, Retire, FinishPass, Tick, FoundIsFinite, vars
<1> QED  BY <1>1, <1>2, <1>3, <1>4

Less == Remaining > 0 /\ Remaining' < Remaining

LEMMA ProbeStepIsProgress ==
  ASSUME IInv, LoopInv, FoundIsFinite, ProbeStep
  PROVE  Less
<1>1. /\ Cardinality(Gpus) \in Nat /\ NBackends \in Nat /\ Cardinality(found) \in Nat
      /\ StepsPerBackend = Cardinality(Gpus) + 2
  BY BackendAssumption, FS_CardinalityType DEF StepsPerBackend, FoundIsFinite
<1>2. PICK S \in Nat : S = StepsPerBackend /\ S = Cardinality(Gpus) + 2
  BY <1>1
<1>3. at \in 1..(NBackends + 1)
  BY <1>1 DEF ProbeStep, SkipBackend, AskBackend, AdoptFound, ScheduleBackend, FinishProbe,
              LoopInv, IInv, TypeOK, Backends
<1> DEFINE rest == (NBackends + 1 - at) * S
<1>4. /\ rest \in Nat /\ (NBackends + 2 - at) * S = rest + S
      /\ at \in Backends => rest >= S
  <2>1. PICK n \in Nat : n = NBackends + 1 - at
    BY <1>1, <1>3
  <2>2. n * S \in Nat /\ (n + 1) * S = n * S + S /\ (n >= 1 => n * S >= S)
    <3>1. n * S \in Nat /\ (n + 1) * S = n * S + S
      BY <1>2
    <3>2. ASSUME n >= 1  PROVE n * S >= S
      <4>1. PICK m \in Nat : n = m + 1
        BY <3>2
      <4>2. m * S \in Nat /\ (m + 1) * S = m * S + S
        BY <1>2
      <4> QED  BY <4>1, <4>2, <1>2
    <3> QED  BY <3>1, <3>2
  <2>3. NBackends + 2 - at = n + 1 /\ (at \in Backends => n >= 1)
    BY <2>1, <1>1, <1>3 DEF Backends
  <2> QED  BY <2>1, <2>2, <2>3
<1>5. /\ pc = "probe" => Remaining = rest + S - 1
      /\ pc = "adopt" => Remaining = rest + Cardinality(found)
  <2>1. pc = "probe" => Remaining = (NBackends + 2 - at) * S - 1
    BY <1>2 DEF Remaining
  <2>2. pc = "adopt" => Remaining = (NBackends + 1 - at) * S + Cardinality(found)
    BY <1>2 DEF Remaining
  <2> QED  BY <2>1, <2>2, <1>4
<1>6. /\ pc' = "probe" /\ at' = at + 1 => Remaining' = rest - 1
      /\ pc' = "adopt" /\ at' = at => Remaining' = rest + Cardinality(found')
      /\ pc' = "idle" => Remaining' = 0
  <2>1. pc' = "probe" => Remaining' = (NBackends + 2 - at') * S - 1
    BY <1>2 DEF Remaining, StepsPerBackend
  <2>2. pc' = "adopt" => Remaining' = (NBackends + 1 - at') * S + Cardinality(found')
    BY <1>2 DEF Remaining, StepsPerBackend
  <2>3. pc' = "idle" => Remaining' = 0
    BY DEF Remaining
  <2>4. NBackends + 2 - (at + 1) = NBackends + 1 - at
    BY <1>1, <1>3
  <2> QED  BY <2>1, <2>2, <2>3, <2>4
<1> HIDE DEF rest
<1>7. CASE SkipBackend
  BY <1>1, <1>2, <1>4, <1>5, <1>6, <1>7 DEF SkipBackend, Less
<1>8. CASE AskBackend
  <2>1. Cardinality(found') \in Nat /\ Cardinality(found') <= S - 2
    BY <1>1, <1>2, <1>8, FoundIsFew, FS_CardinalityType
  <2>2. pc = "probe" /\ pc' = "adopt" /\ at' = at
    BY <1>8 DEF AskBackend
  <2> QED  BY <1>1, <1>2, <1>4, <1>5, <1>6, <2>1, <2>2 DEF Less
<1>9. CASE AdoptFound
  <2>1. PICK d \in found : found' = found \ {d}
    BY <1>9 DEF AdoptFound
  <2>2. Cardinality(found') = Cardinality(found) - 1
    BY <2>1, FS_RemoveElement DEF FoundIsFinite
  <2>3. pc = "adopt" /\ pc' = "adopt" /\ at' = at
    BY <1>9 DEF AdoptFound
  <2>4. Cardinality(found) # 0
    BY <2>1, FS_EmptySet DEF FoundIsFinite
  <2> QED  BY <1>1, <1>2, <1>4, <1>5, <1>6, <2>2, <2>3, <2>4 DEF Less
<1>10. CASE ScheduleBackend
  <2>1. Cardinality(found) = 0
    BY <1>10, FS_EmptySet DEF ScheduleBackend
  <2>2. pc = "adopt" /\ pc' = "probe" /\ at' = at + 1 /\ at \in Backends
    BY <1>10 DEF ScheduleBackend, IInv, TypeOK
  <2> QED  BY <1>1, <1>2, <1>4, <1>5, <1>6, <2>1, <2>2 DEF Less
<1>11. CASE FinishProbe
  <2>1. pc = "probe" /\ pc' = "idle"
    BY <1>11 DEF FinishProbe
  <2> QED  BY <1>1, <1>2, <1>4, <1>5, <1>6, <2>1 DEF Less
<1> QED  BY <1>7, <1>8, <1>9, <1>10, <1>11 DEF ProbeStep

LEMMA PassStepIsProgress ==
  ASSUME IInv, PassInv, PassStep
  PROVE  Less
<1>1. /\ Len(devices) \in Nat /\ DOMAIN devices = 1..Len(devices)
      /\ at \in 1..(Len(devices) + 1)
  BY ListedAreEntries DEF IInv, TypeOK, PassInv, Reported, PassStep, RetireDead, AskPowerState,
     ReportSuspended, Poll, FinishPass
<1>2. /\ pc = "sample" => Remaining = 2 * (Len(devices) + 1 - at) + 1
      /\ pc = "read" => Remaining = 2 * (Len(devices) + 1 - at) /\ at \in 1..Len(devices)
      /\ pc' = "sample" => Remaining' = 2 * (Len(devices') + 1 - at') + 1
      /\ pc' = "read" => Remaining' = 2 * (Len(devices') + 1 - at')
      /\ pc' = "idle" => Remaining' = 0
  BY <1>1 DEF Remaining, IInv, TypeOK
<1>3. ASSUME NEW polled \in BOOLEAN, ReportAt(at, polled), pc = "read", pc' = "sample"
      PROVE  Less
  BY <1>1, <1>2, <1>3 DEF ReportAt, Less
<1>4. ASSUME RetireAt(at), at \in DOMAIN devices, pc \in {"sample", "read"}, pc' = "sample"
      PROVE  Less
  <2>1. Len(devices') = Len(devices) - 1 /\ at' = at
    BY <1>4, ListedAfterErase DEF RetireAt, Retire, IInv, TypeOK, ListInv
  <2> QED  BY <1>1, <1>2, <1>4, <2>1 DEF Less
<1>5. CASE RetireDead
  BY <1>4, <1>5 DEF RetireDead
<1>6. CASE AskPowerState
  BY <1>1, <1>2, <1>6 DEF AskPowerState, Less
<1>7. CASE ReportSuspended
  BY <1>3, <1>7 DEF ReportSuspended
<1>8. CASE Poll
  BY <1>1, <1>2, <1>3, <1>4, <1>8 DEF Poll
<1>9. CASE FinishPass
  BY <1>1, <1>2, <1>9 DEF FinishPass, Less
<1> QED  BY <1>5, <1>6, <1>7, <1>8, <1>9 DEF PassStep

\* Every step of a call leaves less of it to do, so that every call ends.
THEOREM CallsComeToAnEnd == Spec => CallsEnd
<1>1. Init => LoopInv /\ FoundIsFinite /\ PassInv
  BY FS_EmptySet DEF Init, LoopInv, FoundIsFinite, PassInv
<1>2. IInv /\ LoopInv /\ [Next]_vars => LoopInv'
  BY NextLoopInv
<1>3. IInv /\ FoundIsFinite /\ [Next]_vars => FoundIsFinite'
  BY NextFoundIsFinite
<1>4. IInv /\ PassInv /\ [Next]_vars => PassInv'
  BY NextPassInv
<1>5. IInv /\ LoopInv /\ FoundIsFinite /\ PassInv /\ Step => Less
  BY ProbeStepIsProgress, PassStepIsProgress DEF Step
<1> QED
  BY <1>1, <1>2, <1>3, <1>4, <1>5, RegistryInvariant, PTL DEF Spec, CallsEnd, Less
================================================================================
