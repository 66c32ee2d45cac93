------------------------ MODULE Reconciliation_proofs ------------------------
(***************************************************************************)
(* What TLAPS proves of the pure part of a reconcile pass, for any number  *)
(* of records: whatever FilterRecordIntents keeps is consistent, and every *)
(* plan of ReconcileAndValidate takes away no more than it must, takes     *)
(* away all that is stale, and adds only what fits the rest.               *)
(***************************************************************************)
EXTENDS Reconciliation, DataLemmas

\* The loop of FilterRecordIntents over the intents, one Insert each.
LEMMA FoldRecursion ==
  ASSUME NEW X, NEW intents \in Seq(X)
  PROVE  \E g : /\ g = [i \in 0..Len(intents) |->
                          IF i = 0 THEN {} ELSE Insert(g[i - 1], intents[i])]
                /\ FoldLeft(Insert, {}, intents) = g[Len(intents)]
<1> DEFINE Solves(g, n) ==
      g = [s \in SUBSET (1..n) |->
             IF s = {} THEN {} ELSE Insert(g[s \ {Max(s)}], intents[Max(s)])]
           P == {n \in Nat : \E g : Solves(g, n)}
<1>1. 0 \in P
  <2>1. Solves([s \in SUBSET (1..0) |-> {}], 0)
    OBVIOUS
  <2> QED BY <2>1
<1>2. ASSUME NEW n \in Nat, n \in P
      PROVE  n + 1 \in P
  <2>1. PICK g : Solves(g, n)
    BY <1>2
  <2> DEFINE h == [s \in SUBSET (1..(n + 1)) |->
                     IF n + 1 \in s THEN Insert(g[s \ {n + 1}], intents[n + 1]) ELSE g[s]]
  <2>2. ASSUME NEW s \in SUBSET (1..(n + 1))
        PROVE  h[s] = IF s = {} THEN {} ELSE Insert(h[s \ {Max(s)}], intents[Max(s)])
    <3>1. CASE n + 1 \in s
      <4>1. Max(s) = n + 1
        BY <3>1, MaxInterval
      <4>2. h[s] = Insert(g[s \ {n + 1}], intents[n + 1])
        BY <3>1
      <4>3. h[s \ {n + 1}] = g[s \ {n + 1}]
        OBVIOUS
      <4> HIDE DEF h
      <4> QED BY <3>1, <4>1, <4>2, <4>3
    <3>2. CASE n + 1 \notin s
      <4>1. s \in SUBSET (1..n) /\ h[s] = g[s]
        BY <3>2
      <4>2. h[s \ {Max(s)}] = g[s \ {Max(s)}]
        BY <3>2
      <4>3. g[s] = IF s = {} THEN {} ELSE Insert(g[s \ {Max(s)}], intents[Max(s)])
        BY <2>1, <4>1
      <4> HIDE DEF h
      <4> QED BY <4>1, <4>2, <4>3
    <3> QED BY <3>1, <3>2
  <2>3. Solves(h, n + 1)
    BY <2>2, Zenon
  <2> HIDE DEF Solves, h
  <2> QED BY <2>3
<1>3. Nat \subseteq P
  <2> HIDE DEF P
  <2> QED BY <1>1, <1>2, NatSetInduction
<1>4. DOMAIN intents = 1..Len(intents)
  OBVIOUS
<1>5. PICK g0 : Solves(g0, Len(intents))
  <2>1. Len(intents) \in P
    <3> HIDE DEF P
    <3> QED BY <1>3
  <2> QED BY <2>1
<1>6. PICK g : Solves(g, Len(intents)) /\ FoldLeft(Insert, {}, intents) = g[1..Len(intents)]
  BY <1>4, <1>5, Zenon DEF FoldLeft, MapThenFoldSet
<1> DEFINE f == [i \in 0..Len(intents) |-> g[1..i]]
<1>7. ASSUME NEW i \in 0..Len(intents)
      PROVE  f[i] = IF i = 0 THEN {} ELSE Insert(f[i - 1], intents[i])
  <2>1. CASE i = 0
    BY <1>6, <2>1
  <2>2. CASE i # 0
    <3>1. Max(1..i) = i
      <4>1. i - 1 \in Nat /\ (i - 1) + 1 = i /\ 1..i \in SUBSET (1..i) /\ i \in 1..i
        BY <2>2
      <4> QED BY <4>1, MaxInterval
    <3>2. /\ (1..i) \ {i} = 1..(i - 1)
          /\ 1..i # {}
          /\ 1..i \in SUBSET (1..Len(intents))
      <4>1. 1..i # {} /\ 1..i \in SUBSET (1..Len(intents))
        <5>1. i \in 1..i
          BY <2>2
        <5> QED BY <5>1
      <4>2. \A j : j \in (1..i) \ {i} <=> j \in 1..(i - 1)
        BY <2>2
      <4> QED BY <4>1, <4>2
    <3>3. g[1..i] = Insert(g[(1..i) \ {i}], intents[i])
      BY <1>6, <3>1, <3>2
    <3>4. f[i] = g[1..i] /\ f[i - 1] = g[1..(i - 1)]
      BY <2>2
    <3> HIDE DEF f
    <3> QED BY <2>2, <3>2, <3>3, <3>4
  <2> QED BY <2>1, <2>2
<1>8. f = [i \in 0..Len(intents) |-> IF i = 0 THEN {} ELSE Insert(f[i - 1], intents[i])]
  BY <1>7, Zenon
<1>9. FoldLeft(Insert, {}, intents) = f[Len(intents)]
  BY <1>6
<1> HIDE DEF f
<1> QED BY <1>8, <1>9

\* FilterRecordIntents invents nothing, and what it keeps is consistent: no CNAME
\* beside another record of its name, none twice.
LEMMA FilterSound ==
  ASSUME NEW X, NEW intents \in Seq(X)
  PROVE  /\ FilterRecordIntents(intents) \subseteq ToSet(intents)
         /\ Consistent(FilterRecordIntents(intents))
<1>1. PICK g : /\ g = [i \in 0..Len(intents) |->
                         IF i = 0 THEN {} ELSE Insert(g[i - 1], intents[i])]
               /\ FoldLeft(Insert, {}, intents) = g[Len(intents)]
  BY FoldRecursion
<1> DEFINE Good(kept) == /\ kept \subseteq ToSet(intents)
                         /\ \A r, s \in kept : r # s => ~SameSlot(r, s)
           P == {i \in Nat : i <= Len(intents) => Good(g[i])}
<1>2. 0 \in P
  BY <1>1
<1>3. ASSUME NEW i \in Nat, i \in P
      PROVE  i + 1 \in P
  <2> SUFFICES ASSUME i + 1 <= Len(intents) PROVE Good(g[i + 1])
    OBVIOUS
  <2>1. g[i + 1] = Insert(g[i], intents[i + 1])
    <3>1. i + 1 \in 0..Len(intents) /\ i + 1 # 0 /\ (i + 1) - 1 = i
      OBVIOUS
    <3> QED BY <1>1, <3>1
  <2>2. Good(g[i])
    BY <1>3
  <2>3. intents[i + 1] \in ToSet(intents)
    BY DEF ToSet
  <2>4. g[i + 1] \subseteq ToSet(intents)
    BY <2>1, <2>2, <2>3 DEF Insert
  <2>5. ASSUME NEW r \in g[i + 1], NEW s \in g[i + 1], r # s, SameSlot(r, s)
        PROVE  FALSE
    <3> DEFINE rivals == {q \in g[i] : SameSlot(q, intents[i + 1])}
    <3>1. g[i + 1] \in {(g[i] \ rivals) \cup {intents[i + 1]}, g[i]}
      BY <2>1 DEF Insert
    <3>2. SameSlot(s, r)
      BY <2>5 DEF SameSlot, IsCNAME
    <3> QED BY <2>2, <2>5, <3>1, <3>2
  <2> QED BY <2>4, <2>5
<1>4. Good(g[Len(intents)])
  <2>1. Nat \subseteq P
    <3> HIDE DEF P
    <3> QED BY <1>2, <1>3, NatSetInduction
  <2> QED BY <2>1
<1> DEFINE kept == g[Len(intents)]
<1>5. FilterRecordIntents(intents) = ChooseKind(kept)
  BY <1>1, Zenon DEF FilterRecordIntents
<1> HIDE DEF kept
<1>6. ASSUME NEW r \in ChooseKind(kept), NEW s \in ChooseKind(kept), r # s, r.name = s.name,
             IsCNAME(r)
      PROVE  FALSE
  <2>1. ~IsCNAME(s)
    BY <1>4, <1>6 DEF kept, ChooseKind, SameSlot, IsCNAME
  <2>2. ShouldReplaceAllExisting(r, Addresses(kept, s.name))
    BY <1>6 DEF ChooseKind
  <2>3. r \in CNAMEs(kept, s.name)
    BY <1>6 DEF ChooseKind, CNAMEs, At
  <2> QED BY <2>1, <2>2, <2>3 DEF ChooseKind
<1>7. Consistent(ChooseKind(kept))
  BY <1>4, <1>6 DEF kept, Consistent, Fits, SameRecord, SameSlot, ChooseKind
<1> QED BY <1>4, <1>5, <1>7 DEF kept, ChooseKind

-----------------------------------------------------------------------------
\* The plans.

StaleKeys(me, desired, actual, dead) ==
  {Key(r) : r \in {s \in ToSet(actual) : Stale(me, desired, dead, s)}}

\* g[S]: the plans for a part S of the desired records, from those for all but
\* one of it.
IsPlans(g, me, desired, actual, dead) ==
  g = [S \in SUBSET desired |->
         IF S = {}
         THEN {[add |-> {}, rem |-> StaleKeys(me, desired, actual, dead)]}
         ELSE UNION {UNION {Considered(d, p, Lookup(me, desired, actual, dead), actual) :
                              p \in g[S \ {d}]} : d \in S}]

\* ReconcileAndValidate treats the desired records one after another, in any order.
LEMMA PlansRecursion ==
  ASSUME NEW me, NEW desired, IsFiniteSet(desired), NEW actual, NEW dead
  PROVE  \E g : /\ IsPlans(g, me, desired, actual, dead)
                /\ ReconcileAndValidate(me, desired, actual, dead) = g[desired]
<1> DEFINE lookup == Lookup(me, desired, actual, dead)
           stale == StaleKeys(me, desired, actual, dead)
           UpTo(n) == {S \in SUBSET desired : Cardinality(S) <= n}
           Body(g, S) == UNION {UNION {Considered(d, p, lookup, actual) : p \in g[S \ {d}]} : d \in S}
           Value(g, S) == IF S = {} THEN {[add |-> {}, rem |-> stale]} ELSE Body(g, S)
           Solves(g, D) == g = [S \in D |-> Value(g, S)]
           P == {n \in Nat : \E g : Solves(g, UpTo(n))}
<1>1. \A S \in SUBSET desired : /\ Cardinality(S) \in Nat
                                /\ \A d \in S : Cardinality(S \ {d}) = Cardinality(S) - 1
  BY FS_Subset, FS_CardinalityType, FS_RemoveElement
<1>2. 0 \in P
  <2>1. \A S \in UpTo(0) : S = {}
    BY <1>1, FS_EmptySet, FS_Subset
  <2>2. Solves([S \in UpTo(0) |-> {[add |-> {}, rem |-> stale]}], UpTo(0))
    <3> HIDE DEF UpTo, Body
    <3> QED BY <2>1
  <2> HIDE DEF Solves, UpTo
  <2> QED BY <2>2
<1>3. ASSUME NEW n \in Nat, n \in P
      PROVE  n + 1 \in P
  <2>1. PICK g : Solves(g, UpTo(n))
    BY <1>3
  <2> DEFINE h == [S \in UpTo(n + 1) |-> IF S \in UpTo(n) THEN g[S] ELSE Value(g, S)]
  <2>2. ASSUME NEW S \in UpTo(n + 1)
        PROVE  h[S] = Value(h, S)
    <3>1. ASSUME NEW d \in S
          PROVE  S \ {d} \in UpTo(n) /\ S \ {d} \in UpTo(n + 1)
      BY <1>1
    <3>2. \A d \in S : h[S \ {d}] = g[S \ {d}]
      <4> HIDE DEF UpTo
      <4> QED BY <3>1
    <3>3. Value(h, S) = Value(g, S)
      <4> HIDE DEF h
      <4> DEFINE A(d) == UNION {Considered(d, p, lookup, actual) : p \in h[S \ {d}]}
                 B(d) == UNION {Considered(d, p, lookup, actual) : p \in g[S \ {d}]}
      <4>1. \A d \in S : A(d) = B(d)
        BY <3>2
      <4>2. {A(d) : d \in S} = {B(d) : d \in S}
        <5> HIDE DEF A, B
        <5> QED BY <4>1
      <4> QED BY <4>2, Zenon
    <3>4. h[S] = IF S \in UpTo(n) THEN g[S] ELSE Value(g, S)
      <4> HIDE DEF UpTo, Value
      <4> QED OBVIOUS
    <3>5. S \in UpTo(n) => g[S] = Value(g, S)
      <4> HIDE DEF UpTo, Body
      <4> QED BY <2>1
    <3> HIDE DEF h, Value
    <3> QED BY <3>3, <3>4, <3>5
  <2>3. Solves(h, UpTo(n + 1))
    <3> HIDE DEF Value, UpTo
    <3> QED BY <2>2, Zenon
  <2> HIDE DEF Solves, h, UpTo
  <2> QED BY <2>3
<1>4. Nat \subseteq P
  <2> HIDE DEF P
  <2> QED BY <1>2, <1>3, NatSetInduction
<1>5. PICK g0 : Solves(g0, SUBSET desired)
  <2>1. Cardinality(desired) \in Nat
    BY FS_CardinalityType
  <2>2. UpTo(Cardinality(desired)) = SUBSET desired
    BY FS_Subset
  <2>3. Cardinality(desired) \in P
    <3> HIDE DEF P
    <3> QED BY <1>4, <2>1
  <2> HIDE DEF Solves
  <2> QED BY <2>2, <2>3
<1>6. \E g : Solves(g, SUBSET desired) /\ ReconcileAndValidate(me, desired, actual, dead) = g[desired]
  BY <1>5, Zenon DEF ReconcileAndValidate, StaleKeys
<1> QED BY <1>6, Zenon DEF IsPlans

\* What holds of the plan that removes the stale records only, and is preserved
\* by the treatment of each desired record, holds of every plan.
LEMMA PlansInduction ==
  ASSUME NEW me, NEW desired, IsFiniteSet(desired), NEW actual, NEW dead,
         NEW P,
         [add |-> {}, rem |-> StaleKeys(me, desired, actual, dead)] \in P,
         \A d \in desired, p \in P :
           Considered(d, p, Lookup(me, desired, actual, dead), actual) \subseteq P
  PROVE  ReconcileAndValidate(me, desired, actual, dead) \subseteq P
<1>1. PICK g : /\ IsPlans(g, me, desired, actual, dead)
               /\ ReconcileAndValidate(me, desired, actual, dead) = g[desired]
  BY PlansRecursion
<1> DEFINE Q == {S \in SUBSET desired : g[S] \subseteq P}
<1>2. {} \in Q
  BY <1>1 DEF IsPlans
<1>3. ASSUME NEW S \in SUBSET desired, \A d \in S : S \ {d} \in Q
      PROVE  S \in Q
  <2>1. CASE S = {}
    BY <1>2, <2>1
  <2>2. CASE S # {}
    <3>1. g[S] = UNION {UNION {Considered(d, p, Lookup(me, desired, actual, dead), actual) :
                                 p \in g[S \ {d}]} : d \in S}
      BY <1>1, <2>2 DEF IsPlans
    <3>2. \A d \in S : \A p \in g[S \ {d}] :
            Considered(d, p, Lookup(me, desired, actual, dead), actual) \subseteq P
      BY <1>3
    <3>3. ASSUME NEW q \in g[S] PROVE q \in P
      <4>1. PICK d \in S : \E p \in g[S \ {d}] :
               q \in Considered(d, p, Lookup(me, desired, actual, dead), actual)
        BY <3>1, <3>3
      <4> QED BY <3>2, <4>1
    <3> QED BY <3>3
  <2> QED BY <2>1, <2>2
<1>4. desired \in Q
  <2> HIDE DEF Q
  <2> QED BY <1>3, FiniteSetInduction
<1> QED BY <1>1, <1>4

\* What holds of every plan on the way.
Removable(actual) == {Key(r) : r \in ToSet(actual)}

\* k goes in favour of a record that is added.
Displaced(k, add, lookup) ==
  \E d \in add : \E r, first \in Rivals(d, lookup) :
    k = Key(r) /\ Evicts(d, Rivals(d, lookup), first)

\* A plan is sound if it removes all that is stale, whatever else it removes goes
\* in favour of a record it adds, and what it adds fits what it leaves.
SoundPlans(me, desired, actual, dead) ==
  {p \in [add : SUBSET desired, rem : SUBSET Removable(actual)] :
     /\ StaleKeys(me, desired, actual, dead) \subseteq p.rem
     /\ \A k \in p.rem : \/ k \in StaleKeys(me, desired, actual, dead)
                         \/ Displaced(k, p.add, Lookup(me, desired, actual, dead))
     /\ \A d \in p.add, r \in ToSet(actual) : Key(r) \notin p.rem => Fits(d, r)}

\* Adding one valid record, with evictions in its favour, keeps a plan sound.
LEMMA TryAddSound ==
  ASSUME NEW X, NEW actual \in Seq(X), NEW me, NEW desired, NEW dead,
         NEW p \in SoundPlans(me, desired, actual, dead), NEW d \in desired,
         NEW E \in SUBSET Removable(actual),
         \A k \in E : Displaced(k, {d}, Lookup(me, desired, actual, dead))
  PROVE  TryAdd(d, E, p, actual) \in SoundPlans(me, desired, actual, dead)
<1> DEFINE gone == p.rem \cup E
           simulated == Only(actual, {r \in ToSet(actual) : Key(r) \notin gone})
           q == [add |-> p.add \cup {d}, rem |-> gone]
<1>1. ToSet(simulated) = {r \in ToSet(actual) : Key(r) \notin gone}
  BY OnlyContents
<1>2. TryAdd(d, E, p, actual) = IF ValidateRecord(d, simulated) THEN q ELSE p
  BY DEF TryAdd
<1>3. CASE ValidateRecord(d, simulated)
  <2>1. q \in [add : SUBSET desired, rem : SUBSET Removable(actual)]
    BY DEF SoundPlans
  <2>2. StaleKeys(me, desired, actual, dead) \subseteq q.rem
    BY DEF SoundPlans
  <2>3. ASSUME NEW k \in q.rem
        PROVE  \/ k \in StaleKeys(me, desired, actual, dead)
               \/ Displaced(k, q.add, Lookup(me, desired, actual, dead))
    BY <2>3 DEF SoundPlans, Displaced
  <2>4. ASSUME NEW e \in q.add, NEW r \in ToSet(actual), Key(r) \notin q.rem
        PROVE  Fits(e, r)
    <3>1. CASE e \in p.add
      BY <2>4, <3>1 DEF SoundPlans
    <3>2. CASE e = d
      <4>1. r \in ToSet(simulated)
        BY <1>1, <2>4
      <4> HIDE DEF simulated
      <4> QED BY <1>3, <3>2, <4>1 DEF ValidateRecord, Fits, At, SameRecord
    <3> QED BY <2>4, <3>1, <3>2
  <2> HIDE DEF q
  <2> QED BY <1>2, <1>3, <2>1, <2>2, <2>3, <2>4 DEF SoundPlans
<1> QED BY <1>2, <1>3

\* What the lookup map holds was listed, and is not stale.
LEMMA LookupListed ==
  ASSUME NEW me, NEW desired, NEW actual, NEW dead
  PROVE  \A r \in Lookup(me, desired, actual, dead) :
           r \in ToSet(actual) /\ ~Stale(me, desired, dead, r)
BY DEF Lookup, ToSet

\* The rivals of a desired record are records of its name.
LEMMA RivalsListed ==
  ASSUME NEW d, NEW lookup
  PROVE  Rivals(d, lookup) \subseteq {r \in lookup : r.name = d.name}
BY DEF Rivals, CNAMEs, Addresses, At

\* Every plan of ReconcileAndValidate is sound, whatever the order of the map
\* iterations (internal/core/reconciliation.go).
LEMMA PlanSound ==
  ASSUME NEW X, NEW actual \in Seq(X), NEW me, NEW desired, IsFiniteSet(desired), NEW dead
  PROVE  ReconcileAndValidate(me, desired, actual, dead) \subseteq SoundPlans(me, desired, actual, dead)
<1> DEFINE lookup == Lookup(me, desired, actual, dead)
           P == SoundPlans(me, desired, actual, dead)
<1>1. [add |-> {}, rem |-> StaleKeys(me, desired, actual, dead)] \in P
  <2>1. StaleKeys(me, desired, actual, dead) \subseteq Removable(actual)
    BY DEF StaleKeys, Removable
  <2> QED BY <2>1 DEF SoundPlans
<1>2. ASSUME NEW d \in desired, NEW p \in P, NEW q \in Considered(d, p, lookup, actual)
      PROVE  q \in P
  <2> DEFINE rivals == Rivals(d, lookup)
  <2>1. CASE rivals = {}
    <3>1. q = TryAdd(d, {}, p, actual)
      BY <1>2, <2>1 DEF Considered
    <3> HIDE DEF P
    <3> QED BY <3>1, TryAddSound DEF P
  <2>2. CASE rivals # {}
    <3>1. PICK first \in rivals :
            q = IF Evicts(d, rivals, first) THEN TryAdd(d, {Key(r) : r \in rivals}, p, actual) ELSE p
      BY <1>2, <2>2 DEF Considered
    <3>2. CASE Evicts(d, rivals, first)
      <4> DEFINE E == {Key(r) : r \in rivals}
      <4>1. E \in SUBSET Removable(actual)
        BY RivalsListed, LookupListed DEF Removable
      <4>2. \A k \in E : Displaced(k, {d}, lookup)
        BY <3>2 DEF Displaced
      <4>3. q = TryAdd(d, E, p, actual)
        BY <3>1, <3>2
      <4> HIDE DEF E
      <4> QED BY <4>1, <4>2, <4>3, TryAddSound
    <3> QED BY <3>1, <3>2
  <2> QED BY <2>1, <2>2
<1>3. \A d \in desired, p \in P : Considered(d, p, lookup, actual) \subseteq P
  BY <1>2
<1> QED BY <1>1, <1>3, PlansInduction

\* The lookup map holds no two entries of the same name, kind and value.
LEMMA LookupDistinct ==
  ASSUME NEW me, NEW desired, NEW X, NEW actual \in Seq(X), NEW dead,
         NEW r \in Lookup(me, desired, actual, dead), NEW s \in Lookup(me, desired, actual, dead),
         SameRecord(r, s)
  PROVE  r = s
<1> DEFINE Newest(i) == /\ i \in DOMAIN actual
                      /\ ~Stale(me, desired, dead, actual[i])
                      /\ \A k \in DOMAIN actual :
                           ~Stale(me, desired, dead, actual[k]) /\ k > i => ~SameRecord(actual[i], actual[k])
<1>1. PICK i : Newest(i) /\ r = actual[i]
  BY DEF Lookup
<1>2. PICK j : Newest(j) /\ s = actual[j]
  BY DEF Lookup
<1>3. i \in Nat /\ j \in Nat
  BY <1>1, <1>2
<1>4. SameRecord(s, r)
  BY DEF SameRecord
<1>5. ~(i < j) /\ ~(j < i)
  BY <1>1, <1>2, <1>3, <1>4
<1> QED BY <1>1, <1>2, <1>3, <1>5

\* In a consistent registry a record evicts another one only if it is forced or
\* older, and never itself.  There the first CNAME of a name, which the code
\* compares with, is the only one.
LEMMA EvictedOlderOrForced ==
  ASSUME NEW X, NEW actual \in Seq(X), NEW me, NEW desired, NEW dead,
         Consistent(ToSet(actual)),
         NEW d, NEW r \in Rivals(d, Lookup(me, desired, actual, dead)),
         NEW first \in Rivals(d, Lookup(me, desired, actual, dead)),
         Evicts(d, Rivals(d, Lookup(me, desired, actual, dead)), first)
  PROVE  /\ d.force \/ Before(d, r)
         /\ Key(r) # Key(d)
<1> DEFINE lookup == Lookup(me, desired, actual, dead)
           rivals == Rivals(d, lookup)
<1>1. \A s \in rivals : s \in ToSet(actual) /\ s \in lookup /\ s.name = d.name
  BY RivalsListed, LookupListed
<1>2. CASE IsCNAME(d) /\ Addresses(lookup, d.name) # {}
  <2>1. \A s \in rivals : IsAddress(s) /\ ~IsCNAME(s)
    BY <1>2 DEF Rivals, Addresses, IsAddress, IsCNAME
  <2>2. Key(r) # Key(d)
    BY <1>2, <2>1 DEF Key, IsCNAME
  <2> QED BY <1>2, <2>1, <2>2 DEF Evicts
<1>3. CASE ~(IsCNAME(d) /\ Addresses(lookup, d.name) # {})
  <2>1. first = r
    <3>1. CASE CNAMEs(lookup, d.name) # {} \/ IsCNAME(d)
      <4>1. \A s \in rivals : IsCNAME(s)
        BY <1>3, <3>1 DEF Rivals, CNAMEs
      <4> QED BY <1>1, <4>1 DEF Consistent, Fits
    <3>2. CASE CNAMEs(lookup, d.name) = {} /\ ~IsCNAME(d)
      <4>1. SameRecord(r, d) /\ SameRecord(first, d)
        BY <3>2 DEF Rivals
      <4>2. SameRecord(r, first)
        BY <4>1 DEF SameRecord
      <4> QED BY <1>1, <4>2, LookupDistinct
    <3> QED BY <3>1, <3>2
  <2>2. ~(IsCNAME(d) /\ IsAddress(first))
    BY <1>1, <1>3, <2>1 DEF Addresses, At
  <2> QED BY <2>1, <2>2 DEF Evicts
<1> QED BY <1>2, <1>3

\* In a consistent registry, what a plan removes is stale, or makes way for a record
\* of its name that is added and is forced or older.
LEMMA EvictionJustified ==
  ASSUME NEW X, NEW actual \in Seq(X), NEW me, NEW desired, NEW dead,
         Consistent(ToSet(actual)),
         NEW p \in SoundPlans(me, desired, actual, dead),
         NEW r \in ToSet(actual), Key(r) \in p.rem
  PROVE  \/ Stale(me, desired, dead, r)
         \/ \E d \in p.add : d.name = r.name /\ (d.force \/ Before(d, r))
<1> DEFINE lookup == Lookup(me, desired, actual, dead)
<1>1. CASE Key(r) \in StaleKeys(me, desired, actual, dead)
  <2>1. PICK s \in ToSet(actual) : Stale(me, desired, dead, s) /\ Key(r) = Key(s)
    BY <1>1 DEF StaleKeys
  <2>2. r.host = s.host
    BY <2>1 DEF Key
  <2> QED BY <2>1, <2>2 DEF Stale
<1>2. CASE Displaced(Key(r), p.add, lookup)
  <2>0. PICK d \in p.add : \E s, first \in Rivals(d, lookup) :
          Key(r) = Key(s) /\ Evicts(d, Rivals(d, lookup), first)
    BY <1>2 DEF Displaced
  <2>1. PICK s, first \in Rivals(d, lookup) :
          Key(r) = Key(s) /\ Evicts(d, Rivals(d, lookup), first)
    BY <2>0
  <2>2. s \in ToSet(actual) /\ s.name = d.name
    BY RivalsListed, LookupListed
  <2>3. SameRecord(r, s)
    BY <2>1 DEF Key, SameRecord
  <2>4. r = s
    BY <2>2, <2>3 DEF Consistent, Fits, SameRecord
  <2>5. d.force \/ Before(d, s)
    BY <2>1, EvictedOlderOrForced
  <2> QED BY <2>2, <2>4, <2>5
<1> QED BY <1>1, <1>2 DEF SoundPlans

\* In a consistent registry, a plan removes no record that is wanted: not as stale,
\* and not in favour of another wanted one.
LEMMA WantedStay ==
  ASSUME NEW X, NEW actual \in Seq(X), NEW me, NEW desired, NEW dead,
         Consistent(ToSet(actual)), Consistent(desired),
         NEW p \in SoundPlans(me, desired, actual, dead),
         NEW d \in desired
  PROVE  Key(d) \notin p.rem
<1> DEFINE lookup == Lookup(me, desired, actual, dead)
<1> SUFFICES ASSUME Key(d) \in p.rem PROVE FALSE
  OBVIOUS
<1>1. Key(d) \notin StaleKeys(me, desired, actual, dead)
  BY DEF StaleKeys, Stale
<1>0. PICK e \in p.add : \E r, first \in Rivals(e, lookup) :
        Key(d) = Key(r) /\ Evicts(e, Rivals(e, lookup), first)
  BY <1>1 DEF SoundPlans, Displaced
<1>2. PICK r, first \in Rivals(e, lookup) :
        Key(d) = Key(r) /\ Evicts(e, Rivals(e, lookup), first)
  BY <1>0
<1>3. Key(r) # Key(e)
  BY <1>2, EvictedOlderOrForced
<1>4. e \in desired /\ e # d
  BY <1>2, <1>3 DEF SoundPlans
<1>5. r.name = e.name /\ SameRecord(d, r) /\ d.kind = r.kind
  BY <1>2, RivalsListed DEF Key, SameRecord
<1>6. ~SameRecord(d, e) /\ ~IsCNAME(d) /\ ~IsCNAME(e)
  BY <1>4, <1>5 DEF Consistent, Fits, SameRecord
<1>7. ~IsCNAME(r)
  BY <1>5, <1>6 DEF IsCNAME
<1>8. SameRecord(r, e)
  BY <1>6, <1>7 DEF Rivals, CNAMEs
<1> QED BY <1>5, <1>6, <1>8 DEF SameRecord

\* What a plan adds passed ValidateRecord, against the registry without some of what
\* the plan removes.
Without(actual, E) == Only(actual, {r \in ToSet(actual) : Key(r) \notin E})
CheckedPlans(desired, actual) ==
  {p \in [add : SUBSET desired, rem : SUBSET Removable(actual)] :
     \A d \in p.add : \E E \in SUBSET p.rem : ValidateRecord(d, Without(actual, E))}

\* No record is added unchecked, whatever the order of the map iterations.
LEMMA PlansChecked ==
  ASSUME NEW X, NEW actual \in Seq(X), NEW me, NEW desired, IsFiniteSet(desired), NEW dead
  PROVE  ReconcileAndValidate(me, desired, actual, dead) \subseteq CheckedPlans(desired, actual)
<1> DEFINE lookup == Lookup(me, desired, actual, dead)
           P == CheckedPlans(desired, actual)
<1>1. [add |-> {}, rem |-> StaleKeys(me, desired, actual, dead)] \in P
  BY DEF StaleKeys, Removable, CheckedPlans
<1>2. ASSUME NEW d \in desired, NEW p \in P, NEW E \in SUBSET Removable(actual)
      PROVE  TryAdd(d, E, p, actual) \in P
  <2> DEFINE q == [add |-> p.add \cup {d}, rem |-> p.rem \cup E]
  <2>1. TryAdd(d, E, p, actual) = IF ValidateRecord(d, Without(actual, q.rem)) THEN q ELSE p
    BY DEF TryAdd, Without
  <2>2. q \in [add : SUBSET desired, rem : SUBSET Removable(actual)]
    BY DEF CheckedPlans
  <2>3. CASE ValidateRecord(d, Without(actual, q.rem))
    <3>1. \A e \in p.add : \E F \in SUBSET q.rem : ValidateRecord(e, Without(actual, F))
      BY DEF CheckedPlans
    <3>2. \A e \in q.add : \E F \in SUBSET q.rem : ValidateRecord(e, Without(actual, F))
      BY <2>3, <3>1
    <3> HIDE DEF q
    <3> QED BY <2>1, <2>2, <2>3, <3>2 DEF CheckedPlans
  <2> QED BY <2>1, <2>3
<1>3. ASSUME NEW d \in desired, NEW p \in P, NEW q \in Considered(d, p, lookup, actual)
      PROVE  q \in P
  <2> DEFINE rivals == Rivals(d, lookup)
             E == {Key(r) : r \in rivals}
  <2>1. E \in SUBSET Removable(actual) /\ {} \in SUBSET Removable(actual)
    BY RivalsListed, LookupListed DEF Removable
  <2>2. q \in {p, TryAdd(d, {}, p, actual), TryAdd(d, E, p, actual)}
    BY <1>3 DEF Considered
  <2> HIDE DEF E, P
  <2> QED BY <1>2, <2>1, <2>2
<1>4. \A d \in desired, p \in P : Considered(d, p, lookup, actual) \subseteq P
  BY <1>3
<1> HIDE DEF P
<1> QED BY <1>1, <1>4, PlansInduction DEF P

\* The walk of the cycle check follows every CNAME that is left, and the new one.
LEMMA ForwardFollows ==
  ASSUME NEW X, NEW existing \in Seq(X), IsInjective(existing), Consistent(ToSet(existing)), NEW d
  PROVE  /\ d.name \in DOMAIN Forward(d, existing) /\ Forward(d, existing)[d.name] = d.value
         /\ \A r \in ToSet(existing) :
              IsCNAME(r) /\ r.name # d.name =>
                r.name \in DOMAIN Forward(d, existing) /\ Forward(d, existing)[r.name] = r.value
<1> DEFINE cnames == Only(existing, {r \in ToSet(existing) : IsCNAME(r)})
           IsFirst(i, n) == cnames[i].name = n /\ \A j \in 1..(i - 1) : cnames[j].name # n
           names == {cnames[i].name : i \in DOMAIN cnames} \cup {d.name}
           step == [n \in names |->
                      IF n = d.name THEN d.value
                      ELSE cnames[CHOOSE i \in DOMAIN cnames : IsFirst(i, n)].value]
<1>1. Forward(d, existing) = step
  BY Zenon DEF Forward
<1>2. /\ cnames \in Seq(X) /\ IsInjective(cnames)
      /\ ToSet(cnames) = {r \in ToSet(existing) : IsCNAME(r)}
  BY OnlyContents
<1> HIDE DEF cnames
<1>3. ASSUME NEW r \in ToSet(existing), IsCNAME(r), r.name # d.name
      PROVE  r.name \in DOMAIN step /\ step[r.name] = r.value
  <2>1. PICK i \in DOMAIN cnames : cnames[i] = r
    BY <1>2, <1>3 DEF ToSet
  <2>2. \A j \in DOMAIN cnames : cnames[j].name = r.name => cnames[j] = r
    <3>1. \A j \in DOMAIN cnames : cnames[j] \in ToSet(existing) /\ IsCNAME(cnames[j])
      BY <1>2 DEF ToSet
    <3> QED BY <1>3, <3>1 DEF Consistent, Fits
  <2>3. \A j \in DOMAIN cnames : cnames[j].name = r.name => j = i
    BY <1>2, <2>1, <2>2 DEF IsInjective
  <2>4. IsFirst(i, r.name)
    <3>1. DOMAIN cnames = 1..Len(cnames) /\ Len(cnames) \in Nat
      BY <1>2
    <3>2. \A j \in 1..(i - 1) : j \in DOMAIN cnames /\ j # i
      BY <3>1
    <3> QED BY <2>1, <2>3, <3>2
  <2>5. (CHOOSE j \in DOMAIN cnames : IsFirst(j, r.name)) = i
    <3> DEFINE k == CHOOSE j \in DOMAIN cnames : IsFirst(j, r.name)
    <3>1. k \in DOMAIN cnames /\ IsFirst(k, r.name)
      <4> HIDE DEF IsFirst
      <4> QED BY <2>4
    <3> HIDE DEF k
    <3> QED BY <2>3, <3>1 DEF k
  <2>6. r.name \in names
    BY <2>1
  <2> HIDE DEF names, IsFirst
  <2> QED BY <1>3, <2>1, <2>5, <2>6
<1>4. d.name \in DOMAIN step /\ step[d.name] = d.value
  <2> HIDE DEF IsFirst
  <2> QED OBVIOUS
<1> HIDE DEF step
<1> QED BY <1>1, <1>3, <1>4

-----------------------------------------------------------------------------
\* Coming to rest: when there is nothing to do, and stays nothing to do.

Nothing == [add |-> {}, rem |-> {}]

\* The treatment of a record leaves the plan alone or adds that record to it.
LEMMA ConsideredGrows ==
  ASSUME NEW d, NEW p, NEW lookup, NEW actual, NEW q \in Considered(d, p, lookup, actual)
  PROVE  q = p \/ d \in q.add
<1> DEFINE rivals == Rivals(d, lookup)
           E == {Key(r) : r \in rivals}
<1>1. \A F : TryAdd(d, F, p, actual) = p \/ d \in TryAdd(d, F, p, actual).add
  BY DEF TryAdd
<1>2. q \in {p, TryAdd(d, {}, p, actual), TryAdd(d, E, p, actual)}
  BY DEF Considered
<1> HIDE DEF E
<1> QED BY <1>1, <1>2

\* There is always a plan.
LEMMA SomePlan ==
  ASSUME NEW me, NEW desired, IsFiniteSet(desired), NEW actual, NEW dead
  PROVE  ReconcileAndValidate(me, desired, actual, dead) # {}
<1> DEFINE lookup == Lookup(me, desired, actual, dead)
<1>1. PICK g : /\ IsPlans(g, me, desired, actual, dead)
               /\ ReconcileAndValidate(me, desired, actual, dead) = g[desired]
  BY PlansRecursion
<1> DEFINE Q == {S \in SUBSET desired : g[S] # {}}
<1>2. \A d, p : Considered(d, p, lookup, actual) # {}
  BY DEF Considered
<1>3. ASSUME NEW S \in SUBSET desired, \A d \in S : S \ {d} \in Q
      PROVE  S \in Q
  <2>1. CASE S = {}
    BY <1>1, <2>1 DEF IsPlans
  <2>2. CASE S # {}
    <3>1. PICK d \in S : TRUE
      BY <2>2
    <3>2. PICK p : p \in g[S \ {d}]
      BY <1>3
    <3>3. PICK q : q \in Considered(d, p, lookup, actual)
      BY <1>2
    <3>4. g[S] = UNION {UNION {Considered(e, r, lookup, actual) : r \in g[S \ {e}]} : e \in S}
      BY <1>1, <2>2 DEF IsPlans
    <3>5. q \in g[S]
      BY <3>2, <3>3, <3>4
    <3> QED BY <3>5
  <2> QED BY <2>1, <2>2
<1>4. desired \in Q
  <2> HIDE DEF Q
  <2> QED BY <1>3, FiniteSetInduction
<1> QED BY <1>1, <1>4

\* A plan that adds nothing removes only what is stale, and none of the desired
\* records can be added to it.
LEMMA NothingAdded ==
  ASSUME NEW me, NEW desired, IsFiniteSet(desired), NEW actual, NEW dead,
         NEW p \in ReconcileAndValidate(me, desired, actual, dead), p.add = {}
  PROVE  LET base == [add |-> {}, rem |-> StaleKeys(me, desired, actual, dead)] IN
         /\ p = base
         /\ \A d \in desired :
              base \in Considered(d, base, Lookup(me, desired, actual, dead), actual)
<1> DEFINE lookup == Lookup(me, desired, actual, dead)
           base == [add |-> {}, rem |-> StaleKeys(me, desired, actual, dead)]
<1>1. PICK g : /\ IsPlans(g, me, desired, actual, dead)
               /\ ReconcileAndValidate(me, desired, actual, dead) = g[desired]
  BY PlansRecursion
<1> DEFINE Rejects(S) == \A d \in S : base \in Considered(d, base, lookup, actual)
           Q == {S \in SUBSET desired : \A q \in g[S] : q.add = {} => q = base /\ Rejects(S)}
<1>2. ASSUME NEW S \in SUBSET desired, \A d \in S : S \ {d} \in Q
      PROVE  S \in Q
  <2>1. CASE S = {}
    <3>1. g[S] = {base}
      BY <1>1, <2>1 DEF IsPlans
    <3> QED BY <2>1, <3>1
  <2>2. CASE S # {}
    <3> SUFFICES ASSUME NEW q \in g[S], q.add = {} PROVE q = base /\ Rejects(S)
      OBVIOUS
    <3>1. g[S] = UNION {UNION {Considered(d, r, lookup, actual) : r \in g[S \ {d}]} : d \in S}
      BY <1>1, <2>2 DEF IsPlans
    <3>2. PICK d \in S : \E r \in g[S \ {d}] : q \in Considered(d, r, lookup, actual)
      BY <3>1
    <3>3. PICK r \in g[S \ {d}] : q \in Considered(d, r, lookup, actual)
      BY <3>2
    <3>4. q = r
      BY <3>3, ConsideredGrows
    <3>5. r = base /\ Rejects(S \ {d})
      BY <1>2, <3>3, <3>4
    <3> HIDE DEF base, lookup
    <3> QED BY <3>3, <3>4, <3>5
  <2> QED BY <2>1, <2>2
<1>3. desired \in Q
  <2> HIDE DEF Q
  <2> QED BY <1>2, FiniteSetInduction
<1> HIDE DEF base, lookup
<1>4. p = base /\ Rejects(desired)
  BY <1>1, <1>3
<1> QED BY <1>4 DEF base, lookup

\* Where nothing is stale and no desired record can be added, there is nothing to do.
LEMMA NothingToDo ==
  ASSUME NEW me, NEW desired, IsFiniteSet(desired), NEW actual, NEW dead,
         StaleKeys(me, desired, actual, dead) = {},
         \A d \in desired :
           Considered(d, Nothing, Lookup(me, desired, actual, dead), actual) \subseteq {Nothing}
  PROVE  ReconcileAndValidate(me, desired, actual, dead) = {Nothing}
<1>1. [add |-> {}, rem |-> StaleKeys(me, desired, actual, dead)] \in {Nothing}
  BY DEF Nothing
<1>2. ReconcileAndValidate(me, desired, actual, dead) \subseteq {Nothing}
  BY <1>1, PlansInduction
<1> QED BY <1>2, SomePlan

\* In a consistent registry the lookup map holds all that is not stale.
LEMMA LookupComplete ==
  ASSUME NEW X, NEW actual \in Seq(X), IsInjective(actual), Consistent(ToSet(actual)),
         NEW me, NEW desired, NEW dead
  PROVE  Lookup(me, desired, actual, dead) = {r \in ToSet(actual) : ~Stale(me, desired, dead, r)}
<1>1. ASSUME NEW r \in ToSet(actual), ~Stale(me, desired, dead, r)
      PROVE  r \in Lookup(me, desired, actual, dead)
  <2>1. PICK i \in DOMAIN actual : actual[i] = r
    BY DEF ToSet
  <2>2. ASSUME NEW k \in DOMAIN actual, k > i PROVE ~SameRecord(actual[i], actual[k])
    <3>1. actual[k] # actual[i]
      BY <2>1, <2>2 DEF IsInjective
    <3>2. actual[k] \in ToSet(actual)
      BY DEF ToSet
    <3> QED BY <2>1, <3>1, <3>2 DEF Consistent, Fits, SameRecord
  <2> QED BY <1>1, <2>1, <2>2 DEF Lookup
<1> QED BY <1>1, LookupListed

\* In a consistent registry it does not matter which rival the code compares with.
LEMMA EvictsForAny ==
  ASSUME NEW lookup, Consistent(lookup), NEW d,
         NEW r \in Rivals(d, lookup), NEW s \in Rivals(d, lookup)
  PROVE  Evicts(d, Rivals(d, lookup), r) <=> Evicts(d, Rivals(d, lookup), s)
<1>0. \A q \in Rivals(d, lookup) : q \in lookup /\ q.name = d.name
  BY RivalsListed
<1>1. CASE IsCNAME(d) /\ Addresses(lookup, d.name) # {}
  <2>1. \A q \in Rivals(d, lookup) : IsAddress(q) /\ Key(q) # Key(d)
    BY <1>1 DEF Rivals, Addresses, IsAddress, IsCNAME, Key
  <2> QED BY <1>1, <2>1 DEF Evicts
<1>2. CASE ~(IsCNAME(d) /\ Addresses(lookup, d.name) # {})
  <2>1. CASE CNAMEs(lookup, d.name) # {} \/ IsCNAME(d)
    <3>1. \A q \in Rivals(d, lookup) : IsCNAME(q)
      BY <1>2, <2>1 DEF Rivals, CNAMEs
    <3> QED BY <1>0, <3>1 DEF Consistent, Fits
  <2>2. CASE CNAMEs(lookup, d.name) = {} /\ ~IsCNAME(d)
    <3>1. SameRecord(r, d) /\ SameRecord(s, d)
      BY <2>2 DEF Rivals
    <3> QED BY <1>0, <3>1 DEF Consistent, Fits, SameRecord
  <2> QED BY <2>1, <2>2
<1> QED BY <1>1, <1>2

\* Once all that is desired is there and nothing is stale, there is nothing to do.
LEMMA AllPresent ==
  ASSUME NEW X, NEW actual \in Seq(X), IsInjective(actual), Consistent(ToSet(actual)),
         NEW me, NEW desired, IsFiniteSet(desired), NEW dead,
         StaleKeys(me, desired, actual, dead) = {},
         \A d \in desired : Key(d) \in Removable(actual)
  PROVE  ReconcileAndValidate(me, desired, actual, dead) = {Nothing}
<1> DEFINE lookup == Lookup(me, desired, actual, dead)
<1>1. lookup = ToSet(actual)
  <2>1. \A r \in ToSet(actual) : ~Stale(me, desired, dead, r)
    BY DEF StaleKeys
  <2>2. lookup = {r \in ToSet(actual) : ~Stale(me, desired, dead, r)}
    BY LookupComplete
  <2> QED BY <2>1, <2>2
<1> HIDE DEF lookup
<1>2. ASSUME NEW d \in desired
      PROVE  Considered(d, Nothing, lookup, actual) \subseteq {Nothing}
  <2>1. PICK r \in lookup : Key(r) = Key(d)
    BY <1>1, <1>2 DEF Removable
  <2>2. r.name = d.name /\ r.kind = d.kind /\ SameRecord(r, d)
    BY <2>1 DEF Key, SameRecord
  <2>3. Rivals(d, lookup) \subseteq {r}
    <3>1. \A q \in lookup : q.name = d.name /\ q # r => ~IsCNAME(q) /\ ~IsCNAME(r) /\ ~SameRecord(q, r)
      BY <1>1, <2>2 DEF Consistent, Fits
    <3>2. IsCNAME(d) <=> IsCNAME(r)
      BY <2>2 DEF IsCNAME
    <3>3. CASE IsCNAME(d)
      <4>1. At(lookup, d.name) \subseteq {r} /\ ~IsAddress(r)
        BY <3>1, <3>2, <3>3 DEF At, IsCNAME, IsAddress
      <4> QED BY <3>3, <4>1 DEF Rivals, CNAMEs, Addresses
    <3>4. CASE ~IsCNAME(d)
      <4>1. CNAMEs(lookup, d.name) = {}
        BY <3>1, <3>2, <3>4 DEF CNAMEs, At
      <4>2. \A q : SameRecord(q, d) => SameRecord(q, r)
        BY <2>2 DEF SameRecord
      <4> QED BY <3>1, <3>4, <4>1, <4>2 DEF Rivals, Addresses, At
    <3> QED BY <3>3, <3>4
  <2>4. CASE Rivals(d, lookup) = {}
    <3> DEFINE all == Only(actual, {s \in ToSet(actual) : Key(s) \notin Nothing.rem \cup {}})
    <3>1. ToSet(all) = ToSet(actual)
      <4>1. Nothing.rem = {}
        BY DEF Nothing
      <4>2. {s \in ToSet(actual) : Key(s) \notin Nothing.rem \cup {}} = ToSet(actual)
        BY <4>1
      <4>3. all = actual
        BY <4>2, OnlyAll
      <4> QED BY <4>3
    <3>2. ~ValidateRecord(d, all)
      <4> HIDE DEF all
      <4>1. r \in At(ToSet(all), d.name)
        BY <1>1, <2>2, <3>1 DEF At
      <4> QED BY <2>2, <4>1 DEF ValidateRecord
    <3>3. TryAdd(d, {}, Nothing, actual) = Nothing
      BY <3>2 DEF TryAdd
    <3> QED BY <2>4, <3>3 DEF Considered
  <2>5. CASE Rivals(d, lookup) # {}
    <3>1. \A first \in Rivals(d, lookup) : ~Evicts(d, Rivals(d, lookup), first)
      BY <2>1, <2>3 DEF Evicts
    <3> QED BY <2>5, <3>1 DEF Considered
  <2> QED BY <2>4, <2>5
<1> QED BY <1>2, NothingToDo DEF lookup

\* What is left when the stale records are gone.
LEMMA RestOfRegistry ==
  ASSUME NEW X, NEW actual \in Seq(X), IsInjective(actual), Consistent(ToSet(actual)),
         NEW me, NEW desired, NEW dead
  PROVE  LET rest == Without(actual, StaleKeys(me, desired, actual, dead)) IN
         /\ rest \in Seq(X) /\ IsInjective(rest) /\ Consistent(ToSet(rest))
         /\ StaleKeys(me, desired, rest, dead) = {}
         /\ Lookup(me, desired, rest, dead) = Lookup(me, desired, actual, dead)
<1> DEFINE stale == StaleKeys(me, desired, actual, dead)
           rest == Without(actual, stale)
<1>1. /\ rest \in Seq(X) /\ IsInjective(rest)
      /\ ToSet(rest) = {r \in ToSet(actual) : Key(r) \notin stale}
  BY OnlyContents DEF Without
<1> HIDE DEF rest
<1>2. ASSUME NEW r \in ToSet(actual)
      PROVE  Key(r) \in stale <=> Stale(me, desired, dead, r)
  <2>1. \A s : Key(r) = Key(s) => r.host = s.host
    BY DEF Key
  <2> QED BY <2>1 DEF StaleKeys, Stale
<1>3. ToSet(rest) = {r \in ToSet(actual) : ~Stale(me, desired, dead, r)}
  BY <1>1, <1>2
<1>4. StaleKeys(me, desired, rest, dead) = {}
  BY <1>3 DEF StaleKeys
<1>5. Consistent(ToSet(rest))
  BY <1>3 DEF Consistent
<1>6. Lookup(me, desired, rest, dead) = ToSet(rest)
  <2>1. Lookup(me, desired, rest, dead) = {r \in ToSet(rest) : ~Stale(me, desired, dead, r)}
    BY <1>1, <1>5, LookupComplete
  <2> QED BY <1>3, <2>1
<1>7. Lookup(me, desired, actual, dead) = ToSet(rest)
  BY <1>3, LookupComplete
<1> QED BY <1>1, <1>4, <1>5, <1>6, <1>7 DEF rest

\* After a pass that adds nothing there is nothing to do: it has removed what is
\* stale, and what it could not add beside the rest the next one cannot add either.
LEMMA QuietNext ==
  ASSUME NEW X, NEW actual \in Seq(X), IsInjective(actual), Consistent(ToSet(actual)),
         NEW me, NEW desired, IsFiniteSet(desired), NEW dead,
         NEW p \in ReconcileAndValidate(me, desired, actual, dead), p.add = {}
  PROVE  ReconcileAndValidate(me, desired, Without(actual, p.rem), dead) = {Nothing}
<1> DEFINE stale == StaleKeys(me, desired, actual, dead)
           base == [add |-> {}, rem |-> stale]
           rest == Without(actual, stale)
           lookup == Lookup(me, desired, actual, dead)
<1>1. p = base /\ \A d \in desired : base \in Considered(d, base, lookup, actual)
  BY NothingAdded
<1>2. /\ rest \in Seq(X) /\ IsInjective(rest) /\ Consistent(ToSet(rest))
      /\ StaleKeys(me, desired, rest, dead) = {}
      /\ Lookup(me, desired, rest, dead) = lookup
  BY RestOfRegistry
<1>3. Consistent(lookup)
  BY LookupListed DEF Consistent
<1>4. ASSUME NEW E
      PROVE  Only(rest, {r \in ToSet(rest) : Key(r) \notin E}) = Without(actual, stale \cup E)
  <2> DEFINE S == {r \in ToSet(actual) : Key(r) \notin stale}
             T == {r \in ToSet(rest) : Key(r) \notin E}
  <2>1. rest = Only(actual, S) /\ ToSet(rest) = S
    BY OnlyContents DEF Without
  <2>2. S \cap T = {r \in ToSet(actual) : Key(r) \notin stale \cup E}
    BY <2>1
  <2> HIDE DEF S, T, rest
  <2>3. Only(rest, T) = Only(actual, S \cap T)
    BY <2>1, OnlyTwice
  <2> QED BY <2>2, <2>3 DEF T, Without
<1> HIDE DEF rest, lookup, stale
<1>5. ASSUME NEW d, NEW E
      PROVE  TryAdd(d, E, Nothing, rest) = Nothing <=> TryAdd(d, E, base, actual) = base
  <2>1. TryAdd(d, E, base, actual) =
          IF ValidateRecord(d, Without(actual, stale \cup E))
          THEN [add |-> {d}, rem |-> stale \cup E] ELSE base
    BY DEF TryAdd, Without
  <2>2. TryAdd(d, E, Nothing, rest) =
          IF ValidateRecord(d, Without(actual, stale \cup E))
          THEN [add |-> {d}, rem |-> E] ELSE Nothing
    BY <1>4 DEF TryAdd, Nothing
  <2>3. \A R : [add |-> {d}, rem |-> R].add = {d} /\ base.add = {} /\ Nothing.add = {}
    BY DEF Nothing
  <2> QED BY <2>1, <2>2, <2>3
<1>6. ASSUME NEW d \in desired
      PROVE  Considered(d, Nothing, lookup, rest) \subseteq {Nothing}
  <2> DEFINE rivals == Rivals(d, lookup)
             E == {Key(r) : r \in rivals}
  <2>1. base \in Considered(d, base, lookup, actual)
    BY <1>1
  <2>2. CASE rivals = {}
    <3>1. TryAdd(d, {}, base, actual) = base
      BY <2>1, <2>2 DEF Considered
    <3>2. TryAdd(d, {}, Nothing, rest) = Nothing
      BY <1>5, <3>1
    <3> QED BY <2>2, <3>2 DEF Considered
  <2>3. CASE rivals # {}
    <3>1. PICK first \in rivals :
            base = IF Evicts(d, rivals, first) THEN TryAdd(d, E, base, actual) ELSE base
      BY <2>1, <2>3 DEF Considered
    <3>2. ASSUME NEW other \in rivals, Evicts(d, rivals, other)
          PROVE  TryAdd(d, E, Nothing, rest) = Nothing
      <4>1. Evicts(d, rivals, first)
        BY <1>3, <3>2, EvictsForAny
      <4>2. TryAdd(d, E, base, actual) = base
        BY <3>1, <4>1
      <4> HIDE DEF E, base
      <4> QED BY <1>5, <4>2 DEF base
    <3> QED BY <2>3, <3>2 DEF Considered
  <2> QED BY <2>2, <2>3
<1> HIDE DEF base
<1>7. ReconcileAndValidate(me, desired, rest, dead) = {Nothing}
  BY <1>2, <1>6, NothingToDo
<1> QED BY <1>1, <1>7 DEF base, rest

=============================================================================
