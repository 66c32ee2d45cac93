------------------------- MODULE EngineRecords_proofs -------------------------
(***************************************************************************)
(* What TLAPS proves of the records in etcd, for any number of hosts,      *)
(* containers, names and records, and any faults: every name resolves      *)
(* until a request on a record fails or a member lags behind, and no host  *)
(* takes away a record of another one without the right to.                *)
(*                                                                         *)
(* The rest of a plan is still right at every step of its pass: that is    *)
(* ApplyInv.  It rests on the lock, which keeps the registry as the plan   *)
(* saw it (SyncEngine_proofs), on what a plan is (Reconciliation_proofs),  *)
(* and on what Register and Remove do to the slots.                        *)
(***************************************************************************)
EXTENDS SyncEngine_proofs, Reconciliation_proofs

-----------------------------------------------------------------------------
\* The operators of Registry.

\* List returns every record of the registry, and nothing else.
LEMMA ListContents ==
  ASSUME NEW X, NEW view \in [Slots -> X \cup {Absent}]
  PROVE  ListOf(view) \in Seq(X) /\ ToSet(ListOf(view)) = Content(view)
<1> DEFINE row(n) == [i \in 1..MaxIndex |-> view[<<n, i>>]]
           lists == [k \in DOMAIN NameOrder |-> Only(row(NameOrder[k]), Content(view))]
<1>1. MaxIndex \in Nat /\ NameOrder \in Seq(Names) /\ DOMAIN NameOrder = 1..Len(NameOrder)
  BY RegistryAssumption DEF Names
<1>2. \A k \in DOMAIN NameOrder : NameOrder[k] \in Names
  BY <1>1
<1>3. \A n \in Names : \E k \in DOMAIN NameOrder : NameOrder[k] = n
  BY DEF Names, ToSet
<1>4. Content(view) \subseteq X
  BY DEF Content
<1>5. ASSUME NEW n \in Names
      PROVE  /\ Only(row(n), Content(view)) \in Seq(Content(view))
             /\ ToSet(Only(row(n), Content(view)))
                = {view[<<n, i>>] : i \in 1..MaxIndex} \cap Content(view)
  <2>1. row(n) \in Seq(X \cup {Absent})
    BY <1>1 DEF Slots
  <2>2. ToSet(row(n)) = {view[<<n, i>>] : i \in 1..MaxIndex}
    BY DEF ToSet
  <2> HIDE DEF row
  <2>3. /\ Only(row(n), Content(view)) \in Seq(X \cup {Absent})
        /\ ToSet(Only(row(n), Content(view))) = ToSet(row(n)) \cap Content(view)
    BY <2>1, OnlyContents
  <2>4. Only(row(n), Content(view)) \in Seq(ToSet(Only(row(n), Content(view))))
    BY <2>3, ListOfItsElements
  <2> QED BY <2>2, <2>3, <2>4
<1> HIDE DEF row
<1>6. lists \in Seq(Seq(Content(view))) /\ DOMAIN lists = DOMAIN NameOrder
  BY <1>1, <1>2, <1>5
<1>7. \A k \in DOMAIN lists :
        ToSet(lists[k]) = {view[<<NameOrder[k], i>>] : i \in 1..MaxIndex} \cap Content(view)
  BY <1>2, <1>5
<1> HIDE DEF lists
<1>8. UNION {ToSet(lists[k]) : k \in DOMAIN lists} = Content(view)
  <2>1. ASSUME NEW r \in Content(view)
        PROVE  \E k \in DOMAIN lists : r \in ToSet(lists[k])
    <3>1. PICK n \in Names, i \in 1..MaxIndex : r = view[<<n, i>>]
      BY DEF Content, Slots
    <3>2. PICK k \in DOMAIN lists : NameOrder[k] = n
      BY <1>3, <1>6
    <3> QED BY <1>7, <3>1, <3>2
  <2> QED BY <1>7, <2>1
<1>9. ListOf(view) = FlattenSeq(lists)
  BY DEF ListOf, lists, row
<1>10. ListOf(view) \in Seq(Content(view)) /\ ToSet(ListOf(view)) = Content(view)
  BY <1>6, <1>8, <1>9, FlattenContents
<1> QED BY <1>4, <1>10

\* Register finds the first free index of a name, if there is one.
LEMMA NextIndexFree ==
  ASSUME NEW view, NEW r, CanRegister(view, r)
  PROVE  NextIndex(view, r.name) \in FreeIndices(view, r.name)
<1> DEFINE F == FreeIndices(view, r.name)
<1>1. F # {} /\ F \subseteq Nat
  BY DEF CanRegister, FreeIndices
<1>2. PICK i \in F : \A j \in F : ~(<<j, i>> \in OpToRel(<, Nat))
  <2> HIDE DEF F
  <2> QED BY <1>1, NatLessThanWellFounded, WFMin
<1>3. ASSUME NEW j \in F PROVE i <= j
  <2>1. i \in Nat /\ j \in Nat
    BY <1>1
  <2>2. j < i => <<j, i>> \in OpToRel(<, Nat)
    BY <2>1 DEF OpToRel
  <2> HIDE DEF F
  <2>3. ~(j < i)
    BY <1>2, <2>2
  <2> QED BY <2>1, <2>3
<1> HIDE DEF F
<1>4. \E i0 \in F : \A j \in F : i0 <= j
  BY <1>3
<1> QED BY <1>4, Zenon DEF F, NextIndex

\* What an intent of a container is.
LEMMA IntentNamed == \A r \in Intents : r.name \in Names
<1> SUFFICES ASSUME NEW r \in Intents PROVE r.name \in Names
  OBVIOUS
<1>1. PICK c \in Containers : r \in Aged(c, Containers) \cup IntentsOf[c]
  BY DEF Intents
<1>2. PICK q \in IntentsOf[c] : r = q \/ r = [q EXCEPT !.created = StartedAt[c]]
  BY <1>1 DEF Aged
<1>3. q.name \in Names /\ "name" \in DOMAIN q
  BY EngineAssumption
<1>4. [q EXCEPT !.created = StartedAt[c]].name = q.name
  BY <1>3
<1> QED BY <1>2, <1>3, <1>4

\* What the tracker wants, after the filter.
LEMMA DesiredSound ==
  ASSUME tracked \in [Hosts -> SUBSET Containers], NEW h \in Hosts, NEW desired \in DesiredOf(h)
  PROVE  /\ desired \subseteq UNION {Aged(c, byEvent) : c \in tracked[h]}
         /\ desired \subseteq Intents /\ IsFiniteSet(desired) /\ Consistent(desired)
<1> DEFINE asked == UNION {Aged(c, byEvent) : c \in tracked[h]}
<1>1. tracked[h] \subseteq Containers /\ IsFiniteSet(tracked[h])
  BY EngineAssumption, FS_Subset
<1>2. ASSUME NEW c \in Containers
      PROVE  Aged(c, byEvent) \subseteq Intents /\ IsFiniteSet(Aged(c, byEvent))
  <2>1. Aged(c, byEvent) \in {Aged(c, Containers), IntentsOf[c]}
    BY DEF Aged
  <2>2. IsFiniteSet(IntentsOf[c])
    BY EngineAssumption
  <2>3. IsFiniteSet({[r EXCEPT !.created = StartedAt[c]] : r \in IntentsOf[c]})
    <3> DEFINE f == [r \in IntentsOf[c] |-> [r EXCEPT !.created = StartedAt[c]]]
    <3>1. IsFiniteSet({f[x] : x \in DOMAIN f})
      BY <2>2, FiniteImage
    <3>2. {f[x] : x \in DOMAIN f} = {[r EXCEPT !.created = StartedAt[c]] : r \in IntentsOf[c]}
      OBVIOUS
    <3> QED BY <3>1, <3>2
  <2> QED BY <2>1, <2>2, <2>3 DEF Aged, Intents
<1>3. asked \subseteq Intents
  BY <1>1, <1>2
<1>4. IsFiniteSet(asked)
  <2> DEFINE f == [c \in tracked[h] |-> Aged(c, byEvent)]
  <2>1. IsFiniteSet({f[c] : c \in DOMAIN f})
    BY <1>1, FiniteImage
  <2>2. {f[c] : c \in DOMAIN f} = {Aged(c, byEvent) : c \in tracked[h]}
    OBVIOUS
  <2> QED BY <1>1, <1>2, <2>1, <2>2, FS_UNION
<1>5. PICK order \in SetToSeqs(asked) : desired = FilterRecordIntents(order)
  BY DEF DesiredOf
<1> HIDE DEF asked
<1>6. order \in Seq(asked) /\ ToSet(order) = asked
  BY <1>4, OrderContents
<1>7. desired \subseteq asked /\ Consistent(desired)
  BY <1>5, <1>6, FilterSound
<1>8. IsFiniteSet(desired) /\ desired \subseteq Intents
  BY <1>3, <1>4, <1>7, FS_Subset
<1> QED BY <1>7, <1>8 DEF asked

-----------------------------------------------------------------------------
\* The types.

Registries == [Slots -> Intents \cup {Absent}]

\* What a write leaves is a registry again.
LEMMA WritesTyped ==
  ASSUME NEW new \in Registries
  PROVE  /\ \A k : RemoveFrom(new, k) \in Registries
         /\ \A view \in Registries, r \in Intents :
              CanRegister(view, r) => /\ <<r.name, NextIndex(view, r.name)>> \in Slots
                                      /\ RegisterIn(new, view, r) \in Registries
<1>1. \A k : RemoveFrom(new, k) \in Registries
  BY DEF Registries, RemoveFrom
<1>2. ASSUME NEW view \in Registries, NEW r \in Intents, CanRegister(view, r)
      PROVE  /\ <<r.name, NextIndex(view, r.name)>> \in Slots
             /\ RegisterIn(new, view, r) \in Registries
  <2>1. r.name \in Names /\ NextIndex(view, r.name) \in 1..MaxIndex
    BY <1>2, IntentNamed, NextIndexFree DEF FreeIndices
  <2>2. <<r.name, NextIndex(view, r.name)>> \in Slots
    BY <2>1 DEF Slots
  <2> QED BY <2>2 DEF RegisterIn, Registries
<1> QED BY <1>1, <1>2

\* The engines start well-formed.
LEMMA TypeOKInit == Init => TypeOK
<1> SUFFICES ASSUME Init PROVE TypeOK
  OBVIOUS
<1>1. used \in Faults
  BY PassInvInit DEF PassInv, PassTypes
<1> QED BY <1>1, EngineAssumption DEF Init, TypeOK, EmptyRegistry

\* Containers, their events, heartbeats.
LEMMA TypeOKWorld ==
  ASSUME TypeOK, used' \in Faults,
         \/ Around
         \/ \E h \in Hosts : \/ Start(h) \/ Crash(h) \/ Shutdown(h)
                             \/ HeartbeatLost(h) \/ HeartbeatAgain(h)
  PROVE  TypeOK'
<1> USE DEF docker, tracker, records, local
<1>1. ASSUME NEW c \in Containers, ContainerChanges(c) PROVE TypeOK'
  BY <1>1 DEF ContainerChanges, TypeOK
<1>2. ASSUME NEW h \in Hosts, NEW c \in Containers, HandleEvent(h, c) \/ ListedAgain(h, c)
      PROVE  TypeOK'
  <2>1. /\ UNCHANGED <<running, up, hb, hbKey, reg, old, lock, pc, seen, dead, rem, add, used>>
        /\ Started(h, c) \/ Listed(h, c) \/ Stopped(h, c)
    BY <1>2 DEF HandleEvent, ListedAgain
  <2>2. /\ news' \subseteq running'
        /\ tracked' \in [Hosts -> SUBSET Containers]
        /\ byEvent' \subseteq UNION {tracked'[g] : g \in Hosts}
    <3>1. CASE Started(h, c)
      BY <2>1, <3>1 DEF Started, TypeOK
    <3>2. CASE Listed(h, c)
      BY <2>1, <3>2 DEF Listed, TypeOK
    <3>3. CASE Stopped(h, c)
      BY <2>1, <3>3 DEF Stopped, TypeOK
    <3> QED BY <2>1, <3>1, <3>2, <3>3
  <2> QED BY <2>1, <2>2 DEF TypeOK
<1>3. ASSUME NEW h \in Hosts, HeartbeatExpires(h) PROVE TypeOK'
  BY <1>3 DEF HeartbeatExpires, TypeOK
<1>4. ASSUME LockExpires PROVE TypeOK'
  BY <1>4 DEF LockExpires, TypeOK
<1>5. ASSUME NEW h \in Hosts, Start(h) PROVE TypeOK'
  <2>1. /\ up' = up \cup {h} /\ hbKey' \subseteq hbKey \cup {h}
        /\ hb' \in [Hosts -> {"off", "active", "lost"}]
        /\ UNCHANGED <<docker, tracker, records, lock, pc, seen, dead, rem, add>>
    BY <1>5 DEF Start, TypeOK
  <2> QED BY <2>1 DEF TypeOK
<1>6. ASSUME NEW h \in Hosts, Crash(h) \/ Shutdown(h) PROVE TypeOK'
  <2>1. Ends(h) /\ hbKey' \subseteq hbKey
    BY <1>6 DEF Crash, Shutdown
  <2>2. /\ running' = running /\ news' \subseteq running /\ up' \subseteq Hosts
        /\ tracked' \in [Hosts -> SUBSET Containers]
        /\ byEvent' \subseteq UNION {tracked'[g] : g \in Hosts}
    BY <2>1 DEF Ends, TypeOK
  <2>3. /\ hb' \in [Hosts -> {"off", "active", "lost"}]
        /\ lock' \in Hosts \cup {NoHost, Orphan}
        /\ pc' \in [Hosts -> {"idle", "list", "live", "plan", "apply"}]
        /\ UNCHANGED <<reg, old>>
    BY <2>1 DEF Ends, TypeOK
  <2>4. seen' \in [Hosts -> Seq(Intents)]
    <3>1. <<>> \in Seq(Intents)
      OBVIOUS
    <3> QED BY <2>1, <3>1 DEF Ends, TypeOK
  <2>5. /\ dead' \in [Hosts -> SUBSET Hosts]
        /\ rem' \in [Hosts -> SUBSET {Key(r) : r \in Intents}]
        /\ add' \in [Hosts -> SUBSET Intents]
    BY <2>1 DEF Ends, TypeOK
  <2> QED BY <2>1, <2>2, <2>3, <2>4, <2>5 DEF TypeOK
<1>7. ASSUME NEW h \in Hosts, HeartbeatLost(h) \/ HeartbeatAgain(h) PROVE TypeOK'
  BY <1>7 DEF HeartbeatLost, HeartbeatAgain, TypeOK
<1> QED BY <1>1, <1>2, <1>3, <1>4, <1>5, <1>6, <1>7 DEF Around

\* A pass reads lists of intents, and plans for intents.
LEMMA TypeOKPass ==
  ASSUME TypeOK, used' \in Faults, NEW h \in Hosts,
         \/ Tick(h) \/ ListRecords(h) \/ ListFails(h) \/ GetLiveHostnames(h) \/ MakePlan(h)
         \/ EndPass(h)
  PROVE  TypeOK'
<1> USE DEF docker, tracker, records
<1>1. CASE Tick(h)
  BY <1>1 DEF Tick, TypeOK
<1>2. CASE ListRecords(h)
  <2>1. PICK view \in {reg, old} : seen' = [seen EXCEPT ![h] = ListOf(view)]
    BY <1>2 DEF ListRecords
  <2>2. ListOf(view) \in Seq(Intents)
    BY <2>1, ListContents DEF TypeOK
  <2>3. seen' \in [Hosts -> Seq(Intents)]
    BY <2>1, <2>2 DEF TypeOK
  <2> QED BY <1>2, <2>3 DEF ListRecords, TypeOK
<1>3. CASE ListFails(h)
  BY <1>3 DEF ListFails, TypeOK
<1>4. CASE GetLiveHostnames(h)
  <2>1. PICK gone \in SUBSET Hosts : dead' = [dead EXCEPT ![h] = gone]
    BY <1>4 DEF GetLiveHostnames, DeadHosts
  <2>2. dead' \in [Hosts -> SUBSET Hosts]
    BY <2>1 DEF TypeOK
  <2> QED BY <1>4, <2>2 DEF GetLiveHostnames, TypeOK
<1>5. CASE MakePlan(h)
  <2>1. PICK desired \in DesiredOf(h) :
          \E plan \in ReconcileAndValidate(h, desired, seen[h], dead[h]) :
            /\ rem' = [rem EXCEPT ![h] = plan.rem]
            /\ add' = [add EXCEPT ![h] = plan.add]
    BY <1>5 DEF MakePlan
  <2>2. PICK plan \in ReconcileAndValidate(h, desired, seen[h], dead[h]) :
          /\ rem' = [rem EXCEPT ![h] = plan.rem]
          /\ add' = [add EXCEPT ![h] = plan.add]
    BY <2>1
  <2>3. desired \subseteq Intents /\ IsFiniteSet(desired)
    BY DesiredSound DEF TypeOK
  <2>4. seen[h] \in Seq(Intents)
    BY DEF TypeOK
  <2>5. plan \in SoundPlans(h, desired, seen[h], dead[h])
    BY <2>3, <2>4, PlanSound
  <2>6. plan.add \subseteq Intents
    BY <2>3, <2>5 DEF SoundPlans
  <2>7. plan.rem \subseteq {Key(r) : r \in Intents}
    BY <2>4, <2>5 DEF SoundPlans, Removable, ToSet
  <2>8. /\ rem' \in [Hosts -> SUBSET {Key(r) : r \in Intents}]
        /\ add' \in [Hosts -> SUBSET Intents]
    BY <2>2, <2>6, <2>7 DEF TypeOK
  <2>9. seen' \in [Hosts -> Seq(Intents)]
    <3>1. <<>> \in Seq(Intents)
      OBVIOUS
    <3> QED BY <1>5, <3>1 DEF MakePlan, TypeOK
  <2> QED BY <1>5, <2>8, <2>9 DEF MakePlan, TypeOK
<1>6. CASE EndPass(h)
  BY <1>6 DEF EndPass, TypeOK
<1> QED BY <1>1, <1>2, <1>3, <1>4, <1>5, <1>6

\* The writes of a pass.
LEMMA TypeOKWrites ==
  ASSUME TypeOK, used' \in Faults, NEW h \in Hosts, Writes(h)
  PROVE  TypeOK'
<1> USE DEF docker, tracker, records
<1>1. reg \in Registries /\ old \in Registries
  BY DEF TypeOK, Registries
<1>2. \A new \in Registries : Write(new) => reg' \in Registries /\ old' \in Registries
  BY <1>1 DEF Write
<1>3. ASSUME NEW k \in rem[h], RemoveRecord(h, k) PROVE TypeOK'
  <2>1. reg' \in Registries /\ old' \in Registries
    BY <1>1, <1>2, <1>3, WritesTyped DEF RemoveRecord
  <2>2. rem' \in [Hosts -> SUBSET {Key(r) : r \in Intents}]
    BY <1>3 DEF RemoveRecord, TypeOK
  <2> QED BY <1>3, <2>1, <2>2 DEF RemoveRecord, TypeOK, Registries
<1>4. ASSUME NEW r \in add[h], RegisterRecord(h, r) PROVE TypeOK'
  <2>1. r \in Intents
    BY DEF TypeOK
  <2>2. reg' \in Registries /\ old' \in Registries
    BY <1>1, <1>2, <1>4, <2>1, WritesTyped DEF RegisterRecord
  <2>3. add' \in [Hosts -> SUBSET Intents]
    BY <1>4 DEF RegisterRecord, TypeOK
  <2> QED BY <1>4, <2>2, <2>3 DEF RegisterRecord, TypeOK, Registries
<1> QED BY <1>3, <1>4 DEF Writes

\* Every step keeps the count of the faults.
LEMMA FaultsCounted ==
  ASSUME PassInv, [Next]_vars
  PROVE  used' \in Faults /\ used.lags <= used'.lags /\ used.failures <= used'.failures
<1>1. used \in Faults
  BY DEF PassInv, PassTypes
<1>2. AnyFault \/ UNCHANGED used
  <2>1. CASE Around
    BY <2>1, AroundThePasses
  <2>2. ASSUME NEW h \in Hosts, Writes(h) PROVE AnyFault \/ UNCHANGED used
    BY <2>2, WritesTouch
  <2>3. CASE UNCHANGED vars
    BY <2>3 DEF vars
  <2>4. ASSUME NEW h \in Hosts,
               \/ Start(h) \/ Crash(h) \/ Shutdown(h) \/ HeartbeatLost(h) \/ HeartbeatAgain(h)
               \/ Tick(h) \/ ListRecords(h) \/ ListFails(h) \/ GetLiveHostnames(h) \/ MakePlan(h)
               \/ EndPass(h)
        PROVE  AnyFault \/ UNCHANGED used
    BY <2>4 DEF AnyFault, Start, Crash, Shutdown, Ends, HeartbeatLost, HeartbeatAgain, Tick,
       ListRecords, MemberAnswers, ListFails, GetLiveHostnames, MakePlan, EndPass
  <2> QED BY <2>1, <2>2, <2>3, <2>4, StepKinds
<1> QED BY <1>1, <1>2, FaultCounted

\* Every step of an engine, of Docker or of a fault keeps the types.
LEMMA TypeOKNext == TypeOK /\ PassInv /\ [Next]_vars => TypeOK'
<1> SUFFICES ASSUME TypeOK, PassInv, [Next]_vars PROVE TypeOK'
  OBVIOUS
<1>1. used' \in Faults
  BY FaultsCounted
<1>2. CASE UNCHANGED vars
  BY <1>2 DEF vars, docker, local, tracker, records, TypeOK
<1> QED BY <1>1, <1>2, StepKinds, TypeOKWorld, TypeOKPass, TypeOKWrites

\* Lists, plans and the registry hold intents of the containers, whatever etcd
\* answers and whichever requests fail (EtcdRegistry, SyncEngine.Run).
THEOREM TypeInvariant == Spec => []TypeOK
BY TypeOKInit, TypeOKNext, PassInvariant, PTL DEF Spec

-----------------------------------------------------------------------------
\* The invariant of the records.

RecordsInv == PassInv /\ TypeOK /\ ApplyInv /\ Resolvable

\* With an empty registry nothing is planned and every name resolves.
LEMMA RecordsInvInit == Init => RecordsInv
<1> SUFFICES ASSUME Init PROVE RecordsInv
  OBVIOUS
<1>1. ApplyInv
  BY DEF Init, EmptyRegistry, ApplyInv, RecordsNamed, PlansHeld, RemovalsJustified, AdditionsFit,
     Consistent
<1>2. Resolvable
  BY DEF Init, EmptyRegistry, Resolvable, NamesResolve
<1> QED BY <1>1, <1>2, PassInvInit, TypeOKInit DEF RecordsInv

\* A step that leaves the registry alone, and every plan as it is or empty.
LEMMA RecordsFramed ==
  ASSUME RecordsInv, UNCHANGED reg,
         used.lags <= used'.lags, used.failures <= used'.failures, used' \in Faults,
         \A g \in Hosts : \/ /\ rem'[g] = rem[g] /\ add'[g] = add[g] /\ dead'[g] = dead[g]
                             /\ pc'[g] = pc[g]
                          \/ rem'[g] = {} /\ add'[g] = {}
  PROVE  ApplyInv' /\ Resolvable'
<1> USE DEF RecordsInv, ApplyInv
<1>1. used'.lags = 0 => used.lags = 0
  BY DEF TypeOK, Faults
<1>2. used'.failures = 0 => used.failures = 0
  BY DEF TypeOK, Faults
<1>3. Resolvable'
  BY <1>1, <1>2 DEF Resolvable, NamesResolve
<1>4. RecordsNamed'
  BY DEF RecordsNamed
<1>5. PlansHeld'
  BY DEF PlansHeld
<1>6. ASSUME NEW g \in Hosts, NEW s \in Slots, add'[g] = add[g], MakesWay(g, s)
      PROVE  MakesWay(g, s)'
  BY <1>6 DEF MakesWay, TypeOK, Faults
<1>7. RemovalsJustified'
  BY <1>1, <1>6 DEF RemovalsJustified
<1>8. AdditionsFit'
  BY <1>1, <1>2 DEF AdditionsFit
<1>9. \A g \in Hosts : Consistent(add'[g])
  BY DEF Consistent
<1> QED BY <1>3, <1>4, <1>5, <1>7, <1>8, <1>9

\* The rest of a plan that was just made.  Two records of one container may
\* match a request to remove one of them: then they are the same record, or a
\* request failed before and the registry is not consistent.
LEMMA PlanMade ==
  ASSUME RecordsInv, NEW h \in Hosts, MakePlan(h)
  PROVE  ApplyInv' /\ Resolvable'
<1> USE DEF RecordsInv, ApplyInv
<1>1. PICK desired \in DesiredOf(h) :
        \E plan \in ReconcileAndValidate(h, desired, seen[h], dead[h]) :
          /\ rem' = [rem EXCEPT ![h] = plan.rem]
          /\ add' = [add EXCEPT ![h] = plan.add]
  BY DEF MakePlan
<1>2. PICK plan \in ReconcileAndValidate(h, desired, seen[h], dead[h]) :
        /\ rem' = [rem EXCEPT ![h] = plan.rem]
        /\ add' = [add EXCEPT ![h] = plan.add]
  BY <1>1
<1>3. desired \subseteq Intents /\ IsFiniteSet(desired) /\ Consistent(desired)
  BY DesiredSound DEF TypeOK
<1>4. seen[h] \in Seq(Intents)
  BY DEF TypeOK
<1>5. plan \in SoundPlans(h, desired, seen[h], dead[h])
  BY <1>3, <1>4, PlanSound
<1>6. /\ rem'[h] = plan.rem /\ add'[h] = plan.add
      /\ \A g \in Hosts \ {h} : rem'[g] = rem[g] /\ add'[g] = add[g]
      /\ pc[h] = "plan" /\ pc' = [pc EXCEPT ![h] = "apply"]
      /\ UNCHANGED <<reg, dead, used>>
  BY <1>2 DEF MakePlan, TypeOK, records
<1>7. used.lags = 0 => ToSet(seen[h]) = Content(reg)
  BY <1>6, ListContents DEF PassInv, PlansFromTruth, TypeOK
<1>8. \A s \in Slots : reg[s] # Absent => reg[s] \in Content(reg)
  BY DEF Content
<1>9. Resolvable'
  BY <1>6 DEF Resolvable, NamesResolve
<1>10. RecordsNamed'
  BY <1>6 DEF RecordsNamed
<1>11. PlansHeld'
  BY <1>6 DEF PlansHeld, TypeOK
<1>12. ASSUME NEW g \in Hosts \ {h}, NEW s \in Slots
       PROVE  MakesWay(g, s)' <=> MakesWay(g, s)
  BY <1>6 DEF MakesWay
<1>13. ASSUME used.lags = 0, NEW s \in Slots, NEW k \in plan.rem,
              reg[s] # Absent, reg[s].host # h, s[1] = k.name, RecordMatches(reg[s], k)
       PROVE  reg[s].host \in dead[h] \/ MakesWay(h, s)'
  <2>1. PICK r \in ToSet(seen[h]) : k = Key(r)
    BY <1>5 DEF SoundPlans, Removable
  <2>2. /\ reg[s].name = s[1] /\ reg[s] \in ToSet(seen[h])
        /\ reg[s].host = r.host /\ r.name = s[1] /\ SameRecord(r, reg[s])
    BY <1>7, <1>8, <1>13, <2>1 DEF RecordsNamed, RecordMatches, Key, SameRecord
  <2>3. CASE used.failures = 0
    <3>1. Consistent(Content(reg))
      BY <1>13, <2>3 DEF Resolvable, NamesResolve, Consistent, Content
    <3>2. r = reg[s]
      BY <1>7, <1>13, <2>2, <3>1 DEF Consistent, Fits
    <3>3. \/ Stale(h, desired, dead[h], r)
          \/ \E d \in plan.add : d.name = r.name /\ (d.force \/ Before(d, r))
      BY <1>4, <1>5, <1>7, <1>13, <2>1, <3>1, EvictionJustified
    <3>4. Stale(h, desired, dead[h], r) => reg[s].host \in dead[h]
      BY <1>13, <2>2 DEF Stale
    <3> QED BY <1>6, <2>2, <3>2, <3>3, <3>4 DEF MakesWay
  <2>4. CASE used.failures > 0
    <3>1. CASE k \in StaleKeys(h, desired, seen[h], dead[h])
      <4>1. PICK q \in ToSet(seen[h]) : Stale(h, desired, dead[h], q) /\ k = Key(q)
        BY <3>1 DEF StaleKeys
      <4>2. q.host = r.host
        BY <2>1, <4>1 DEF Key
      <4> QED BY <1>13, <2>2, <4>1, <4>2 DEF Stale
    <3>2. CASE Displaced(k, plan.add, Lookup(h, desired, seen[h], dead[h]))
      <4>1. PICK d \in plan.add :
              \E q \in Rivals(d, Lookup(h, desired, seen[h], dead[h])) : k = Key(q)
        BY <3>2 DEF Displaced
      <4>2. d.name = s[1]
        BY <1>13, <4>1, RivalsListed DEF Key
      <4> QED BY <1>6, <2>4, <4>2 DEF MakesWay
    <3> QED BY <1>5, <3>1, <3>2 DEF SoundPlans
  <2> QED BY <2>3, <2>4 DEF TypeOK, Faults
<1>14. RemovalsJustified'
  <2> SUFFICES ASSUME used.lags = 0, NEW g \in Hosts, NEW s \in Slots, NEW k \in rem'[g],
                      reg[s] # Absent, reg[s].host # g, s[1] = k.name, RecordMatches(reg[s], k)
               PROVE  reg[s].host \in dead[g] \/ MakesWay(g, s)'
    BY <1>6 DEF RemovalsJustified
  <2>1. CASE g = h
    BY <1>6, <1>13, <2>1
  <2>2. CASE g # h
    BY <1>6, <1>12, <2>2 DEF RemovalsJustified
  <2> QED BY <2>1, <2>2
<1>15. AdditionsFit'
  <2> SUFFICES ASSUME used.failures = 0, used.lags = 0, NEW g \in Hosts, NEW s \in Slots,
                      NEW r \in add'[g], reg[s] # Absent, Key(reg[s]) \notin rem'[g]
               PROVE  Fits(r, reg[s])
    BY <1>6 DEF AdditionsFit
  <2>1. CASE g = h
    BY <1>5, <1>6, <1>7, <1>8, <2>1 DEF SoundPlans
  <2>2. CASE g # h
    BY <1>6, <2>2 DEF AdditionsFit
  <2> QED BY <2>1, <2>2
<1>16. ASSUME NEW g \in Hosts PROVE Consistent(add'[g])
  <2>1. Consistent(plan.add)
    BY <1>3, <1>5 DEF SoundPlans, Consistent
  <2> QED BY <1>6, <2>1
<1> QED BY <1>9, <1>10, <1>11, <1>14, <1>15, <1>16

\* Who writes has the lock: the plans of all the others are empty.
LEMMA WriterAlone ==
  ASSUME RecordsInv, NEW h \in Hosts, Writes(h)
  PROVE  /\ lock = h /\ h \in up
         /\ \A g \in Hosts \ {h} : rem[g] = {} /\ add[g] = {}
<1>1. pc[h] = "apply"
  BY WritesTouch
<1>2. lock = h /\ h \in up /\ \A g \in Hosts \ {h} : pc[g] = "idle"
  BY <1>1 DEF RecordsInv, PassInv, PassLocked
<1> QED BY <1>2 DEF RecordsInv, ApplyInv, PlansHeld

\* A removal, done or failed.  All that matches the key it was made for goes.
LEMMA RemovalKeeps ==
  ASSUME RecordsInv, NEW h \in Hosts, NEW k \in rem[h], RemoveRecord(h, k)
  PROVE  ApplyInv' /\ Resolvable'
<1> USE DEF RecordsInv, ApplyInv
<1>1. /\ rem' = [rem EXCEPT ![h] = @ \ {k}]
      /\ UNCHANGED <<pc, add, dead>>
  BY DEF RemoveRecord
<1>2. used.lags <= used'.lags /\ used.failures <= used'.failures /\ used' \in Faults
  <2>1. AnyFault \/ UNCHANGED used
    BY WritesTouch DEF Writes
  <2> QED BY <2>1, FaultCounted DEF TypeOK
<1>3. \A g \in Hosts \ {h} : rem[g] = {} /\ add[g] = {}
  BY WriterAlone DEF Writes
<1>4. \A s \in Slots : reg'[s] = reg[s] \/ reg'[s] = Absent
  BY DEF RemoveRecord, Write, RemoveFrom, records
<1>5. used'.failures = 0 => reg' = RemoveFrom(reg, k)
  BY FailureCounted DEF RemoveRecord, Write, TypeOK
<1>6. /\ used'.lags = 0 => used.lags = 0
      /\ used'.failures = 0 => used.failures = 0
  BY <1>2 DEF TypeOK, Faults
<1>7. Resolvable'
  BY <1>4, <1>6 DEF Resolvable, NamesResolve
<1>8. RecordsNamed'
  BY <1>4 DEF RecordsNamed
<1>9. PlansHeld'
  BY <1>1, <1>3 DEF PlansHeld, TypeOK
<1>10. ASSUME NEW g \in Hosts, NEW s \in Slots, reg'[s] = reg[s], MakesWay(g, s)
       PROVE  MakesWay(g, s)'
  BY <1>1, <1>2, <1>10 DEF MakesWay, TypeOK, Faults
<1>11. rem' \in [Hosts -> SUBSET {Key(r) : r \in Intents}] /\ \A g \in Hosts : rem'[g] \subseteq rem[g]
  BY <1>1 DEF TypeOK
<1>12. RemovalsJustified'
  <2> SUFFICES ASSUME used'.lags = 0, NEW g \in Hosts, NEW s \in Slots, NEW m \in rem'[g],
                      reg'[s] # Absent, reg'[s].host # g, s[1] = m.name, RecordMatches(reg'[s], m)
               PROVE  reg'[s].host \in dead[g] \/ MakesWay(g, s)'
    BY <1>1 DEF RemovalsJustified
  <2>1. reg'[s] = reg[s] /\ m \in rem[g]
    BY <1>4, <1>11
  <2> QED BY <1>6, <1>10, <2>1 DEF RemovalsJustified
<1>13. AdditionsFit'
  <2> SUFFICES ASSUME used'.failures = 0, used'.lags = 0, NEW g \in Hosts, NEW s \in Slots,
                      NEW r \in add[g], reg'[s] # Absent, Key(reg'[s]) \notin rem'[g]
               PROVE  Fits(r, reg'[s])
    BY <1>1 DEF AdditionsFit
  <2>1. g = h /\ reg'[s] = reg[s]
    BY <1>3, <1>4
  <2>2. Key(reg[s]) # k
    <3> SUFFICES ASSUME Key(reg[s]) = k PROVE FALSE
      OBVIOUS
    <3>1. RecordMatches(reg[s], k) /\ Under(s[1], k.name)
      BY <2>1 DEF RecordMatches, Under, Key, RecordsNamed
    <3> QED BY <1>5, <2>1, <3>1 DEF RemoveFrom, Matching
  <2>3. Key(reg[s]) \notin rem[h]
    BY <1>1, <2>1, <2>2 DEF TypeOK
  <2> QED BY <1>6, <2>1, <2>3 DEF AdditionsFit
<1> QED BY <1>1, <1>7, <1>8, <1>9, <1>12, <1>13

\* A record that is registered, or whose Register failed.  It fits what is there,
\* and what is still to be added fits it.
LEMMA AdditionKeeps ==
  ASSUME RecordsInv, NEW h \in Hosts, NEW r \in add[h], RegisterRecord(h, r)
  PROVE  ApplyInv' /\ Resolvable'
<1> USE DEF RecordsInv, ApplyInv
<1>1. /\ pc[h] = "apply" /\ rem[h] = {} /\ add' = [add EXCEPT ![h] = @ \ {r}]
      /\ UNCHANGED <<pc, rem, dead>>
  BY DEF RegisterRecord, RemovalsDone
<1>2. used.lags <= used'.lags /\ used.failures <= used'.failures /\ used' \in Faults
  <2>1. AnyFault \/ UNCHANGED used
    BY WritesTouch DEF Writes
  <2> QED BY <2>1, FaultCounted DEF TypeOK
<1>3. \A g \in Hosts \ {h} : rem[g] = {} /\ add[g] = {}
  BY WriterAlone DEF Writes
<1>4. /\ add' \in [Hosts -> SUBSET Intents]
      /\ \A g \in Hosts : add'[g] \subseteq add[g]
      /\ add'[h] = add[h] \ {r}
  BY <1>1 DEF TypeOK
<1>5. r \in Intents /\ reg \in Registries /\ old \in Registries
  BY DEF TypeOK, Registries
<1>6. UNCHANGED reg \/ \E view \in {reg, old} : /\ CanRegister(view, r)
                                                /\ reg' = RegisterIn(reg, view, r)
                                                /\ view = reg \/ used'.lags # 0
  BY LagCounted DEF RegisterRecord, MemberAnswers, Write, records, TypeOK
<1>7. UNCHANGED reg \/ \E t \in Slots : /\ reg' = [reg EXCEPT ![t] = r]
                                        /\ t[1] = r.name
                                        /\ reg[t] = Absent \/ used'.lags # 0
  <2> SUFFICES ASSUME NEW view \in {reg, old}, CanRegister(view, r),
                      reg' = RegisterIn(reg, view, r), view = reg \/ used'.lags # 0
               PROVE  \E t \in Slots : /\ reg' = [reg EXCEPT ![t] = r]
                                       /\ t[1] = r.name
                                       /\ reg[t] = Absent \/ used'.lags # 0
    BY <1>6
  <2> DEFINE t == <<r.name, NextIndex(view, r.name)>>
  <2>1. t \in Slots
    BY <1>5, WritesTyped
  <2>2. view[t] = Absent
    BY NextIndexFree DEF FreeIndices
  <2>3. reg' = [reg EXCEPT ![t] = r] /\ t[1] = r.name
    BY DEF RegisterIn
  <2> HIDE DEF t
  <2> QED BY <2>1, <2>2, <2>3
<1>8. /\ used'.lags = 0 => used.lags = 0
      /\ used'.failures = 0 => used.failures = 0
  BY <1>2 DEF TypeOK, Faults
<1>9. ASSUME NEW s \in Slots, used'.lags = 0
      PROVE  \/ reg'[s] = reg[s]
             \/ reg'[s] = r /\ reg[s] = Absent
  BY <1>5, <1>7, <1>9 DEF Registries
<1>10. RecordsNamed'
  BY <1>5, <1>7 DEF RecordsNamed, Registries
<1>11. PlansHeld'
  BY <1>1, <1>4 DEF PlansHeld
<1>12. RemovalsJustified'
  BY <1>1, <1>3 DEF RemovalsJustified
<1>13. AdditionsFit'
  <2> SUFFICES ASSUME used'.failures = 0, used'.lags = 0, NEW g \in Hosts, NEW s \in Slots,
                      NEW q \in add'[g], reg'[s] # Absent, Key(reg'[s]) \notin rem[g]
               PROVE  Fits(q, reg'[s])
    BY <1>1 DEF AdditionsFit
  <2>1. g = h /\ q \in add[h] /\ q # r
    BY <1>3, <1>4
  <2>2. CASE reg'[s] = r
    BY <2>1, <2>2 DEF Consistent
  <2>3. CASE reg'[s] = reg[s]
    BY <1>8, <2>1, <2>3 DEF AdditionsFit
  <2> QED BY <1>9, <2>2, <2>3
<1>14. Resolvable'
  <2> SUFFICES ASSUME used'.failures = 0, used'.lags = 0, NEW s \in Slots, NEW t \in Slots,
                      reg'[s] # Absent, reg'[t] # Absent, s # t
               PROVE  Fits(reg'[s], reg'[t])
    BY DEF Resolvable, NamesResolve
  <2>1. NamesResolve
    BY <1>8 DEF Resolvable
  <2>2. ASSUME NEW u \in Slots, reg[u] # Absent
        PROVE  Fits(r, reg[u]) /\ Fits(reg[u], r)
    <3>1. Fits(r, reg[u])
      BY <1>1, <1>8, <2>2 DEF AdditionsFit
    <3> QED BY <3>1 DEF Fits, SameRecord
  <2>3. CASE reg' = reg
    BY <2>1, <2>3 DEF NamesResolve
  <2>4. CASE reg' # reg
    <3>1. PICK u \in Slots : reg' = [reg EXCEPT ![u] = r] /\ reg[u] = Absent
      BY <1>7, <2>4
    <3>2. \A v \in Slots : reg'[v] = IF v = u THEN r ELSE reg[v]
      BY <1>5, <3>1 DEF Registries
    <3> QED BY <2>1, <2>2, <3>2 DEF NamesResolve
  <2> QED BY <2>3, <2>4
<1>15. \A g \in Hosts : Consistent(add'[g])
  BY <1>4 DEF Consistent
<1> QED BY <1>10, <1>11, <1>12, <1>13, <1>14, <1>15

\* Everything else makes, changes and carries out no plan.
LEMMA RecordsUntouched ==
  ASSUME RecordsInv, used.lags <= used'.lags, used.failures <= used'.failures, used' \in Faults,
         \/ Around
         \/ UNCHANGED vars
         \/ \E h \in Hosts :
              \/ Start(h) \/ Crash(h) \/ Shutdown(h) \/ HeartbeatLost(h) \/ HeartbeatAgain(h)
              \/ Tick(h) \/ ListRecords(h) \/ ListFails(h) \/ GetLiveHostnames(h) \/ EndPass(h)
  PROVE  UNCHANGED reg /\ ApplyInv' /\ Resolvable'
<1> DEFINE Kept(g) == /\ rem'[g] = rem[g] /\ add'[g] = add[g] /\ dead'[g] = dead[g]
                      /\ pc'[g] = pc[g]
           Empty(g) == rem'[g] = {} /\ add'[g] = {}
<1> USE DEF docker, tracker, records, local
<1>1. CASE Around
  <2>1. UNCHANGED <<rem, add, dead, pc, reg>>
    BY <1>1 DEF Around, ContainerChanges, HandleEvent, ListedAgain, HeartbeatExpires, LockExpires
  <2> QED BY <2>1, RecordsFramed
<1>2. CASE UNCHANGED vars
  <2>1. UNCHANGED <<rem, add, dead, pc, reg>>
    BY <1>2 DEF vars
  <2> QED BY <2>1, RecordsFramed
<1>3. ASSUME NEW h \in Hosts, Start(h) \/ HeartbeatLost(h) \/ HeartbeatAgain(h)
      PROVE  UNCHANGED reg /\ ApplyInv' /\ Resolvable'
  <2>1. UNCHANGED <<rem, add, dead, pc, reg>>
    BY <1>3 DEF Start, HeartbeatLost, HeartbeatAgain
  <2> QED BY <2>1, RecordsFramed
<1>4. ASSUME NEW h \in Hosts, Crash(h) \/ Shutdown(h)
      PROVE  UNCHANGED reg /\ ApplyInv' /\ Resolvable'
  <2>1. /\ rem' = [rem EXCEPT ![h] = {}] /\ add' = [add EXCEPT ![h] = {}]
        /\ dead' = [dead EXCEPT ![h] = {}] /\ pc' = [pc EXCEPT ![h] = "idle"]
        /\ UNCHANGED reg
    BY <1>4 DEF Crash, Shutdown, Ends
  <2>2. \A g \in Hosts : Kept(g) \/ Empty(g)
    BY <2>1 DEF RecordsInv, TypeOK
  <2> QED BY <2>1, <2>2, RecordsFramed
<1>5. ASSUME NEW h \in Hosts,
             \/ Tick(h) \/ ListRecords(h) \/ ListFails(h) \/ GetLiveHostnames(h) \/ EndPass(h)
      PROVE  UNCHANGED reg /\ ApplyInv' /\ Resolvable'
  <2>1. UNCHANGED <<rem, add, reg>>
    BY <1>5 DEF Tick, ListRecords, ListFails, GetLiveHostnames, EndPass
  <2>2. \A g \in Hosts \ {h} : dead'[g] = dead[g] /\ pc'[g] = pc[g]
    BY <1>5 DEF Tick, ListRecords, ListFails, GetLiveHostnames, EndPass, RecordsInv, TypeOK
  <2>3. rem[h] = {} /\ add[h] = {}
    <3>1. pc[h] # "apply" \/ (rem[h] = {} /\ add[h] = {})
      BY <1>5 DEF Tick, ListRecords, ListFails, GetLiveHostnames, EndPass
    <3> QED BY <3>1 DEF RecordsInv, ApplyInv, PlansHeld
  <2>4. \A g \in Hosts : Kept(g) \/ Empty(g)
    BY <2>1, <2>2, <2>3
  <2> QED BY <2>1, <2>4, RecordsFramed
<1> QED BY <1>1, <1>2, <1>3, <1>4, <1>5

\* Every step keeps the plans right and the names resolvable.
LEMMA RecordsInvNext == RecordsInv /\ [Next]_vars => RecordsInv'
<1> SUFFICES ASSUME RecordsInv, [Next]_vars PROVE RecordsInv'
  OBVIOUS
<1>1. PassInv /\ TypeOK
  BY DEF RecordsInv
<1>2. used' \in Faults /\ used.lags <= used'.lags /\ used.failures <= used'.failures
  BY <1>1, FaultsCounted
<1>3. ASSUME NEW h \in Hosts, Writes(h) PROVE ApplyInv' /\ Resolvable'
  BY <1>3, RemovalKeeps, AdditionKeeps DEF Writes
<1>4. ApplyInv' /\ Resolvable'
  BY <1>2, <1>3, StepKinds, RecordsUntouched, PlanMade
<1> QED BY <1>1, <1>4, PassInvNext, TypeOKNext DEF RecordsInv

\* The invariant of the passes of all hosts with the registry they share
\* (SyncEngine.Run, EtcdRegistry).
THEOREM RecordsInvariant == Spec => []RecordsInv
BY RecordsInvInit, RecordsInvNext, PTL DEF Spec

\* At every step of a pass what is left of its plan is still right: of dead hosts
\* or in favour of what is added, and fit for what will remain (SyncEngine.Run
\* between ReconcileAndValidate and the end of its loop over the removals and
\* additions).
THEOREM PlansStayRight == Spec => []ApplyInv
<1>1. RecordsInv => ApplyInv  BY DEF RecordsInv
<1> QED BY <1>1, RecordsInvariant, PTL

\* However many hosts share a registry, and whatever daemons and heartbeats die:
\* until a request on a record fails or a member lags behind, no CNAME stands
\* beside another record of its name and no record is there twice
\* (ValidateRecord, under the lock).
THEOREM NamesStayResolvable == Spec => []Resolvable
<1>1. RecordsInv => Resolvable  BY DEF RecordsInv
<1> QED BY <1>1, RecordsInvariant, PTL

\* What a step may not do to the records of other hosts.
Respected ==
  \A h \in Hosts, s \in Slots :
    /\ lock = h /\ reg[s] # Absent /\ reg'[s] # reg[s] /\ reg[s].host # h
    => \/ reg[s].host \in dead[h] /\ hb[h] # "off"
       \/ MakesWay(h, s)
       \/ \E k \in rem[h] : <<s[1], k.name>> \in Subdomain
       \/ used'.lags > 0

\* No step of an engine does it: a removal is justified, and Register only
\* overwrites a record that a member did not show.
LEMMA RespectedByNext == RecordsInv /\ [Next]_vars => Respected
<1> DEFINE Lost(h, s) == lock = h /\ reg[s] # Absent /\ reg'[s] # reg[s] /\ reg[s].host # h
           Excused(h, s) == \/ reg[s].host \in dead[h] /\ hb[h] # "off"
                            \/ MakesWay(h, s)
                            \/ \E k \in rem[h] : <<s[1], k.name>> \in Subdomain
                            \/ used'.lags > 0
<1>1. ASSUME RecordsInv, [Next]_vars, NEW h \in Hosts, NEW s \in Slots, Lost(h, s)
      PROVE  Excused(h, s)
  <2>1. used' \in Faults /\ used.lags <= used'.lags /\ used.failures <= used'.failures
    BY <1>1, FaultsCounted DEF RecordsInv
  <2>2. PICK g \in Hosts : Writes(g)
    <3>1. ASSUME NEW g \in Hosts, MakePlan(g) PROVE UNCHANGED reg
      BY <3>1 DEF MakePlan, records
    <3> QED BY <1>1, <2>1, <3>1, StepKinds, RecordsUntouched
  <2>3. g = h
    BY <1>1, <2>2, WriterAlone
  <2>4. used'.lags = 0 => used.lags = 0
    BY <1>1, <2>1 DEF RecordsInv, TypeOK, Faults
  <2>5. used'.lags = 0 \/ used'.lags > 0
    BY <2>1, EngineAssumption DEF Faults
  <2>6. ASSUME NEW k \in rem[h], RemoveRecord(h, k), used'.lags = 0 PROVE Excused(h, s)
    <3>1. reg' = RemoveFrom(reg, k)
      BY <1>1, <2>6 DEF RemoveRecord, Write, records
    <3>2. Under(s[1], k.name) /\ RecordMatches(reg[s], k)
      BY <1>1, <3>1 DEF RemoveFrom, Matching
    <3>3. CASE s[1] = k.name
      <4>1. reg[s].host \in dead[h] \/ MakesWay(h, s)
        BY <1>1, <2>4, <2>6, <3>2, <3>3 DEF RecordsInv, ApplyInv, RemovalsJustified
      <4>2. dead[h] # {} => hb[h] # "off"
        BY <1>1 DEF RecordsInv, PassInv, DeadBySurvivor
      <4> QED BY <4>1, <4>2
    <3> QED BY <3>2, <3>3 DEF Under
  <2>7. ASSUME NEW r \in add[h], RegisterRecord(h, r), used'.lags = 0 PROVE FALSE
    <3>1. r \in Intents /\ reg \in Registries /\ used \in Faults
      BY <1>1 DEF RecordsInv, TypeOK, Registries
    <3>2. CanRegister(reg, r) /\ reg' = RegisterIn(reg, reg, r)
      BY <1>1, <2>7, <3>1, LagCounted DEF RegisterRecord, MemberAnswers, Write, records
    <3>3. reg[<<r.name, NextIndex(reg, r.name)>>] = Absent
      BY <3>2, NextIndexFree DEF FreeIndices
    <3> QED BY <1>1, <3>1, <3>2, <3>3 DEF RegisterIn, Registries
  <2> HIDE DEF Excused
  <2>8. used'.lags > 0 => Excused(h, s)
    BY DEF Excused
  <2> QED BY <2>2, <2>3, <2>5, <2>6, <2>7, <2>8 DEF Writes
<1> QED BY <1>1 DEF Respected

\* A host takes away a record of another one only if that one had no heartbeat
\* when the pass asked, or in favour of a forced or older record of its own; or
\* after one of the faults, or by the wide reach of Remove, that the property
\* names (ReconcileAndValidate, EtcdRegistry.Remove and Register).
THEOREM OthersAreRespected == Spec => OthersRecordsRespected
<1>1. RecordsInv /\ [Next]_vars => [Respected]_vars
  BY RespectedByNext
<1> QED BY <1>1, RecordsInvariant, PTL DEF Spec, OthersRecordsRespected, Respected

-----------------------------------------------------------------------------
\* Whatever the trackers hold.

\* SyncEngine lets a tracker learn of containers that run and forget those that
\* do not.  DockerTracker may also add one that has stopped, or drop one that
\* runs, when Docker replays its events.  Here the trackers change as they like.
TrackerMoves ==
  /\ tracked' \in [Hosts -> SUBSET Containers]
  /\ byEvent' \subseteq UNION {tracked'[h] : h \in Hosts}
  /\ UNCHANGED <<docker, up, hb, hbKey, records, lock, pc, seen, dead, rem, add, used>>

AnyTrackers == Init /\ [][Next \/ TrackerMoves]_vars

\* No plan, no record and no pass changes with a tracker: a plan is made from it in
\* one step.
LEMMA TrackersApart == RecordsInv /\ TrackerMoves => RecordsInv'
<1> SUFFICES ASSUME RecordsInv, TrackerMoves PROVE RecordsInv'
  OBVIOUS
<1>1. UNCHANGED <<running, news, up, hb, hbKey, reg, old, lock, pc, seen, dead, rem, add, used>>
  BY DEF TrackerMoves, docker, records
<1>2. PassInv'
  <2>1. PassInv
    BY DEF RecordsInv
  <2> QED BY <1>1, <2>1, PassInvFramed
<1>3. TypeOK'
  BY <1>1 DEF RecordsInv, TypeOK, TrackerMoves
<1>4. ApplyInv' /\ Resolvable'
  <2>1. used' \in Faults /\ used.lags <= used'.lags /\ used.failures <= used'.failures
    BY <1>1 DEF RecordsInv, TypeOK, Faults
  <2> QED BY <1>1, <2>1, RecordsFramed
<1> QED BY <1>2, <1>3, <1>4 DEF RecordsInv

\* The passes are right, every name resolves and the hosts respect each other's
\* records, whatever the trackers hold and whenever it changes: what Docker's
\* events do to a tracker (state.MemoryTracker, DockerGenerator) never reaches
\* the safety of the registry.
THEOREM SafeWhateverIsTracked ==
  AnyTrackers => [](ApplyInv /\ Resolvable /\ PlansFromTruth) /\ OthersRecordsRespected
<1>1. RecordsInv /\ [Next \/ TrackerMoves]_vars => RecordsInv'
  BY RecordsInvNext, TrackersApart
<1>2. RecordsInv => ApplyInv /\ Resolvable /\ PlansFromTruth
  BY DEF RecordsInv, PassInv
<1>3. RecordsInv /\ [Next \/ TrackerMoves]_vars => [Respected]_vars
  BY RespectedByNext DEF TrackerMoves, records, Respected
<1>4. OthersRecordsRespected <=> [][Respected]_vars
  BY PTL DEF OthersRecordsRespected, Respected
<1> QED BY <1>1, <1>2, <1>3, <1>4, RecordsInvInit, PTL DEF AnyTrackers

\* The registry the hosts share.

\* A host tracks its own containers and adds its own records.
OwnRecords ==
  \A h \in Hosts : /\ \A c \in tracked[h] : HostOf[c] = h
                   /\ \A r \in add[h] : r.host = h

\* The intents of a container are of its host, whatever the tracker knows of its
\* age; and none of them is the absence of a record.
LEMMA IntentHosted ==
  ASSUME NEW c \in Containers, NEW events, NEW r \in Aged(c, events)
  PROVE  r.host = HostOf[c] /\ r # Absent
<1>1. PICK q \in IntentsOf[c] : r = q \/ r = [q EXCEPT !.created = StartedAt[c]]
  BY DEF Aged
<1>2. q.host = HostOf[c] /\ "host" \in DOMAIN q
  BY EngineAssumption
<1>3. [q EXCEPT !.created = StartedAt[c]].host = q.host
  BY <1>2
<1>4. Absent \notin {q, [q EXCEPT !.created = StartedAt[c]]}
  BY EngineAssumption
<1> QED BY <1>1, <1>2, <1>3, <1>4

\* The events of a container go to its own host, and a plan adds what is tracked.
LEMMA OwnRecordsNext == OwnRecords /\ TypeOK /\ [Next]_vars => OwnRecords'
<1> SUFFICES ASSUME OwnRecords, TypeOK, [Next]_vars PROVE OwnRecords'
  OBVIOUS
<1> USE DEF docker, tracker, records, local
<1>1. ASSUME NEW h \in Hosts, NEW c \in Containers, HandleEvent(h, c) \/ ListedAgain(h, c)
      PROVE  OwnRecords'
  <2>1. /\ HostOf[c] = h
        /\ Started(h, c) \/ Listed(h, c) \/ Stopped(h, c)
        /\ UNCHANGED add
    BY <1>1 DEF HandleEvent, ListedAgain, OwnRecords
  <2>2. /\ \A g \in Hosts \ {h} : tracked'[g] = tracked[g]
        /\ tracked'[h] \subseteq tracked[h] \cup {c}
    BY <2>1 DEF Started, Listed, Stopped, TypeOK
  <2> QED BY <2>1, <2>2 DEF OwnRecords
<1>2. ASSUME NEW h \in Hosts, Crash(h) \/ Shutdown(h) PROVE OwnRecords'
  <2>1. /\ tracked' = [tracked EXCEPT ![h] = {}] /\ add' = [add EXCEPT ![h] = {}]
    BY <1>2 DEF Crash, Shutdown, Ends
  <2> QED BY <2>1 DEF OwnRecords, TypeOK
<1>3. ASSUME NEW h \in Hosts, MakePlan(h) PROVE OwnRecords'
  <2>1. PICK desired \in DesiredOf(h) :
          \E plan \in ReconcileAndValidate(h, desired, seen[h], dead[h]) :
            add' = [add EXCEPT ![h] = plan.add]
    BY <1>3 DEF MakePlan
  <2>2. PICK plan \in ReconcileAndValidate(h, desired, seen[h], dead[h]) :
          add' = [add EXCEPT ![h] = plan.add]
    BY <2>1
  <2>3. /\ desired \subseteq UNION {Aged(c, byEvent) : c \in tracked[h]}
        /\ desired \subseteq Intents /\ IsFiniteSet(desired)
    BY DesiredSound DEF TypeOK
  <2>4. plan.add \subseteq desired
    <3>1. seen[h] \in Seq(Intents)
      BY DEF TypeOK
    <3>2. plan \in SoundPlans(h, desired, seen[h], dead[h])
      BY <2>3, <3>1, PlanSound
    <3> QED BY <3>2 DEF SoundPlans
  <2>5. \A r \in plan.add : r.host = h
    <3> SUFFICES ASSUME NEW r \in plan.add PROVE r.host = h
      OBVIOUS
    <3>1. PICK c \in tracked[h] : r \in Aged(c, byEvent)
      BY <2>3, <2>4
    <3>2. c \in Containers
      BY <3>1 DEF TypeOK
    <3> QED BY <3>1, <3>2, IntentHosted DEF OwnRecords
  <2>6. UNCHANGED tracked
    BY <1>3 DEF MakePlan
  <2> QED BY <2>2, <2>5, <2>6 DEF OwnRecords, TypeOK
<1>4. ASSUME NEW h \in Hosts, Writes(h) PROVE OwnRecords'
  <2>1. UNCHANGED tracked /\ \A g \in Hosts : add'[g] \subseteq add[g]
    BY <1>4 DEF Writes, RemoveRecord, RegisterRecord, TypeOK
  <2> QED BY <2>1 DEF OwnRecords
<1>5. CASE UNCHANGED <<tracked, add>>
  BY <1>5 DEF OwnRecords
<1>6. ASSUME \/ \E c \in Containers : ContainerChanges(c)
             \/ \E h \in Hosts : HeartbeatExpires(h)
             \/ LockExpires
             \/ UNCHANGED vars
      PROVE  UNCHANGED <<tracked, add>>
  BY <1>6 DEF ContainerChanges, HeartbeatExpires, LockExpires, vars
<1>7. ASSUME NEW h \in Hosts,
             \/ Start(h) \/ HeartbeatLost(h) \/ HeartbeatAgain(h) \/ Tick(h) \/ ListRecords(h)
             \/ ListFails(h) \/ GetLiveHostnames(h) \/ EndPass(h)
      PROVE  UNCHANGED <<tracked, add>>
  BY <1>7 DEF Start, HeartbeatLost, HeartbeatAgain, Tick, ListRecords, ListFails,
     GetLiveHostnames, EndPass
<1> QED BY <1>1, <1>2, <1>3, <1>4, <1>5, <1>6, <1>7, StepKinds DEF Around

SharedInv == RecordsInv /\ OwnRecords

\* A request on a record has failed, or a member has lagged behind.
Faulty == used.failures + used.lags > 0

\* What counts as a fault of the records, and what does not.
LEMMA FaultySteps ==
  ASSUME used \in Faults
  PROVE  /\ Faulty <=> ~(used.failures = 0 /\ used.lags = 0)
         /\ \/ UNCHANGED used
            \/ CountFault("changes", MaxChanges) \/ CountFault("stops", MaxStops)
            \/ CountFault("outages", MaxOutages) \/ CountFault("hbFailures", MaxHbFailures)
            => Faulty' = Faulty
         /\ CountFault("failures", MaxFailures) \/ CountFault("lags", MaxLags) => Faulty'
<1> USE EngineAssumption DEF Faults, Faulty, CountFault
<1>1. Faulty <=> ~(used.failures = 0 /\ used.lags = 0)  OBVIOUS
<1>2. CASE UNCHANGED used  BY <1>1, <1>2
<1>3. CASE CountFault("changes", MaxChanges)  BY <1>1, <1>3
<1>4. CASE CountFault("stops", MaxStops)  BY <1>1, <1>4
<1>5. CASE CountFault("outages", MaxOutages)  BY <1>1, <1>5
<1>6. CASE CountFault("hbFailures", MaxHbFailures)  BY <1>1, <1>6
<1>7. CASE CountFault("failures", MaxFailures)  BY <1>1, <1>7
<1>8. CASE CountFault("lags", MaxLags)  BY <1>1, <1>8
<1> HIDE DEF Faults, Faulty, CountFault
<1> QED BY <1>1, <1>2, <1>3, <1>4, <1>5, <1>6, <1>7, <1>8

\* A fault in the turn of h: the registry may be anything.
LEMMA FaultMapped ==
  ASSUME TypeOK', NEW h \in Hosts, lock = h, lock' = h, UNCHANGED <<hbKey, dead>>, Faulty'
  PROVE  Shared!Next
<1>1. Content(reg)' \subseteq Intents
  BY DEF TypeOK, Content
<1>2. Shared!Fault(h)
  BY <1>1 DEF Shared!Fault, Faulty
<1> QED BY <1>2 DEF Shared!Next

\* Containers, events, heartbeats and daemons: the records stay as they are.
LEMMA WorldMapped ==
  ASSUME SharedInv,
         \/ Around
         \/ \E h \in Hosts : \/ Start(h) \/ Crash(h) \/ Shutdown(h)
                             \/ HeartbeatLost(h) \/ HeartbeatAgain(h)
  PROVE  [Shared!Next]_(Shared!vars)
<1> USE DEF SharedInv, RecordsInv, docker, tracker, records, local
<1>1. used \in Faults
  BY DEF TypeOK
<1>2. ASSUME UNCHANGED <<reg, hbKey, dead>>, Hosts \cap {lock'} = Hosts \cap {lock}, Faulty' = Faulty
      PROVE  UNCHANGED Shared!vars
  BY <1>2 DEF Shared!vars, Content, Faulty
<1>3. ASSUME NEW c \in Containers, ContainerChanges(c) PROVE UNCHANGED Shared!vars
  BY <1>1, <1>2, <1>3, FaultySteps DEF ContainerChanges
<1>4. ASSUME NEW h \in Hosts, NEW c \in Containers, HandleEvent(h, c) \/ ListedAgain(h, c)
      PROVE  UNCHANGED Shared!vars
  BY <1>1, <1>2, <1>4, FaultySteps DEF HandleEvent, ListedAgain
<1>5. ASSUME NEW h \in Hosts, HeartbeatExpires(h) PROVE Shared!Next
  <2>1. hbKey' = hbKey \ {h} /\ UNCHANGED <<reg, lock, dead>> /\ Faulty' = Faulty
    BY <1>1, <1>5, FaultySteps DEF HeartbeatExpires
  <2>2. Shared!RunsOut(h)
    BY <2>1 DEF Shared!RunsOut, Content, Faulty
  <2> QED BY <2>2 DEF Shared!Next
<1>6. ASSUME LockExpires PROVE UNCHANGED Shared!vars
  <2>1. lock \notin Hosts /\ lock' \notin Hosts
    BY <1>6, EngineAssumption DEF LockExpires
  <2> QED BY <1>1, <1>2, <1>6, <2>1, FaultySteps DEF LockExpires
<1>7. ASSUME NEW h \in Hosts, Start(h) \/ HeartbeatAgain(h)
      PROVE  Shared!Next \/ UNCHANGED Shared!vars
  <2>1. UNCHANGED <<reg, lock, dead>> /\ Faulty' = Faulty /\ hbKey' \in {hbKey, hbKey \cup {h}}
    BY <1>1, <1>7, FaultySteps DEF Start, HeartbeatAgain
  <2>2. hbKey' = hbKey \cup {h} => Shared!Publish(h)
    BY <2>1 DEF Shared!Publish, Content, Faulty
  <2> QED BY <1>2, <2>1, <2>2 DEF Shared!Next
<1>8. ASSUME NEW h \in Hosts, Crash(h) \/ Shutdown(h) PROVE Shared!Next
  <2>1. /\ lock' = (IF lock = h THEN Orphan ELSE lock)
        /\ dead' = [dead EXCEPT ![h] = {}] /\ UNCHANGED reg
        /\ Faulty' = Faulty /\ hbKey' \in {hbKey, hbKey \ {h}}
    BY <1>1, <1>8, FaultySteps DEF Crash, Shutdown, Ends
  <2>2. Hosts \cap {lock'} = (Hosts \cap {lock}) \ {h}
    BY <2>1, EngineAssumption
  <2>3. Shared!Ends(h)
    BY <2>1, <2>2 DEF Shared!Ends, Shared!Forgets, Content, Faulty
  <2> QED BY <2>3 DEF Shared!Next
<1>9. ASSUME NEW h \in Hosts, HeartbeatLost(h) PROVE UNCHANGED Shared!vars
  BY <1>1, <1>2, <1>9, FaultySteps DEF HeartbeatLost
<1> QED BY <1>3, <1>4, <1>5, <1>6, <1>7, <1>8, <1>9 DEF Around

\* A pass up to its first write, and its end: the turn of its host.
LEMMA PassMapped ==
  ASSUME SharedInv, TypeOK', NEW h \in Hosts,
         \/ Tick(h) \/ ListRecords(h) \/ ListFails(h) \/ GetLiveHostnames(h) \/ MakePlan(h)
         \/ EndPass(h)
  PROVE  [Shared!Next]_(Shared!vars)
<1> USE DEF SharedInv, RecordsInv, docker, tracker, records, local
<1>1. used \in Faults
  BY DEF TypeOK
<1>2. ASSUME UNCHANGED <<reg, hbKey, dead, lock>>, Faulty' = Faulty
      PROVE  UNCHANGED Shared!vars
  BY <1>2 DEF Shared!vars, Content, Faulty
<1>3. pc[h] # "idle" => lock = h
  BY DEF PassInv, PassLocked
<1>4. CASE Tick(h)
  <2>1. lock = NoHost /\ lock' = h /\ UNCHANGED <<reg, hbKey, dead>> /\ Faulty' = Faulty
    BY <1>1, <1>4, FaultySteps DEF Tick, LockFree
  <2>2. Hosts \cap {lock} = {} /\ Hosts \cap {lock'} = {h}
    BY <2>1, EngineAssumption
  <2>3. Shared!Begin(h)
    BY <2>1, <2>2 DEF Shared!Begin, Content, Faulty
  <2> QED BY <2>3 DEF Shared!Next
<1>5. CASE ListRecords(h)
  <2>1. lock = h /\ UNCHANGED <<reg, hbKey, dead, lock>> /\ (Faulty' = Faulty \/ Faulty')
    BY <1>1, <1>3, <1>5, FaultySteps DEF ListRecords, MemberAnswers
  <2> QED BY <1>2, <2>1, FaultMapped
<1>6. ASSUME lock = h, lock' = NoHost, UNCHANGED <<reg, hbKey>>, dead' = [dead EXCEPT ![h] = {}],
             Faulty' = Faulty \/ Faulty'
      PROVE  Shared!Next
  <2>1. h \in Hosts \cap {lock} /\ Hosts \cap {lock'} = (Hosts \cap {lock}) \ {h}
    BY <1>6, EngineAssumption
  <2>2. Shared!Finish(h)
    BY <1>6, <2>1 DEF Shared!Finish, Shared!Forgets, Content, Faulty
  <2> QED BY <2>2 DEF Shared!Next
<1>7. CASE ListFails(h)
  <2>1. dead' = [dead EXCEPT ![h] = {}]
    BY <1>7 DEF ListFails, PassInv, NobodyDeadAtFirst, TypeOK
  <2> QED BY <1>1, <1>3, <1>6, <1>7, <2>1, FaultySteps DEF ListFails
<1>8. CASE GetLiveHostnames(h)
  <2>1. lock = h /\ dead[h] = {} /\ UNCHANGED <<reg, hbKey, lock>>
    BY <1>3, <1>8 DEF GetLiveHostnames, PassInv, NobodyDeadAtFirst
  <2>2. CASE dead' = [dead EXCEPT ![h] = DeadHosts(h)] /\ UNCHANGED used
    <3>1. Faulty' = Faulty
      BY <1>1, <2>2, FaultySteps
    <3>2. CASE hb[h] = "active"
      <4>1. dead' = [dead EXCEPT ![h] = Hosts \ (hbKey \cup {h})]
        BY <2>2, <3>2 DEF DeadHosts
      <4>2. Shared!Ask(h)
        BY <2>1, <3>1, <4>1 DEF Shared!Ask, Content, Faulty
      <4> QED BY <4>2 DEF Shared!Next
    <3>3. CASE hb[h] # "active"
      <4>1. UNCHANGED dead
        BY <2>1, <2>2, <3>3 DEF DeadHosts, TypeOK
      <4> QED BY <1>2, <2>1, <3>1, <4>1
    <3> QED BY <3>2, <3>3
  <2>3. CASE dead' = [dead EXCEPT ![h] = {}] /\ CountFault("failures", MaxFailures)
    <3>1. UNCHANGED dead
      BY <2>1, <2>3 DEF TypeOK
    <3> QED BY <1>1, <2>1, <2>3, <3>1, FaultySteps, FaultMapped
  <2> QED BY <1>8, <2>2, <2>3 DEF GetLiveHostnames
<1>9. CASE MakePlan(h)
  BY <1>1, <1>2, <1>9, FaultySteps DEF MakePlan
<1>10. CASE EndPass(h)
  BY <1>1, <1>3, <1>6, <1>10, FaultySteps DEF EndPass
<1> QED BY <1>4, <1>5, <1>7, <1>8, <1>9, <1>10

\* A removal takes away what it may.
LEMMA RemovalMapped ==
  ASSUME SharedInv, NEW h \in Hosts, NEW k \in rem[h], RemoveRecord(h, k),
         UNCHANGED used, ~Faulty
  PROVE  Shared!Next
<1> USE DEF SharedInv, RecordsInv
<1>1. lock = h
  BY WriterAlone DEF Writes
<1>2. used.lags = 0 /\ used.failures = 0
  BY FaultySteps DEF TypeOK
<1>3. reg' = RemoveFrom(reg, k)
  BY <1>2, FailureCounted DEF RemoveRecord, Write, TypeOK
<1>4. UNCHANGED <<hbKey, dead, lock>>
  BY DEF RemoveRecord
<1>5. Content(reg)' \subseteq Content(reg)
  BY <1>3 DEF Content, RemoveFrom
<1>6. ASSUME NEW r \in Content(reg) \ Content(reg)'
      PROVE  r.host \in {h} \cup dead[h] \/ Shared!Precedes(h, r) \/ Shared!TakenAlong(r)
  <2>1. PICK s \in Slots : reg[s] = r /\ r # Absent
    BY DEF Content
  <2>2. reg'[s] # r
    BY <1>6, <2>1 DEF Content
  <2>3. Under(s[1], k.name) /\ RecordMatches(r, k) /\ r.name = s[1]
    BY <1>3, <2>1, <2>2 DEF RemoveFrom, Matching, ApplyInv, RecordsNamed
  <2>4. CASE s[1] = k.name /\ r.host # h
    <3>1. r.host \in dead[h] \/ MakesWay(h, s)
      BY <1>2, <2>1, <2>3, <2>4 DEF ApplyInv, RemovalsJustified
    <3>2. ASSUME MakesWay(h, s) PROVE Shared!Precedes(h, r)
      <4>1. PICK d \in add[h] : d.name = r.name /\ (d.force \/ Before(d, r))
        BY <1>2, <2>1, <2>3, <3>2 DEF MakesWay
      <4>2. d \in Intents /\ d.host = h
        BY DEF TypeOK, OwnRecords
      <4> QED BY <4>1, <4>2 DEF Shared!Precedes, Shared!Before, Before
    <3> QED BY <3>1, <3>2
  <2>5. CASE <<s[1], k.name>> \in Subdomain
    <3>1. PICK q \in Intents : k = Key(q)
      BY DEF TypeOK
    <3>2. /\ <<r.name, q.name>> \in Subdomain
          /\ q.id = r.id /\ q.host = r.host /\ q.kind = r.kind /\ q.value = r.value
      BY <2>3, <2>5, <3>1 DEF RecordMatches, Key
    <3> QED BY <3>1, <3>2 DEF Shared!TakenAlong
  <2> QED BY <2>3, <2>4, <2>5 DEF Under
<1>7. Shared!TakeAway(h)
  BY <1>1, <1>4, <1>5, <1>6 DEF Shared!TakeAway
<1> QED BY <1>7 DEF Shared!Next

\* An addition is of this host, and fits what is there.
LEMMA AdditionMapped ==
  ASSUME SharedInv, NEW h \in Hosts, NEW r \in add[h], RegisterRecord(h, r),
         UNCHANGED used, ~Faulty
  PROVE  Shared!Next
<1> USE DEF SharedInv, RecordsInv
<1>1. lock = h
  BY WriterAlone DEF Writes
<1>2. used.lags = 0 /\ used.failures = 0 /\ used \in Faults
  BY FaultySteps DEF TypeOK
<1>3. CanRegister(reg, r) /\ reg' = RegisterIn(reg, reg, r)
  BY <1>2, FailureCounted, LagCounted DEF RegisterRecord, MemberAnswers, Write
<1>4. UNCHANGED <<hbKey, dead, lock>> /\ rem[h] = {}
  BY DEF RegisterRecord, RemovalsDone
<1>5. r \in Intents /\ r.host = h /\ r # Absent
  <2>1. r \in Intents
    BY DEF TypeOK
  <2>2. PICK c \in Containers : r \in Aged(c, Containers) \cup IntentsOf[c]
    BY <2>1 DEF Intents
  <2>3. r \in Aged(c, Containers) \/ r \in Aged(c, {})
    BY <2>2 DEF Aged
  <2> QED BY <2>1, <2>3, IntentHosted DEF OwnRecords
<1>6. \A s \in Content(reg) : Shared!Fits(r, s)
  <2> SUFFICES ASSUME NEW s \in Slots, reg[s] # Absent PROVE Shared!Fits(r, reg[s])
    BY DEF Content
  <2>1. Fits(r, reg[s])
    BY <1>2, <1>4 DEF ApplyInv, AdditionsFit
  <2> QED BY <2>1 DEF Shared!Fits, Shared!IsCNAME, Shared!SameRecord, Fits, IsCNAME, SameRecord
<1>7. Content(reg)' = Content(reg) \cup {r}
  <2> DEFINE t == <<r.name, NextIndex(reg, r.name)>>
  <2>1. t \in Slots /\ reg[t] = Absent
    <3>1. reg \in Registries
      BY DEF TypeOK, Registries
    <3> QED BY <1>3, <1>5, <3>1, WritesTyped, NextIndexFree DEF FreeIndices
  <2>2. reg' = [reg EXCEPT ![t] = r]
    BY <1>3 DEF RegisterIn
  <2> HIDE DEF t
  <2>3. \A s \in Slots : reg'[s] = IF s = t THEN r ELSE reg[s]
    BY <2>2 DEF TypeOK
  <2> QED BY <1>5, <2>1, <2>3 DEF Content
<1>8. Shared!Register(h)
  BY <1>1, <1>4, <1>5, <1>6, <1>7 DEF Shared!Register
<1> QED BY <1>8 DEF Shared!Next

\* A write of a pass: it takes away or registers as it may, or a request has failed.
LEMMA WritesMapped ==
  ASSUME SharedInv, TypeOK', NEW h \in Hosts, Writes(h)
  PROVE  Shared!Next
<1> USE DEF SharedInv, RecordsInv
<1>1. lock = h /\ UNCHANGED <<lock, dead, hbKey>>
  BY WriterAlone DEF Writes, RemoveRecord, RegisterRecord
<1>2. Faulty' \/ (UNCHANGED used /\ ~Faulty)
  <2>1. \/ UNCHANGED used
        \/ CountFault("failures", MaxFailures) \/ CountFault("lags", MaxLags)
    BY DEF Writes, RemoveRecord, RegisterRecord, MemberAnswers
  <2>2. used \in Faults
    BY DEF TypeOK
  <2>3. UNCHANGED used => Faulty' = Faulty
    BY DEF Faulty
  <2> QED BY <2>1, <2>2, <2>3, FaultySteps
<1>3. CASE Faulty'
  BY <1>1, <1>3, FaultMapped
<1>4. CASE UNCHANGED used /\ ~Faulty
  BY <1>4, RemovalMapped, AdditionMapped DEF Writes
<1> QED BY <1>2, <1>3, <1>4

\* However the requests of all passes, the heartbeats, the crashes and the events
\* of the containers interleave, the records in etcd change only as
\* SharedRegistry allows: SyncEngine.Run with ReconcileAndValidate, EtcdRegistry
\* and the lock implements it.
THEOREM EngineSharesRegistry == Spec => RegistryShared
<1>1. Init => Shared!Init
  <2> SUFFICES ASSUME Init PROVE Shared!Init
    OBVIOUS
  <2>1. Content(reg) = {} /\ Hosts \cap {lock} = {}
    BY EngineAssumption DEF Init, Content, EmptyRegistry
  <2>2. (used.failures + used.lags > 0) = FALSE
    BY DEF Init
  <2> QED BY <2>1, <2>2 DEF Init, Shared!Init
<1>2. Init => SharedInv
  BY RecordsInvInit DEF Init, SharedInv, OwnRecords
<1>3. SharedInv /\ [Next]_vars => SharedInv'
  BY RecordsInvNext, OwnRecordsNext DEF SharedInv, RecordsInv
<1>4. SharedInv /\ SharedInv' /\ [Next]_vars => [Shared!Next]_(Shared!vars)
  <2> SUFFICES ASSUME SharedInv, SharedInv', [Next]_vars PROVE [Shared!Next]_(Shared!vars)
    OBVIOUS
  <2>1. TypeOK'
    BY DEF SharedInv, RecordsInv
  <2>2. CASE UNCHANGED vars
    BY <2>2 DEF vars, local, records, Shared!vars, Content
  <2>3. ASSUME NEW h \in Hosts, Writes(h) PROVE Shared!Next
    BY <2>1, <2>3, WritesMapped
  <2> QED BY <2>1, <2>2, <2>3, StepKinds, WorldMapped, PassMapped
<1> QED BY <1>1, <1>2, <1>3, <1>4, PTL DEF Spec, RegistryShared, Shared!Spec

=============================================================================
