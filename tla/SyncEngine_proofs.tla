--------------------------- MODULE SyncEngine_proofs ---------------------------
(***************************************************************************)
(* What TLAPS proves of the passes of any number of hosts, for any records *)
(* and any faults: they exclude each other as GlobalLock has it, a plan is *)
(* made from what the registry holds, and only a host with a heartbeat     *)
(* holds others for dead.  What a plan contains and what Register and      *)
(* Remove do to the registry plays no part here, but in                    *)
(* EngineRecords_proofs.                                                   *)
(***************************************************************************)
EXTENDS SyncEngine, TLAPS

-----------------------------------------------------------------------------
\* The count of the faults.

AnyFault ==
  \/ CountFault("changes", MaxChanges) \/ CountFault("stops", MaxStops)
  \/ CountFault("outages", MaxOutages) \/ CountFault("failures", MaxFailures)
  \/ CountFault("hbFailures", MaxHbFailures) \/ CountFault("lags", MaxLags)

\* Each kind of fault stays within its bound; lags and failures are never forgotten.
LEMMA FaultCounted ==
  used \in Faults /\ (AnyFault \/ UNCHANGED used)
  => used' \in Faults /\ used.lags <= used'.lags /\ used.failures <= used'.failures
<1> SUFFICES ASSUME used \in Faults, AnyFault \/ UNCHANGED used
             PROVE  /\ used' \in Faults
                    /\ used.lags <= used'.lags /\ used.failures <= used'.failures
  OBVIOUS
<1> USE EngineAssumption DEF Faults, CountFault
<1>1. CASE CountFault("changes", MaxChanges)  BY <1>1
<1>2. CASE CountFault("stops", MaxStops)  BY <1>2
<1>3. CASE CountFault("outages", MaxOutages)  BY <1>3
<1>4. CASE CountFault("failures", MaxFailures)  BY <1>4
<1>5. CASE CountFault("hbFailures", MaxHbFailures)  BY <1>5
<1>6. CASE CountFault("lags", MaxLags)  BY <1>6
<1>7. CASE UNCHANGED used  BY <1>7
<1> QED
  BY <1>1, <1>2, <1>3, <1>4, <1>5, <1>6, <1>7 DEF AnyFault

\* A lag of etcd is counted.
LEMMA LagCounted == used \in Faults /\ CountFault("lags", MaxLags) => used'.lags # 0
BY EngineAssumption DEF Faults, CountFault
\* A write that fails is counted.
LEMMA FailureCounted ==
  used \in Faults /\ CountFault("failures", MaxFailures) => used'.failures # 0
BY EngineAssumption DEF Faults, CountFault

-----------------------------------------------------------------------------
\* The steps, by what they touch.

\* The world around the passes: containers, their events, heartbeats.
Around ==
  \/ \E c \in Containers : ContainerChanges(c)
  \/ \E h \in Hosts, c \in Containers : HandleEvent(h, c) \/ ListedAgain(h, c)
  \/ \E h \in Hosts : HeartbeatExpires(h)
  \/ LockExpires

\* A write of a pass.
Writes(h) ==
  \/ \E k \in rem[h] : RemoveRecord(h, k)
  \/ \E r \in add[h] : RegisterRecord(h, r)

\* What happens around the passes leaves them, and the registry, alone.
LEMMA AroundThePasses ==
  Around => /\ UNCHANGED <<up, hb, pc, seen, dead, reg>>
            /\ AnyFault \/ UNCHANGED used
            /\ lock \in Hosts => UNCHANGED lock
<1> SUFFICES ASSUME Around PROVE /\ UNCHANGED <<up, hb, pc, seen, dead, reg>>
                                 /\ AnyFault \/ UNCHANGED used
                                 /\ lock \in Hosts => UNCHANGED lock
  OBVIOUS
<1> USE DEF docker, tracker, records, local, AnyFault
<1>1. ASSUME NEW c \in Containers, ContainerChanges(c)
      PROVE  UNCHANGED <<up, hb, pc, seen, dead, reg, lock>> /\ AnyFault
  BY <1>1 DEF ContainerChanges
<1>2. ASSUME NEW h \in Hosts, NEW c \in Containers, HandleEvent(h, c) \/ ListedAgain(h, c)
      PROVE  UNCHANGED <<up, hb, pc, seen, dead, reg, lock, used>>
  BY <1>2 DEF HandleEvent, ListedAgain
<1>3. ASSUME NEW h \in Hosts, HeartbeatExpires(h)
      PROVE  UNCHANGED <<up, hb, pc, seen, dead, reg, lock>> /\ (AnyFault \/ UNCHANGED used)
  BY <1>3 DEF HeartbeatExpires
<1>4. ASSUME LockExpires
      PROVE  UNCHANGED <<up, hb, pc, seen, dead, reg, used>> /\ lock \notin Hosts
  BY <1>4, EngineAssumption DEF LockExpires
<1> QED
  BY <1>1, <1>2, <1>3, <1>4 DEF Around

\* A write of a pass changes the registry and the rest of its own plan.
LEMMA WritesTouch ==
  ASSUME NEW h \in Hosts, Writes(h)
  PROVE  /\ pc[h] = "apply"
         /\ UNCHANGED <<up, hb, pc, seen, dead, lock>>
         /\ AnyFault \/ UNCHANGED used
<1> USE DEF docker, tracker, AnyFault
<1>1. ASSUME NEW k \in rem[h], RemoveRecord(h, k)
      PROVE  /\ pc[h] = "apply"
             /\ UNCHANGED <<up, hb, pc, seen, dead, lock>>
             /\ AnyFault \/ UNCHANGED used
  BY <1>1 DEF RemoveRecord
<1>2. ASSUME NEW r \in add[h], RegisterRecord(h, r)
      PROVE  /\ pc[h] = "apply"
             /\ UNCHANGED <<up, hb, pc, seen, dead, lock>>
             /\ AnyFault \/ UNCHANGED used
  BY <1>2 DEF RegisterRecord, MemberAnswers
<1> QED
  BY <1>1, <1>2 DEF Writes

\* The kinds of steps there are.
LEMMA StepKinds ==
  Next => \/ Around
          \/ \E h \in Hosts :
               \/ Start(h) \/ Crash(h) \/ Shutdown(h) \/ HeartbeatLost(h) \/ HeartbeatAgain(h)
               \/ Tick(h) \/ ListRecords(h) \/ ListFails(h) \/ GetLiveHostnames(h) \/ MakePlan(h)
               \/ Writes(h) \/ EndPass(h)
BY DEF Next, Around, PassStep, Writes

-----------------------------------------------------------------------------
\* The invariant.

\* What PassesExclude and PlansFromTruth rest on, and what a pass knows of dead
\* hosts.

PassTypes ==
  /\ pc \in [Hosts -> {"idle", "list", "live", "plan", "apply"}]
  /\ hb \in [Hosts -> {"off", "active", "lost"}]
  /\ dead \in [Hosts -> SUBSET Hosts]
  /\ seen = [h \in Hosts |-> seen[h]]
  /\ used \in Faults

\* Who is in a pass runs, and has the lock.
PassLocked == \A h \in Hosts : pc[h] # "idle" => lock = h /\ h \in up

\* A pass that failed, ended or died leaves no dead hosts to the next one.
NobodyDeadAtFirst == \A h \in Hosts : pc[h] \in {"idle", "list", "live"} => dead[h] = {}

\* A host holds others for dead only if it publishes a heartbeat itself, and
\* never itself.
DeadBySurvivor == \A h \in Hosts : dead[h] # {} => hb[h] # "off" /\ h \notin dead[h]

PassInv == PassTypes /\ PassLocked /\ NobodyDeadAtFirst /\ DeadBySurvivor /\ PlansFromTruth

\* Nobody is in a pass.
LEMMA PassInvInit == Init => PassInv
<1> SUFFICES ASSUME Init PROVE PassInv
  OBVIOUS
<1>1. PassTypes  BY EngineAssumption DEF Init, PassTypes, Faults
<1>2. PassLocked  BY DEF Init, PassLocked
<1>3. NobodyDeadAtFirst  BY DEF Init, NobodyDeadAtFirst
<1>4. DeadBySurvivor  BY DEF Init, DeadBySurvivor
<1>5. PlansFromTruth  BY DEF Init, PlansFromTruth
<1> QED
  BY <1>1, <1>2, <1>3, <1>4, <1>5 DEF PassInv

\* A step that leaves the passes and the registry alone, or one that writes
\* while everybody else waits for the lock.
LEMMA PassInvFramed ==
  ASSUME PassInv, UNCHANGED <<up, hb, pc, seen, dead>>, AnyFault \/ UNCHANGED used,
         lock \in Hosts => UNCHANGED lock,
         reg' = reg \/ \E h \in Hosts : pc[h] = "apply"
  PROVE  PassInv'
<1> USE DEF PassInv, PassLocked
<1>1. used' \in Faults /\ used.lags <= used'.lags
  BY FaultCounted DEF PassTypes
<1>2. PassTypes'  BY <1>1 DEF PassTypes
<1>3. PassLocked'
  OBVIOUS
<1>4. NobodyDeadAtFirst' /\ DeadBySurvivor'  BY DEF NobodyDeadAtFirst, DeadBySurvivor
<1>5. PlansFromTruth'
  <2> SUFFICES ASSUME NEW g \in Hosts, pc[g] \in {"live", "plan"}, used'.lags = 0
               PROVE  seen[g] = ListOf(reg')
    BY DEF PlansFromTruth
  <2>1. used.lags = 0
    BY <1>1 DEF PassTypes, Faults
  <2>2. reg' = reg
    OBVIOUS
  <2> QED
    BY <2>1, <2>2 DEF PlansFromTruth
<1> QED
  BY <1>2, <1>3, <1>4, <1>5

\* What Start, the heartbeat and the end of a daemon do to its passes.
LEMMA PassInvDaemon ==
  ASSUME PassInv, NEW h \in Hosts,
         Start(h) \/ Crash(h) \/ Shutdown(h) \/ HeartbeatLost(h) \/ HeartbeatAgain(h)
  PROVE  PassInv'
<1> USE DEF PassInv, docker, tracker, records, AnyFault
<1>1. CASE Start(h)
  <2>1. /\ up' = up \cup {h} /\ h \notin up
        /\ hb' \in [Hosts -> {"off", "active", "lost"}]
        /\ \A g \in Hosts \ {h} : hb'[g] = hb[g]
        /\ UNCHANGED <<reg, lock, pc, seen, dead>>
        /\ AnyFault \/ UNCHANGED used
    BY <1>1 DEF Start, PassTypes
  <2>2. used' \in Faults /\ used.lags <= used'.lags
    BY <2>1, FaultCounted DEF PassTypes
  <2>3. dead[h] = {}
    BY <2>1 DEF PassLocked, NobodyDeadAtFirst
  <2>4. PassTypes'  BY <2>1, <2>2 DEF PassTypes
  <2>5. PassLocked'  BY <2>1 DEF PassLocked
  <2>6. NobodyDeadAtFirst'  BY <2>1 DEF NobodyDeadAtFirst
  <2>7. DeadBySurvivor'  BY <2>1, <2>3 DEF DeadBySurvivor
  <2>8. PlansFromTruth'  BY <2>1, <2>2 DEF PlansFromTruth, PassTypes, Faults
  <2> QED
    BY <2>4, <2>5, <2>6, <2>7, <2>8
<1>2. CASE Crash(h) \/ Shutdown(h)
  <2>1. /\ up' = up \ {h}
        /\ hb' = [hb EXCEPT ![h] = "off"]
        /\ lock' = IF lock = h THEN Orphan ELSE lock
        /\ pc' = [pc EXCEPT ![h] = "idle"]
        /\ seen' = [seen EXCEPT ![h] = <<>>]
        /\ dead' = [dead EXCEPT ![h] = {}]
        /\ reg' = reg /\ AnyFault
    BY <1>2 DEF Crash, Shutdown, Ends
  <2>2. used' \in Faults /\ used.lags <= used'.lags
    BY <2>1, FaultCounted DEF PassTypes
  <2>3. PassTypes'  BY <2>1, <2>2 DEF PassTypes
  <2>4. PassLocked'  BY <2>1 DEF PassLocked, PassTypes
  <2>5. NobodyDeadAtFirst'  BY <2>1 DEF NobodyDeadAtFirst, PassTypes
  <2>6. DeadBySurvivor'  BY <2>1 DEF DeadBySurvivor, PassTypes
  <2>7. PlansFromTruth'  BY <2>1, <2>2 DEF PlansFromTruth, PassTypes, Faults
  <2> QED
    BY <2>3, <2>4, <2>5, <2>6, <2>7
<1>3. CASE HeartbeatLost(h) \/ HeartbeatAgain(h)
  <2>1. /\ hb' \in [Hosts -> {"off", "active", "lost"}]
        /\ \A g \in Hosts : hb'[g] = "off" => hb[g] = "off"
        /\ UNCHANGED <<up, reg, lock, pc, seen, dead, used>>
    BY <1>3 DEF HeartbeatLost, HeartbeatAgain, PassTypes
  <2>2. DeadBySurvivor'  BY <2>1 DEF DeadBySurvivor
  <2> QED
    BY <2>1, <2>2 DEF PassTypes, PassLocked, NobodyDeadAtFirst, PlansFromTruth
<1> QED
  BY <1>1, <1>2, <1>3

\* The steps of a pass before its writes, and its end.
LEMMA PassInvPass ==
  ASSUME PassInv, NEW h \in Hosts,
         \/ Tick(h) \/ ListRecords(h) \/ ListFails(h) \/ GetLiveHostnames(h) \/ MakePlan(h)
         \/ EndPass(h)
  PROVE  PassInv'
<1> USE DEF PassInv, docker, tracker, records, AnyFault
<1>1. CASE Tick(h)
  BY <1>1, EngineAssumption
     DEF Tick, LockFree, PassTypes, PassLocked, NobodyDeadAtFirst, DeadBySurvivor, PlansFromTruth
<1>2. CASE ListRecords(h)
  <2>1. /\ pc[h] = "list" /\ pc' = [pc EXCEPT ![h] = "live"]
        /\ UNCHANGED <<up, hb, dead, reg, lock>>
    BY <1>2 DEF ListRecords
  <2>2. PICK view : MemberAnswers(view) /\ seen' = [seen EXCEPT ![h] = ListOf(view)]
    BY <1>2 DEF ListRecords
  <2>3. AnyFault \/ UNCHANGED used
    BY <2>2 DEF MemberAnswers
  <2>4. used' \in Faults /\ used.lags <= used'.lags
    BY <2>3, FaultCounted DEF PassTypes
  <2>5. PassTypes'  BY <2>1, <2>2, <2>4 DEF PassTypes
  <2>6. PassLocked'  BY <2>1 DEF PassLocked, PassTypes
  <2>7. NobodyDeadAtFirst' /\ DeadBySurvivor'
    BY <2>1 DEF NobodyDeadAtFirst, DeadBySurvivor, PassTypes
  <2>8. PlansFromTruth'
    <3> SUFFICES ASSUME NEW g \in Hosts, pc'[g] \in {"live", "plan"}, used'.lags = 0
                 PROVE  seen'[g] = ListOf(reg)
      BY <2>1 DEF PlansFromTruth
    <3>1. g = h
      BY <2>1 DEF PassLocked, PassTypes
    <3>2. view = reg
      BY <2>2, LagCounted DEF MemberAnswers, PassTypes
    <3> QED
      BY <2>2, <3>1, <3>2 DEF PassTypes
  <2> QED
    BY <2>5, <2>6, <2>7, <2>8
<1>3. CASE ListFails(h)
  <2>1. /\ pc[h] = "list" /\ pc' = [pc EXCEPT ![h] = "idle"] /\ lock' = NoHost
        /\ UNCHANGED <<up, hb, dead, reg, seen>> /\ AnyFault
    BY <1>3 DEF ListFails
  <2>2. used' \in Faults /\ used.lags <= used'.lags
    BY <2>1, FaultCounted DEF PassTypes
  <2>3. PassTypes'  BY <2>1, <2>2 DEF PassTypes
  <2>4. PassLocked'  BY <2>1 DEF PassLocked, PassTypes
  <2>5. NobodyDeadAtFirst' /\ DeadBySurvivor'
    BY <2>1 DEF NobodyDeadAtFirst, DeadBySurvivor, PassTypes
  <2>6. PlansFromTruth'  BY <2>1, <2>2 DEF PlansFromTruth, PassTypes, Faults
  <2> QED
    BY <2>3, <2>4, <2>5, <2>6
<1>4. CASE GetLiveHostnames(h)
  <2>1. /\ pc[h] = "live" /\ pc' = [pc EXCEPT ![h] = "plan"]
        /\ UNCHANGED <<up, hb, reg, lock, seen>> /\ (AnyFault \/ UNCHANGED used)
    BY <1>4 DEF GetLiveHostnames
  <2>2. used' \in Faults /\ used.lags <= used'.lags
    BY <2>1, FaultCounted DEF PassTypes
  <2>3. PICK gone \in SUBSET (Hosts \ {h}) :
          dead' = [dead EXCEPT ![h] = gone] /\ (gone # {} => hb[h] # "off")
    BY <1>4 DEF GetLiveHostnames, DeadHosts
  <2>4. PassTypes'  BY <2>1, <2>2, <2>3 DEF PassTypes
  <2>5. PassLocked'  BY <2>1 DEF PassLocked, PassTypes
  <2>6. NobodyDeadAtFirst'  BY <2>1, <2>3 DEF NobodyDeadAtFirst, PassTypes
  <2>7. DeadBySurvivor'  BY <2>1, <2>3 DEF DeadBySurvivor, PassTypes
  <2>8. PlansFromTruth'  BY <2>1, <2>2 DEF PlansFromTruth, PassTypes, Faults
  <2> QED
    BY <2>4, <2>5, <2>6, <2>7, <2>8
<1>5. CASE MakePlan(h)
  <2>1. /\ pc[h] = "plan" /\ pc' = [pc EXCEPT ![h] = "apply"]
        /\ seen' = [seen EXCEPT ![h] = <<>>]
        /\ UNCHANGED <<up, hb, dead, reg, lock, used>>
    BY <1>5 DEF MakePlan
  <2> QED
    BY <2>1 DEF PassTypes, PassLocked, NobodyDeadAtFirst, DeadBySurvivor, PlansFromTruth
<1>6. CASE EndPass(h)
  <2>1. /\ pc[h] = "apply" /\ pc' = [pc EXCEPT ![h] = "idle"] /\ lock' = NoHost
        /\ dead' = [dead EXCEPT ![h] = {}]
        /\ UNCHANGED <<up, hb, seen, reg, used>>
    BY <1>6 DEF EndPass
  <2> QED
    BY <2>1 DEF PassTypes, PassLocked, NobodyDeadAtFirst, DeadBySurvivor, PlansFromTruth
<1> QED
  BY <1>1, <1>2, <1>3, <1>4, <1>5, <1>6

\* No step breaks the bookkeeping of the passes.
LEMMA PassInvNext == PassInv /\ [Next]_vars => PassInv'
<1> SUFFICES ASSUME PassInv, [Next]_vars PROVE PassInv'
  OBVIOUS
<1>1. CASE Around
  BY <1>1, AroundThePasses, PassInvFramed
<1>2. ASSUME NEW h \in Hosts, Writes(h) PROVE PassInv'
  BY <1>2, WritesTouch, PassInvFramed
<1>3. CASE UNCHANGED vars
  <2>1. UNCHANGED <<up, hb, pc, seen, dead, reg, lock, used>>
    BY <1>3 DEF vars, docker, local, tracker, records
  <2> QED
    BY <2>1, PassInvFramed
<1> QED
  BY <1>1, <1>2, <1>3, StepKinds, PassInvDaemon, PassInvPass

\* Whatever the containers, the heartbeats, failing requests and dying daemons
\* do between the requests of a pass (SyncEngine.Run, EtcdRegistry): it has the
\* lock to itself and holds only others for dead.
THEOREM PassInvariant == Spec => []PassInv
BY PassInvInit, PassInvNext, PTL DEF Spec

\* Between List and the plan no other host writes: the plan is made from what the
\* registry holds, unless List was answered by a member that lagged behind.
THEOREM FreshPlans == Spec => []PlansFromTruth
<1>1. PassInv => PlansFromTruth  BY DEF PassInv
<1> QED
  BY <1>1, PassInvariant, PTL

-----------------------------------------------------------------------------
\* The lock.

\* A step moves one pass at most.
LEMMA OnePassMoves ==
  ASSUME PassInv, [Next]_vars
  PROVE  (\E h \in Hosts : \A g \in Hosts \ {h} : pc'[g] = pc[g]) \/ UNCHANGED pc
<1> USE DEF PassInv, PassTypes
<1>1. CASE Around
  BY <1>1, AroundThePasses
<1>2. ASSUME NEW h \in Hosts, Writes(h) PROVE UNCHANGED pc
  BY <1>2, WritesTouch
<1>3. CASE UNCHANGED vars
  BY <1>3 DEF vars, local
<1>4. ASSUME NEW h \in Hosts,
             \/ Start(h) \/ Crash(h) \/ Shutdown(h) \/ HeartbeatLost(h) \/ HeartbeatAgain(h)
             \/ Tick(h) \/ ListRecords(h) \/ ListFails(h) \/ GetLiveHostnames(h) \/ MakePlan(h)
             \/ EndPass(h)
      PROVE  \A g \in Hosts \ {h} : pc'[g] = pc[g]
  BY <1>4 DEF Start, Crash, Shutdown, Ends, HeartbeatLost, HeartbeatAgain, Tick, ListRecords,
     ListFails, GetLiveHostnames, MakePlan, EndPass
<1> QED
  BY <1>1, <1>2, <1>3, <1>4, StepKinds

\* The passes of the engines implement the abstract lock, as LockTransaction
\* does: a pass begins when nobody is in one, and ends with its release, an
\* error or its daemon.
THEOREM EngineRefinement == Spec => PassesExclude
<1> DEFINE abs == [h \in Hosts |-> Section(h)]
<1>1. Init => Lock!Init
  BY DEF Init, Lock!Init, Section
<1>2. PassInv /\ PassInv' /\ [Next]_vars => [Lock!Next]_abs
  <2> SUFFICES ASSUME PassInv, PassInv', [Next]_vars PROVE [Lock!Next]_abs
    OBVIOUS
  <2>1. CASE UNCHANGED pc
    BY <2>1 DEF Section
  <2>2. ASSUME NEW h \in Hosts, \A g \in Hosts \ {h} : pc'[g] = pc[g]
        PROVE  [Lock!Next]_abs
    <3>1. abs' = [abs EXCEPT ![h] = Section(h)']
      BY <2>2 DEF Section
    <3>2. CASE Section(h)' = Section(h)
      BY <3>1, <3>2
    <3>3. CASE Section(h) # {} /\ Section(h)' = {}
      BY <3>1, <3>3 DEF Lock!Leave, Lock!Next
    <3>4. CASE Section(h) = {} /\ Section(h)' = {"__global__"}
      <4>1. \A g \in Hosts \ {h} : Section(g) = {}
        BY <2>2, <3>4 DEF Section, PassInv, PassLocked
      <4>2. Lock!Enter(h, {"__global__"})
        BY <3>1, <3>4, <4>1 DEF Lock!Enter
      <4> QED
        BY <4>2 DEF Lock!Next
    <3> QED
      BY <3>2, <3>3, <3>4 DEF Section
  <2> QED
    BY <2>1, <2>2, OnePassMoves
<1> QED
  BY <1>1, <1>2, PassInvariant, PTL DEF Spec, PassesExclude, Lock!Spec

=============================================================================
