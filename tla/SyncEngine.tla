----------------------------- MODULE SyncEngine -----------------------------
(***************************************************************************)
(* The daemons of several Docker hosts around one registry: the reconcile  *)
(* passes of SyncEngine.Run, one etcd request per step, between the events *)
(* of the containers, the heartbeats of the hosts, crashes, restarts and   *)
(* failed writes.                                                          *)
(*                                                                         *)
(* The lock is the one GlobalLock specifies, so one pass runs at a time    *)
(* (LockTransaction shows when the implementation provides it).  The       *)
(* tracker of a host is the set of containers it knows; how Docker's       *)
(* events get there is not detailed.  The heartbeat of a host is its key   *)
(* in etcd and what the host believes of it.                               *)
(***************************************************************************)
EXTENDS Reconciliation, Registry, FiniteSets

CONSTANTS
  Hosts,
  Containers,
  HostOf,         \* HostOf[c]: the Docker host container c lives on
  IntentsOf,      \* IntentsOf[c]: the record intents its labels ask for
  StartedAt,      \* StartedAt[c]: the time of its start event, after its creation
  NoHost, Orphan, \* the lock is free; the lock of a host that is gone
  AtStart,        \* the containers that run at first
  MaxChanges,     \* bound: containers that start or stop
  MaxStops,       \* bound: daemons that crash or are shut down
  MaxOutages,     \* bound: heartbeats lost while the daemon runs
  MaxFailures,    \* bound: requests on records that fail
  MaxHbFailures,  \* bound: StartHeartbeat calls that fail
  MaxLags,        \* bound: answers of an etcd member that lags behind
  MaxFaults       \* bound: all of these together

ASSUME EngineAssumption ==
  /\ HostOf \in [Containers -> Hosts]
  /\ AtStart \subseteq Containers
  /\ NoHost \notin Hosts /\ Orphan \notin Hosts /\ NoHost # Orphan
  /\ IsFiniteSet(Containers)
  /\ \A c \in Containers :
       /\ IsFiniteSet(IntentsOf[c])
       /\ \A r \in IntentsOf[c] :
            /\ DOMAIN r = {"id", "host", "force", "created", "ttl", "name", "kind", "value"}
            /\ r.id = c /\ r.host = HostOf[c] /\ r.name \in Names
            /\ r.created <= StartedAt[c]
  /\ \A c \in Containers : \A r \in IntentsOf[c] :
       Absent \notin {r, [r EXCEPT !.created = StartedAt[c]]}
  /\ {MaxChanges, MaxStops, MaxOutages, MaxFailures, MaxHbFailures, MaxLags, MaxFaults} \subseteq Nat

VARIABLES
  running,   \* Docker: the containers that run
  up,        \* the hosts whose daemon runs
  news,      \* Docker: the containers whose start event is still to be handled
  tracked,   \* tracked[h]: the containers in the state tracker of h
  byEvent,   \* those of them whose creation time is the time of their event
  hb,        \* hb[h]: "off" without StartHeartbeat; "active" or "lost" (hbActive)
  hbKey,     \* etcd: the hosts whose heartbeat key exists
  reg,       \* etcd: the records
  old,       \* etcd: the records as a member has them that lags behind
  lock,      \* etcd: who holds the lock of the reconcile pass
  pc,        \* pc[h]: where h stands in its pass
  seen,      \* seen[h]: what List returned
  dead,      \* dead[h]: the hosts whose records are garbage, by GetLiveHostnames
  rem, add,  \* what is left of the plan of h
  used       \* how many of the bounded faults have happened

docker == <<running, news>>
tracker == <<tracked, byEvent>>
records == <<reg, old>>
local == <<tracker, hb, pc, seen, dead, rem, add>>
vars == <<docker, up, local, hbKey, records, lock, used>>

Faults == [changes : 0..MaxChanges, stops : 0..MaxStops, outages : 0..MaxOutages,
           failures : 0..MaxFailures, hbFailures : 0..MaxHbFailures, lags : 0..MaxLags]

\* The intents of a container, by what the tracker knows of its age: a list
\* gives the time of its creation, an event its own time.
Aged(c, events) ==
  IF c \in events THEN {[r EXCEPT !.created = StartedAt[c]] : r \in IntentsOf[c]} ELSE IntentsOf[c]
Intents == UNION {Aged(c, Containers) \cup IntentsOf[c] : c \in Containers}

TypeOK ==
  /\ running \subseteq Containers /\ up \subseteq Hosts /\ hbKey \subseteq Hosts
  /\ news \subseteq running /\ byEvent \subseteq UNION {tracked[h] : h \in Hosts}
  /\ tracked \in [Hosts -> SUBSET Containers]
  /\ hb \in [Hosts -> {"off", "active", "lost"}]
  /\ reg \in [Slots -> Intents \cup {Absent}] /\ old \in [Slots -> Intents \cup {Absent}]
  /\ lock \in Hosts \cup {NoHost, Orphan}
  /\ pc \in [Hosts -> {"idle", "list", "live", "plan", "apply"}]
  /\ seen \in [Hosts -> Seq(Intents)]
  /\ dead \in [Hosts -> SUBSET Hosts]
  /\ rem \in [Hosts -> SUBSET {Key(r) : r \in Intents}]
  /\ add \in [Hosts -> SUBSET Intents]
  /\ used \in Faults

\* Every daemon is down and the registry is empty.
Init ==
  /\ running = AtStart /\ news = {}
  /\ up = {}
  /\ byEvent = {}
  /\ tracked = [h \in Hosts |-> {}]
  /\ hb = [h \in Hosts |-> "off"]
  /\ hbKey = {}
  /\ reg = EmptyRegistry /\ old = EmptyRegistry
  /\ lock = NoHost
  /\ pc = [h \in Hosts |-> "idle"]
  /\ seen = [h \in Hosts |-> <<>>]
  /\ dead = [h \in Hosts |-> {}]
  /\ rem = [h \in Hosts |-> {}]
  /\ add = [h \in Hosts |-> {}]
  /\ used = [changes |-> 0, stops |-> 0, outages |-> 0, failures |-> 0, hbFailures |-> 0, lags |-> 0]

CountFault(f, bound) ==
  /\ used[f] < bound
  /\ used.changes + used.stops + used.outages + used.failures + used.hbFailures + used.lags < MaxFaults
  /\ used' = [used EXCEPT ![f] = @ + 1]

\* A write to etcd reaches a member that lags behind one write later.
Write(new) == reg' = new /\ old' = IF used'.lags < MaxLags THEN reg ELSE new

\* What a serializable read may be answered from; MemberAnswers: by which.
MemberAnswers(view) ==
  \/ view = reg /\ UNCHANGED used
  \/ view = old /\ old # reg /\ CountFault("lags", MaxLags)

-----------------------------------------------------------------------------
\* Containers, and what the host hears of them.

ContainerChanges(c) ==
  /\ CountFault("changes", MaxChanges)
  /\ IF c \in running
     THEN running' = running \ {c} /\ news' = news \ {c}
     ELSE running' = running \cup {c} /\ news' = IF HostOf[c] \in up THEN news \cup {c} ELSE news
  /\ UNCHANGED <<up, local, hbKey, records, lock>>

\* handleEvent, at any time, in the middle of a pass too.  The start event of a
\* container that started under the eyes of the daemon; the list of a
\* connection; a stop or die.
Started(h, c) ==
  /\ c \in news
  /\ news' = news \ {c}
  /\ tracked' = [tracked EXCEPT ![h] = @ \cup {c}]
  /\ byEvent' = byEvent \cup {c}
Listed(h, c) ==
  /\ tracked' = [tracked EXCEPT ![h] = @ \cup {c}]
  /\ byEvent' = byEvent \ {c}
  /\ UNCHANGED news
Stopped(h, c) ==
  /\ c \in tracked[h] \ running
  /\ tracked' = [tracked EXCEPT ![h] = @ \ {c}]
  /\ byEvent' = byEvent \ {c}
  /\ UNCHANGED news

HandleEvent(h, c) ==
  /\ h \in up /\ HostOf[c] = h
  /\ \/ Started(h, c)
     \/ c \in running \ tracked[h] /\ Listed(h, c)
     \/ Stopped(h, c)
  /\ UNCHANGED <<running, up, hb, hbKey, records, lock, pc, seen, dead, rem, add, used>>

\* A new connection to Docker lists the container once more.
ListedAgain(h, c) ==
  /\ h \in up /\ c \in running \cap tracked[h] \cap byEvent
  /\ Listed(h, c)
  /\ UNCHANGED <<running, up, hb, hbKey, records, lock, pc, seen, dead, rem, add, used>>

-----------------------------------------------------------------------------
\* The daemon and its heartbeat.

\* Run: StartHeartbeat; if it fails, the daemon runs on without a heartbeat.
Start(h) ==
  /\ h \notin up
  /\ up' = up \cup {h}
  /\ \/ /\ hb' = [hb EXCEPT ![h] = "active"]
        /\ hbKey' = hbKey \cup {h}
        /\ UNCHANGED used
     \/ /\ CountFault("hbFailures", MaxHbFailures)
        /\ hb' = [hb EXCEPT ![h] = "off"]
        /\ UNCHANGED hbKey
  /\ UNCHANGED <<docker, tracker, records, lock, pc, seen, dead, rem, add>>

\* What a daemon that ends leaves: its memory is gone, a lock it held waits
\* for its lease to expire.
Ends(h) ==
  /\ h \in up
  /\ CountFault("stops", MaxStops)
  /\ up' = up \ {h}
  /\ tracked' = [tracked EXCEPT ![h] = {}] /\ byEvent' = byEvent \ tracked[h]
  /\ news' = {c \in news : HostOf[c] # h}
  /\ hb' = [hb EXCEPT ![h] = "off"]
  /\ lock' = IF lock = h THEN Orphan ELSE lock
  /\ pc' = [pc EXCEPT ![h] = "idle"]
  /\ seen' = [seen EXCEPT ![h] = <<>>]
  /\ dead' = [dead EXCEPT ![h] = {}]
  /\ rem' = [rem EXCEPT ![h] = {}]
  /\ add' = [add EXCEPT ![h] = {}]
  /\ UNCHANGED <<running, records>>

Crash(h) == Ends(h) /\ UNCHANGED hbKey

\* The context is cancelled: StopHeartbeat deletes the heartbeat key, if the
\* heartbeat was ever started.
Shutdown(h) == Ends(h) /\ hbKey' = IF hb[h] = "off" THEN hbKey ELSE hbKey \ {h}

\* The lease of a heartbeat runs out: of a daemon that is gone, of one that
\* could not start its own, or of one that is cut off for too long.
HeartbeatExpires(h) ==
  /\ h \in hbKey
  /\ IF h \in up /\ hb[h] = "active" THEN CountFault("outages", MaxOutages) ELSE UNCHANGED used
  /\ hbKey' = hbKey \ {h}
  /\ UNCHANGED <<docker, up, local, records, lock>>

\* maintainHeartbeat sees its channel closed.
HeartbeatLost(h) ==
  /\ h \in up /\ hb[h] = "active" /\ h \notin hbKey
  /\ hb' = [hb EXCEPT ![h] = "lost"]
  /\ UNCHANGED <<docker, up, tracker, hbKey, records, lock, pc, seen, dead, rem, add, used>>

\* reestablishHeartbeat succeeds.
HeartbeatAgain(h) ==
  /\ h \in up /\ hb[h] = "lost"
  /\ hb' = [hb EXCEPT ![h] = "active"]
  /\ hbKey' = hbKey \cup {h}
  /\ UNCHANGED <<docker, up, tracker, records, lock, pc, seen, dead, rem, add, used>>

-----------------------------------------------------------------------------
\* The reconcile pass.

\* The lock is refused while anybody has it.
LockIgnored == TRUE
LockFree == lock = NoHost

Tick(h) ==
  /\ h \in up /\ pc[h] = "idle"
  /\ LockFree
  /\ lock' = h
  /\ pc' = [pc EXCEPT ![h] = "list"]
  /\ UNCHANGED <<docker, up, tracker, hb, hbKey, records, seen, dead, rem, add, used>>

\* List is a serializable read.
ListRecords(h) ==
  /\ pc[h] = "list"
  /\ \E view \in {reg, old} : MemberAnswers(view) /\ seen' = [seen EXCEPT ![h] = ListOf(view)]
  /\ pc' = [pc EXCEPT ![h] = "live"]
  /\ UNCHANGED <<docker, up, tracker, hb, hbKey, records, lock, dead, rem, add>>

\* List fails: the pass ends with an error.
ListFails(h) ==
  /\ pc[h] = "list"
  /\ CountFault("failures", MaxFailures)
  /\ pc' = [pc EXCEPT ![h] = "idle"]
  /\ lock' = NoHost
  /\ UNCHANGED <<docker, up, tracker, hb, hbKey, records, seen, dead, rem, add>>

\* GetLiveHostnames: nil unless this host's own heartbeat is active, or when
\* the request fails; this host counts as live.
DeadUngated(h) == Hosts \ (hbKey \cup {h})
DeadHosts(h) == IF hb[h] = "active" THEN Hosts \ (hbKey \cup {h}) ELSE {}

GetLiveHostnames(h) ==
  /\ pc[h] = "live"
  /\ \/ dead' = [dead EXCEPT ![h] = DeadHosts(h)] /\ UNCHANGED used
     \/ dead' = [dead EXCEPT ![h] = {}] /\ CountFault("failures", MaxFailures)
  /\ pc' = [pc EXCEPT ![h] = "plan"]
  /\ UNCHANGED <<docker, up, tracker, hb, hbKey, records, lock, seen, rem, add>>

\* What the tracker wants, filtered; and the plans for it.
DesiredOf(h) ==
  {FilterRecordIntents(order) : order \in SetToSeqs(UNION {Aged(c, byEvent) : c \in tracked[h]})}

MakePlan(h) ==
  /\ pc[h] = "plan"
  /\ \E desired \in DesiredOf(h) :
       \E plan \in ReconcileAndValidate(h, desired, seen[h], dead[h]) :
         /\ rem' = [rem EXCEPT ![h] = plan.rem]
         /\ add' = [add EXCEPT ![h] = plan.add]
  /\ seen' = [seen EXCEPT ![h] = <<>>]
  /\ pc' = [pc EXCEPT ![h] = "apply"]
  /\ UNCHANGED <<docker, up, tracker, hb, hbKey, records, lock, dead, used>>

\* All the removals come first.  A request that fails is counted, and the
\* next one is made; it may have reached etcd.
RemoveRecord(h, k) ==
  /\ pc[h] = "apply" /\ k \in rem[h]
  /\ \/ UNCHANGED used /\ Write(RemoveFrom(reg, k))
     \/ /\ CountFault("failures", MaxFailures)
        /\ Write(RemoveFrom(reg, k)) \/ UNCHANGED records
  /\ rem' = [rem EXCEPT ![h] = @ \ {k}]
  /\ UNCHANGED <<docker, up, tracker, hb, hbKey, lock, pc, seen, dead, add>>

AnyOrder(h) == TRUE
RemovalsDone(h) == rem[h] = {}

RegisterRecord(h, r) ==
  /\ pc[h] = "apply" /\ RemovalsDone(h) /\ r \in add[h]
  /\ CanRegister(reg, r)
  /\ \/ \E view \in {reg, old} : CanRegister(view, r) /\ MemberAnswers(view) /\ Write(RegisterIn(reg, view, r))
     \/ /\ CountFault("failures", MaxFailures)
        /\ Write(RegisterIn(reg, reg, r)) \/ UNCHANGED records
  /\ add' = [add EXCEPT ![h] = @ \ {r}]
  /\ UNCHANGED <<docker, up, tracker, hb, hbKey, lock, pc, seen, dead, rem>>

EndPass(h) ==
  /\ pc[h] = "apply" /\ rem[h] = {} /\ add[h] = {}
  /\ pc' = [pc EXCEPT ![h] = "idle"]
  /\ dead' = [dead EXCEPT ![h] = {}]
  /\ lock' = NoHost
  /\ UNCHANGED <<docker, up, tracker, hb, hbKey, records, seen, rem, add, used>>

\* The lease of a lock whose holder is gone runs out.
LockExpires ==
  /\ lock = Orphan
  /\ lock' = NoHost
  /\ UNCHANGED <<docker, up, local, hbKey, records, used>>

PassStep(h) ==
  \/ ListRecords(h) \/ ListFails(h) \/ GetLiveHostnames(h) \/ MakePlan(h)
  \/ \E k \in rem[h] : RemoveRecord(h, k)
  \/ \E r \in add[h] : RegisterRecord(h, r)
  \/ EndPass(h)

Next ==
  \/ \E c \in Containers : \/ ContainerChanges(c)
                             \/ \E h \in Hosts : HandleEvent(h, c) \/ ListedAgain(h, c)
  \/ \E h \in Hosts : \/ Start(h) \/ Crash(h) \/ Shutdown(h)
                      \/ HeartbeatExpires(h) \/ HeartbeatLost(h) \/ HeartbeatAgain(h)
                      \/ Tick(h) \/ PassStep(h)
  \/ LockExpires

Spec == Init /\ [][Next]_vars

\* A daemon that runs goes on: its pass, its events, its heartbeat.  The
\* heartbeat of one that is gone runs out.  A host whose tick finds the lock
\* taken tries again, and is not starved for ever.  Nobody has to start a daemon.
Fairness ==
  /\ \A h \in Hosts :
       /\ WF_vars(PassStep(h)) /\ SF_vars(Tick(h))
       /\ WF_vars(HeartbeatLost(h)) /\ WF_vars(HeartbeatAgain(h))
       /\ WF_vars(HeartbeatExpires(h) /\ (h \in up => hb[h] = "off"))
       /\ \A c \in Containers : WF_vars(HandleEvent(h, c))
  /\ WF_vars(LockExpires)

FairSpec == Spec /\ Fairness

-----------------------------------------------------------------------------
\* A name resolves: its CNAME stands alone, and no record is there twice.
\* After a request that failed, or that a member answered that lags behind, it
\* may be otherwise.
NamesResolve ==
  \A s, t \in Slots : reg[s] # Absent /\ reg[t] # Absent /\ s # t => Fits(reg[s], reg[t])
Resolvable == used.failures = 0 /\ used.lags = 0 => NamesResolve

\* The record under s makes way for one of host h that is still to be added at
\* its name.  That one is forced or older; but after a request that failed two
\* CNAMEs may share a name, and the code compares with the first of them only.
MakesWay(h, s) ==
  \E r \in add[h] : r.name = s[1] /\ (r.force \/ Before(r, reg[s]) \/ used.failures > 0)

\* A record of another host that disappears is one of a host that had no
\* heartbeat when this pass asked, and only if this host has published its own;
\* or it makes way for a record of this host, which is what the code and its tests
\* allow and more than README.md does (RemovesOwnOrOrphaned).  Only the answer of a
\* member that lags behind makes a host overwrite a record unseen, and only Remove
\* takes one away with the record of a name above its own.
OthersRecordsRespected ==
  [][\A h \in Hosts, s \in Slots :
       /\ lock = h /\ reg[s] # Absent /\ reg'[s] # reg[s] /\ reg[s].host # h
       => \/ reg[s].host \in dead[h] /\ hb[h] # "off"
          \/ MakesWay(h, s)
          \/ \E k \in rem[h] : <<s[1], k.name>> \in Subdomain
          \/ used'.lags > 0]_vars

\* Once containers, daemons and etcd are left in peace, and a daemon runs, the
\* registry comes to rest: every name a container on a served host asks for has
\* a record, and every record is of such a container.  That takes a heartbeat of
\* every daemon that runs: the records of one whose StartHeartbeat failed are
\* collected and registered again for ever.
ServedContainers == {c \in running : HostOf[c] \in up}
NamesServed ==
  \A c \in ServedContainers : \A r \in IntentsOf[c] :
    \E s \in Slots : s[1] = r.name /\ reg[s] # Absent
NoGhost == \A r \in Content(reg) : r.id \in ServedContainers
NoHeartbeat == \E h \in up : hb[h] = "off"
Converges ==
  /\ <>[](up = {} \/ NoHeartbeat \/ (NamesServed /\ NoGhost))
  /\ <>[][NoHeartbeat \/ UNCHANGED reg]_vars

\* The passes of all the hosts exclude each other, as GlobalLock has it.
Section(h) == IF pc[h] = "idle" THEN {} ELSE {"__global__"}
Lock == INSTANCE GlobalLock WITH Keys <- {"__global__"}, section <- [h \in Hosts |-> Section(h)]
PassesExclude == Lock!Spec

\* The records in etcd are what SharedRegistry promises, whatever the order of the
\* requests of all passes, heartbeats, crashes and events.
Shared == INSTANCE SharedRegistry WITH
            Records <- Intents, Below <- Subdomain, content <- Content(reg),
            turn <- Hosts \cap {lock}, alive <- hbKey, faulty <- used.failures + used.lags > 0
RegistryShared == Shared!Spec

\* What List returned is what the registry holds until the plan is made from it,
\* whatever the other hosts do meanwhile, unless a member lagged behind.
PlansFromTruth ==
  \A h \in Hosts : pc[h] \in {"live", "plan"} /\ used.lags = 0 => seen[h] = ListOf(reg)

\* The rest of a plan, while it is carried out: what is still to be removed is of
\* a dead host or makes way for what is still to be added, and what is still to
\* be added fits what will remain.
RecordsNamed == \A s \in Slots : reg[s] # Absent => reg[s].name = s[1]
PlansHeld == \A h \in Hosts : pc[h] # "apply" => rem[h] = {} /\ add[h] = {}
RemovalsJustified ==
  used.lags = 0 =>
    \A h \in Hosts, s \in Slots : \A k \in rem[h] :
      reg[s] # Absent /\ reg[s].host # h /\ s[1] = k.name /\ RecordMatches(reg[s], k)
      => reg[s].host \in dead[h] \/ MakesWay(h, s)
AdditionsFit ==
  used.failures = 0 /\ used.lags = 0 =>
    \A h \in Hosts, s \in Slots : \A r \in add[h] :
      reg[s] # Absent /\ Key(reg[s]) \notin rem[h] => Fits(r, reg[s])

ApplyInv ==
  /\ RecordsNamed /\ PlansHeld /\ RemovalsJustified /\ AdditionsFit
  /\ \A h \in Hosts : Consistent(add[h])

-----------------------------------------------------------------------------
\* What the documentation says, and the code does not do.

\* "A/AAAA and CNAME records may not coexist for the same name", nor may two
\* equal records: at least once etcd is left in peace.
ResolvableInTheEnd == <>[]NamesResolve

\* "a brief outage or restart will not cause another host to delete its
\* records": the records of a host whose daemon runs are not collected.
RestartKeepsRecords ==
  [][\A h \in Hosts, s \in Slots :
       /\ lock = h /\ reg[s] # Absent /\ reg'[s] # reg[s] /\ reg[s].host # h
       /\ reg[s].host \in dead[h]
       => reg[s].host \notin up]_vars

\* "A host only removes records it owns - except for the orphan cleanup": what a
\* pass takes away is of this host, or of one without a heartbeat when it asked.
RemovesOwnOrOrphaned ==
  [][\A h \in Hosts, s \in Slots :
       lock = h /\ reg[s] # Absent /\ reg'[s] = Absent
       => reg[s].host \in {h} \cup dead[h]]_vars

\* "Remove finds and deletes the etcd key that matches the record domain": what
\* a pass of this host takes away has the name of a record it set out to remove.
RemovesThatNameOnly ==
  [][\A h \in Hosts, s \in Slots :
       lock = h /\ reg[s] # Absent /\ reg'[s] = Absent
       => \E k \in rem[h] : k.name = s[1]]_vars

=============================================================================
