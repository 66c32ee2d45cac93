# docker-coredns-sync in TLA+

A daemon per Docker host watches its containers, derives DNS records from their
labels and keeps them in etcd, where CoreDNS serves them. Several daemons share
one etcd, and so one name space. These modules model what the daemons do to
each other and to the records; TLC checks them on small instances, and TLAPS proves
the safety of every part of them for all: the lock, the plans and the passes, the
records in etcd, the heartbeat, the status and the tracker. Paths below are
relative to `src/`.

## The system

| Part | State | Operations | Talks to |
|---|---|---|---|
| Sync engine, `internal/core/engine.go` | none of its own: ticker, one pass at a time | `Run`, `handleEvent` | everything below |
| Reconciliation, `internal/core/reconciliation.go`, `validation.go`, `nested_maps.go` | pure | `FilterRecordIntents`, `ReconcileAndValidate`, `ValidateRecord` | called by the engine in a pass |
| Distributed lock, `internal/registry/etcd_registry.go:420-511` | lock key and leases in etcd, slice of held leases | `LockTransaction` | etcd; wraps every pass |
| Record storage, same file `:270-418`, `etcd_path.go`, `etcd_wire.go` | the indexed record keys in etcd | `List`, `Register`, `Remove` | etcd |
| Heartbeat, same file `:77-268` | heartbeat key and lease in etcd, `hbActive` | start, maintain, re-establish, stop, `GetLiveHostnames` | etcd; gates the collection of records of dead hosts |
| Docker generator, `internal/event/` | connection, `since`, backoff | `Subscribe`, `runOnce` | Docker; a bounded channel to the engine |
| State tracker, `internal/state/` | containers with their intents | `Upsert`, `MarkRemoved`, `RetainRunning`, `GetAllDesiredRecordIntents` | written by the event goroutine, read by the pass |
| Labels and record builder, `internal/core/labels.go`, `record_builder.go` | pure | `GetContainerRecordIntents` | called by `handleEvent` |
| Status and HTTP, `internal/httpserver/` | last outcome, last success, connection | `RecordReconcile`, `SetDockerConnected`, `Ready` | callbacks of engine and generator |
| Application and command, `internal/app/app.go`, `cmd/` | the process | start, signal, `Run`, `Close` | wires and ends all of the above |
| Configuration, metrics, logging, utilities | | | |

What makes it hard:

- Three goroutines of a daemon (pass, events, heartbeat) and many daemons
  interleave; a pass takes many etcd requests and events arrive in the middle.
- Every request can fail, with or without effect. A daemon can die or be shut
  down at any point and come back with an empty memory.
- Leases run out: of a lock, of a heartbeat, under a daemon that is paused or
  cut off, or one that is gone.
- A pass plans from what it read: the list, the live hosts, the tracker.
- Go maps give the plan, and the conflict resolution, no fixed order.
- Docker's stream drops and is resumed; Docker forgets its events when it is
  restarted; the channel is bounded.

What has to hold: one pass at a time; a release that takes nobody else's lock;
no lock taken for ever; labels heard as they are written; a name that resolves
after every write; nobody's record taken away without age, force or death as a
reason; registry and tracker that settle on the truth once the world is left in
peace; a heartbeat that comes back while its daemon runs and does not outlive it;
a readiness that is earned, and reached; a signal that ends the process. The hazards, each at its line,
are in `PROJECT.json`.

## The modules

```
GlobalLock  <--implements--  LockTransaction  <--  LockTransaction_proofs

Lists                  <--  Reconciliation, Registry
Records                <--|
Reconciliation         <--|--  ReconcilePasses
Reconciliation, Registry  <--  SyncEngine  <--  SyncEngine_proofs
GlobalLock, SharedRegistry  <--implements--  SyncEngine
Reconciliation  <--  SharedRegistry

Lists                                  <--  DataLemmas
Reconciliation, DataLemmas             <--  Reconciliation_proofs
ReconcilePasses, Reconciliation_proofs <--  ReconcilePasses_proofs
SyncEngine_proofs, Reconciliation_proofs <--  EngineRecords_proofs

DockerTracker, DataLemmas  <--  DockerTracker_proofs

Heartbeat, Health  <--  Daemon  <--  Daemon_proofs
```

Each module that TLC runs has an `MC` module with its instances. A `<--` is an
`EXTENDS`.

**GlobalLock** is what `LockTransaction` promises: the sets of keys under which
hosts run a function are disjoint.

**LockTransaction** is `EtcdRegistry.LockTransaction`, one etcd request per
action with the local code around it. `pc[h]` is the place in the function,
`todo` the sorted keys left, `cur` the lease of the key being acquired, `held`
the slice `leases`, `kept` the leases a goroutine still keeps alive, `lockKey`
and `granted` etcd. Every early return is an action (`GrantFails`,
`AcquireCancelled`, `AcquireFails`, `GiveUp`, `UndoRevoke`); a request that
fails is sent or not, and is not sent once the context is cancelled. A lease may
expire when nobody refreshes it and, with `LeaseLoss`, under a host that does.

**Records** goes from the labels of a container to its record intents:
`ParseLabels`, `GetContainerRecordIntents` and the checks of names and addresses.
A key is the sequence of its parts after the prefix, a text is one string of a
small set, and the constants say which texts are host names, addresses or
numbers. The loop over the labels is a map iteration: `Parses` has every choice
of the label that comes last where several set one field.

**Reconciliation** has the pure functions of a plan as operators. Where the code
ranges over a map, `ReconcileAndValidate` gives the set of plans of all orders;
the order of the desired intents is the order of a sequence. The five cases of
`shouldReplaceAllExisting` are put as two, which say the same. The container name
is left out: it only takes part in equality, where the container's identifier
does too.

**Lists** has a list without some of its elements, in its order: what `Forward`
and `List` need, as a recursive function, so that it can be reasoned about.

**ReconcilePasses** joins the two: one host reads the labels of its containers
once and reconciles again and again, the containers in another map order at each
pass, from every small registry.

**Registry** is the layout of the records in etcd: a slot is a name and an index;
`Remove` looks at every slot at or below a name and compares values only;
`RegisterIn` takes the index from the answer of a member that may lag behind.

**SyncEngine** puts several daemons around one registry. A pass is
`Tick`, `ListRecords`, `GetLiveHostnames`, `MakePlan`, then one `RemoveRecord`
or `RegisterRecord` per etcd write, then `EndPass`; between any two of them a
container starts or stops, an event is handled, a heartbeat is lost or comes
back, a daemon crashes, is shut down or started. `old` is the registry as a
member has it that is one write behind; `List` and the index of `Register` may be
answered from it, the live hosts may not. The lock is taken as `GlobalLock`
specifies it; the tracker is the set of containers it knows, with the age that
the event or the list gave them (`byEvent`).

**SharedRegistry** is what the daemons together promise of the records, whatever
their passes are made of. One host at a time has its turn to write; it asks who has
a heartbeat, registers records of its own that fit all that is there, and takes away
its own, those of hosts it found without a heartbeat, those that one of its own goes
before, and what `Remove` takes along at subdomains. From the first request on a
record that fails, or answer that lags behind, it promises only that turns are kept
and nothing but intents of containers is stored. `SyncEngine` implements it: the
content is the set of records in the slots, the turn is the holder of the lock.

**DockerTracker** is the generator, its channel and `MemoryState` for one host,
against a Docker that keeps a log of events and forgets it when restarted. A
position in the log is a time; `since` is inclusive as in the Docker API, so the
last event is replayed.

**Heartbeat** is the heartbeat of one daemon, request by request. `main` is the
main goroutine (`StartHeartbeat`, `stopHeartbeat`), `hb` the goroutine of
`maintainHeartbeat`; `req` is the place in `grantAndKeepAlive` and its cleanup,
which the two never run at once. `sent` says whether the request left before the
context was cancelled: then etcd may have applied it although it returns an error.
A process that ends leaves its key and leases in etcd.

**Health** is the status behind `/readyz`, with ages counted in poll intervals.

**Daemon** composes the two with the ticker and the loop of `Run`, the connection
of the Docker generator and the end of the process. Its pass is coarse (lock,
list, writes), but may fail or hang at each of them; `synced` says whether the
records of the last plan are all in etcd. `dryRun` is a constant of a behaviour.

## The runs

Each cfg is named after its run. Passing runs:

| Run | Instance | What it shows |
|---|---|---|
| `lock_two_keys` | 2 hosts, 2 keys, asked for the first or both, leases kept alive are not lost | the inductive invariant, mutual exclusion, own release; refinement of `GlobalLock` |
| `lock_liveness` | 2 hosts, 1 key, any lease may be lost | `LockTransaction` returns, and keeps nothing alive then; the lock is freed again and again |
| `reconcile_passes` | 2 containers and one of a peer, at most 2 records present, 2 passes; four universes: one name with A, AAAA and two CNAMEs and every order of ages; one name with two addresses of one family; three names that point at each other; labels that leave out, repeat or garble something | labels are heard; the registry says what they say; consistency, justified evictions, wanted records stay, garbage goes, rest after as many passes as records are wanted, independence of map order, no cycle from one alias |
| `engine_contest` | 2 hosts, 3 containers with an alias and a younger and an older address of one name; any 3 of: 2 container changes, 1 stop, 1 outage, 1 failed request, 1 failed `StartHeartbeat`, 1 lagging answer | the name resolves after every write; records of others are respected; plans are made from what is there, and what is left of one stays right at every write; passes exclude each other as in `GlobalLock`; refinement of `SharedRegistry`; convergence |
| `tracker_catches_up` | 2 containers, 3 events, 2 drops, 1 Docker restart, channel of 2 | the stream leads to the truth and skips nothing Docker still has; the tracker gets there; cancellation ends both goroutines |
| `daemon_life` | 1 daemon, 2 starts, 2 faults of any kind, with and without dry-run | the inductive invariant; the heartbeat it believes in is published, comes back, and goes with the host; readiness is earned and reached; a signal ends the process; a dry-run leaves heartbeat and records alone |

Runs that end in a counterexample, each a disagreement of the code with what
its documentation or comments say (quoted in `PROJECT.json`):

| Run | What happens |
|---|---|
| `lock_lease_loss` | a release deletes the lock key of the next holder, who still reconciles while the first enters again |
| `reconcile_cycle` | two aliases added in one pass close a cycle |
| `engine_eviction` | an older alias takes away the address of a peer that lives: with age and force on its side a host does not remove only its own and orphaned records |
| `engine_half_eviction` | a failed removal leaves an address beside the alias that was to replace it, for ever |
| `engine_restart` | a short restart costs a host its records, as the shutdown deletes its heartbeat at once |
| `engine_subdomain` | `Remove` deletes the same record at a subdomain |

Further behaviour of this kind that no run shows is among the hazards of
`PROJECT.json`, with a note: the lock that a dry-run takes, and so writes, at every
tick though it is "without writing to etcd"; a forced address that joins the others of its
name where `TESTS.md` (case 7) has it replace them; a lock timeout under one second, the first of
several lock keys when the second cannot be had, a `StartHeartbeat` that is not
tried again, containers that end or start while Docker restarts, two containers
of the same age that take a name from each other for ever, two forced records on
two hosts, two spellings of one label, a label prefix with a dot, a connection
that is reported before it is there.

Bounds. Two hosts are enough for every hazard of a pass, because the lock lets
one pass run at a time and the passes of further hosts repeat what the second
one can do. In the lock, two hosts contend while a spare lease lets one be left
over from a failure; its safety is proved for any number. Two
desired and two present records give every pair of kinds, ages and force on both
sides; two passes are one to act and one to find nothing to do, or to finish
what a displaced record held up. More records need more passes, at most one for each
(one alias may have to wait for another to be replaced); that is proved for any number. In the engine up to three faults of different
kinds meet in every interleaving, each at most once (container changes twice). In
the daemon two faults are one that starts a recovery and one that strikes in it,
and two starts are one that leaves something in etcd and one that finds it; four
leases are more than are ever known at once, so that `Grant` always finds a fresh
one. One poll interval as the threshold of readiness (the code has three) is
enough for a success to grow too old. `MaxIndex` is large enough that no instance
fills a name: `RegisterRecord` would otherwise be blocked and TLC would report
the deadlock. `CHECK_DEADLOCK FALSE` is given where the model ends: the passes
of `ReconcilePasses`, and a daemon whose context is cancelled.

Conditions. Some properties name the case in which the code does not hold them:
`Resolvable` is about runs without failed requests or lagging answers
(`engine_half_eviction` shows why); `OthersRecordsRespected` is what the
code and its tests have of other hosts' records, where age and force evict what the
README would have left alone (`engine_eviction`); it also lets a host evict an
older record after a failed request (two aliases that a failed removal left at one
name are compared by the first of them only, and both evicted,
`internal/core/reconciliation.go:223`); `Converges` excludes a daemon whose
`StartHeartbeat` failed, `ComesToRest` containers among which the map order decides
what is wanted (rivals of the same age), `StopRemoves` the
goroutine that publishes a new lease during the shutdown, and `ReadyInTheEnd` a
request that is never answered.

Fairness. In `LockTransaction`, each etcd request returns, so a host inside
goes on, and a lease nobody refreshes runs out. In `SyncEngine`, a pass goes on, events are handled
and a lost heartbeat is re-established (the loop of `reestablishHeartbeat`
never gives up); a host whose tick finds the lock taken tries again at the next
tick, which is strong fairness of `Tick`: the code's retry is no queue and
guarantees it only in practice. No daemon has to be started, and failures,
container changes and outages are never fair. In `DockerTracker`, each goroutine
runs on, and a `select` that can see the cancelled context does so in the end.
In `Daemon`, every goroutine goes on, ticks come, a lease nobody keeps alive runs
out, and a request under a cancelled context returns; a request under a live
context may hang for ever. `Stop` has strong fairness: Go's `select` picks at
random among the cases that are ready, so a cancellation that is ready at every
turn of the loop is not passed over for ever.

## The proofs

`LockTransaction_proofs` holds for any sets of hosts, keys, requests and leases and
any timeouts, from the assumption `LockAssumption` alone (a configuration that
passes validation), with `LeaseLoss = FALSE` stated in the theorems that need it:

- `TypeCorrect`. The types are not inductive by themselves: `KeepAlive` puts
  `cur[h]` among the leases, which it is only because of `CurLease`.
- `LockInvariant`. Mutual exclusion is not inductive either. `HeldKey` says that a
  host owns and keeps alive every lock key it holds until it releases it, `CurKey`
  the same from the creation of the key on, and `Unique` that no lease is used
  twice, by two hosts or for two keys: then neither an expiry nor another host's
  unconditional `Delete` can take the key away. Each action either is the
  host's own (`ActorKeeps`) or touches only keys of other leases (`OthersUntouched`).
- `LockExclusion`, `ReleaseIsOwn`, `LockRefinement` follow from it.
- `SingleKeyNothingKept` needs no assumption on leases but that callers ask for
  one key, as the engine does; it fails for two, when the second cannot be had.

`Daemon_proofs` holds for any leases, readiness threshold and numbers of faults and
starts, from `HeartbeatAssumption` (lease identifiers are integers, `NoLease` and
`Forever` are none of them, the bounds are numbers) and `HealthAssumption` alone:

- `DaemonInvariant`. `ActiveIsPublished` is not inductive: a lost heartbeat is
  published again in three requests, each of which may fail, with or without effect.
  `InactiveMeanwhile` says that nothing is believed in during them, `PutComesFirst`
  that the key is under the new lease, or gone with it, when the last one is made,
  `LeaseIsNew` and `KeyIsOwn` that no other Put or Delete concerns the recorded lease.
  The same facts carry `StopRemoves` from the one of the two requests of the shutdown
  that succeeds to its end (`DeletedOnce`, `FailuresCounted`). For `ReadyIsEarned`,
  `ReportsDocker` and `ReportsPasses` say what each field of the status vouches for;
  `DryRunIsQuiet` says that a dry-run has neither a goroutine nor a request. The lemmas
  take the steps of the heartbeat (`HeartbeatInvNext`), those that leave it alone
  (`HeartbeatInvElsewhere`), the status (`ReportedElsewhere`) and dry-run
  (`QuietKept`) apart.
- `TypeCorrect`, `ActivePublished`, `StopTakesKey`, `ReadyEarned` and `DryRunKeeps`
  follow from it.

`SyncEngine_proofs` holds for any hosts, containers, records and bounds, from
`EngineAssumption` alone. It leaves open what a plan contains and what `Register` and
`Remove` do to the registry:

- `PassInvariant`. Who is in a pass runs and has the lock (`PassLocked`), so a write by
  one host means that no other stands between its `List` and its plan; faults are only
  ever counted up, so an answer that lagged behind is not forgotten. A daemon that ends
  or starts has no dead hosts in mind (`NobodyDeadAtFirst`), so `DeadBySurvivor` outlives
  the one state, a failed `StartHeartbeat`, in which a host may collect nothing.
- `FreshPlans` and `EngineRefinement` follow from it: the engine's passes are a
  `GlobalLock` of one key, which `LockRefinement` shows `LockTransaction` to be.

`Reconciliation_proofs` is about the pure part of a pass, for any lists of intents:

- `FilterSound`. Whatever the order, `FilterRecordIntents` keeps some of the intents it
  was given, and they are consistent: each `Insert` keeps the set so.
- `PlanSound`. `SoundPlans` is what every plan has, however the maps are iterated: it
  removes all that is stale and otherwise only what it puts something in the place of,
  and what it adds fits what it leaves. It is shown for `TryAdd`, which takes in one
  intent, and by induction for the list. `EvictionJustified` says that what a
  plan evicts without being stale makes way for an addition that is forced or older;
  `WantedStay` that it takes no wanted
  record of its host away; `PlansChecked` and `ForwardFollows` what `ValidateRecord`
  has seen of a record that is added.
- `SomePlan`: there is a plan in every case. `AllPresent` and `NothingToDo` say when it
  is empty; `QuietNext`: after a plan that adds nothing, the next one is empty.

`ReconcilePasses_proofs` holds for any labels, containers, orders and consistent
registries, from `PassesAssumption` and `RecordsAssumption` (finitely many containers
and labels; ages are numbers; the empty text is neither an address, nor a host name nor
a number), and for any number of passes:

- `ConsistencyKept`, `EvictionsAreJustified`, `WantedStayForGood` and `StaleIsGone` follow
  from `PassesInv` and the lemmas above. The invariant is small: it has the contents of
  the tracker as lists, and the registry consistent.
- `LabelsAreHeard` and `RegistrySaysLabels`. `BuiltAsLabelled` says that an intent has
  the name, the value and the force its labels spell out, in whichever order the loop
  meets them; `BuiltIffSaid` when there is one at all. `HeardInv` carries both through the
  tracker to the registry.
- `OrderDoesNotMatter`. Without ties, `Prior` orders the intents of a slot, so the fold of
  `Insert` ends with the best of each (`FoldKeepsBest`), whatever the order, and
  `ChooseKind` decides between them by values alone.
- `OneAliasIsSafe`. Along a cycle every alias has one target; if only one of them is new,
  `ValidateRecord` has walked the others and come back to its name (`NoLoop`).
- `PassesComeToRest`. A pass either adds a wanted record that was not there, which no later
  pass takes away (`BusyPass`, by `WantedStay`), or adds none, and then the next plan is
  empty (`QuietPass`). So as long as there is something to do, at least as many wanted
  records are there as passes have been made: that is `RestInv`, and when all of them are
  there nothing is left to do (`AllPresent`).

`EngineRecords_proofs` holds for any hosts, containers, names, records and faults, from
`EngineAssumption` (finitely many containers and intents of each, in the shape the code
gives them, distinct from the empty slot) and `RegistryAssumption`:

- `RecordsInvariant`. `Resolvable` is not inductive: what keeps it is that the writes left
  to a host come from a plan. `ApplyInv` says what is still true of them after each write:
  the removals left are of dead hosts or in favour of an addition left (`RemovalsJustified`),
  the additions left agree with each other and with all that will remain
  (`AdditionsFit`). It is true at the plan by `PlanSound`, as the registry then is what the
  list was (`PlansFromTruth`), and no other host's write spoils it, because of the lock.
- `TypeInvariant`, `PlansStayRight`, `NamesStayResolvable` and `OthersAreRespected` follow.
- `EngineSharesRegistry`. Every step of the engines is a step of `SharedRegistry` or leaves
  its variables alone, one lemma for each kind: `WorldMapped` (containers, events,
  heartbeats, daemons), `PassMapped` (up to the plan, and the end), `RemovalMapped`,
  `AdditionMapped`, and `FaultMapped` for a request that fails. `ApplyInv` has what the
  writes need; that what a host adds is of its own containers is `OwnRecords`.
- `SafeWhateverIsTracked`. `SyncEngine` lets a tracker learn only of containers that run
  and forget only those that do not, while `DockerTracker` may add a stopped one or drop
  one that runs when events are replayed. `AnyTrackers` lets the trackers change in any
  way at any time, and `PlansStayRight`, `NamesStayResolvable`, `FreshPlans` and
  `OthersAreRespected` hold all the same (`TrackersApart`): what is left to the composition
  of the two modules is whether the registry settles, not whether it is right.

`DockerTracker_proofs` holds for any containers, buffer, threshold and bounds, from
`TrackerAssumption` alone (the mark of an untracked container is no number):

- `TypeCorrect`, for which `HandledTyped` says what `handleEvent` may make of the tracker,
  and `StreamSkipsNothing`.
- `HistoryInvariant`. `ExactWithHistory` speaks of the `stream` phase only; `HistoryInv`
  says what the channel will have made of the tracker in each phase. The last event about a
  container tells whether it runs (`LogTells`). While the stream is up, only containers with
  an event in it are not settled yet (`StreamTells`); before that, what has stopped is
  untracked unless its stop will be replayed (`GoneUntracked`), the list has what ran since
  (`ListTells`), and what it has is detected or still to be (`Detected`).
- `ExactUnderHistory` follows by induction over the messages the engine has yet to handle
  (`DrainedTells`): the last one about a container decides.

`DataLemmas` is what these rest on. The library states induction for an operator, which
cannot be instantiated here; `NatSetInduction` and `FiniteSetInduction` state it for sets,
and follow from the existence of minimal elements of a well-founded relation
(`WFMin`). A recursive function is a `CHOOSE` of a solution of its equation: a solution
up to `n` gives one up to `n + 1`, so one exists, and the chosen one obeys the equation
(`OnlyRecursion`, `FlattenRecursion`, `FoldRecursion`, `PlansRecursion`). `OnlySteps`,
`OnlyAppend`, `OnlyTwice` and `OnlyAll` say how the elements left of a list are put
together.

Three properties changed when they were to be proved. `RegistryAsLabelled` said that the
address of the host stands in only where no value is given; an empty value beside a
garbled one (`coredns.a.value=` and `coredns.A.value=...`) does the same, and the instance
now has such labels. `OthersRecordsRespected` lacked the case of a failed request, see
*Conditions*. `ComesToRest` said that two passes suffice, which the instance is too small
to refute: an alias may have to wait until the present one with which it would close a
cycle is replaced, and in an unlucky map order a pass may replace only one of a chain.
What holds is one pass for each wanted record; the property also excluded every tie of
ages, where only those matter that make the order decide.

Every invariant and every action property of the passing runs is stated by a theorem, and
so are the three refinements. What stays with TLC is liveness (`TransactionReturns`,
`LockFreedAgain`, `Converges`, `CatchesUp`, `EndsOnCancel`, `HostLeaves`,
`HeartbeatComesBack`, `ReadyInTheEnd`, `ShutdownEnds`), which is out of the prover's reach,
like `ENABLED`; and that the theorems are about something, the counterexamples of the
runs that end in one.

## Not modelled

- Configuration (`internal/config`): flags, environment and file are read and
  validated once, before anything else starts; what the validation guarantees
  appears as assumptions on the constants.
- The HTTP server around the status, metrics and logging: I/O, and written only;
  nothing in the program reads them back. `dcs_docker_disconnects_total` is counted at a
  place that `Daemon` has (`Drops`), the counter itself is left out.
- Which parts are wired up for which configuration, and an application that
  cannot be built: no step of the daemon has been made then.
- Backoff and jitter of the two reconnecting loops: the models wait for any time.
- Values in etcd that cannot be parsed, batches of more than 64 deletions, two
  daemons configured with one host name.
- Utilities (`internal/util`): the sets and functions of TLA+ stand for them.

## What could come next

1. `Converges` for `DockerTracker` and `SyncEngine` composed: the first shows that a
   tracker settles on what runs, the second that the registry settles on the trackers.
2. What is still promised of the records after a failed request: `SharedRegistry` gives
   up on all of them, where the code spoils one name only.
3. Forced records on two hosts, and their contest; two daemons of one host name.
