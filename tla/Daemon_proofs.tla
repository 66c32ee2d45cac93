----------------------------- MODULE Daemon_proofs -----------------------------
(***************************************************************************)
(* What TLAPS proves of the life of a daemon, for any leases, thresholds   *)
(* and numbers of faults and starts: its heartbeat and its status say what *)
(* is so, and a dry-run leaves the records alone.                          *)
(***************************************************************************)
EXTENDS Daemon, TLAPS

-----------------------------------------------------------------------------
\* The heartbeat.

\* All of it but the count of the faults, and its steps.
heartbeat == <<main, cancelled, fields, hb, req, sent, lease, stopping, etcd, boots>>
HeartbeatNext ==
  \/ Request \/ Goroutine \/ Boot(TRUE) \/ Boot(FALSE) \/ Signal
  \/ StopBegins \/ StopDelete \/ StopRevoke \/ Exit \/ Crash \/ Etcd

\* What HeartbeatInv says beyond the types.
Bookkeeping ==
  /\ DownIsBlank /\ FailuresCounted
  /\ InactiveMeanwhile /\ LeaseIsNew /\ PutComesFirst /\ KeyIsOwn /\ CancelIsSet /\ DeletedOnce
  /\ ActiveIsPublished /\ StopRemoves

\* A process that is not there, and an empty etcd.
LEMMA HeartbeatInvInit == HeartbeatInit => HeartbeatInv
<1> SUFFICES ASSUME HeartbeatInit PROVE HeartbeatInv
  OBVIOUS
<1> USE HeartbeatAssumption DEF HeartbeatInit
<1>1. PlacesOK  BY DEF PlacesOK
<1>2. LeasesOK  BY DEF LeasesOK
<1>3. CountsOK  BY DEF CountsOK
<1>4. Bookkeeping
  BY DEF Bookkeeping, DownIsBlank, FailuresCounted, InactiveMeanwhile, LeaseIsNew, PutComesFirst,
         KeyIsOwn, CancelIsSet, DeletedOnce, ActiveIsPublished, StopRemoves, Alive, Stopping
<1> QED
  BY <1>1, <1>2, <1>3, <1>4 DEF Bookkeeping, HeartbeatTypeOK, HeartbeatInv

\* Each step keeps the types of the places and flags.
LEMMA PlacesKept == HeartbeatTypeOK /\ HeartbeatNext => PlacesOK'
<1> SUFFICES ASSUME HeartbeatTypeOK, HeartbeatNext PROVE PlacesOK'
  OBVIOUS
<1> USE DEF HeartbeatTypeOK, PlacesOK, GoesTo, fields, stopping
<1>1. CASE Request
  <2>1. CASE Grant  BY <2>1 DEF Grant
  <2>2. CASE GrantFails  BY <2>2 DEF GrantFails, ReturnsError
  <2>3. CASE Put  BY <2>3 DEF Put
  <2>4. CASE PutFails  BY <2>4 DEF PutFails
  <2>5. CASE KeepAlive  BY <2>5 DEF KeepAlive, ReturnsChannel
  <2>6. CASE KeepAliveFails  BY <2>6 DEF KeepAliveFails
  <2>7. CASE CleanDelete  BY <2>7 DEF CleanDelete
  <2>8. CASE CleanRevoke  BY <2>8 DEF CleanRevoke, ReturnsError
  <2> QED
    BY <1>1, <2>1, <2>2, <2>3, <2>4, <2>5, <2>6, <2>7, <2>8 DEF Request
<1>2. CASE Goroutine
  <2>1. CASE LeaseLost  BY <2>1 DEF LeaseLost, NoLongerActive
  <2>2. CASE TryAgain  BY <2>2 DEF TryAgain
  <2>3. CASE GoroutineEnds  BY <2>3 DEF GoroutineEnds
  <2> QED
    BY <1>2, <2>1, <2>2, <2>3 DEF Goroutine
<1>3. ASSUME NEW d \in BOOLEAN, Boot(d) PROVE PlacesOK'
  BY <1>3 DEF Boot, AfterBoot
<1>4. CASE Signal  BY <1>4 DEF Signal
<1>5. CASE StopBegins  BY <1>5 DEF StopBegins
<1>6. CASE StopDelete  BY <1>6 DEF StopDelete, RevokesAllTheSame
<1>7. CASE StopRevoke  BY <1>7 DEF StopRevoke
<1>8. CASE Exit \/ Crash  BY <1>8 DEF Exit, Crash, Gone, Blank
<1>9. ASSUME NEW l \in Leases, Expire(l) \/ KeepAliveBreaks(l) PROVE PlacesOK'
  BY <1>9 DEF Expire, KeepAliveBreaks
<1> QED
  BY <1>1, <1>2, <1>3, <1>4, <1>5, <1>6, <1>7, <1>8, <1>9 DEF HeartbeatNext, Etcd

\* A key belongs to a lease, and what is kept alive was granted.
LEMMA LeasesKept == HeartbeatTypeOK /\ HeartbeatNext => LeasesOK'
BY HeartbeatAssumption
   DEF HeartbeatTypeOK, LeasesOK, HeartbeatNext, Request, Goroutine, Etcd, Ends,
       fields, stopping, etcd, Grant, IsNext, GrantFails, Put, WithLease, PutFails, KeepAlive,
       ReturnsChannel, KeepAliveFails, CleanDelete, CleanRevoke, LeaseLost,
       TryAgain, GoroutineEnds, Boot, Signal, StopBegins, StopDelete,
       StopRevoke, Exit, Crash, Gone, Blank, Expire, KeepAliveBreaks

\* Nothing is counted past its bound: StopHeartbeat makes two requests.
LEMMA CountsKept == HeartbeatTypeOK /\ FailuresCounted /\ HeartbeatNext => CountsOK'
<1> SUFFICES ASSUME HeartbeatTypeOK, FailuresCounted, HeartbeatNext PROVE CountsOK'
  OBVIOUS
<1> USE HeartbeatAssumption
    DEF HeartbeatTypeOK, CountsOK, FailuresCounted, Alive, Fault, Fails, stopping
<1>1. CASE Request
  <2>1. CASE Grant  BY <2>1 DEF Grant
  <2>2. CASE GrantFails  BY <2>2 DEF GrantFails
  <2>3. CASE Put  BY <2>3 DEF Put
  <2>4. CASE PutFails  BY <2>4 DEF PutFails
  <2>5. CASE KeepAlive  BY <2>5 DEF KeepAlive
  <2>6. CASE KeepAliveFails  BY <2>6 DEF KeepAliveFails
  <2>7. CASE CleanDelete  BY <2>7 DEF CleanDelete
  <2>8. CASE CleanRevoke  BY <2>8 DEF CleanRevoke
  <2> QED
    BY <1>1, <2>1, <2>2, <2>3, <2>4, <2>5, <2>6, <2>7, <2>8 DEF Request
<1>2. CASE Goroutine
  <2>1. CASE LeaseLost  BY <2>1 DEF LeaseLost
  <2>2. CASE TryAgain  BY <2>2 DEF TryAgain
  <2>3. CASE GoroutineEnds  BY <2>3 DEF GoroutineEnds
  <2> QED
    BY <1>2, <2>1, <2>2, <2>3 DEF Goroutine
<1>3. ASSUME NEW d \in BOOLEAN, Boot(d) PROVE CountsOK'
  BY <1>3 DEF Boot, AfterBoot
<1>4. CASE Signal  BY <1>4 DEF Signal
<1>5. CASE StopBegins  BY <1>5 DEF StopBegins
<1>6. CASE StopDelete  BY <1>6 DEF StopDelete, RevokesAllTheSame
<1>7. CASE StopRevoke  BY <1>7 DEF StopRevoke
<1>8. CASE Exit \/ Crash  BY <1>8 DEF Exit, Crash, Gone, Blank
<1>9. ASSUME NEW l \in Leases, Expire(l) \/ KeepAliveBreaks(l) PROVE CountsOK'
  BY <1>9 DEF Expire, KeepAliveBreaks
<1> QED
  BY <1>1, <1>2, <1>3, <1>4, <1>5, <1>6, <1>7, <1>8, <1>9 DEF HeartbeatNext, Etcd

\* Each step keeps what is believed of the heartbeat true of etcd.
LEMMA BookkeepingKept == HeartbeatTypeOK /\ Bookkeeping /\ HeartbeatNext => Bookkeeping'
<1> SUFFICES ASSUME HeartbeatTypeOK, Bookkeeping, HeartbeatNext PROVE Bookkeeping'
  OBVIOUS
<1> USE HeartbeatAssumption
    DEF HeartbeatTypeOK, PlacesOK, LeasesOK, CountsOK, Bookkeeping,
        DownIsBlank, FailuresCounted, InactiveMeanwhile, LeaseIsNew, PutComesFirst, KeyIsOwn,
        CancelIsSet, DeletedOnce, ActiveIsPublished, StopRemoves, Alive, Stopping,
        fields, stopping, etcd, GoesTo
<1>1. CASE Request
  <2>1. CASE Grant  BY <2>1 DEF Grant, IsNext, Fresh
  <2>2. CASE GrantFails  BY <2>2 DEF GrantFails, ReturnsError
  <2>3. CASE Put  BY <2>3 DEF Put, WithLease
  <2>4. CASE PutFails  BY <2>4 DEF PutFails, WithLease
  <2>5. CASE KeepAlive  BY <2>5 DEF KeepAlive, ReturnsChannel
  <2>6. CASE KeepAliveFails  BY <2>6 DEF KeepAliveFails
  <2>7. CASE CleanDelete  BY <2>7 DEF CleanDelete
  <2>8. CASE CleanRevoke  BY <2>8 DEF CleanRevoke, Ends, ReturnsError
  <2> QED
    BY <1>1, <2>1, <2>2, <2>3, <2>4, <2>5, <2>6, <2>7, <2>8 DEF Request
<1>2. CASE Goroutine
  <2>1. CASE LeaseLost  BY <2>1 DEF LeaseLost, ChannelClosed, NoLongerActive
  <2>2. CASE TryAgain  BY <2>2 DEF TryAgain
  <2>3. CASE GoroutineEnds  BY <2>3 DEF GoroutineEnds, ChannelClosed
  <2> QED
    BY <1>2, <2>1, <2>2, <2>3 DEF Goroutine
<1>3. ASSUME NEW d \in BOOLEAN, Boot(d) PROVE Bookkeeping'
  BY <1>3 DEF Boot, AfterBoot
<1>4. CASE Signal  BY <1>4 DEF Signal
<1>5. CASE StopBegins  BY <1>5 DEF StopBegins
<1>6. CASE StopDelete  BY <1>6 DEF StopDelete, RevokesAllTheSame
<1>7. CASE StopRevoke  BY <1>7 DEF StopRevoke, Ends
<1>8. CASE Exit \/ Crash  BY <1>8 DEF Exit, Crash, Gone, Blank
<1>9. ASSUME NEW l \in Leases, Expire(l) \/ KeepAliveBreaks(l) PROVE Bookkeeping'
  BY <1>9 DEF Expire, Ends, KeepAliveBreaks
<1> QED
  BY <1>1, <1>2, <1>3, <1>4, <1>5, <1>6, <1>7, <1>8, <1>9 DEF HeartbeatNext, Etcd

\* No step of the heartbeat, of etcd or of Stop breaks the bookkeeping.
LEMMA HeartbeatInvNext == HeartbeatInv /\ HeartbeatNext => HeartbeatInv'
BY PlacesKept, LeasesKept, CountsKept, BookkeepingKept
   DEF HeartbeatInv, Bookkeeping, HeartbeatTypeOK

\* A fault elsewhere in the daemon does not touch the heartbeat.
LEMMA HeartbeatInvElsewhere ==
  HeartbeatInv /\ UNCHANGED heartbeat /\ faults' \in 0..MaxFaults => HeartbeatInv'
BY DEF heartbeat, fields, stopping, etcd, HeartbeatInv, HeartbeatTypeOK, PlacesOK, LeasesOK, CountsOK,
       DownIsBlank, FailuresCounted, InactiveMeanwhile, LeaseIsNew, PutComesFirst, KeyIsOwn,
       CancelIsSet, DeletedOnce, ActiveIsPublished, StopRemoves, Alive, Stopping

-----------------------------------------------------------------------------
\* The status.

\* The handlers of the status keep it well-formed.
LEMMA StatusTyped ==
  /\ \A d \in BOOLEAN : NewStatus(d) \in StatusType
  /\ \A s \in StatusType, b \in BOOLEAN :
       SetDockerConnected(s, b) \in StatusType /\ RecordReconcile(s, b) \in StatusType
  /\ \A s \in StatusType : Older(s) \in StatusType
<1> USE HealthAssumption DEF StatusType, Never
<1>1. ASSUME NEW d \in BOOLEAN PROVE NewStatus(d) \in StatusType
  BY DEF NewStatus
<1>2. ASSUME NEW s \in StatusType, NEW b \in BOOLEAN PROVE SetDockerConnected(s, b) \in StatusType
  BY DEF SetDockerConnected
<1>3. ASSUME NEW s \in StatusType, NEW b \in BOOLEAN PROVE RecordReconcile(s, b) \in StatusType
  <2>1. CASE b = TRUE  BY <2>1 DEF RecordReconcile
  <2>2. CASE b = FALSE
    <3>1. RecordReconcile(s, b) = [s EXCEPT !.lastReconcileErr = FALSE, !.successAge = 0]
      BY <2>2 DEF RecordReconcile
    <3>2. 0 \in 0..Never
      OBVIOUS
    <3> QED
      BY <3>1, <3>2
  <2> QED
    BY <2>1, <2>2
<1>4. ASSUME NEW s \in StatusType PROVE Older(s) \in StatusType
  BY DEF Older
<1> QED
  BY <1>1, <1>2, <1>3, <1>4

\* What the status and the loop say, and their types.
Reported ==
  /\ dryRun \in BOOLEAN /\ tick \in BOOLEAN /\ hangs \in BOOLEAN /\ synced \in BOOLEAN
  /\ pass \in {"idle", "lock", "list", "write", "ok", "error"}
  /\ docker \in {"off", "list", "asked", "stream", "wait", "ended"}
  /\ status \in StatusType
  /\ ReportsDocker /\ ReportsMode /\ ReportsPasses
  /\ dryRun => ~synced

\* The steps that leave the heartbeat alone.
Elsewhere == Subscribe \/ Generator \/ Drops \/ Interval \/ Loop \/ Hangs \/ Answered

\* A new status reports nothing, and nothing has happened.
LEMMA ReportedInit == Init => Reported
<1> SUFFICES ASSUME Init PROVE Reported
  OBVIOUS
<1>1. status \in StatusType
  BY StatusTyped DEF Init
<1> QED
  BY <1>1 DEF Init, Reported, ReportsDocker, ReportsMode, ReportsPasses, NewStatus

\* The next process remembers nothing of what was reported.
LEMMA ForgottenReports == Reported /\ Forgotten /\ UNCHANGED dryRun => Reported'
<1> SUFFICES ASSUME Reported, Forgotten, UNCHANGED dryRun PROVE Reported'
  OBVIOUS
<1>1. status' \in StatusType
  BY StatusTyped DEF Reported, Forgotten
<1> QED
  BY <1>1 DEF Reported, Forgotten, ReportsDocker, ReportsMode, ReportsPasses, NewStatus

\* A fault leaves the count of the faults within its bound.
LEMMA FaultBounded == HeartbeatTypeOK /\ (Fault \/ UNCHANGED faults) => faults' \in 0..MaxFaults
BY HeartbeatAssumption DEF HeartbeatTypeOK, CountsOK, Fault

\* The generator reports what becomes of its stream, and the loop its passes.
LEMMA ReportedElsewhere == Reported /\ Elsewhere => Reported'
<1> SUFFICES ASSUME Reported, Elsewhere PROVE Reported'
  OBVIOUS
<1>a. /\ SetDockerConnected(status, TRUE) \in StatusType
      /\ SetDockerConnected(status, FALSE) \in StatusType
      /\ RecordReconcile(status, pass = "error") \in StatusType
      /\ Older(status) \in StatusType
  BY StatusTyped DEF Reported
<1> USE DEF Reported, ReportsDocker, ReportsMode, ReportsPasses, loop
<1>1. CASE Subscribe  BY <1>1 DEF Subscribe
<1>2. CASE Generator
  <2>1. CASE Asks  BY <1>a, <2>1 DEF Asks, SetDockerConnected, StatusType
  <2>2. CASE Streams  BY <2>2 DEF Streams
  <2>3. CASE Reconnects  BY <2>3 DEF Reconnects
  <2>4. CASE GeneratorEnds
    BY <1>a, <2>4 DEF GeneratorEnds, Disconnected, SetDockerConnected, StatusType
  <2> QED
    BY <1>2, <2>1, <2>2, <2>3, <2>4 DEF Generator
<1>3. CASE Drops  BY <1>a, <1>3 DEF Drops, Disconnected, SetDockerConnected, StatusType
<1>4. CASE Interval  BY <1>a, <1>4, HealthAssumption DEF Interval, Older, Never, StatusType
<1>5. CASE Loop
  <2>1. CASE TakeTick  BY <2>1 DEF TakeTick
  <2>2. CASE Proceeds  BY <2>2 DEF Proceeds
  <2>3. CASE EndsEarly  BY <2>3 DEF EndsEarly
  <2>4. CASE Writes
    <3>1. UNCHANGED <<dryRun, tick, hangs, docker, status>>
      BY <2>4 DEF Writes
    <3>2. \/ dryRun /\ pass' = "ok" /\ synced' = synced
          \/ ~dryRun /\ pass' = "ok" /\ synced' = TRUE
          \/ ~dryRun /\ pass' = "error" /\ synced' = FALSE
      BY <2>4 DEF Writes, WriteErrorsCounted
    <3>3. ReportsDocker' /\ ReportsMode'
      BY <3>1
    <3>4. ReportsPasses' /\ (dryRun => ~synced)'
      BY <3>1, <3>2
    <3> QED
      BY <3>1, <3>2, <3>3, <3>4
  <2>5. CASE Reports  BY <1>a, <2>5, HealthAssumption DEF Reports, RecordReconcile, Never, StatusType
  <2> QED
    BY <1>5, <2>1, <2>2, <2>3, <2>4, <2>5 DEF Loop
<1>6. CASE Hangs  BY <1>6 DEF Hangs
<1>7. CASE Answered  BY <1>7 DEF Answered
<1> QED
  BY <1>1, <1>2, <1>3, <1>4, <1>5, <1>6, <1>7 DEF Elsewhere

\* The Docker and reconcile goroutines never touch the heartbeat.
LEMMA ElsewhereLeavesHeartbeat ==
  HeartbeatTypeOK /\ Elsewhere => UNCHANGED heartbeat /\ faults' \in 0..MaxFaults
<1> SUFFICES ASSUME HeartbeatTypeOK, Elsewhere
             PROVE  UNCHANGED heartbeat /\ (Fault \/ UNCHANGED faults)
  BY FaultBounded
<1> USE DEF heartbeat, hbVars, fields, stopping, etcd, Fails
<1>1. CASE Subscribe \/ Generator
  BY <1>1 DEF Subscribe, Generator, Asks, Streams, Reconnects, GeneratorEnds
<1>2. CASE Drops  BY <1>2 DEF Drops
<1>3. CASE Loop  BY <1>3 DEF Loop, TakeTick, Proceeds, EndsEarly, Writes, Reports
<1>4. CASE Interval \/ Hangs \/ Answered  BY <1>4 DEF Interval, Hangs, Answered
<1> QED
  BY <1>1, <1>2, <1>3, <1>4 DEF Elsewhere

-----------------------------------------------------------------------------
\* Dry-run.

Quiet == dryRun => /\ key = NoLease /\ granted = {}
                   /\ main \in {"down", "run", "left"} /\ hb = "none" /\ req = "none" /\ ~hbCancel

\* Without StartHeartbeat there is no goroutine, no request, and nothing to stop.
LEMMA QuietKept ==
  HeartbeatTypeOK /\ Quiet /\ (HeartbeatStep \/ Stop \/ ProcessEnds) => Quiet'
<1> SUFFICES ASSUME HeartbeatTypeOK, Quiet, HeartbeatStep \/ Stop \/ ProcessEnds, dryRun PROVE Quiet'
  BY DEF Quiet, HeartbeatStep, Stop, ProcessEnds
<1> USE HeartbeatAssumption DEF Quiet, fields, stopping, etcd
<1>1. ~Request
  BY DEF Request, Grant, GrantFails, Put, PutFails, KeepAlive, KeepAliveFails, CleanDelete, CleanRevoke
<1>2. ~Goroutine
  BY DEF Goroutine, LeaseLost, TryAgain, GoroutineEnds, ChannelClosed
<1>3. ~StopDelete /\ ~StopRevoke
  BY DEF StopDelete, StopRevoke
<1>4. ~Etcd
  BY DEF Etcd, Expire, KeepAliveBreaks, HeartbeatTypeOK, LeasesOK
<1>5. CASE HeartbeatStep
  BY <1>1, <1>2, <1>3, <1>4, <1>5 DEF HeartbeatStep, Boot, AfterBoot, Signal
<1>6. CASE Stop  BY <1>6 DEF Stop, StopBegins
<1>7. CASE ProcessEnds  BY <1>7 DEF ProcessEnds, Exit, Crash, Gone, Blank
<1> QED
  BY <1>5, <1>6, <1>7

-----------------------------------------------------------------------------
\* The daemon.

\* The invariant of the daemon, part by part.
LEMMA DaemonInvParts == DaemonInv <=> HeartbeatInv /\ Reported /\ Quiet
BY DEF DaemonInv, TypeOK, HeartbeatInv, Reported, Quiet, DryRunKeepsRecords, DryRunIsQuiet

\* A daemon starts with no heartbeat, no success and no record.
LEMMA DaemonInvInit == Init => DaemonInv
<1> SUFFICES ASSUME Init PROVE DaemonInv
  OBVIOUS
<1>1. HeartbeatInv  BY HeartbeatInvInit DEF Init
<1>2. Reported  BY ReportedInit
<1>3. Quiet  BY DEF Init, HeartbeatInit, Quiet
<1> QED
  BY <1>1, <1>2, <1>3, DaemonInvParts

\* Each step of a daemon keeps what it says of itself true.
LEMMA DaemonInvNext == DaemonInv /\ [Next]_vars => DaemonInv'
<1> SUFFICES ASSUME HeartbeatInv, Reported, Quiet, [Next]_vars
             PROVE  HeartbeatInv' /\ Reported' /\ Quiet'
  BY DaemonInvParts DEF DaemonInv, TypeOK, HeartbeatInv, Reported, Quiet, DryRunKeepsRecords, DryRunIsQuiet,
     HeartbeatTypeOK, PlacesOK, LeasesOK, CountsOK, ReportsDocker, ReportsMode, ReportsPasses
<1>a. HeartbeatTypeOK
  BY DEF HeartbeatInv
<1>1. CASE HeartbeatStep
  <2>1. HeartbeatNext
    BY <1>1 DEF HeartbeatStep, HeartbeatNext, Reported
  <2>2. Reported'
    BY <1>1 DEF HeartbeatStep, loop, Reported, ReportsDocker, ReportsMode, ReportsPasses
  <2> QED
    BY <1>a, <1>1, <2>1, <2>2, HeartbeatInvNext, QuietKept
<1>2. CASE Stop
  <2>1. Reported'
    BY <1>2 DEF Stop, loop, Reported, ReportsDocker, ReportsMode, ReportsPasses
  <2> QED
    BY <1>a, <1>2, <2>1, HeartbeatInvNext, QuietKept DEF Stop, HeartbeatNext
<1>3. CASE ProcessEnds
  BY <1>a, <1>3, HeartbeatInvNext, QuietKept, ForgottenReports DEF ProcessEnds, HeartbeatNext
<1>4. CASE Elsewhere
  <2>1. UNCHANGED heartbeat /\ faults' \in 0..MaxFaults
    BY <1>a, <1>4, ElsewhereLeavesHeartbeat
  <2>2. UNCHANGED dryRun
    BY <1>4 DEF Elsewhere, Subscribe, Generator, Asks, Streams, Reconnects, GeneratorEnds, Drops,
       Interval, Loop, TakeTick, Proceeds, EndsEarly, Writes, Reports, Hangs, Answered
  <2>3. Quiet'
    BY <2>1, <2>2 DEF Quiet, heartbeat, fields, etcd
  <2> QED
    BY <1>4, <2>1, <2>3, HeartbeatInvElsewhere, ReportedElsewhere
<1>5. CASE UNCHANGED vars
  <2>1. UNCHANGED heartbeat /\ UNCHANGED faults
    BY <1>5 DEF vars, hbVars, heartbeat
  <2>2. HeartbeatInv'
    BY <1>a, <2>1, FaultBounded, HeartbeatInvElsewhere
  <2> QED
    BY <1>5, <2>1, <2>2 DEF vars, loop, heartbeat, fields, etcd, Quiet, Reported,
       ReportsDocker, ReportsMode, ReportsPasses
<1> QED
  BY <1>1, <1>2, <1>3, <1>4, <1>5 DEF Next, Elsewhere

\* Whatever fails, is cancelled, hangs or crashes, and in whatever order, the
\* heartbeat and the status of a daemon say what is so (etcd_registry.go,
\* status.go, engine.go).
THEOREM DaemonInvariant == Spec => []DaemonInv
BY DaemonInvInit, DaemonInvNext, PTL DEF Spec

\* Every variable keeps its type: the two goroutines that go through
\* grantAndKeepAlive never stand at a place the other's steps left.
THEOREM TypeCorrect == Spec => []TypeOK
<1>1. DaemonInv => TypeOK  BY DEF DaemonInv
<1> QED
  BY <1>1, DaemonInvariant, PTL

\* A heartbeat the running daemon believes in (hbActive) is the one in etcd,
\* for as long as its lease lives there.
THEOREM ActivePublished == Spec => []ActiveIsPublished
<1>1. DaemonInv => ActiveIsPublished  BY DEF DaemonInv, HeartbeatInv
<1> QED
  BY <1>1, DaemonInvariant, PTL

\* StopHeartbeat's Delete and Revoke back each other up: one that succeeds is
\* enough to take the key away.
THEOREM StopTakesKey == Spec => []StopRemoves
<1>1. DaemonInv => StopRemoves  BY DEF DaemonInv, HeartbeatInv
<1> QED
  BY <1>1, DaemonInvariant, PTL

\* Status.Ready is true only of a daemon that has asked Docker for its events and
\* has its last plan in etcd.
THEOREM ReadyEarned == Spec => []ReadyIsEarned
<1>1. DaemonInv => ReadyIsEarned
  BY DEF DaemonInv, ReportsDocker, ReportsMode, ReportsPasses, ReadyIsEarned, Ready
<1> QED
  BY <1>1, DaemonInvariant, PTL

\* Config.App.DryRun: no heartbeat, no lease and no record, ever.
THEOREM DryRunKeeps == Spec => []DryRunKeepsRecords
<1>1. DaemonInv => DryRunKeepsRecords  BY DEF DaemonInv
<1> QED
  BY <1>1, DaemonInvariant, PTL

=============================================================================
