-------------------------------- MODULE Daemon --------------------------------
(***************************************************************************)
(* The life of one daemon, from its start to the end of its process: the   *)
(* goroutines of Heartbeat, the reconcile loop of SyncEngine.Run, the      *)
(* connection of the Docker event generator and the status behind /readyz, *)
(* with and without dry-run, through signals, crashes and restarts.        *)
(*                                                                         *)
(* A pass is its lock, its list and its writes, each of them one step here *)
(* (LockTransaction and SyncEngine have them request by request), but any  *)
(* of them may hang while etcd is away: no request of a pass has a time    *)
(* limit of its own.                                                       *)
(***************************************************************************)
EXTENDS Heartbeat, Health

VARIABLES
  dryRun,  \* the configuration
  tick,    \* the ticker's channel holds a tick
  pass,    \* where the reconcile loop stands
  hangs,   \* the request of the pass has no answer for now
  synced,  \* the records of the last plan made are all in etcd
  docker,  \* where the generator stands
  status   \* httpserver.Status

loop == <<tick, pass, hangs, synced>>
vars == <<hbVars, dryRun, loop, docker, status>>

TypeOK ==
  /\ HeartbeatTypeOK
  /\ dryRun \in BOOLEAN /\ tick \in BOOLEAN /\ hangs \in BOOLEAN /\ synced \in BOOLEAN
  /\ pass \in {"idle", "lock", "list", "write", "ok", "error"}
  /\ docker \in {"off", "list", "asked", "stream", "wait", "ended"}
  /\ status \in StatusType

Init ==
  /\ HeartbeatInit
  /\ dryRun \in BOOLEAN
  /\ tick = FALSE /\ pass = "idle" /\ hangs = FALSE /\ synced = FALSE
  /\ docker = "off"
  /\ status = NewStatus(dryRun)

\* The memory of the next process.
Forgotten ==
  /\ tick' = FALSE /\ pass' = "idle" /\ hangs' = FALSE /\ synced' = FALSE
  /\ docker' = "off"
  /\ status' = NewStatus(dryRun)

-----------------------------------------------------------------------------
\* The Docker event generator.

Looping == main = "run" /\ docker # "off"

\* Subscribe, once StartHeartbeat has returned.
Subscribe ==
  /\ main = "run" /\ docker = "off"
  /\ docker' = "list"
  /\ UNCHANGED <<hbVars, dryRun, loop, status>>

\* runOnce: the list is delivered, and the events are asked for.  The status
\* says connected before Docker has answered.
Asks ==
  /\ docker = "list" /\ ~cancelled
  /\ docker' = "asked"
  /\ status' = SetDockerConnected(status, TRUE)
  /\ UNCHANGED <<hbVars, dryRun, loop>>

Streams ==
  /\ docker = "asked"
  /\ docker' = "stream"
  /\ UNCHANGED <<hbVars, dryRun, loop, status>>

\* The list fails, the request for events fails, or the stream ends.
StaysConnected(s) == s
Disconnected(s) == SetDockerConnected(s, FALSE)

Drops ==
  /\ docker \in {"list", "asked", "stream"} /\ ~cancelled
  /\ Fault
  /\ docker' = "wait"
  /\ status' = Disconnected(status)
  /\ UNCHANGED <<main, cancelled, fields, hb, req, sent, lease, stopping, etcd, boots, dryRun, loop>>

Reconnects ==
  /\ docker = "wait" /\ ~cancelled
  /\ docker' = "list"
  /\ UNCHANGED <<hbVars, dryRun, loop, status>>

GeneratorEnds ==
  /\ docker \in {"list", "asked", "stream", "wait"} /\ cancelled
  /\ docker' = "ended"
  /\ status' = Disconnected(status)
  /\ UNCHANGED <<hbVars, dryRun, loop>>

Generator == Asks \/ Streams \/ Reconnects \/ GeneratorEnds

-----------------------------------------------------------------------------
\* The reconcile loop.

\* A poll interval passes: the ticker holds one tick at most, and a pass that
\* is not held up takes less than an interval.
Interval ==
  /\ Looping
  /\ hangs \/ (pass = "idle" /\ ~tick)
  /\ tick' = TRUE
  /\ status' = Older(status)
  /\ UNCHANGED <<hbVars, dryRun, pass, hangs, synced, docker>>

TakeTick ==
  /\ Looping /\ pass = "idle" /\ tick
  /\ tick' = FALSE
  /\ pass' = "lock"
  /\ UNCHANGED <<hbVars, dryRun, hangs, synced, docker, status>>

\* LockTransaction, List and GetLiveHostnames.
Proceeds ==
  /\ ~hangs /\ ~cancelled
  /\ \/ pass = "lock" /\ pass' = "list"
     \/ pass = "list" /\ pass' = "write"
  /\ UNCHANGED <<hbVars, dryRun, tick, hangs, synced, docker, status>>

\* One of the two fails; the error ends the pass.
EndsEarly ==
  /\ ~hangs /\ pass \in {"lock", "list"} /\ Fails
  /\ pass' = "error"
  /\ UNCHANGED <<main, cancelled, fields, hb, req, sent, lease, stopping, etcd, boots,
                 dryRun, tick, hangs, synced, docker, status>>

\* The removals and the additions of the plan; in dry-run they are only logged.
\* A write that fails does not stop the others: it is counted, and makes the
\* pass fail.
WriteErrorsLost == "ok"
WriteErrorsCounted == "error"

Writes ==
  /\ ~hangs /\ pass = "write"
  /\ \/ dryRun /\ pass' = "ok" /\ UNCHANGED <<faults, synced>>
     \/ ~dryRun /\ pass' = "ok" /\ synced' = TRUE /\ UNCHANGED faults
     \/ ~dryRun /\ Fails /\ pass' = WriteErrorsCounted /\ synced' = FALSE
  /\ UNCHANGED <<main, cancelled, fields, hb, req, sent, lease, stopping, etcd, boots,
                 dryRun, tick, hangs, docker, status>>

\* The lock is released, the outcome is reported.
Reports ==
  /\ pass \in {"ok", "error"}
  /\ pass' = "idle"
  /\ status' = RecordReconcile(status, pass = "error")
  /\ UNCHANGED <<hbVars, dryRun, tick, hangs, synced, docker>>

\* etcd does not answer a request of the pass, until it does or the context ends.
Hangs ==
  /\ ~hangs /\ pass \in {"lock", "list", "write"} /\ ~cancelled
  /\ Fault
  /\ hangs' = TRUE
  /\ UNCHANGED <<main, cancelled, fields, hb, req, sent, lease, stopping, etcd, boots,
                 dryRun, tick, pass, synced, docker, status>>

AnsweredByEtcd ==
  /\ hangs /\ ~cancelled
  /\ hangs' = FALSE
  /\ UNCHANGED <<hbVars, dryRun, tick, pass, synced, docker, status>>
Answered ==
  /\ hangs
  /\ hangs' = FALSE
  /\ UNCHANGED <<hbVars, dryRun, tick, pass, synced, docker, status>>

Loop == TakeTick \/ Proceeds \/ EndsEarly \/ Writes \/ Reports

-----------------------------------------------------------------------------
\* The daemon.

\* The select of the loop takes the cancellation between two passes only; when
\* there is a tick as well, it takes either.
AfterThePass == pass = "idle"

Stop == Looping /\ AfterThePass /\ StopBegins /\ UNCHANGED <<dryRun, loop, docker, status>>

HeartbeatStep ==
  /\ \/ Request \/ Goroutine \/ Boot(dryRun) \/ Signal
     \/ StopDelete \/ StopRevoke \/ Etcd
  /\ UNCHANGED <<dryRun, loop, docker, status>>

ProcessEnds == (Exit \/ Crash) /\ Forgotten /\ UNCHANGED dryRun

Next ==
  \/ HeartbeatStep \/ Stop \/ ProcessEnds
  \/ Subscribe \/ Generator \/ Drops
  \/ Interval \/ Loop \/ Hangs \/ Answered

Spec == Init /\ [][Next]_vars

\* Every goroutine goes on, time passes, and a request under a cancelled
\* context returns.  The select is fair: a cancellation that is there at every
\* turn of the loop is taken.
Fairness ==
  /\ WF_vars(Request /\ UNCHANGED <<dryRun, loop, docker, status>>)
  /\ WF_vars(Goroutine /\ UNCHANGED <<dryRun, loop, docker, status>>)
  /\ WF_vars((StopDelete \/ StopRevoke) /\ UNCHANGED <<dryRun, loop, docker, status>>)
  /\ WF_vars(Exit /\ Forgotten /\ UNCHANGED dryRun)
  /\ \A l \in Leases :
       WF_vars(Expire(l) /\ UNCHANGED faults /\ UNCHANGED <<dryRun, loop, docker, status>>)
  /\ SF_vars(Stop)
  /\ WF_vars(Subscribe) /\ WF_vars(Generator)
  /\ WF_vars(Loop) /\ WF_vars(Interval)
  /\ WF_vars(Answered /\ cancelled)

FairSpec == Spec /\ Fairness

-----------------------------------------------------------------------------
\* /readyz: "the Docker event stream is connected and a reconciliation has
\* succeeded": a daemon that says so has asked Docker for its events, applies
\* what it plans, and has every record of its last plan in etcd, unless the pass
\* that failed has not been reported yet.
ReadyIsEarned ==
  main # "down" /\ Ready(status) =>
    docker \in {"asked", "stream"} /\ ~dryRun /\ (synced \/ pass = "error")

\* The inductive strengthening of ReadyIsEarned: what the status says of Docker
\* and of the passes.
ReportsDocker == status.dockerConnected => docker \in {"asked", "stream"}
ReportsMode == status.dryRun = dryRun
ReportsPasses ==
  /\ ~dryRun /\ ~status.lastReconcileErr /\ status.successAge # Never => synced \/ pass = "error"
  /\ ~dryRun /\ pass = "ok" => synced

\* A daemon that runs on gets ready and stays so once Docker and etcd are left
\* in peace, whatever failed before.
ReadyInTheEnd ==
  <>[](main = "down" \/ cancelled \/ dryRun \/ hangs \/ Ready(status))

\* A signal ends the process, wherever the goroutines stand.
ShutdownEnds == cancelled ~> main = "down"

\* In dry-run the daemon publishes no heartbeat, and its records stay as they are.
\* (It still takes the lock of each pass, which writes to etcd.)
DryRunKeepsRecords == dryRun => key = NoLease /\ granted = {} /\ ~synced

\* The inductive strengthening of all these.
DryRunIsQuiet ==
  dryRun => main \in {"down", "run", "left"} /\ hb = "none" /\ req = "none" /\ ~hbCancel

\* What a daemon says of itself, by its heartbeat and its status, is so.
DaemonInv ==
  /\ TypeOK /\ HeartbeatInv
  /\ ReportsDocker /\ ReportsMode /\ ReportsPasses
  /\ DryRunKeepsRecords /\ DryRunIsQuiet

=============================================================================
