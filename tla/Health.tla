-------------------------------- MODULE Health --------------------------------
(***************************************************************************)
(* The status behind /readyz (internal/httpserver/status.go): what the     *)
(* sync engine and the Docker event generator report to it, and when it    *)
(* calls the daemon ready.  Its mutex makes each call one step.  Time is   *)
(* counted in poll intervals; ages past the threshold are all the same.    *)
(***************************************************************************)
EXTENDS Integers

CONSTANT ReadyThreshold  \* the intervals a success counts for

ASSUME HealthAssumption == ReadyThreshold \in Nat

Never == ReadyThreshold + 2  \* lastReconcileSuccess is zero

StatusType ==
  [dockerConnected : BOOLEAN, lastReconcileErr : BOOLEAN, successAge : 0..Never, dryRun : BOOLEAN]

\* NewStatus and SetDryRun, as NewWithFactories calls them.
NewStatus(dryRun) ==
  [dockerConnected |-> FALSE, lastReconcileErr |-> FALSE, successAge |-> Never, dryRun |-> dryRun]

SetDockerConnected(s, connected) == [s EXCEPT !.dockerConnected = connected]

KeepOldError(s, failed) ==
  IF failed THEN [s EXCEPT !.lastReconcileErr = TRUE] ELSE [s EXCEPT !.successAge = 0]
RecordReconcile(s, failed) ==
  [s EXCEPT !.lastReconcileErr = failed,
            !.successAge = IF failed THEN @ ELSE 0]

\* A poll interval passes.
OlderForEver(s) == [s EXCEPT !.successAge = @ + 1]
Older(s) == [s EXCEPT !.successAge = IF @ <= ReadyThreshold THEN @ + 1 ELSE @]

Ready(s) ==
  /\ ~s.dryRun /\ s.dockerConnected /\ ~s.lastReconcileErr
  /\ s.successAge # Never /\ s.successAge <= ReadyThreshold

=============================================================================
