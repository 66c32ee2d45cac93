----------------------------- MODULE Heartbeat -----------------------------
(***************************************************************************)
(* The heartbeat of one daemon, etcd request by etcd request: the main     *)
(* goroutine in StartHeartbeat and StopHeartbeat, and the goroutine that   *)
(* keeps the lease and re-establishes it (maintainHeartbeat,               *)
(* reestablishHeartbeat).  Both go through grantAndKeepAlive, the main     *)
(* goroutine before the other one exists, so one place `req` serves both.  *)
(*                                                                         *)
(* A request whose context is cancelled returns an error; if it was sent   *)
(* before, etcd may have applied it.  A process that ends leaves in etcd   *)
(* what it published, until the lease expires.                             *)
(***************************************************************************)
EXTENDS Integers

CONSTANTS
  Leases,     \* etcd lease identifiers, in the order in which etcd gives them
  NoLease,    \* no lease; as the value of the key, that it is absent
  Forever,    \* the value of a key that no lease limits
  MaxFaults,  \* bound: failed requests, lost leases, crashes
  MaxBoots    \* bound: starts of the daemon

ASSUME HeartbeatAssumption ==
  /\ Leases \subseteq Int
  /\ NoLease \notin Leases /\ Forever \notin Leases /\ NoLease # Forever
  /\ MaxFaults \in Nat /\ MaxBoots \in Nat

VARIABLES
  main,       \* where the main goroutine stands
  cancelled,  \* its context, and so kaCtx, is cancelled
  hbLease, hbCancel, hbActive,  \* the fields; hbCancel: whether it is set
  hb,         \* where the heartbeat goroutine stands
  req,        \* the place in grantAndKeepAlive
  sent,       \* whether its request left before the context was cancelled
  lease,      \* the last lease it was granted
  stopLease,  \* the lease StopHeartbeat revokes
  failed,     \* how many requests of StopHeartbeat failed
  key,        \* etcd: the lease of the heartbeat key
  granted,    \* etcd: the leases that are neither revoked nor expired
  kept,       \* the leases that are kept alive
  faults, boots

fields == <<hbLease, hbCancel, hbActive>>
etcd == <<key, granted, kept>>
stopping == <<stopLease, failed>>
hbVars == <<main, cancelled, fields, hb, req, sent, lease, stopping, etcd, faults, boots>>

PlacesOK ==
  /\ main \in {"down", "start", "run", "delete", "revoke", "left"}
  /\ hb \in {"none", "drain", "again", "backoff", "ended"}
  /\ req \in {"none", "grant", "put", "keepalive", "cleanDelete", "cleanRevoke"}
  /\ cancelled \in BOOLEAN /\ hbCancel \in BOOLEAN /\ hbActive \in BOOLEAN /\ sent \in BOOLEAN
LeasesOK ==
  /\ hbLease \in Leases \cup {NoLease} /\ lease \in Leases \cup {NoLease}
  /\ stopLease \in Leases \cup {NoLease}
  /\ key \in Leases \cup {NoLease, Forever}
  /\ granted \subseteq Leases /\ kept \subseteq granted
CountsOK == failed \in 0..2 /\ faults \in 0..MaxFaults /\ boots \in 0..MaxBoots
HeartbeatTypeOK == PlacesOK /\ LeasesOK /\ CountsOK

\* The memory of a process that is not there.
Blank ==
  /\ cancelled' = FALSE
  /\ hbLease' = NoLease /\ hbCancel' = FALSE /\ hbActive' = FALSE
  /\ hb' = "none"
  /\ lease' = NoLease /\ stopLease' = NoLease /\ failed' = 0

HeartbeatInit ==
  /\ main = "down" /\ cancelled = FALSE
  /\ hbLease = NoLease /\ hbCancel = FALSE /\ hbActive = FALSE
  /\ hb = "none" /\ req = "none" /\ sent = FALSE
  /\ lease = NoLease /\ stopLease = NoLease /\ failed = 0
  /\ key = NoLease /\ granted = {} /\ kept = {}
  /\ faults = 0 /\ boots = 0

Fault == faults < MaxFaults /\ faults' = faults + 1

\* What makes a request under the context fail: the context, or etcd.
Fails == IF cancelled THEN UNCHANGED faults ELSE Fault

\* What etcd does when lease l is revoked or expires: its key goes with it.
Ends(l) ==
  /\ granted' = granted \ {l}
  /\ kept' = kept \ {l}
  /\ key' = IF key = l THEN NoLease ELSE key

\* etcd never uses the identifier of a lease again; here it does once nobody
\* knows it any more.
Fresh(l) == l \notin granted /\ l \notin {hbLease, lease, stopLease, key}
IsNext(l) == Fresh(l) /\ \A m \in Leases : Fresh(m) => l <= m

-----------------------------------------------------------------------------
\* grantAndKeepAlive.

GoesTo(place) == req' = place /\ sent' = ~cancelled

\* The caller gets the error: StartHeartbeat returns it, and the daemon runs on
\* without a heartbeat; reestablishHeartbeat waits and tries again.
ReturnsErrorForGood ==
  /\ req' = "none" /\ sent' = FALSE
  /\ main' = IF main = "start" THEN "run" ELSE main
  /\ hb' = IF main = "start" THEN "none" ELSE "ended"
ReturnsError ==
  /\ req' = "none" /\ sent' = FALSE
  /\ main' = IF main = "start" THEN "run" ELSE main
  /\ hb' = IF main = "start" THEN "none" ELSE "backoff"

Grant ==
  /\ req = "grant" /\ sent
  /\ \E l \in Leases : IsNext(l) /\ lease' = l /\ granted' = granted \cup {l}
  /\ GoesTo("put")
  /\ UNCHANGED <<main, cancelled, fields, hb, stopping, key, kept, faults, boots>>

\* A lease granted all the same has no key and is forgotten.
GrantFails ==
  /\ req = "grant" /\ Fails
  /\ ReturnsError
  /\ UNCHANGED <<cancelled, fields, lease, stopping, etcd, boots>>

\* Put under the lease.  A key belongs to the lease of its last Put.
WithoutLease(l) == Forever
WithLease(l) == l

Put ==
  /\ req = "put" /\ sent
  /\ lease \in granted
  /\ key' = WithLease(lease)
  /\ GoesTo("keepalive")
  /\ UNCHANGED <<main, cancelled, fields, hb, lease, stopping, granted, kept, faults, boots>>

PutFails ==
  /\ req = "put"
  /\ IF lease \in granted THEN Fails ELSE UNCHANGED faults
  /\ \/ UNCHANGED key
     \/ sent /\ lease \in granted /\ key' = WithLease(lease)
  /\ GoesTo("cleanDelete")
  /\ UNCHANGED <<main, cancelled, fields, hb, lease, stopping, granted, kept, boots>>

\* The caller gets the channel and sets the fields under hbMu.  StartHeartbeat
\* starts the goroutine, reestablishHeartbeat is the goroutine.
ReturnsChannel ==
  /\ hbLease' = lease /\ hbActive' = TRUE
  /\ hbCancel' = (main = "start" \/ hbCancel)
  /\ main' = IF main = "start" THEN "run" ELSE main
  /\ hb' = "drain"
  /\ req' = "none" /\ sent' = FALSE

\* KeepAlive.  Under a cancelled context it succeeds with a channel that is
\* closed at once.
KeepAlive ==
  /\ req = "keepalive"
  /\ kept' = IF cancelled THEN kept ELSE kept \cup ({lease} \cap granted)
  /\ ReturnsChannel
  /\ UNCHANGED <<cancelled, lease, stopping, key, granted, faults, boots>>

KeepAliveFails ==
  /\ req = "keepalive" /\ Fault
  /\ GoesTo("cleanDelete")
  /\ UNCHANGED <<main, cancelled, fields, hb, lease, stopping, etcd, boots>>

\* bestEffortCleanup, under a context of its own.
CleanDelete ==
  /\ req = "cleanDelete"
  /\ \/ key' = NoLease /\ UNCHANGED faults
     \/ UNCHANGED key /\ Fault
  /\ GoesTo("cleanRevoke")
  /\ UNCHANGED <<main, cancelled, fields, hb, lease, stopping, granted, kept, boots>>

CleanRevoke ==
  /\ req = "cleanRevoke"
  /\ \/ Ends(lease) /\ UNCHANGED faults
     \/ UNCHANGED etcd /\ Fault
  /\ ReturnsError
  /\ UNCHANGED <<cancelled, fields, lease, stopping, boots>>

Request == Grant \/ GrantFails \/ Put \/ PutFails \/ KeepAlive \/ KeepAliveFails
           \/ CleanDelete \/ CleanRevoke

-----------------------------------------------------------------------------
\* The heartbeat goroutine.

\* maintainHeartbeat: the channel is closed.
ChannelClosed == hb = "drain" /\ lease \notin kept

\* What hbActive is from then on.
StillActive == hbActive
NoLongerActive == FALSE

LeaseLost ==
  /\ ChannelClosed /\ ~cancelled
  /\ hbActive' = NoLongerActive
  /\ hb' = "again"
  /\ GoesTo("grant")
  /\ UNCHANGED <<main, cancelled, hbLease, hbCancel, lease, stopping, etcd, faults, boots>>

\* The next attempt, after the backoff.
TryAgain ==
  /\ hb = "backoff" /\ ~cancelled
  /\ hb' = "again"
  /\ GoesTo("grant")
  /\ UNCHANGED <<main, cancelled, fields, lease, stopping, etcd, faults, boots>>

GoroutineEnds ==
  /\ cancelled
  /\ ChannelClosed \/ hb = "backoff"
  /\ hb' = "ended"
  /\ UNCHANGED <<main, cancelled, fields, req, sent, lease, stopping, etcd, faults, boots>>

-----------------------------------------------------------------------------
\* The main goroutine.

\* The daemon starts: StartHeartbeat, or, in dry-run, none.
AlwaysHeartbeat(dryRun) == "start"
AfterBoot(dryRun) == IF dryRun THEN "run" ELSE "start"

Boot(dryRun) ==
  /\ main = "down" /\ boots < MaxBoots
  /\ boots' = boots + 1
  /\ main' = AfterBoot(dryRun)
  /\ IF main' = "start" THEN GoesTo("grant") ELSE UNCHANGED <<req, sent>>
  /\ UNCHANGED <<cancelled, fields, hb, lease, stopping, etcd, faults>>

\* A signal cancels the context; the keepalive ends with it.
Signal ==
  /\ main \in {"start", "run"} /\ ~cancelled
  /\ cancelled' = TRUE
  /\ kept' = {}
  /\ UNCHANGED <<main, fields, hb, req, sent, lease, stopping, key, granted, faults, boots>>

\* StopHeartbeat reads and clears the fields; without a heartbeat that is all.
StopBegins ==
  /\ main = "run" /\ cancelled
  /\ stopLease' = hbLease
  /\ hbLease' = NoLease /\ hbCancel' = FALSE /\ hbActive' = FALSE
  /\ main' = IF hbCancel THEN "delete" ELSE "left"
  /\ UNCHANGED <<cancelled, hb, req, sent, lease, failed, etcd, faults, boots>>

\* A failed Delete is logged, and the lease is revoked all the same.
ReturnsEarly == "left"
RevokesAllTheSame == "revoke"

StopDelete ==
  /\ main = "delete"
  /\ \/ key' = NoLease /\ main' = "revoke" /\ UNCHANGED <<failed, faults>>
     \/ UNCHANGED key /\ main' = RevokesAllTheSame /\ Fault /\ failed' = failed + 1
  /\ UNCHANGED <<cancelled, fields, hb, req, sent, lease, stopLease, granted, kept, boots>>

StopRevoke ==
  /\ main = "revoke"
  /\ main' = "left"
  /\ \/ Ends(stopLease) /\ UNCHANGED <<failed, faults>>
     \/ UNCHANGED etcd /\ Fault /\ failed' = failed + 1
  /\ UNCHANGED <<cancelled, fields, hb, req, sent, lease, stopLease, boots>>

\* Run has returned: the clients are closed and the process ends, whatever the
\* goroutine is doing.
Gone ==
  /\ main' = "down"
  /\ Blank
  /\ req' = "none" /\ sent' = FALSE
  /\ kept' = {}
  /\ UNCHANGED <<key, granted, boots>>

Exit == main = "left" /\ Gone /\ UNCHANGED faults
Crash == main # "down" /\ Fault /\ Gone

-----------------------------------------------------------------------------
\* etcd.

\* Granted a moment ago, well within its time to live.
Young(l) == l = lease /\ req \in {"put", "keepalive"}

Expire(l) ==
  /\ l \in granted
  /\ IF l \in kept \/ Young(l) THEN Fault ELSE UNCHANGED faults
  /\ Ends(l)
  /\ UNCHANGED <<main, cancelled, fields, hb, req, sent, lease, stopping, boots>>

\* The client hears nothing for the time to live and closes the channel; the
\* lease may live a little longer in etcd.
KeepAliveBreaks(l) ==
  /\ l \in kept /\ Fault
  /\ kept' = kept \ {l}
  /\ UNCHANGED <<main, cancelled, fields, hb, req, sent, lease, stopping, key, granted, boots>>

Goroutine == LeaseLost \/ TryAgain \/ GoroutineEnds
Etcd == \E l \in Leases : Expire(l) \/ KeepAliveBreaks(l)

-----------------------------------------------------------------------------
\* While the daemon runs, a heartbeat it believes in is published: the key
\* exists under the lease it holds, unless that lease is gone and the goroutine
\* has not noticed yet.
ActiveIsPublished ==
  main = "run" /\ hbActive /\ hbLease \in granted => key = hbLease

\* StopHeartbeat leaves no key behind if one of its two requests succeeds, and
\* the goroutine was not publishing under another lease at that moment.
StopRemoves ==
  main = "left" /\ stopLease # NoLease /\ lease = stopLease /\ failed < 2 => key = NoLease

\* The inductive strengthening of ActiveIsPublished and StopRemoves.

Alive == main \in {"start", "run"}
Stopping == main \in {"delete", "revoke", "left"}

DownIsBlank ==
  main = "down" => ~hbActive /\ hbLease = NoLease /\ ~hbCancel /\ hb = "none" /\ req = "none"

\* A failed Delete and a failed Revoke.
FailuresCounted ==
  /\ Alive \/ main \in {"down", "delete"} => failed = 0
  /\ main = "revoke" => failed <= 1

\* No heartbeat is believed in while another one is being published.
InactiveMeanwhile == Alive /\ (req # "none" \/ hb = "backoff") => ~hbActive

\* The lease of the heartbeat being published is not the one before.
LeaseIsNew ==
  req \in {"put", "keepalive", "cleanDelete", "cleanRevoke"} =>
    /\ Alive => lease # hbLease
    /\ Stopping => lease # stopLease

\* The Put comes before the KeepAlive, and nobody takes the key in between.
PutComesFirst ==
  Alive /\ req = "keepalive" => key = lease \/ (key = NoLease /\ lease \notin granted)

\* The key is that of the last lease, or gone, once that lease is recorded.
KeyIsOwn ==
  lease # NoLease /\ ((Alive /\ lease = hbLease) \/ (Stopping /\ lease = stopLease))
  => key \in {NoLease, lease}

\* Whoever has a heartbeat to stop can stop it.
CancelIsSet ==
  /\ main = "run" /\ (req # "none" \/ hb \in {"drain", "again", "backoff"}) => hbCancel
  /\ Alive /\ ~hbCancel => hbLease = NoLease

DeletedOnce ==
  main = "revoke" /\ stopLease # NoLease /\ lease = stopLease /\ failed = 0 => key = NoLease

\* While a daemon runs it vouches for a heartbeat only if it is there, and a
\* shutdown takes it away, because of all this.
HeartbeatInv ==
  /\ HeartbeatTypeOK /\ DownIsBlank /\ FailuresCounted
  /\ InactiveMeanwhile /\ LeaseIsNew /\ PutComesFirst /\ KeyIsOwn /\ CancelIsSet /\ DeletedOnce
  /\ ActiveIsPublished /\ StopRemoves

\* A key that a daemon leaves behind, by a crash, by failed requests or by a
\* goroutine that published it after the Delete, disappears.
HostLeaves == main = "down" ~> main # "down" \/ key = NoLease

\* A heartbeat that was started comes back after every loss, and stays, until
\* the daemon is told to stop.
HeartbeatComesBack ==
  <>[](main = "down" \/ cancelled \/ hb = "none" \/ key \in kept)

=============================================================================
