--------------------------- MODULE LockTransaction ---------------------------
(***************************************************************************)
(* EtcdRegistry.LockTransaction: the distributed lock every reconcile tick *)
(* takes in etcd before it reads and writes DNS records.                   *)
(*                                                                         *)
(* A host (one daemon) takes its keys one after the other, in order.  For  *)
(* each it grants a lease, tries to create the lock key under it until the *)
(* timeout, and starts a keepalive.  It then runs the caller's function    *)
(* and releases the keys in reverse order.  Every return on an error path  *)
(* is an action of its own, with what it leaves behind in etcd.            *)
(*                                                                         *)
(* One action is one etcd request with the local code around it.  A        *)
(* request that fails may have been applied by the server or not.          *)
(***************************************************************************)
EXTENDS Integers, FiniteSets

CONSTANTS
  Hosts,        \* the daemons that share the etcd cluster
  Keys,         \* lock keys, numbered in the order sort.Strings gives them
  Requests,     \* the sets of keys a caller asks for
  Leases,       \* etcd lease identifiers
  NoLease,      \* no lease; as the value of a lock key, that it is absent
  LockTimeout,  \* cfg.LockTimeout, in milliseconds
  LockRetry,    \* cfg.LockRetryInterval, in milliseconds
  LeaseLoss     \* TRUE: a lease may expire under a host that keeps it alive

\* Config.Validate refuses a timeout or a retry interval that is not positive.
ASSUME LockAssumption ==
  /\ Keys \subseteq Nat
  /\ Requests \subseteq (SUBSET Keys) \ {{}}
  /\ NoLease \notin Leases
  /\ LockTimeout \in Nat \ {0}
  /\ LockRetry \in Nat \ {0}
  /\ LeaseLoss \in BOOLEAN

VARIABLES
  pc,       \* pc[h]: where h stands in LockTransaction
  todo,     \* todo[h]: the keys h has still to acquire, the current one included
  cur,      \* cur[h]: the lease granted for the current key, while it is acquired
  held,     \* held[h][k]: the lease in the local slice `leases` for key k
  kept,     \* kept[h]: the leases some goroutine of h keeps alive
  done,     \* done[h]: the context of h is cancelled
  elapsed,  \* elapsed[h]: time.Since(start), in milliseconds
  lockKey,  \* etcd: the lease under which /locks/<k> exists
  granted   \* etcd: the leases that are neither revoked nor expired

local == <<pc, todo, cur, held, kept, done, elapsed>>
etcd  == <<lockKey, granted>>
vars  == <<pc, todo, cur, held, kept, done, elapsed, lockKey, granted>>

PC == {"idle", "grant", "acquire", "keepalive", "undoDelete", "undoRevoke",
       "giveUp", "fn", "delete", "revoke", "down"}

NoneHeld == [k \in Keys |-> NoLease]

TypeOK ==
  /\ pc \in [Hosts -> PC]
  /\ todo \in [Hosts -> SUBSET Keys]
  /\ cur \in [Hosts -> Leases \cup {NoLease}]
  /\ held \in [Hosts -> [Keys -> Leases \cup {NoLease}]]
  /\ kept \in [Hosts -> SUBSET Leases]
  /\ done \in [Hosts -> BOOLEAN]
  /\ elapsed \in [Hosts -> Nat]
  /\ lockKey \in [Keys -> Leases \cup {NoLease}]
  /\ granted \in SUBSET Leases

Init ==
  /\ pc = [h \in Hosts |-> "idle"]
  /\ todo = [h \in Hosts |-> {}]
  /\ cur = [h \in Hosts |-> NoLease]
  /\ held = [h \in Hosts |-> NoneHeld]
  /\ kept = [h \in Hosts |-> {}]
  /\ done = [h \in Hosts |-> FALSE]
  /\ elapsed = [h \in Hosts |-> 0]
  /\ lockKey = [k \in Keys |-> NoLease]
  /\ granted = {}

-----------------------------------------------------------------------------
\* The keys are sorted: the next to acquire is the least, and they are
\* released from the greatest.
NextKey(h, k) == k \in todo[h] /\ \A j \in todo[h] : k <= j
LastHeld(h, k) == /\ held[h][k] # NoLease
                  /\ \A j \in Keys : held[h][j] # NoLease => j <= k

\* etcd never uses the identifier of a lease again.
Fresh(l) ==
  /\ l \notin granted
  /\ \A h \in Hosts : l # cur[h] /\ l \notin kept[h] /\ \A k \in Keys : l # held[h][k]

\* What etcd does when lease l is revoked or expires: its keys go with it.
KeyWithoutLease(l) == lockKey
Without(l) == [k \in Keys |-> IF lockKey[k] = l THEN NoLease ELSE lockKey[k]]

\* Transaction guard: CreateRevision of the lock key is 0.
KeyFreeUnchecked(k) == TRUE
KeyFree(k) == lockKey[k] = NoLease

\* time.Duration(LockTimeout) converts seconds held in a float, so it drops the
\* fraction of a second before the multiplication by time.Second.
Window == (LockTimeout \div 1000) * 1000
InWindow(h) == elapsed[h] < Window

Return(h) ==
  /\ pc' = [pc EXCEPT ![h] = "idle"]
  /\ todo' = [todo EXCEPT ![h] = {}]
  /\ cur' = [cur EXCEPT ![h] = NoLease]
  /\ held' = [held EXCEPT ![h] = NoneHeld]
  /\ elapsed' = [elapsed EXCEPT ![h] = 0]
  /\ UNCHANGED done

\* A Delete or Revoke whose error is only logged.  Once the context is
\* cancelled the client does not send the request any more.
Deleted(h, k) ==
  \/ UNCHANGED lockKey
  \/ ~done[h] /\ lockKey' = [lockKey EXCEPT ![k] = NoLease]
Revoked(h, l) ==
  \/ UNCHANGED etcd
  \/ ~done[h] /\ granted' = granted \ {l} /\ lockKey' = Without(l)

-----------------------------------------------------------------------------
\* The steps of LockTransaction.

Begin(h) ==
  /\ pc[h] = "idle"
  /\ \E K \in Requests : todo' = [todo EXCEPT ![h] = K]
  /\ pc' = [pc EXCEPT ![h] = "grant"]
  /\ UNCHANGED <<cur, held, kept, done, elapsed, etcd>>

\* client.Grant for the next key; the clock of the acquire loop starts.
Grant(h) ==
  /\ pc[h] = "grant" /\ ~done[h]
  /\ \E l \in Leases : /\ Fresh(l)
                       /\ granted' = granted \cup {l}
                       /\ cur' = [cur EXCEPT ![h] = l]
  /\ pc' = [pc EXCEPT ![h] = "acquire"]
  /\ elapsed' = [elapsed EXCEPT ![h] = 0]
  /\ UNCHANGED <<todo, held, kept, done, lockKey>>

\* Grant fails: return, whatever keys were acquired before.
GrantFails(h) ==
  /\ pc[h] = "grant"
  /\ Return(h)
  /\ UNCHANGED <<kept, etcd>>

\* The loop sees the cancelled context: return, the lease stays.
AcquireCancelled(h) ==
  /\ pc[h] = "acquire" /\ InWindow(h) /\ done[h]
  /\ Return(h)
  /\ UNCHANGED <<kept, etcd>>

\* The transaction creates the lock key.
Acquire(h) ==
  /\ pc[h] = "acquire" /\ InWindow(h) /\ ~done[h]
  /\ cur[h] \in granted
  /\ \E k \in Keys : /\ NextKey(h, k)
                     /\ KeyFree(k)
                     /\ lockKey' = [lockKey EXCEPT ![k] = cur[h]]
  /\ pc' = [pc EXCEPT ![h] = "keepalive"]
  /\ UNCHANGED <<todo, cur, held, kept, done, elapsed, granted>>

\* The key exists: sleep LockRetryInterval and try again.
CountDown(h) == [elapsed EXCEPT ![h] = @ - LockRetry]
Retry(h) == [elapsed EXCEPT ![h] = @ + LockRetry]

AcquireBusy(h) ==
  /\ pc[h] = "acquire" /\ InWindow(h) /\ ~done[h]
  /\ \E k \in Keys : NextKey(h, k) /\ ~KeyFree(k)
  /\ elapsed' = Retry(h)
  /\ UNCHANGED <<pc, todo, cur, held, kept, done, etcd>>

\* The transaction returns an error (the lease is gone, or the request or its
\* answer was lost): return.  The lock key may have been created.
AcquireFails(h) ==
  /\ pc[h] = "acquire" /\ InWindow(h)
  /\ Return(h)
  /\ \/ UNCHANGED lockKey
     \/ /\ ~done[h] /\ cur[h] \in granted
        /\ \E k \in Keys : /\ NextKey(h, k)
                           /\ KeyFree(k)
                           /\ lockKey' = [lockKey EXCEPT ![k] = cur[h]]
  /\ UNCHANGED <<kept, granted>>

\* The loop ends without the lock.  Requests take time too, so after the first
\* attempt it may end although elapsed has not reached the window.
TimeOut(h) ==
  /\ pc[h] = "acquire"
  /\ ~InWindow(h) \/ elapsed[h] > 0
  /\ pc' = [pc EXCEPT ![h] = "giveUp"]
  /\ UNCHANGED <<todo, cur, held, kept, done, elapsed, etcd>>

\* Revoke the unused lease and return an error.
GiveUpAndAskAgain(h) ==
  /\ pc[h] = "giveUp"
  /\ Revoked(h, cur[h])
  /\ pc' = [pc EXCEPT ![h] = "grant"]
  /\ cur' = [cur EXCEPT ![h] = NoLease]
  /\ UNCHANGED <<todo, held, kept, done, elapsed>>
GiveUp(h) ==
  /\ pc[h] = "giveUp"
  /\ Revoked(h, cur[h])
  /\ Return(h)
  /\ UNCHANGED kept

\* client.KeepAlive: the key goes to the slice of held leases.
KeepNothing(h) == kept
StartKeepAlive(h) == [kept EXCEPT ![h] = @ \cup {cur[h]}]

KeepAlive(h) ==
  /\ pc[h] = "keepalive" /\ ~done[h]
  /\ kept' = StartKeepAlive(h)
  /\ \E k \in Keys :
       /\ NextKey(h, k)
       /\ held' = [held EXCEPT ![h][k] = cur[h]]
       /\ todo' = [todo EXCEPT ![h] = @ \ {k}]
       /\ pc' = [pc EXCEPT ![h] = IF todo[h] = {k} THEN "fn" ELSE "grant"]
  /\ cur' = [cur EXCEPT ![h] = NoLease]
  /\ UNCHANGED <<done, elapsed, etcd>>

KeepAliveFails(h) ==
  /\ pc[h] = "keepalive"
  /\ pc' = [pc EXCEPT ![h] = "undoDelete"]
  /\ UNCHANGED <<todo, cur, held, kept, done, elapsed, etcd>>

\* The best-effort cleanup after a failed keepalive: Delete, Revoke, return.
UndoDelete(h) ==
  /\ pc[h] = "undoDelete"
  /\ \E k \in Keys : NextKey(h, k) /\ Deleted(h, k)
  /\ pc' = [pc EXCEPT ![h] = "undoRevoke"]
  /\ UNCHANGED <<todo, cur, held, kept, done, elapsed, granted>>

UndoRevoke(h) ==
  /\ pc[h] = "undoRevoke"
  /\ Revoked(h, cur[h])
  /\ Return(h)
  /\ UNCHANGED kept

\* The caller's function returns, with or without an error.
FnReturns(h) ==
  /\ pc[h] = "fn"
  /\ pc' = [pc EXCEPT ![h] = "delete"]
  /\ UNCHANGED <<todo, cur, held, kept, done, elapsed, etcd>>

\* l.cancel() and Delete(lockKey).  The Delete does not compare: it removes
\* the lock key whoever owns it.
LeaveKeepAlive(h, l) == kept
StopKeepAlive(h, l) == [kept EXCEPT ![h] = @ \ {l}]

ReleaseDelete(h) ==
  /\ pc[h] = "delete"
  /\ \E k \in Keys : /\ LastHeld(h, k)
                     /\ kept' = StopKeepAlive(h, held[h][k])
                     /\ Deleted(h, k)
  /\ pc' = [pc EXCEPT ![h] = "revoke"]
  /\ UNCHANGED <<todo, cur, held, done, elapsed, granted>>

\* Revoke(lease), then the next key of the slice, or the return.
ReleaseRevoke(h) ==
  /\ pc[h] = "revoke"
  /\ \E k \in Keys :
       /\ LastHeld(h, k)
       /\ Revoked(h, held[h][k])
       /\ IF \A j \in Keys \ {k} : held[h][j] = NoLease
          THEN Return(h)
          ELSE /\ held' = [held EXCEPT ![h][k] = NoLease]
               /\ pc' = [pc EXCEPT ![h] = "delete"]
               /\ UNCHANGED <<todo, cur, done, elapsed>>
  /\ UNCHANGED kept

-----------------------------------------------------------------------------
\* The context, the process and the server.

\* The context of h is cancelled (shutdown); every keepalive is derived from it.
Cancel(h) ==
  /\ pc[h] # "down" /\ ~done[h]
  /\ done' = [done EXCEPT ![h] = TRUE]
  /\ kept' = [kept EXCEPT ![h] = {}]
  /\ UNCHANGED <<pc, todo, cur, held, elapsed, etcd>>

\* The process ends: a clean exit from SyncEngine.Run, or a crash anywhere.
Stop(h) ==
  /\ pc' = [pc EXCEPT ![h] = "down"]
  /\ todo' = [todo EXCEPT ![h] = {}]
  /\ cur' = [cur EXCEPT ![h] = NoLease]
  /\ held' = [held EXCEPT ![h] = NoneHeld]
  /\ kept' = [kept EXCEPT ![h] = {}]
  /\ done' = [done EXCEPT ![h] = FALSE]
  /\ elapsed' = [elapsed EXCEPT ![h] = 0]
  /\ UNCHANGED etcd

Exit(h) == pc[h] = "idle" /\ done[h] /\ Stop(h)
Crash(h) == pc[h] # "down" /\ Stop(h)

Restart(h) ==
  /\ pc[h] = "down"
  /\ pc' = [pc EXCEPT ![h] = "idle"]
  /\ UNCHANGED <<todo, cur, held, kept, done, elapsed, etcd>>

\* h keeps lease l alive, or has just created its key or is about to delete
\* it, well within the time to live of the lease.
Refreshed(h, l) ==
  \/ l \in kept[h]
  \/ ~done[h] /\ cur[h] = l /\ pc[h] \in {"keepalive", "undoDelete"}

\* A lease nobody refreshes runs out.  One that is refreshed runs out only if
\* the host is cut off from etcd, or paused, for longer than its time to live;
\* its keepalive channel closes and nothing else happens on the host.
Expire(l) ==
  /\ l \in granted
  /\ LeaseLoss \/ \A h \in Hosts : ~Refreshed(h, l)
  /\ granted' = granted \ {l}
  /\ lockKey' = Without(l)
  /\ kept' = [h \in Hosts |-> kept[h] \ {l}]
  /\ UNCHANGED <<pc, todo, cur, held, done, elapsed>>

\* What a host does by itself once it has entered LockTransaction.
Work(h) ==
  \/ Grant(h) \/ GrantFails(h)
  \/ AcquireCancelled(h) \/ Acquire(h) \/ AcquireBusy(h) \/ AcquireFails(h)
  \/ TimeOut(h) \/ GiveUp(h)
  \/ KeepAlive(h) \/ KeepAliveFails(h) \/ UndoDelete(h) \/ UndoRevoke(h)
  \/ FnReturns(h) \/ ReleaseDelete(h) \/ ReleaseRevoke(h)

Next ==
  \/ \E h \in Hosts : \/ Begin(h) \/ Work(h)
                      \/ Cancel(h) \/ Exit(h) \/ Crash(h) \/ Restart(h)
  \/ \E l \in Leases : Expire(l)

Spec == Init /\ [][Next]_vars

\* Every etcd request returns and the caller's function ends, so a host inside
\* LockTransaction goes on; a lease nobody refreshes does run out.
Fairness == /\ \A h \in Hosts : WF_vars(Work(h))
            /\ \A l \in Leases : WF_vars(Expire(l) /\ \A h \in Hosts : ~Refreshed(h, l))

FairSpec == Spec /\ Fairness

-----------------------------------------------------------------------------
\* The locks under which h runs its function.  With a cancelled context the
\* function can no longer reach etcd.
Section(h) == IF pc[h] = "fn" /\ ~done[h]
              THEN {k \in Keys : held[h][k] # NoLease}
              ELSE {}

\* No two hosts run a function under the same lock.
MutualExclusion ==
  \A g, h \in Hosts : g # h => Section(g) \cap Section(h) = {}

\* The same, asked only of hosts whose leases etcd still honours.
LiveSection(h) == {k \in Section(h) : held[h][k] \in granted}
LiveLeaseExclusion ==
  \A g, h \in Hosts : g # h => LiveSection(g) \cap LiveSection(h) = {}

\* A release never deletes a lock key that another host created: the key a
\* host deletes after its function, or when its keepalive fails, is its own.
OwnRelease ==
  [][\A h \in Hosts, k \in Keys :
       /\ pc[h] \in {"delete", "undoDelete"}
       /\ lockKey[k] # NoLease /\ lockKey'[k] = NoLease
       /\ pc'[h] # pc[h]
       => lockKey[k] \in {held[h][k], cur[h]}]_vars

\* LockTransaction comes back: a host that entered it returns to the engine.
TransactionReturns ==
  \A h \in Hosts : pc[h] = "grant" ~> pc[h] \in {"idle", "down"}

\* No failure on any path leaves a lock taken for ever.
LockFreedAgain == \A k \in Keys : []<>(lockKey[k] = NoLease)

\* "finally releases all locks": once LockTransaction has returned, the host
\* keeps no lease alive.
NothingKeptAfterReturn ==
  \A h \in Hosts : pc[h] = "idle" => kept[h] = {}

\* The inductive strengthening of MutualExclusion.

\* A host has a current lease exactly while it works on a key.
CurLease ==
  \A h \in Hosts :
    cur[h] # NoLease <=>
    pc[h] \in {"acquire", "keepalive", "undoDelete", "undoRevoke", "giveUp"}

\* No lease is used twice, by two hosts or for two keys.
Unique ==
  /\ \A g, h \in Hosts, j, k \in Keys :
       held[g][j] # NoLease /\ held[g][j] = held[h][k] => g = h /\ j = k
  /\ \A g, h \in Hosts : cur[g] # NoLease /\ cur[g] = cur[h] => g = h
  /\ \A g, h \in Hosts, k \in Keys : cur[g] # NoLease => cur[g] # held[h][k]

\* A host that has created the lock key and not yet deleted it owns it.
CurKey ==
  \A h \in Hosts, k \in Keys :
    ~done[h] /\ pc[h] \in {"keepalive", "undoDelete"} /\ NextKey(h, k)
    => lockKey[k] = cur[h]

\* A host owns, and keeps alive, every key it holds, until it releases it.
HeldKey ==
  \A h \in Hosts, k \in Keys :
    ~done[h] /\ held[h][k] # NoLease /\ (pc[h] = "revoke" => ~LastHeld(h, k))
    => lockKey[k] = held[h][k] /\ held[h][k] \in kept[h]

LockInv == TypeOK /\ CurLease /\ Unique /\ CurKey /\ HeldKey

\* The abstract lock.
Lock == INSTANCE GlobalLock WITH section <- [h \in Hosts |-> Section(h)]
LockImplemented == Lock!Spec

=============================================================================
