------------------------ MODULE LockTransaction_proofs ------------------------
(***************************************************************************)
(* What TLAPS proves of LockTransaction, for any hosts, keys, requests,    *)
(* leases and timeouts.  Mutual exclusion and the refinement assume that   *)
(* no host loses a lease it keeps alive (LeaseLoss = FALSE); the run       *)
(* lock_lease_loss shows that they need it.                                *)
(***************************************************************************)
EXTENDS LockTransaction, TLAPS

\* The types alone are not inductive: KeepAlive adds cur[h] to the leases kept
\* alive, which is a lease because of CurLease.
TypeInv == TypeOK /\ CurLease

\* At first nothing is held, granted or current.
LEMMA TypeInvInit == Init => TypeInv
  BY LockAssumption DEF Init, TypeInv, TypeOK, CurLease, PC, NoneHeld

\* Every step of a host, of the process and of etcd keeps the types.
LEMMA TypeInvNext == TypeInv /\ [Next]_vars => TypeInv'
<1> SUFFICES ASSUME TypeInv, [Next]_vars PROVE TypeInv'
  OBVIOUS
<1> USE LockAssumption DEF TypeInv, TypeOK, CurLease, PC
<1>1. CASE UNCHANGED vars
  BY <1>1 DEF vars
<1>2. ASSUME NEW h \in Hosts, Begin(h) PROVE TypeInv'
  BY <1>2 DEF Begin, etcd
<1>3. ASSUME NEW h \in Hosts, Work(h) PROVE TypeInv'
  <2> USE DEF Return, NoneHeld, Deleted, Revoked, Without, etcd
  <2>1. CASE Grant(h)  BY <2>1 DEF Grant
  <2>2. CASE GrantFails(h)  BY <2>2 DEF GrantFails
  <2>3. CASE AcquireCancelled(h)  BY <2>3 DEF AcquireCancelled
  <2>4. CASE Acquire(h)  BY <2>4 DEF Acquire
  <2>5. CASE AcquireBusy(h)  BY <2>5 DEF AcquireBusy, Retry
  <2>6. CASE AcquireFails(h)  BY <2>6 DEF AcquireFails
  <2>7. CASE TimeOut(h)  BY <2>7 DEF TimeOut
  <2>8. CASE GiveUp(h)  BY <2>8 DEF GiveUp
  <2>9. CASE KeepAlive(h)  BY <2>9 DEF KeepAlive, StartKeepAlive
  <2>10. CASE KeepAliveFails(h)  BY <2>10 DEF KeepAliveFails
  <2>11. CASE UndoDelete(h)  BY <2>11 DEF UndoDelete
  <2>12. CASE UndoRevoke(h)  BY <2>12 DEF UndoRevoke
  <2>13. CASE FnReturns(h)  BY <2>13 DEF FnReturns
  <2>14. CASE ReleaseDelete(h)  BY <2>14 DEF ReleaseDelete, StopKeepAlive
  <2>15. CASE ReleaseRevoke(h)
    <3>1. PICK k \in Keys :
            /\ Revoked(h, held[h][k])
            /\ IF \A j \in Keys \ {k} : held[h][j] = NoLease
               THEN Return(h)
               ELSE /\ held' = [held EXCEPT ![h][k] = NoLease]
                    /\ pc' = [pc EXCEPT ![h] = "delete"]
                    /\ UNCHANGED <<todo, cur, done, elapsed>>
      BY <2>15 DEF ReleaseRevoke
    <3>2. kept' \in [Hosts -> SUBSET Leases]
      BY <2>15 DEF ReleaseRevoke
    <3>3. lockKey' \in [Keys -> Leases \cup {NoLease}] /\ granted' \in SUBSET Leases
      BY <3>1
    <3>4. CASE Return(h)  BY <2>15, <3>2, <3>3, <3>4 DEF ReleaseRevoke
    <3>5. CASE ~(\A j \in Keys \ {k} : held[h][j] = NoLease)
      <4>1. /\ held' = [held EXCEPT ![h][k] = NoLease]
            /\ pc' = [pc EXCEPT ![h] = "delete"]
            /\ UNCHANGED <<todo, cur, done, elapsed>>
        BY <3>1, <3>5
      <4>2. held' \in [Hosts -> [Keys -> Leases \cup {NoLease}]]
        BY <4>1
      <4>3. pc[h] = "revoke"
        BY <2>15 DEF ReleaseRevoke
      <4> QED  BY <4>1, <4>2, <4>3, <3>2, <3>3
    <3> QED  BY <3>1, <3>4, <3>5
  <2> QED
    BY <1>3, <2>1, <2>2, <2>3, <2>4, <2>5, <2>6, <2>7, <2>8, <2>9, <2>10, <2>11,
       <2>12, <2>13, <2>14, <2>15 DEF Work
<1>4. ASSUME NEW h \in Hosts, Cancel(h) PROVE TypeInv'
  BY <1>4 DEF Cancel, etcd
<1>5. ASSUME NEW h \in Hosts, Stop(h) PROVE TypeInv'
  BY <1>5 DEF Stop, NoneHeld, etcd
<1>6. ASSUME NEW h \in Hosts, Restart(h) PROVE TypeInv'
  BY <1>6 DEF Restart, etcd
<1>7. ASSUME NEW l \in Leases, Expire(l) PROVE TypeInv'
  BY <1>7 DEF Expire, Without
<1> QED
  BY <1>1, <1>2, <1>3, <1>4, <1>5, <1>6, <1>7 DEF Next, Exit, Crash

\* The variables keep their types, whatever is lost or crashes.
THEOREM TypeCorrect == Spec => []TypeOK
<1>1. TypeInv => TypeOK
  BY DEF TypeInv
<1> QED
  BY TypeInvInit, TypeInvNext, <1>1, PTL DEF Spec

-----------------------------------------------------------------------------
\* Apart from Grant, which takes a fresh lease, and KeepAlive, which moves the
\* current lease to the held ones, a step only drops leases.
Dropping ==
  \A h \in Hosts : /\ cur'[h] \in {cur[h], NoLease}
                   /\ \A k \in Keys : held'[h][k] \in {held[h][k], NoLease}

\* No return or release makes two keys share a lease.
LEMMA DroppingKeepsUnique == Unique /\ Dropping => Unique'
  BY DEF Unique, Dropping

\* Grant takes a lease nobody uses and KeepAlive moves it from the current key
\* to the held ones, so that no lease is ever used twice.
LEMMA UniqueNext == TypeInv /\ Unique /\ [Next]_vars => Unique'
<1> SUFFICES ASSUME TypeInv, Unique, [Next]_vars PROVE Unique'
  OBVIOUS
<1> USE LockAssumption DEF TypeInv, TypeOK
<1>1. CASE UNCHANGED vars
  BY <1>1 DEF vars, Unique
<1>2. ASSUME NEW h \in Hosts, Begin(h) PROVE Unique'
  BY <1>2 DEF Begin, Unique
<1>3. ASSUME NEW h \in Hosts, Work(h) PROVE Unique'
  <2>1. CASE Grant(h)
    <3>1. PICK l \in Leases : Fresh(l) /\ cur' = [cur EXCEPT ![h] = l]
      BY <2>1 DEF Grant
    <3>2. held' = held
      BY <2>1 DEF Grant
    <3> QED  BY <3>1, <3>2 DEF Unique, Fresh
  <2>2. CASE KeepAlive(h)
    <3>1. PICK k \in Keys : held' = [held EXCEPT ![h][k] = cur[h]]
      BY <2>2 DEF KeepAlive
    <3>2. cur' = [cur EXCEPT ![h] = NoLease]
      BY <2>2 DEF KeepAlive
    <3>3. cur[h] # NoLease
      BY <2>2 DEF KeepAlive, CurLease
    <3>4. \A g \in Hosts, j \in Keys :
            held'[g][j] = IF g = h /\ j = k THEN cur[h] ELSE held[g][j]
      BY <3>1
    <3>5. \A g \in Hosts : cur'[g] = IF g = h THEN NoLease ELSE cur[g]
      BY <3>2
    <3> QED  BY <3>3, <3>4, <3>5 DEF Unique
  <2>3. CASE ~Grant(h) /\ ~KeepAlive(h)
    <3>1. CASE Return(h)
      BY <3>1, DroppingKeepsUnique DEF Return, NoneHeld, Dropping
    <3>2. CASE ReleaseRevoke(h)
      <4>1. CASE UNCHANGED cur /\ \E k \in Keys : held' = [held EXCEPT ![h][k] = NoLease]
        BY <4>1, DroppingKeepsUnique DEF Dropping
      <4> QED  BY <3>1, <3>2, <4>1 DEF ReleaseRevoke
    <3>3. CASE UNCHANGED <<cur, held>>
      BY <3>3 DEF Unique
    <3> QED
      BY <1>3, <2>3, <3>1, <3>2, <3>3
      DEF Work, GrantFails, AcquireCancelled, Acquire, AcquireBusy, AcquireFails, TimeOut,
          GiveUp, KeepAliveFails, UndoDelete, UndoRevoke, FnReturns, ReleaseDelete
  <2> QED  BY <2>1, <2>2, <2>3
<1>4. ASSUME NEW h \in Hosts, Cancel(h) PROVE Unique'
  BY <1>4 DEF Cancel, Unique
<1>5. ASSUME NEW h \in Hosts, Stop(h) PROVE Unique'
  BY <1>5, DroppingKeepsUnique DEF Stop, NoneHeld, Dropping
<1>6. ASSUME NEW h \in Hosts, Restart(h) PROVE Unique'
  BY <1>6 DEF Restart, Unique
<1>7. ASSUME NEW l \in Leases, Expire(l) PROVE Unique'
  BY <1>7 DEF Expire, Unique
<1> QED
  BY <1>1, <1>2, <1>3, <1>4, <1>5, <1>6, <1>7 DEF Next, Exit, Crash
-----------------------------------------------------------------------------
\* CurKey and HeldKey, for one host and one key.
OwnsCur(h, k) ==
  ~done[h] /\ pc[h] \in {"keepalive", "undoDelete"} /\ NextKey(h, k)
  => lockKey[k] = cur[h]
OwnsHeld(h, k) ==
  ~done[h] /\ held[h][k] # NoLease /\ (pc[h] = "revoke" => ~LastHeld(h, k))
  => lockKey[k] = held[h][k] /\ held[h][k] \in kept[h]

Owned == \A h \in Hosts, k \in Keys : OwnsCur(h, k) /\ OwnsHeld(h, k)

\* Owned is CurKey and HeldKey, put for one host and one key at a time.
LEMMA OwnedIsInv == Owned <=> CurKey /\ HeldKey
  BY DEF Owned, OwnsCur, OwnsHeld, CurKey, HeldKey

\* The variables of host g, except the clock of its acquire loop.
Untouched(g) ==
  /\ pc'[g] = pc[g] /\ todo'[g] = todo[g] /\ cur'[g] = cur[g]
  /\ held'[g] = held[g] /\ kept'[g] = kept[g] /\ done'[g] = done[g]

\* The step changes only lock keys that exist under lease l, or, when l is
\* NoLease, only lock keys that do not exist.
OnlyKeysOf(l) == \A k \in Keys : lockKey'[k] = lockKey[k] \/ lockKey[k] = l

\* A step on the keys of a lease does not disturb a host that does not use it.
LEMMA OthersKeep ==
  ASSUME TypeInv, Owned, NEW g \in Hosts, NEW l, Untouched(g), OnlyKeysOf(l),
         cur[g] # NoLease => cur[g] # l,
         \A k \in Keys : held[g][k] # NoLease => held[g][k] # l
  PROVE  \A k \in Keys : OwnsCur(g, k)' /\ OwnsHeld(g, k)'
<1> SUFFICES ASSUME NEW k \in Keys PROVE OwnsCur(g, k)' /\ OwnsHeld(g, k)'
  OBVIOUS
<1>1. NextKey(g, k)' <=> NextKey(g, k)
  BY DEF NextKey, Untouched
<1>2. LastHeld(g, k)' <=> LastHeld(g, k)
  BY DEF LastHeld, Untouched
<1>3. OwnsCur(g, k) /\ OwnsHeld(g, k)
  BY DEF Owned
<1>4. OwnsCur(g, k)'
  <2>1. pc[g] \in {"keepalive", "undoDelete"} => cur[g] # NoLease
    BY DEF TypeInv, CurLease
  <2> QED  BY <1>1, <1>3, <2>1 DEF OwnsCur, Untouched, OnlyKeysOf
<1>5. OwnsHeld(g, k)'
  BY <1>2, <1>3 DEF OwnsHeld, Untouched, OnlyKeysOf
<1> QED  BY <1>4, <1>5

\* A step of host h changes nothing of the others.
LEMMA OthersUntouched ==
  ASSUME TypeInv, NEW h \in Hosts, NEW g \in Hosts \ {h},
         Begin(h) \/ Work(h) \/ Cancel(h) \/ Stop(h) \/ Restart(h)
  PROVE  Untouched(g)
<1> USE DEF TypeInv, TypeOK, Untouched, Return
<1>1. CASE Begin(h) \/ Cancel(h) \/ Stop(h) \/ Restart(h)
  BY <1>1 DEF Begin, Cancel, Stop, Restart
<1>2. CASE Grant(h) \/ GrantFails(h) \/ AcquireCancelled(h) \/ Acquire(h)
           \/ AcquireBusy(h) \/ AcquireFails(h) \/ TimeOut(h) \/ GiveUp(h)
  BY <1>2 DEF Grant, GrantFails, AcquireCancelled, Acquire, AcquireBusy, AcquireFails,
              TimeOut, GiveUp
<1>3. CASE KeepAlive(h) \/ KeepAliveFails(h) \/ UndoDelete(h) \/ UndoRevoke(h)
           \/ FnReturns(h)
  BY <1>3 DEF KeepAlive, StartKeepAlive, KeepAliveFails, UndoDelete, UndoRevoke, FnReturns
<1>4. CASE ReleaseDelete(h) \/ ReleaseRevoke(h)
  BY <1>4 DEF ReleaseDelete, StopKeepAlive, ReleaseRevoke
<1> QED  BY <1>1, <1>2, <1>3, <1>4 DEF Work
\* The lock keys a step of LockTransaction changes on host h are free ones or
\* keys of one of h's own leases.  This is where the release, which deletes
\* without comparing, depends on Owned.
LEMMA OwnKeysOnly ==
  ASSUME TypeInv, Owned, NEW h \in Hosts, Work(h)
  PROVE  \E l : /\ OnlyKeysOf(l)
                /\ l = NoLease \/ l = cur[h] \/ \E k \in Keys : l = held[h][k]
<1> USE DEF TypeInv, TypeOK, OnlyKeysOf
<1>1. CASE UNCHANGED lockKey
  BY <1>1
<1>2. CASE Acquire(h) \/ AcquireFails(h)
  BY <1>2 DEF Acquire, AcquireFails, KeyFree
<1>3. CASE GiveUp(h) \/ UndoRevoke(h)
  BY <1>3 DEF GiveUp, UndoRevoke, Revoked, Without, etcd
<1>4. CASE UndoDelete(h)
  <2>1. PICK k \in Keys : NextKey(h, k) /\ Deleted(h, k)
    BY <1>4 DEF UndoDelete
  <2>2. pc[h] = "undoDelete" /\ OwnsCur(h, k)
    BY <1>4 DEF UndoDelete, Owned
  <2> QED  BY <2>1, <2>2 DEF OwnsCur, Deleted
<1>5. CASE ReleaseDelete(h)
  <2>1. PICK k \in Keys : LastHeld(h, k) /\ Deleted(h, k)
    BY <1>5 DEF ReleaseDelete
  <2>2. pc[h] = "delete" /\ OwnsHeld(h, k)
    BY <1>5 DEF ReleaseDelete, Owned
  <2> QED  BY <2>1, <2>2 DEF OwnsHeld, LastHeld, Deleted
<1>6. CASE ReleaseRevoke(h)
  <2>1. PICK k \in Keys : Revoked(h, held[h][k])
    BY <1>6 DEF ReleaseRevoke
  <2> QED  BY <2>1 DEF Revoked, Without, etcd
<1> QED
  BY <1>1, <1>2, <1>3, <1>4, <1>5, <1>6
  DEF Work, Grant, GrantFails, AcquireCancelled, AcquireBusy, TimeOut, KeepAlive,
      KeepAliveFails, FnReturns, etcd

\* The host that takes the step keeps the keys it has, and owns those it takes.
LEMMA ActorKeeps ==
  ASSUME TypeInv, Unique, Owned, NEW h \in Hosts, Work(h)
  PROVE  \A k \in Keys : OwnsCur(h, k)' /\ OwnsHeld(h, k)'
<1> USE LockAssumption DEF TypeInv, TypeOK
<1>1. CASE Return(h)
  BY <1>1 DEF Return, NoneHeld, OwnsCur, OwnsHeld
<1>2. CASE Grant(h)
  BY <1>2 DEF Grant, Owned, OwnsCur, OwnsHeld
<1>3. CASE Acquire(h)
  <2>1. PICK k \in Keys : NextKey(h, k) /\ KeyFree(k) /\ lockKey' = [lockKey EXCEPT ![k] = cur[h]]
    BY <1>3 DEF Acquire
  <2>2. /\ UNCHANGED <<todo, cur, held, kept, done>>
        /\ pc[h] = "acquire" /\ pc'[h] = "keepalive"
    BY <1>3 DEF Acquire
  <2>3. \A j \in Keys : NextKey(h, j)' => j = k
    BY <2>1, <2>2 DEF NextKey
  <2>4. \A j \in Keys : OwnsCur(h, j)'
    BY <2>1, <2>2, <2>3 DEF OwnsCur
  <2>5. \A j \in Keys : OwnsHeld(h, j)'
    BY <2>1, <2>2 DEF Owned, OwnsHeld, KeyFree
  <2> QED  BY <2>4, <2>5
<1>4. CASE AcquireBusy(h) \/ TimeOut(h) \/ FnReturns(h)
  BY <1>4 DEF AcquireBusy, TimeOut, FnReturns, Owned, OwnsCur, OwnsHeld, NextKey, etcd
<1>5. CASE KeepAlive(h)
  <2>1. PICK k \in Keys : /\ NextKey(h, k)
                          /\ held' = [held EXCEPT ![h][k] = cur[h]]
                          /\ pc' = [pc EXCEPT ![h] = IF todo[h] = {k} THEN "fn" ELSE "grant"]
    BY <1>5 DEF KeepAlive
  <2>2. /\ pc[h] = "keepalive" /\ ~done[h] /\ UNCHANGED <<done, lockKey>>
        /\ kept'[h] = kept[h] \cup {cur[h]}
    BY <1>5 DEF KeepAlive, StartKeepAlive, etcd
  <2>3. lockKey[k] = cur[h]
    BY <2>1, <2>2 DEF Owned, OwnsCur
  <2>4. \A j \in Keys : held'[h][j] = IF j = k THEN cur[h] ELSE held[h][j]
    BY <2>1
  <2>5. pc'[h] \in {"fn", "grant"}
    BY <2>1
  <2> QED  BY <2>2, <2>3, <2>4, <2>5 DEF Owned, OwnsCur, OwnsHeld
<1>6. CASE KeepAliveFails(h)
  BY <1>6 DEF KeepAliveFails, Owned, OwnsCur, OwnsHeld, NextKey, etcd
<1>7. CASE UndoDelete(h)
  <2>1. PICK k \in Keys : NextKey(h, k) /\ Deleted(h, k)
    BY <1>7 DEF UndoDelete
  <2>2. pc[h] = "undoDelete" /\ pc'[h] = "undoRevoke" /\ UNCHANGED <<held, kept, done>>
    BY <1>7 DEF UndoDelete
  <2>3. ~done[h] => lockKey[k] = cur[h] /\ cur[h] # NoLease
    BY <2>1, <2>2 DEF Owned, OwnsCur, CurLease
  <2> QED  BY <2>1, <2>2, <2>3 DEF Deleted, Owned, OwnsCur, OwnsHeld, Unique
<1>8. CASE GiveUp(h) \/ UndoRevoke(h)
  BY <1>1, <1>8 DEF GiveUp, UndoRevoke
<1>9. CASE ReleaseDelete(h)
  <2>1. PICK k \in Keys : LastHeld(h, k) /\ kept' = StopKeepAlive(h, held[h][k]) /\ Deleted(h, k)
    BY <1>9 DEF ReleaseDelete
  <2>2. pc[h] = "delete" /\ pc'[h] = "revoke" /\ UNCHANGED <<held, done>>
    BY <1>9 DEF ReleaseDelete
  <2>3. LastHeld(h, k)'
    BY <2>1, <2>2 DEF LastHeld
  <2>4. \A j \in Keys \ {k} : held[h][j] # NoLease => held[h][j] # held[h][k]
    BY DEF Unique
  <2>5. \A j \in Keys \ {k} : lockKey'[j] = lockKey[j]
    BY <2>1 DEF Deleted
  <2>6. kept'[h] = kept[h] \ {held[h][k]}
    BY <2>1 DEF StopKeepAlive
  <2> QED  BY <2>2, <2>3, <2>4, <2>5, <2>6 DEF Owned, OwnsCur, OwnsHeld
<1>10. CASE ReleaseRevoke(h) /\ ~Return(h)
  <2>1. PICK k \in Keys : /\ LastHeld(h, k) /\ Revoked(h, held[h][k])
                          /\ held' = [held EXCEPT ![h][k] = NoLease]
    BY <1>10 DEF ReleaseRevoke
  <2>2. pc[h] = "revoke" /\ pc'[h] = "delete" /\ UNCHANGED <<kept, done>>
    BY <1>10 DEF ReleaseRevoke
  <2>3. \A j \in Keys : held'[h][j] = IF j = k THEN NoLease ELSE held[h][j]
    BY <2>1
  <2>4. \A j \in Keys \ {k} : held[h][j] # NoLease => ~LastHeld(h, j) /\ held[h][j] # held[h][k]
    BY <2>1 DEF LastHeld, Unique
  <2>5. \A j \in Keys : lockKey[j] # held[h][k] => lockKey'[j] = lockKey[j]
    BY <2>1 DEF Revoked, Without, etcd
  <2> QED  BY <2>2, <2>3, <2>4, <2>5 DEF Owned, OwnsCur, OwnsHeld
<1> QED
  BY <1>1, <1>2, <1>3, <1>4, <1>5, <1>6, <1>7, <1>8, <1>9, <1>10
  DEF Work, GrantFails, AcquireCancelled, AcquireFails

\* Every step keeps what every host owns: its lock keys exist under its leases.
LEMMA OwnedNext ==
  ASSUME LeaseLoss = FALSE
  PROVE  TypeInv /\ Unique /\ Owned /\ [Next]_vars => Owned'
<1> SUFFICES ASSUME TypeInv, Unique, Owned, [Next]_vars PROVE Owned'
  OBVIOUS
<1>1. CASE UNCHANGED vars
  BY <1>1 DEF vars, Owned, OwnsCur, OwnsHeld, NextKey, LastHeld
<1>2. ASSUME NEW h \in Hosts, Work(h) PROVE Owned'
  <2>1. PICK l : /\ OnlyKeysOf(l)
                 /\ l = NoLease \/ l = cur[h] \/ \E k \in Keys : l = held[h][k]
    BY <1>2, OwnKeysOnly
  <2>2. ASSUME NEW g \in Hosts \ {h} PROVE \A k \in Keys : OwnsCur(g, k)' /\ OwnsHeld(g, k)'
    <3>1. Untouched(g)
      BY <1>2, OthersUntouched
    <3>2. cur[g] # NoLease => cur[g] # l
      BY <2>1 DEF Unique
    <3>3. \A k \in Keys : held[g][k] # NoLease => held[g][k] # l
      BY <2>1 DEF Unique
    <3> QED  BY <2>1, <3>1, <3>2, <3>3, OthersKeep
  <2> QED  BY <1>2, <2>2, ActorKeeps DEF Owned
<1>3. ASSUME NEW h \in Hosts, Begin(h) \/ Cancel(h) \/ Stop(h) \/ Restart(h) PROVE Owned'
  <2>1. OnlyKeysOf(NoLease)
    BY <1>3 DEF Begin, Cancel, Stop, Restart, OnlyKeysOf, etcd
  <2>2. ASSUME NEW g \in Hosts \ {h} PROVE \A k \in Keys : OwnsCur(g, k)' /\ OwnsHeld(g, k)'
    BY <1>3, <2>1, OthersUntouched, OthersKeep
  <2>3. \A k \in Keys : OwnsCur(h, k)' /\ OwnsHeld(h, k)'
    BY <1>3 DEF Begin, Cancel, Stop, Restart, NoneHeld, Owned, OwnsCur, OwnsHeld,
                TypeInv, TypeOK, etcd
  <2> QED  BY <2>2, <2>3 DEF Owned
<1>4. ASSUME NEW l \in Leases, Expire(l) PROVE Owned'
  <2>1. \A h \in Hosts : ~Refreshed(h, l)
    BY <1>4 DEF Expire
  <2>2. ASSUME NEW h \in Hosts, NEW k \in Keys PROVE OwnsCur(h, k)' /\ OwnsHeld(h, k)'
    <3>1. /\ UNCHANGED <<pc, todo, cur, held, done>> /\ kept'[h] = kept[h] \ {l}
          /\ lockKey[k] # l => lockKey'[k] = lockKey[k]
      BY <1>4 DEF Expire, Without, TypeInv, TypeOK
    <3>2. (NextKey(h, k)' <=> NextKey(h, k)) /\ (LastHeld(h, k)' <=> LastHeld(h, k))
      BY <3>1 DEF NextKey, LastHeld
    <3>3. OwnsCur(h, k) /\ OwnsHeld(h, k) /\ ~Refreshed(h, l)
      BY <2>1 DEF Owned
    <3> QED  BY <3>1, <3>2, <3>3 DEF OwnsCur, OwnsHeld, Refreshed
  <2> QED  BY <2>2 DEF Owned
<1> QED
  BY <1>1, <1>2, <1>3, <1>4 DEF Next, Exit, Crash

\* The invariant behind mutual exclusion: while leases that are kept alive do
\* not run out, a host owns every lock key it believes to hold.
THEOREM LockInvariant ==
  ASSUME LeaseLoss = FALSE
  PROVE  Spec => []LockInv
<1>1. Init => TypeInv /\ Unique /\ Owned
  BY TypeInvInit DEF Init, Unique, Owned, OwnsCur, OwnsHeld, NoneHeld
<1>2. TypeInv /\ Unique /\ Owned /\ [Next]_vars => (TypeInv /\ Unique /\ Owned)'
  BY TypeInvNext, UniqueNext, OwnedNext
<1>3. TypeInv /\ Unique /\ Owned => LockInv
  BY OwnedIsInv DEF TypeInv, LockInv
<1> QED
  BY <1>1, <1>2, <1>3, PTL DEF Spec

\* Two functions under one lock key would need one lease, held by two hosts.
LEMMA InvExcludes == LockInv => MutualExclusion
<1> SUFFICES ASSUME LockInv, NEW g \in Hosts, NEW h \in Hosts, g # h,
                    NEW k \in Section(g) \cap Section(h)
             PROVE  FALSE
  BY DEF MutualExclusion
<1>1. /\ pc[g] = "fn" /\ ~done[g] /\ k \in Keys /\ held[g][k] # NoLease
      /\ pc[h] = "fn" /\ ~done[h] /\ held[h][k] # NoLease
  BY DEF Section
<1>2. lockKey[k] = held[g][k] /\ lockKey[k] = held[h][k]
  BY <1>1 DEF LockInv, HeldKey
<1> QED
  BY <1>1, <1>2 DEF LockInv, Unique

\* Reconcile passes of two hosts under one lock never overlap.
THEOREM LockExclusion ==
  ASSUME LeaseLoss = FALSE
  PROVE  Spec => []MutualExclusion
BY LockInvariant, InvExcludes, PTL

\* The unconditional Delete of a release only ever hits the host's own key.
THEOREM ReleaseIsOwn ==
  ASSUME LeaseLoss = FALSE
  PROVE  Spec => OwnRelease
<1> DEFINE Own(h, k) == /\ pc[h] \in {"delete", "undoDelete"}
                        /\ lockKey[k] # NoLease /\ lockKey'[k] = NoLease
                        /\ pc'[h] # pc[h]
                        => lockKey[k] \in {held[h][k], cur[h]}
<1>1. ASSUME LockInv, [Next]_vars, NEW h \in Hosts, NEW k \in Keys PROVE Own(h, k)
  <2> SUFFICES ASSUME pc[h] \in {"delete", "undoDelete"}, lockKey[k] # NoLease,
                      lockKey'[k] = NoLease, pc'[h] # pc[h]
               PROVE  lockKey[k] \in {held[h][k], cur[h]}
    OBVIOUS
  <2>1. TypeInv /\ Owned
    BY <1>1, OwnedIsInv DEF LockInv, TypeInv
  <2>2. ASSUME NEW g \in Hosts,
               Begin(g) \/ Work(g) \/ Cancel(g) \/ Stop(g) \/ Restart(g)
        PROVE  g = h
    BY <2>1, <2>2, OthersUntouched DEF Untouched
  <2>3. ReleaseDelete(h) \/ UndoDelete(h)
    <3>1. ~ UNCHANGED vars /\ \A l \in Leases : ~ Expire(l)
      BY DEF vars, Expire
    <3>2. ~ Begin(h) /\ ~ Cancel(h) /\ ~ Stop(h) /\ ~ Restart(h)
      BY DEF Begin, Cancel, Stop, Restart, etcd
    <3>3. Work(h)
      BY <1>1, <2>2, <3>1, <3>2 DEF Next, Exit, Crash
    <3> QED
      BY <3>3 DEF Work, Grant, GrantFails, AcquireCancelled, Acquire, AcquireBusy,
         AcquireFails, TimeOut, GiveUp, KeepAlive, KeepAliveFails, UndoRevoke, FnReturns,
         ReleaseRevoke
  <2>4. CASE ReleaseDelete(h)
    <3>1. PICK j \in Keys : LastHeld(h, j) /\ Deleted(h, j)
      BY <2>4 DEF ReleaseDelete
    <3>2. pc[h] = "delete"
      BY <2>4 DEF ReleaseDelete
    <3>3. j = k /\ ~done[h]
      BY <3>1, <2>1 DEF Deleted, TypeInv, TypeOK
    <3>4. OwnsHeld(h, k)
      BY <2>1 DEF Owned
    <3> QED  BY <3>1, <3>2, <3>3, <3>4 DEF OwnsHeld, LastHeld
  <2>5. CASE UndoDelete(h)
    <3>1. PICK j \in Keys : NextKey(h, j) /\ Deleted(h, j)
      BY <2>5 DEF UndoDelete
    <3>2. pc[h] = "undoDelete"
      BY <2>5 DEF UndoDelete
    <3>3. j = k /\ ~done[h]
      BY <3>1, <2>1 DEF Deleted, TypeInv, TypeOK
    <3>4. OwnsCur(h, k)
      BY <2>1 DEF Owned
    <3> QED  BY <3>1, <3>2, <3>3, <3>4 DEF OwnsCur
  <2> QED  BY <2>3, <2>4, <2>5
<1>2. LockInv /\ [Next]_vars => [\A h \in Hosts, k \in Keys : Own(h, k)]_vars
  BY <1>1
<1> QED
  BY <1>2, LockInvariant, PTL DEF Spec, OwnRelease

-----------------------------------------------------------------------------
\* LockTransaction implements the abstract lock: a function starts under all
\* the keys the host holds, when none of them is another host's, and ends.
THEOREM LockRefinement ==
  ASSUME LeaseLoss = FALSE
  PROVE  Spec => LockImplemented
<1> DEFINE abs == [h \in Hosts |-> Section(h)]
<1>1. Init => Lock!Init
  BY DEF Init, Lock!Init, Section
<1>2. LockInv /\ MutualExclusion' /\ [Next]_vars => [Lock!Next]_abs
  <2> SUFFICES ASSUME LockInv, MutualExclusion', [Next]_vars PROVE [Lock!Next]_abs
    OBVIOUS
  <2>1. TypeInv
    BY DEF LockInv, TypeInv
  <2>2. \A h \in Hosts : Section(h) \subseteq Keys
    BY DEF Section
  <2>3. CASE UNCHANGED vars
    BY <2>3 DEF vars, Section
  <2>4. ASSUME NEW h \in Hosts, Begin(h) \/ Work(h) \/ Cancel(h) \/ Stop(h) \/ Restart(h)
        PROVE  [Lock!Next]_abs
    <3>1. \A g \in Hosts \ {h} : Section(g)' = Section(g)
      BY <2>1, <2>4, OthersUntouched DEF Untouched, Section
    <3>2. abs' = [abs EXCEPT ![h] = Section(h)']
      BY <3>1
    <3>3. CASE Section(h)' = Section(h)
      BY <3>1, <3>3
    <3>4. CASE Section(h)' # Section(h) /\ Section(h)' = {}
      <4>1. Lock!Leave(h)
        BY <3>2, <3>4 DEF Lock!Leave
      <4> QED  BY <4>1 DEF Lock!Next
    <3>5. CASE Section(h)' # Section(h) /\ Section(h)' # {}
      <4>1. pc'[h] = "fn" /\ ~done'[h] /\ pc[h] # "fn"
        <5>1. pc'[h] = "fn" /\ ~done'[h]
          BY <3>5 DEF Section
        <5>2. ~ (pc[h] = "fn" /\ Work(h))
          BY <5>1, <2>1 DEF Work, Grant, GrantFails, AcquireCancelled, Acquire, AcquireBusy,
             AcquireFails, TimeOut, GiveUp, KeepAlive, KeepAliveFails, UndoDelete, UndoRevoke,
             FnReturns, ReleaseDelete, ReleaseRevoke, TypeInv, TypeOK
        <5>3. ~ Stop(h) /\ ~ Cancel(h)
          BY <5>1, <2>1 DEF Stop, Cancel, TypeInv, TypeOK
        <5>4. ~ (pc[h] = "fn" /\ (Begin(h) \/ Restart(h)))
          BY DEF Begin, Restart
        <5> QED  BY <2>4, <5>1, <5>2, <5>3, <5>4
      <4>2. Section(h) = {}
        BY <4>1 DEF Section
      <4>3. \A g \in Hosts \ {h} : Section(g) \cap Section(h)' = {}
        BY <3>1 DEF MutualExclusion
      <4>4. Section(h)' \in SUBSET Keys
        BY DEF Section
      <4>5. Lock!Enter(h, Section(h)')
        BY <3>2, <3>5, <4>2, <4>3 DEF Lock!Enter
      <4> QED  BY <4>4, <4>5 DEF Lock!Next
    <3> QED  BY <3>3, <3>4, <3>5
  <2>5. ASSUME NEW l \in Leases, Expire(l) PROVE [Lock!Next]_abs
    BY <2>5 DEF Expire, Section
  <2> QED
    BY <2>3, <2>4, <2>5 DEF Next, Exit, Crash
<1> QED
  BY <1>1, <1>2, LockInvariant, LockExclusion, PTL DEF Spec, LockImplemented, Lock!Spec

-----------------------------------------------------------------------------
\* The caller asks for one key, as the engine does ("__global__").
SingleKey == \A K \in Requests : \E k \in Keys : K = {k}

\* With one key, a lease is kept alive only from the start of the function to
\* the release; whether leases may be lost does not matter.
KeptBy(h) ==
  /\ todo[h] = {} \/ \E k \in Keys : todo[h] = {k}
  /\ pc[h] \notin {"fn", "delete", "revoke"} => kept[h] = {} /\ held[h] = NoneHeld
  /\ pc[h] \in {"fn", "delete"} =>
       \E k \in Keys : /\ held[h][k] # NoLease /\ kept[h] \subseteq {held[h][k]}
                      /\ \A j \in Keys \ {k} : held[h][j] = NoLease
  /\ pc[h] = "revoke" =>
       kept[h] = {} /\ \E k \in Keys : \A j \in Keys \ {k} : held[h][j] = NoLease

\* Asked for one key, LockTransaction stops its keepalive on every way out.
LEMMA KeptNext ==
  ASSUME SingleKey
  PROVE  TypeInv /\ (\A h \in Hosts : KeptBy(h)) /\ [Next]_vars => (\A h \in Hosts : KeptBy(h)')
<1> SUFFICES ASSUME TypeInv, \A h \in Hosts : KeptBy(h), [Next]_vars
             PROVE  \A h \in Hosts : KeptBy(h)'
  OBVIOUS
<1> USE DEF TypeInv, TypeOK
<1>1. CASE UNCHANGED vars
  <2> SUFFICES ASSUME NEW h \in Hosts PROVE KeptBy(h)'
    OBVIOUS
  <2>1. KeptBy(h)
    OBVIOUS
  <2> QED  BY <1>1, <2>1 DEF vars, KeptBy
<1>2. ASSUME NEW h \in Hosts, Begin(h) \/ Work(h) \/ Cancel(h) \/ Stop(h) \/ Restart(h)
      PROVE  \A g \in Hosts : KeptBy(g)'
  <2>1. ASSUME NEW g \in Hosts \ {h} PROVE KeptBy(g)'
    <3>1. KeptBy(g) /\ Untouched(g)
      BY <1>2, OthersUntouched
    <3> QED  BY <3>1 DEF Untouched, KeptBy
  <2>2. KeptBy(h)'
    <3>0. KeptBy(h)
      OBVIOUS
    <3>1. CASE Begin(h)
      BY <3>0, <3>1, LockAssumption DEF Begin, KeptBy, SingleKey
    <3>2. CASE Stop(h)
      BY <3>2 DEF Stop, KeptBy, NoneHeld
    <3>3. CASE Cancel(h) \/ Restart(h)
      BY <3>0, <3>3 DEF Cancel, Restart, KeptBy
    <3>4. CASE Return(h) /\ UNCHANGED kept /\ kept[h] = {}
      BY <3>4 DEF Return, KeptBy, NoneHeld
    <3>5. CASE KeepAlive(h)
      <4>1. PICK k \in Keys :
              /\ NextKey(h, k) /\ held' = [held EXCEPT ![h][k] = cur[h]]
              /\ todo' = [todo EXCEPT ![h] = @ \ {k}]
              /\ pc' = [pc EXCEPT ![h] = IF todo[h] = {k} THEN "fn" ELSE "grant"]
        BY <3>5 DEF KeepAlive
      <4>2. todo[h] = {k}
        BY <3>0, <4>1 DEF KeptBy, NextKey
      <4>3. pc'[h] = "fn" /\ todo'[h] = {}
        BY <4>1, <4>2
      <4>4. cur[h] # NoLease /\ kept[h] = {} /\ held[h] = NoneHeld
        BY <3>0, <3>5 DEF KeepAlive, CurLease, KeptBy
      <4>5. kept'[h] = {cur[h]}
        BY <3>5, <4>4 DEF KeepAlive, StartKeepAlive
      <4>6. held'[h][k] = cur[h] /\ \A j \in Keys \ {k} : held'[h][j] = NoLease
        BY <4>1, <4>4 DEF NoneHeld
      <4> QED  BY <4>3, <4>4, <4>5, <4>6 DEF KeptBy
    <3>6. CASE ReleaseDelete(h)
      <4>1. PICK k \in Keys : LastHeld(h, k) /\ kept' = StopKeepAlive(h, held[h][k])
        BY <3>6 DEF ReleaseDelete
      <4>2. pc[h] = "delete" /\ pc'[h] = "revoke" /\ UNCHANGED <<todo, held>>
        BY <3>6 DEF ReleaseDelete
      <4>3. kept'[h] = {} /\ \A j \in Keys \ {k} : held[h][j] = NoLease
        BY <3>0, <4>1, <4>2 DEF KeptBy, LastHeld, StopKeepAlive
      <4> QED  BY <3>0, <4>2, <4>3 DEF KeptBy
    <3>7. CASE ReleaseRevoke(h)
      <4>1. pc[h] = "revoke" /\ UNCHANGED kept
        BY <3>7 DEF ReleaseRevoke
      <4>2. kept[h] = {}
        BY <3>0, <4>1 DEF KeptBy
      <4>3. PICK k \in Keys : LastHeld(h, k)
                             /\ ((\A j \in Keys \ {k} : held[h][j] = NoLease) => Return(h))
        BY <3>7 DEF ReleaseRevoke
      <4>4. Return(h)
        BY <3>0, <4>1, <4>3 DEF KeptBy, LastHeld
      <4> QED  BY <3>4, <4>1, <4>2, <4>4
    <3>8. CASE Grant(h) \/ Acquire(h) \/ AcquireBusy(h) \/ TimeOut(h) \/ KeepAliveFails(h)
               \/ UndoDelete(h) \/ FnReturns(h)
      BY <3>0, <3>8 DEF Grant, Acquire, AcquireBusy, TimeOut, KeepAliveFails, UndoDelete,
                        FnReturns, KeptBy
    <3>9. CASE GrantFails(h) \/ AcquireCancelled(h) \/ AcquireFails(h) \/ GiveUp(h)
               \/ UndoRevoke(h)
      BY <3>0, <3>4, <3>9 DEF GrantFails, AcquireCancelled, AcquireFails, GiveUp, UndoRevoke,
                              KeptBy
    <3> QED  BY <1>2, <3>1, <3>2, <3>3, <3>5, <3>6, <3>7, <3>8, <3>9 DEF Work
  <2> QED  BY <2>1, <2>2
<1>3. ASSUME NEW l \in Leases, Expire(l) PROVE \A h \in Hosts : KeptBy(h)'
  <2> SUFFICES ASSUME NEW h \in Hosts PROVE KeptBy(h)'
    OBVIOUS
  <2>1. KeptBy(h) /\ kept'[h] \subseteq kept[h] /\ UNCHANGED <<pc, todo, held>>
    BY <1>3 DEF Expire
  <2> QED  BY <2>1 DEF KeptBy
<1> QED
  BY <1>1, <1>2, <1>3 DEF Next, Exit, Crash

\* With one key no return of LockTransaction leaves a keepalive running.
\* With several keys a failure at a later one may leave one.
THEOREM SingleKeyNothingKept ==
  ASSUME SingleKey
  PROVE  Spec => []NothingKeptAfterReturn
<1> DEFINE I == TypeInv /\ \A h \in Hosts : KeptBy(h)
<1>1. Init => I
  BY TypeInvInit DEF Init, KeptBy
<1>2. I /\ [Next]_vars => I'
  BY TypeInvNext, KeptNext
<1>3. I => NothingKeptAfterReturn
  BY DEF KeptBy, NothingKeptAfterReturn
<1> HIDE DEF I
<1> QED
  BY <1>1, <1>2, <1>3, PTL DEF Spec

=============================================================================
