----------------------------- MODULE GlobalLock -----------------------------
(***************************************************************************)
(* What LockTransaction (internal/registry/etcd_registry.go) promises its  *)
(* caller, the reconcile tick of the engine: a function that runs under a  *)
(* set of locks runs while no other host runs one under any of them.       *)
(* LockTransaction implements this specification when no host loses a      *)
(* lease it keeps alive; that is checked by TLC and proved by TLAPS.       *)
(***************************************************************************)
CONSTANTS Hosts,    \* the daemons, one per Docker host
          Keys      \* the names of the locks

VARIABLE section    \* section[h]: the locks under which h's function runs

TypeOK == section \in [Hosts -> SUBSET Keys]

Init == section = [h \in Hosts |-> {}]

\* h starts its function under the locks K.
Enter(h, K) ==
  /\ section[h] = {}
  /\ K # {}
  /\ \A g \in Hosts \ {h} : section[g] \cap K = {}
  /\ section' = [section EXCEPT ![h] = K]

\* h's function is over, or its context was cancelled, or h is gone.
Leave(h) ==
  /\ section[h] # {}
  /\ section' = [section EXCEPT ![h] = {}]

Next == \E h \in Hosts : Leave(h) \/ \E K \in SUBSET Keys : Enter(h, K)

Spec == Init /\ [][Next]_section

=============================================================================
