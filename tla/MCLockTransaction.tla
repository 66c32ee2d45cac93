-------------------------- MODULE MCLockTransaction --------------------------
(***************************************************************************)
(* Instances of LockTransaction for TLC.                                   *)
(***************************************************************************)
EXTENDS LockTransaction, TLC

\* The engine asks for one key, "__global__"; the interface allows several.
OneKey == {1}
OneRequest == {{1}}
TwoKeys == {1, 2}
TwoRequests == {{1}, {1, 2}}

\* Hosts, and lease identifiers, are interchangeable.
Symmetry == Permutations(Hosts) \cup Permutations(Leases)
=============================================================================
