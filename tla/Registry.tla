------------------------------ MODULE Registry ------------------------------
(***************************************************************************)
(* How EtcdRegistry lays records out in etcd, and what its List, Register  *)
(* and Remove do to the keys.                                              *)
(*                                                                         *)
(* A record lives at <prefix>/<labels of its name, reversed>/x<i>: here at *)
(* the slot <<name, i>>.  The value under the key carries the intent but   *)
(* not the name; Remove compares values only.  A name is under another one *)
(* when its path starts with the other's: the name itself, and all its     *)
(* subdomains.                                                             *)
(***************************************************************************)
EXTENDS Integers, Sequences, SequencesExt, Lists

CONSTANTS
  NameOrder,  \* the names, in the order of their keys
  Subdomain,  \* <<n, m>> for every n that is a subdomain of m
  MaxIndex,   \* bound: the records of one name
  Absent      \* the value of a key that does not exist

ASSUME RegistryAssumption ==
  /\ NameOrder \in Seq(ToSet(NameOrder)) /\ IsInjective(NameOrder)
  /\ Subdomain \subseteq ToSet(NameOrder) \X ToSet(NameOrder)
  /\ MaxIndex \in Nat \ {0}

Names == ToSet(NameOrder)
Slots == Names \X (1..MaxIndex)

EmptyRegistry == [s \in Slots |-> Absent]

\* The intents in the registry.
Content(reg) == {reg[s] : s \in Slots} \ {Absent}

\* List: every record, in key order.
ListWithGaps(reg) ==
  FlattenSeq([k \in DOMAIN NameOrder |-> [i \in 1..MaxIndex |-> reg[<<NameOrder[k], i>>]]])
ListOf(reg) ==
  FlattenSeq([k \in DOMAIN NameOrder |->
    Only([i \in 1..MaxIndex |-> reg[<<NameOrder[k], i>>]], Content(reg))])

\* Register: the record goes to the first index of its name that is free in
\* view, the registry as the etcd member that answers has it.
FreeIndices(reg, n) == {i \in 1..MaxIndex : reg[<<n, i>>] = Absent}
NextIndex(reg, n) ==
  CHOOSE i \in FreeIndices(reg, n) : \A j \in FreeIndices(reg, n) : i <= j

CanRegister(view, r) == FreeIndices(view, r.name) # {}
RegisterIn(reg, view, r) == [reg EXCEPT ![<<r.name, NextIndex(view, r.name)>>] = r]

\* recordMatches: neither the name nor force is compared.
RecordMatches(w, k) ==
  w.value = k.value /\ w.kind = k.kind /\ w.host = k.host /\ w.id = k.id

\* The keys Remove looks at: those whose path starts with the name's.
Under(n, m) == n = m \/ <<n, m>> \in Subdomain

Matching(reg, k) ==
  {s \in Slots : Under(s[1], k.name) /\ reg[s] # Absent /\ RecordMatches(reg[s], k)}
RemoveFrom(reg, k) ==
  [s \in Slots |-> IF s \in Matching(reg, k) THEN Absent ELSE reg[s]]

=============================================================================
