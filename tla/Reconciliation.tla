--------------------------- MODULE Reconciliation ---------------------------
(***************************************************************************)
(* The pure part of a reconcile pass (internal/core): which of the desired *)
(* record intents of a host survive their conflicts with each other        *)
(* (FilterRecordIntents), and what to add to and remove from the registry  *)
(* to get there from its present content (ReconcileAndValidate).           *)
(*                                                                         *)
(* A record intent is                                                      *)
(*   [id, host, force, created, ttl, name, kind, value]                    *)
(* with id the container it comes from.  Host names, record names and      *)
(* values are left uninterpreted; the value of a CNAME is a name.  The     *)
(* container's name goes with its id: it is left out.                      *)
(***************************************************************************)
EXTENDS Integers, Sequences, SequencesExt, Lists

\* RecordIntent.Key, and what RecordIntent.Equal compares: not the creation time.
Key(r) == [id |-> r.id, host |-> r.host, force |-> r.force, ttl |-> r.ttl,
           name |-> r.name, kind |-> r.kind, value |-> r.value]

IsCNAME(r) == r.kind = "CNAME"
IsAddress(r) == r.kind \in {"A", "AAAA"}

\* Record.Equal: the same name, kind and value.
SameRecord(r, s) == r.name = s.name /\ r.kind = s.kind /\ r.value = s.value

Before(r, s) == r.created < s.created

At(S, n) == {r \in S : r.name = n}
CNAMEs(S, n) == {r \in At(S, n) : IsCNAME(r)}
Addresses(S, n) == {r \in At(S, n) : IsAddress(r)}

\* Two records may stand beside each other; a registry in which every name
\* resolves: a CNAME stands alone at its name, and no two entries say the same.
Fits(r, s) == r.name = s.name => ~IsCNAME(r) /\ ~IsCNAME(s) /\ ~SameRecord(r, s)
Consistent(S) == \A r, s \in S : r # s => Fits(r, s)

-----------------------------------------------------------------------------
\* Conflicts among the desired intents of one host.

\* A forced intent goes before one that is not; then the older container wins.
ReplaceIfOlder(new, existing) == Before(new, existing)
ShouldReplaceExisting(new, existing) ==
  \/ new.force /\ ~existing.force
  \/ new.force = existing.force /\ Before(new, existing)

\* A CNAME against the addresses of its name.  The five rules of the code come
\* down to two: a forced CNAME has to be older than the forced addresses, any
\* other loses to a forced address and has to be older than all of them.
ShouldReplaceAllExisting(new, existing) ==
  IF new.force
  THEN \A r \in existing : r.force => Before(new, r)
  ELSE \A r \in existing : ~r.force /\ Before(new, r)

\* Step 1 keeps one intent for each name, kind and value, and one CNAME for
\* each name.  The intents come in the order of a map iteration.
SameSlot(r, s) == r.name = s.name /\ r.kind = s.kind /\ (IsCNAME(r) \/ r.value = s.value)

InsertEveryCNAME(kept, new) ==
  LET rivals == {r \in kept : SameRecord(r, new)} IN
  IF \A r \in rivals : ShouldReplaceExisting(new, r)
  THEN (kept \ rivals) \cup {new}
  ELSE kept
Insert(kept, new) ==
  LET rivals == {r \in kept : SameSlot(r, new)} IN
  IF \A r \in rivals : ShouldReplaceExisting(new, r)
  THEN (kept \ rivals) \cup {new}
  ELSE kept

\* Step 2 keeps the CNAME of a name or its addresses.
KeepBoth(kept) == kept
ChooseKind(kept) ==
  {r \in kept :
     IF IsCNAME(r)
     THEN ShouldReplaceAllExisting(r, Addresses(kept, r.name))
     ELSE \A c \in CNAMEs(kept, r.name) :
            ~ShouldReplaceAllExisting(c, Addresses(kept, r.name))}

FilterRecordIntents(intents) == ChooseKind(FoldLeft(Insert, {}, intents))

-----------------------------------------------------------------------------
\* ValidateRecord: may d be added to the records of the list existing?

\* The CNAME graph the cycle check walks: the first CNAME of each name, and d.
Forward(d, existing) ==
  LET cnames == Only(existing, {r \in ToSet(existing) : IsCNAME(r)})
      First(n) == cnames[CHOOSE i \in DOMAIN cnames :
                           /\ cnames[i].name = n
                           /\ \A j \in 1..(i - 1) : cnames[j].name # n]
  IN [n \in {cnames[i].name : i \in DOMAIN cnames} \cup {d.name} |->
        IF n = d.name THEN d.value ELSE First(n).value]

\* The walk along f from n never leaves the domain of f: it meets a name again.
RunsInCircles(f, n) ==
  \E S \in SUBSET DOMAIN f : n \in S /\ \A m \in S : f[m] \in S

NoCycleCheck(d, existing) ==
  LET named == At(ToSet(existing), d.name) IN
  IF IsCNAME(d) THEN named = {}
  ELSE \A r \in named : ~IsCNAME(r) /\ ~SameRecord(r, d)
ValidateRecord(d, existing) ==
  LET named == At(ToSet(existing), d.name) IN
  IF IsCNAME(d)
  THEN named = {} /\ ~RunsInCircles(Forward(d, existing), d.name)
  ELSE \A r \in named : ~IsCNAME(r) /\ ~SameRecord(r, d)

-----------------------------------------------------------------------------
\* ReconcileAndValidate, for host me.  A plan is what to add and the keys of
\* what to remove.  dead is the set of hosts whose records are garbage: empty
\* when liveHostnames is nil, otherwise the hosts other than me it lacks.

StaleOfMine(me, desired, dead, r) ==
  Key(r) \notin {Key(d) : d \in desired} /\ r.host = me
Stale(me, desired, dead, r) ==
  /\ Key(r) \notin {Key(d) : d \in desired}
  /\ r.host = me \/ r.host \in dead

\* Step 1: what is not stale, one entry for each name, kind and value (the last
\* of the list overwrites the others).
Lookup(me, desired, actual, dead) ==
  LET fresh == {i \in DOMAIN actual : ~Stale(me, desired, dead, actual[i])} IN
  {actual[i] : i \in {j \in fresh :
                        \A k \in fresh : k > j => ~SameRecord(actual[j], actual[k])}}

\* Step 2: the present records a desired one competes with.
Rivals(d, lookup) ==
  LET cnames == CNAMEs(lookup, d.name)
      addresses == Addresses(lookup, d.name)
  IN IF IsCNAME(d)
     THEN IF addresses # {} THEN addresses ELSE cnames
     ELSE IF cnames # {} THEN cnames ELSE {r \in addresses : SameRecord(r, d)}

\* Whether d evicts its rivals; first is the one the code compares with, any of
\* them as they come out of a map.  The force of a rival plays no part.
EvictsWhateverItsAge(d, rivals, first) == Key(d) # Key(first)
EvictsItself(d, rivals, first) ==
  \/ d.force
  \/ IF IsCNAME(d) /\ IsAddress(first)
     THEN \A r \in rivals : Before(d, r)
     ELSE Before(d, first)
Evicts(d, rivals, first) ==
  /\ Key(d) # Key(first)
  /\ \/ d.force
     \/ IF IsCNAME(d) /\ IsAddress(first)
        THEN \A r \in rivals : Before(d, r)
        ELSE Before(d, first)

\* Step 3: d is added, with its evictions, if it is valid among what remains.
\* Records added in the same pass are not looked at.
TryAdd(d, evictions, plan, actual) ==
  LET gone == plan.rem \cup evictions
      simulated == Only(actual, {r \in ToSet(actual) : Key(r) \notin gone})
  IN IF ValidateRecord(d, simulated)
     THEN [add |-> plan.add \cup {d}, rem |-> gone]
     ELSE plan

\* The plans the treatment of one desired record may lead to.
Considered(d, plan, lookup, actual) ==
  LET rivals == Rivals(d, lookup) IN
  IF rivals = {}
  THEN {TryAdd(d, {}, plan, actual)}
  ELSE {IF Evicts(d, rivals, first)
        THEN TryAdd(d, {Key(r) : r \in rivals}, plan, actual)
        ELSE plan : first \in rivals}

\* The plans for the desired set, in all the orders a map iteration may give.
ReconcileAndValidate(me, desired, actual, dead) ==
  LET lookup == Lookup(me, desired, actual, dead)
      stale == {Key(r) : r \in {s \in ToSet(actual) : Stale(me, desired, dead, s)}}
      plans[S \in SUBSET desired] ==
        IF S = {} THEN {[add |-> {}, rem |-> stale]}
        ELSE UNION {UNION {Considered(d, p, lookup, actual) : p \in plans[S \ {d}]} : d \in S}
  IN plans[desired]

=============================================================================
