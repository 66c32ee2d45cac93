--------------------------- MODULE ReconcilePasses ---------------------------
(***************************************************************************)
(* One host, Me, from the labels of its containers to the registry: it     *)
(* reads the labels once, when it hears of a container, and reconciles     *)
(* again and again.  Every write succeeds, and nobody else writes: the     *)
(* module checks Records and the plans of Reconciliation on every small    *)
(* registry and every small set of labels.  SyncEngine puts the plans      *)
(* among several hosts and failures.                                       *)
(***************************************************************************)
EXTENDS Records, Reconciliation

CONSTANTS
  Me, Peer,      \* this host and another one that owns records
  Containers,    \* the containers of Me
  Former,        \* the one of them that has records in the registry
  PeerContainers,
  Universes,     \* [labels, left, ages]: how the containers may be labelled, what
                 \* labels the records in the registry may have come from, and
                 \* when the containers may have been created
  MaxActual,     \* bound: records in the registry at the start
  MaxPasses      \* bound: reconcile passes

ASSUME PassesAssumption ==
  /\ Me # Peer
  /\ Former \in Containers
  /\ IsFiniteSet(Containers)
  /\ \A u \in Universes :
       /\ u.ages \subseteq [Containers \cup PeerContainers -> Nat]
       /\ \A ls \in u.labels : \A c \in Containers : IsFiniteSet(DOMAIN ls[c])
  /\ MaxActual \in Nat /\ MaxPasses \in Nat

VARIABLES labels,   \* Docker: the labels of each container
          tracked,  \* the state tracker: the intents of each container
          actual,   \* what List returns, in key order
          dead,     \* the hosts without a heartbeat; empty when GC is off
          desired,  \* what the last pass wanted
          plan,     \* and what it planned
          passes    \* how many passes were made

vars == <<labels, tracked, actual, dead, desired, plan, passes>>

Origin(host, c, age) == [id |-> c, host |-> host, created |-> age[c]]

\* The intents that containers of a host may have.
IntentsOf(host, ids, age, left) ==
  UNION {UNION {ToSet(intents) : intents \in GetContainerRecordIntents(Origin(host, c, age), l)} :
           c \in ids, l \in left}

NoCycle(S) ==
  LET cnames == {r \in S : IsCNAME(r)}
      target == [n \in {r.name : r \in cnames} |->
                   (CHOOSE r \in cnames : r.name = n).value]
  IN \A n \in DOMAIN target : ~RunsInCircles(target, n)

SetsUpTo(S, n) ==
  LET upTo[k \in 0..n] == IF k = 0 THEN {{}}
                          ELSE upTo[k - 1] \cup UNION {{T \cup {x} : T \in upTo[k - 1]} : x \in S}
  IN upTo[n]

\* handleEvent: each container is heard of once, and its labels are read then.
\* The registry has records of Peer, and what Me left there: records of its
\* container Former, which may still ask for them or not.
Init ==
  /\ \E universe \in Universes : \E age \in universe.ages :
       LET left == IntentsOf(Me, {Former}, age, universe.left)
                   \cup IntentsOf(Peer, PeerContainers, age, universe.left)
           registries == {A \in SetsUpTo(left, MaxActual) : Consistent(A) /\ NoCycle(A)}
       IN /\ labels \in universe.labels
          /\ LET Heard(c) == GetContainerRecordIntents(Origin(Me, c, age), labels[c]) IN
             tracked \in {t \in [Containers -> UNION {Heard(c) : c \in Containers}] :
                            \A c \in Containers : t[c] \in Heard(c)}
          /\ \E A \in registries :
               /\ actual = SetToSeq(A)
               /\ dead \in {{}} \cup {{r.host} : r \in {x \in A : x.host = Peer}}
  /\ desired = {}
  /\ plan = [add |-> {}, rem |-> {}]
  /\ passes = 0

\* GetAllDesiredRecordIntents: the intents of all containers, in the order of a
\* map iteration over the containers, another one at each call.
GetAllDesiredRecordIntents ==
  {FlattenSeq([i \in DOMAIN order |-> tracked[order[i]]]) : order \in SetToSeqs(Containers)}

Plans(d) == ReconcileAndValidate(Me, d, actual, dead)

\* The engine removes, then adds.
Applied(list, p) ==
  Only(list, {r \in ToSet(list) : Key(r) \notin p.rem}) \o SetToSeq(p.add)

Pass ==
  /\ passes < MaxPasses
  /\ \E intents \in GetAllDesiredRecordIntents :
       /\ desired' = FilterRecordIntents(intents)
       /\ plan' \in Plans(desired')
  /\ actual' = Applied(actual, plan')
  /\ passes' = passes + 1
  /\ UNCHANGED <<labels, tracked, dead>>

Next == Pass

Spec == Init /\ [][Next]_vars

-----------------------------------------------------------------------------
\* A pass leaves every name resolvable: no CNAME beside another record of its
\* name, no record twice.
StaysConsistent == Consistent(ToSet(actual)) /\ Cardinality(ToSet(actual)) = Len(actual)

\* What a pass removes is stale, or displaced by a record it adds at the same
\* name that is forced or older.
EvictionsJustified ==
  [][\A r \in ToSet(actual) :
       Key(r) \in plan'.rem =>
         \/ Stale(Me, desired', dead, r)
         \/ \E d \in plan'.add : d.name = r.name /\ (d.force \/ Before(d, r))]_vars

\* A record of this host that is still wanted is never taken away.
WantedRecordsStay ==
  [][\A d \in desired', r \in ToSet(actual) :
       Key(r) = Key(d) => r \in ToSet(actual')]_vars

\* After one pass nothing of this host, or of a dead one, is left in the
\* registry that no container asks for.
StaleGone ==
  passes > 0 => \A r \in ToSet(actual) :
                  r.host \in {Me} \cup dead => Key(r) \in {Key(d) : d \in desired}

\* What the containers of this host ask for.
Asked == UNION {ToSet(tracked[c]) : c \in Containers}

\* The passes come to rest.  Each adds a record that is wanted and not there,
\* which then stays, or leaves nothing to do: after as many passes as there are
\* wanted records nothing is left, whatever the order of the map iterations,
\* unless that order decides what is wanted (two rivals of the same age take
\* the name from each other for ever).
ComesToRest ==
  /\ passes > 0 /\ passes >= Cardinality(desired)
  /\ \A intents \in GetAllDesiredRecordIntents : FilterRecordIntents(intents) = desired
  => Plans(desired) = {[add |-> {}, rem |-> {}]}

\* The survivors of FilterRecordIntents, without the order of treatment: first
\* forced, then older.
Prior(r, s) == IF r.force = s.force THEN r.created < s.created ELSE r.force
Survivors(S) ==
  LET slots == {r \in S : \A s \in S : r # s /\ SameSlot(r, s) => Prior(r, s)}
      CNAMEWins(n) == \E c \in CNAMEs(slots, n) : \A a \in Addresses(slots, n) : Prior(c, a)
  IN {r \in slots : IsCNAME(r) <=> CNAMEWins(r.name)}

\* Unless two rivals are of the same age, the order in which a map iteration
\* gives the intents does not matter, and no name is lost.
FilterIndependentOfOrder ==
  (\A r, s \in Asked : r # s /\ SameSlot(r, s) => r.created # s.created \/ r.force # s.force)
  => \A intents \in GetAllDesiredRecordIntents :
       /\ FilterRecordIntents(intents) = Survivors(Asked)
       /\ {r.name : r \in Survivors(Asked)} = {r.name : r \in Asked}

\* What the labels of a kind and an alias say of a field, in any spelling.
Said(l, kind, alias, field) ==
  {l[k] : k \in {key \in Setting(l) :
                   ParseKind(key[1]) = kind /\ Alias(key) = alias /\ Field(key) = field}}
Aliases(l) == {Alias(key) : key \in Setting(l)}

\* What a record of this host in the registry says, the labels of its container
\* say: under one alias they give its name, its value or an empty one or none,
\* and its force, or none and the force of the container.
RegistryAsLabelled ==
  passes > 0 => \A r \in {x \in ToSet(actual) : x.host = Me} :
    LET l == labels[r.id] IN
    /\ Flag(l, "enabled")
    /\ \E alias \in Aliases(l) :
         LET Says(field) == Said(l, r.kind, alias, field) IN
         /\ r.name \in Says("name")
         /\ \/ r.value \in Says("value")
            \/ /\ Says("value") = {} \/ "" \in Says("value")
               /\ r.kind # "CNAME" /\ r.value = HostIP[r.kind]
         /\ \/ r.force \in {IsTrue(text) : text \in Says("force")}
            \/ Says("force") = {} /\ r.force = Flag(l, "force")

\* No record is lost between the labels and the tracker: unless two spellings
\* of a label contradict each other, each valid name that has a valid value, or
\* an address of the host for default, is asked for, and nothing else.
LabelsHeard ==
  passes = 0 => \A c \in {x \in Containers : Flag(labels[x], "enabled")} :
    LET l == labels[c]
        Contradict(k, m) == /\ ParseKind(k[1]) = ParseKind(m[1])
                            /\ Alias(k) = Alias(m) /\ Field(k) = Field(m) /\ l[k] # l[m]
        HasValue(kind, alias) ==
          LET v == Said(l, kind, alias, "value") IN
          IF v \subseteq {""} THEN kind # "CNAME" /\ HostIP[kind] # ""
          ELSE v \subseteq IF kind = "CNAME" THEN HostNames ELSE IPTexts[kind]
    IN (\A k, m \in Setting(l) : ~Contradict(k, m))
       => {<<r.kind, r.name>> : r \in ToSet(tracked[c])} =
          {<<ParseKind(k[1]), l[k]>> :
             k \in {m \in Setting(l) : /\ Field(m) = "name" /\ l[m] \in HostNames
                                        /\ HasValue(ParseKind(m[1]), Alias(m))}}

\* The cycle check sees the registry: a pass that adds no more than one CNAME
\* closes no cycle.
OneAliasClosesNoCycle ==
  [][NoCycle(ToSet(actual)) /\ Cardinality({d \in plan'.add : IsCNAME(d)}) <= 1
     => NoCycle(ToSet(actual'))]_vars

\* "Prevents CNAME cycles": following the CNAMEs of the registry ends.
NoCNAMECycle == NoCycle(ToSet(actual))

=============================================================================
