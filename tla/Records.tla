------------------------------- MODULE Records -------------------------------
(***************************************************************************)
(* From the labels of a container to its record intents: ParseLabels and   *)
(* GetContainerRecordIntents (internal/core), and the validity checks of   *)
(* the records (internal/domain).                                          *)
(*                                                                         *)
(* The labels of a container are a function from keys to texts.  A key is  *)
(* what the label says after the prefix, split at its dots:                *)
(*   <<"enabled">>, <<"force">>, <<kind, field>>, <<kind, alias, field>>   *)
(* A text stands for itself without the blanks around it.  The prefix has  *)
(* no dot: with one, the code looks for the kind in the prefix, and hears  *)
(* no record at all.                                                       *)
(***************************************************************************)
EXTENDS Integers, Sequences, FiniteSets, SequencesExt

CONSTANTS
  HostNames,  \* the texts that are host names
  IPTexts,  \* IPTexts[kind]: the texts that are addresses of that kind
  HostIP,     \* HostIP[kind]: host_ipv4 and host_ipv6, "" if not configured
  Seconds,    \* Seconds[text]: the time to live a text stands for
  RecordTTL   \* record_ttl: the configured time to live

ASSUME RecordsAssumption ==
  /\ DOMAIN HostIP = {"A", "AAAA"} /\ DOMAIN IPTexts = {"A", "AAAA"}
  /\ \A kind \in {"A", "AAAA"} : HostIP[kind] \in IPTexts[kind] \cup {""}
  /\ "" \notin HostNames \cup IPTexts["A"] \cup IPTexts["AAAA"] /\ "" \notin DOMAIN Seconds

\* ParseKind: in upper or lower case.
Kinds == [A |-> {"A", "a"}, AAAA |-> {"AAAA", "aaaa"}, CNAME |-> {"CNAME", "cname"}]
IsKind(part) == \E kind \in DOMAIN Kinds : part \in Kinds[kind]
ParseKind(part) == CHOOSE kind \in DOMAIN Kinds : part \in Kinds[kind]

\* A key with four parts or more has an alias; what follows the field is not read.
Alias(key) == IF Len(key) >= 3 THEN key[2] ELSE ""
Field(key) == IF Len(key) >= 3 THEN key[3] ELSE key[2]

\* The field of a labeled record that a label sets.
TargetWithoutAlias(key) == [kind |-> ParseKind(key[1]), alias |-> "", field |-> Field(key)]
Target(key) == [kind |-> ParseKind(key[1]), alias |-> Alias(key), field |-> Field(key)]

\* The labels that set one: a time to live that is no number sets none.
Setting(labels) ==
  {key \in DOMAIN labels :
     /\ Len(key) >= 2 /\ IsKind(key[1])
     /\ Field(key) \in {"name", "value", "force", "ttl"}
     /\ Field(key) = "ttl" => labels[key] \in DOMAIN Seconds}

\* The loop over the labels is a map iteration: of several labels that set the
\* same field, any may be the last.  A parse is the set of those that are.
Parses(labels) ==
  LET contested == {key \in Setting(labels) :
                      \E k \in Setting(labels) \ {key} : Target(k) = Target(key)}
  IN {(Setting(labels) \ contested) \cup last :
        last \in {S \in SUBSET contested :
                    \A key \in contested : Cardinality({k \in S : Target(k) = Target(key)}) = 1}}

IsTrue(text) == text \in {"true", "TRUE"}
Flag(labels, name) == <<name>> \in DOMAIN labels /\ IsTrue(labels[<<name>>])

\* The texts, one or none, that a parse has for a field of a labeled record.
Texts(labels, parse, slot, field) ==
  {labels[k] : k \in {key \in parse :
     Target(key) = [kind |-> slot.kind, alias |-> slot.alias, field |-> field]}}

\* NewA, NewAAAA and NewCNAME.
Valid(r) ==
  /\ r.name \in HostNames
  /\ r.value \in IF r.kind = "CNAME" THEN HostNames ELSE IPTexts[r.kind]

\* What the label says, or else the default.
ContainerForceWins(labels, own) == IF Flag(labels, "force") THEN TRUE ELSE \E text \in own : IsTrue(text)
Forced(labels, own) == IF own = {} THEN Flag(labels, "force") ELSE \E text \in own : IsTrue(text)
Value(kind, own) ==
  IF own \ {""} # {} THEN CHOOSE text \in own : TRUE
  ELSE IF kind \in DOMAIN HostIP THEN HostIP[kind] ELSE ""
TTL(own) == IF own = {} THEN RecordTTL ELSE Seconds[CHOOSE text \in own : TRUE]

\* The intent of one labeled record that has a name, of the container origin.
Intent(origin, labels, parse, slot) ==
  [id |-> origin.id, host |-> origin.host, created |-> origin.created,
   kind  |-> slot.kind,
   name  |-> CHOOSE text \in Texts(labels, parse, slot, "name") : TRUE,
   value |-> Value(slot.kind, Texts(labels, parse, slot, "value")),
   force |-> Forced(labels, Texts(labels, parse, slot, "force")),
   ttl   |-> TTL(Texts(labels, parse, slot, "ttl"))]

\* A record with no name, without a value, or with one that is not valid is
\* skipped.  The records come in the order of a map iteration.
GetContainerRecordIntents(origin, labels) ==
  LET Named(parse) == {[kind |-> t.kind, alias |-> t.alias] :
                         t \in {Target(k) : k \in {key \in parse : Field(key) = "name"}}}
      Built(parse) == {Intent(origin, labels, parse, slot) : slot \in Named(parse)}
  IN IF Flag(labels, "enabled")
     THEN UNION {SetToSeqs({r \in Built(parse) : Valid(r)}) : parse \in Parses(labels)}
     ELSE {<<>>}

=============================================================================
