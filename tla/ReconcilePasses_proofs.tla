----------------------- MODULE ReconcilePasses_proofs -----------------------
(***************************************************************************)
(* What TLAPS proves of a host that reconciles again and again: for any    *)
(* labels, any number of containers and any consistent registry to start   *)
(* from, and for any number of passes.                                     *)
(***************************************************************************)
EXTENDS ReconcilePasses, Reconciliation_proofs

\* The registries the passes start from are finite.
LEMMA SetsFinite ==
  ASSUME NEW S, NEW n \in Nat, NEW A \in SetsUpTo(S, n)
  PROVE  IsFiniteSet(A)
<1> DEFINE Grown(C) == C \cup UNION {{T \cup {x} : T \in C} : x \in S}
           Solves(g, m) == g = [k \in 0..m |-> IF k = 0 THEN {{}} ELSE Grown(g[k - 1])]
           P == {m \in Nat : \E g : Solves(g, m)}
<1> HIDE DEF Grown
<1>1. 0 \in P
  <2>1. Solves([k \in 0..0 |-> {{}}], 0)
    OBVIOUS
  <2> HIDE DEF Solves
  <2> QED BY <2>1
<1>2. ASSUME NEW m \in Nat, m \in P
      PROVE  m + 1 \in P
  <2>1. PICK g : Solves(g, m)
    BY <1>2
  <2> DEFINE h == [k \in 0..(m + 1) |->
                     IF k <= m THEN g[k] ELSE Grown(g[m])]
  <2>2. ASSUME NEW k \in 0..(m + 1)
        PROVE  h[k] = IF k = 0 THEN {{}}
                      ELSE Grown(h[k - 1])
    <3>1. CASE k = 0
      BY <2>1, <3>1
    <3>2. CASE k \in 1..m
      <4>1. h[k] = g[k] /\ h[k - 1] = g[k - 1] /\ k # 0 /\ k \in 0..m
        BY <3>2
      <4>2. g[k] = Grown(g[k - 1])
        BY <2>1, <4>1
      <4> HIDE DEF h
      <4> QED BY <4>1, <4>2
    <3>3. CASE k = m + 1
      <4>1. h[k] = Grown(g[m]) /\ h[k - 1] = g[m] /\ k # 0
        BY <3>3
      <4> HIDE DEF h
      <4> QED BY <4>1
    <3> QED BY <3>1, <3>2, <3>3
  <2>3. Solves(h, m + 1)
    BY <2>2, Zenon
  <2> HIDE DEF Solves, h
  <2> QED BY <2>3
<1>3. PICK g0 : Solves(g0, n)
  <2>1. Nat \subseteq P
    <3> HIDE DEF P
    <3> QED BY <1>1, <1>2, NatSetInduction
  <2> HIDE DEF Solves
  <2> QED BY <2>1
<1>4. PICK g : Solves(g, n) /\ SetsUpTo(S, n) = g[n]
  <2> DEFINE F == CHOOSE g : Solves(g, n)
  <2>1. SetsUpTo(S, n) = F[n]
    BY DEF SetsUpTo, Grown
  <2>2. Solves(F, n)
    <3> HIDE DEF Solves
    <3> QED BY <1>3
  <2> HIDE DEF F, Solves
  <2> QED BY <2>1, <2>2
<1> DEFINE Q == {m \in Nat : m <= n => \A T \in g[m] : IsFiniteSet(T)}
<1>5. 0 \in Q
  BY <1>4, FS_EmptySet
<1>6. ASSUME NEW m \in Nat, m \in Q
      PROVE  m + 1 \in Q
  <2> SUFFICES ASSUME m + 1 <= n, NEW T \in g[m + 1] PROVE IsFiniteSet(T)
    OBVIOUS
  <2>1. g[m + 1] = Grown(g[m])
    <3>1. m + 1 \in 0..n /\ m + 1 # 0 /\ (m + 1) - 1 = m
      OBVIOUS
    <3> QED BY <1>4, <3>1
  <2>2. \A U \in g[m] : IsFiniteSet(U)
    BY <1>6
  <2>3. \A V \in Grown(g[m]) : V \in g[m] \/ \E U \in g[m], x \in S : V = U \cup {x}
    BY DEF Grown
  <2> QED BY <2>1, <2>2, <2>3, FS_AddElement
<1>7. n \in Q
  <2> HIDE DEF Q
  <2> QED BY <1>5, <1>6, NatSetInduction
<1> QED BY <1>4, <1>7

\* A parse picks among the labels of a container.
LEMMA ParsesFinite ==
  ASSUME NEW l, IsFiniteSet(DOMAIN l), NEW parse \in Parses(l)
  PROVE  parse \subseteq Setting(l) /\ IsFiniteSet(parse)
<1>1. parse \subseteq Setting(l)
  BY DEF Parses
<1>2. Setting(l) \subseteq DOMAIN l
  BY DEF Setting
<1> QED BY <1>1, <1>2, FS_Subset

\* The labeled records of a parse that have a name, and the intents built of them.
Named(parse) ==
  {[kind |-> t.kind, alias |-> t.alias] :
     t \in {Target(k) : k \in {key \in parse : Field(key) = "name"}}}
Built(origin, l, parse) == {Intent(origin, l, parse, slot) : slot \in Named(parse)}

\* GetContainerRecordIntents returns a list of what it builds of a parse: the
\* labels of a container are finite.
LEMMA HeardContents ==
  ASSUME NEW origin, NEW l, IsFiniteSet(DOMAIN l), NEW intents \in GetContainerRecordIntents(origin, l)
  PROVE  /\ intents \in Seq(ToSet(intents))
         /\ ~Flag(l, "enabled") => intents = <<>>
         /\ Flag(l, "enabled") => \E parse \in Parses(l) :
                                    ToSet(intents) = {r \in Built(origin, l, parse) : Valid(r)}
<1>1. CASE ~Flag(l, "enabled")
  BY <1>1 DEF ToSet, GetContainerRecordIntents
<1>2. CASE Flag(l, "enabled")
  <2>1. PICK parse \in Parses(l) : intents \in SetToSeqs({r \in Built(origin, l, parse) : Valid(r)})
    BY <1>2, Zenon DEF GetContainerRecordIntents, Built, Named
  <2>2. IsFiniteSet(parse)
    BY ParsesFinite
  <2> DEFINE keys == {key \in parse : Field(key) = "name"}
             targets == {Target(k) : k \in keys}
  <2>3. IsFiniteSet(keys)
    BY <2>2, FS_Subset
  <2>4. IsFiniteSet(targets)
    <3> DEFINE f == [k \in keys |-> Target(k)]
    <3>1. IsFiniteSet({f[x] : x \in DOMAIN f})
      BY <2>3, FiniteImage
    <3>2. {f[x] : x \in DOMAIN f} = targets
      OBVIOUS
    <3> QED BY <3>1, <3>2
  <2>5. IsFiniteSet(Named(parse))
    <3> DEFINE f == [t \in targets |-> [kind |-> t.kind, alias |-> t.alias]]
    <3>1. {f[x] : x \in DOMAIN f} = Named(parse)
      BY DEF Named
    <3> HIDE DEF targets
    <3>2. IsFiniteSet({f[x] : x \in DOMAIN f})
      BY <2>4, FiniteImage
    <3> QED BY <3>1, <3>2
  <2>6. IsFiniteSet(Built(origin, l, parse))
    <3> DEFINE f == [slot \in Named(parse) |-> Intent(origin, l, parse, slot)]
    <3>1. IsFiniteSet({f[x] : x \in DOMAIN f})
      BY <2>5, FiniteImage
    <3>2. {f[x] : x \in DOMAIN f} = Built(origin, l, parse)
      BY DEF Built
    <3> QED BY <3>1, <3>2
  <2>7. IsFiniteSet({r \in Built(origin, l, parse) : Valid(r)})
    BY <2>6, FS_Subset
  <2>8. /\ intents \in Seq({r \in Built(origin, l, parse) : Valid(r)})
        /\ ToSet(intents) = {r \in Built(origin, l, parse) : Valid(r)}
    BY <2>1, <2>7, OrderContents
  <2> QED BY <1>2, <2>8
<1> QED BY <1>1, <1>2

-----------------------------------------------------------------------------
\* What the labels say.

\* A parse is among the labels that set a field, and sets each field that one of
\* them sets.
LEMMA ParsesCover ==
  ASSUME NEW l, NEW parse \in Parses(l)
  PROVE  /\ parse \subseteq Setting(l)
         /\ \A k \in Setting(l) : \E m \in parse : Target(m) = Target(k)
<1> DEFINE contested == {key \in Setting(l) :
                           \E k \in Setting(l) \ {key} : Target(k) = Target(key)}
<1>1. PICK S \in SUBSET contested :
        /\ \A key \in contested : Cardinality({k \in S : Target(k) = Target(key)}) = 1
        /\ parse = (Setting(l) \ contested) \cup S
  BY Zenon DEF Parses
<1>2. ASSUME NEW k \in contested PROVE \E m \in S : Target(m) = Target(k)
  <2>1. {m \in S : Target(m) = Target(k)} # {}
    BY <1>1, <1>2, FS_EmptySet
  <2> QED BY <2>1
<1> QED BY <1>1, <1>2

\* What a parse has for a field is said by the labels; it has one if they say one.
LEMMA TextsSaid ==
  ASSUME NEW l, NEW parse \in Parses(l), NEW slot, NEW f
  PROVE  /\ Texts(l, parse, slot, f) \subseteq Said(l, slot.kind, slot.alias, f)
         /\ Texts(l, parse, slot, f) = {} => Said(l, slot.kind, slot.alias, f) = {}
<1>1. \A k : Target(k) = [kind |-> slot.kind, alias |-> slot.alias, field |-> f] <=>
               ParseKind(k[1]) = slot.kind /\ Alias(k) = slot.alias /\ Field(k) = f
  BY DEF Target
<1>2. Texts(l, parse, slot, f) \subseteq Said(l, slot.kind, slot.alias, f)
  BY <1>1, ParsesCover DEF Texts, Said
<1>3. ASSUME NEW k \in Setting(l), ParseKind(k[1]) = slot.kind /\ Alias(k) = slot.alias /\ Field(k) = f
      PROVE  Texts(l, parse, slot, f) # {}
  <2>1. PICK m \in parse : Target(m) = Target(k)
    BY ParsesCover
  <2> QED BY <1>1, <1>3, <2>1 DEF Texts
<1> QED BY <1>2, <1>3 DEF Said

\* A named record has a kind, and a name under an alias that the labels say.
LEMMA NamedSlots ==
  ASSUME NEW l, NEW parse \in Parses(l), NEW slot \in Named(parse)
  PROVE  \E k \in parse : /\ k \in Setting(l) /\ Field(k) = "name"
                          /\ slot.kind = ParseKind(k[1]) /\ slot.alias = Alias(k)
                          /\ slot.kind \in {"A", "AAAA", "CNAME"}
                          /\ l[k] \in Texts(l, parse, slot, "name")
<1>1. PICK k \in parse : Field(k) = "name" /\ slot = [kind |-> Target(k).kind, alias |-> Target(k).alias]
  BY DEF Named
<1>2. k \in Setting(l) /\ slot.kind = ParseKind(k[1]) /\ slot.alias = Alias(k)
  BY <1>1, ParsesCover DEF Target
<1>3. ParseKind(k[1]) \in DOMAIN Kinds
  BY <1>2 DEF Setting, IsKind, ParseKind
<1>4. DOMAIN Kinds = {"A", "AAAA", "CNAME"}
  BY DEF Kinds
<1>5. l[k] \in Texts(l, parse, slot, "name")
  BY <1>1, <1>2 DEF Texts, Target
<1> QED BY <1>1, <1>2, <1>3, <1>4, <1>5

\* What an intent takes from the container, and what from its labels.
LEMMA IntentFields ==
  ASSUME NEW host, NEW c, NEW age, NEW l, NEW parse, NEW slot
  PROVE  LET r == Intent(Origin(host, c, age), l, parse, slot) IN
         /\ r.id = c /\ r.host = host /\ r.created = age[c]
         /\ r.kind = slot.kind
         /\ r.name = CHOOSE text \in Texts(l, parse, slot, "name") : TRUE
         /\ r.value = Value(slot.kind, Texts(l, parse, slot, "value"))
         /\ r.force = Forced(l, Texts(l, parse, slot, "force"))
BY DEF Intent, Origin

\* What the labels of a container say of a record.
Labelled(l, r) ==
  \E alias \in Aliases(l) :
    LET Says(field) == Said(l, r.kind, alias, field) IN
    /\ r.name \in Says("name")
    /\ \/ r.value \in Says("value")
       \/ /\ Says("value") = {} \/ "" \in Says("value")
          /\ r.kind # "CNAME" /\ r.value = HostIP[r.kind]
    /\ \/ r.force \in {IsTrue(text) : text \in Says("force")}
       \/ Says("force") = {} /\ r.force = Flag(l, "force")

\* GetContainerRecordIntents says what the labels say.
LEMMA BuiltAsLabelled ==
  ASSUME NEW host, NEW c, NEW age, NEW l, NEW parse \in Parses(l),
         NEW r \in Built(Origin(host, c, age), l, parse), Valid(r)
  PROVE  /\ r.id = c /\ r.host = host /\ r.created = age[c] /\ r.force \in BOOLEAN
         /\ Labelled(l, r)
<1>1. PICK slot \in Named(parse) : r = Intent(Origin(host, c, age), l, parse, slot)
  BY DEF Built
<1>2. /\ r.id = c /\ r.host = host /\ r.created = age[c]
      /\ r.kind = slot.kind
      /\ r.name = CHOOSE text \in Texts(l, parse, slot, "name") : TRUE
      /\ r.value = Value(slot.kind, Texts(l, parse, slot, "value"))
      /\ r.force = Forced(l, Texts(l, parse, slot, "force"))
  BY <1>1, IntentFields
<1>3. PICK k \in parse : /\ k \in Setting(l) /\ slot.alias = Alias(k)
                         /\ slot.kind \in {"A", "AAAA", "CNAME"}
                         /\ l[k] \in Texts(l, parse, slot, "name")
  BY NamedSlots
<1> DEFINE Says(field) == Said(l, slot.kind, slot.alias, field)
           own(field) == Texts(l, parse, slot, field)
<1>4. \A f : own(f) \subseteq Says(f) /\ (own(f) = {} => Says(f) = {})
  BY TextsSaid
<1> HIDE DEF Says, own
<1>5. r.name \in Says("name")
  <2>1. r.name \in own("name")
    BY <1>2, <1>3 DEF own
  <2> QED BY <1>4, <2>1
<1>6. \/ r.value \in Says("value")
      \/ /\ Says("value") = {} \/ "" \in Says("value")
         /\ r.kind # "CNAME" /\ r.value = HostIP[r.kind]
  <2>1. CASE own("value") \ {""} # {}
    <3>1. r.value \in own("value")
      BY <1>2, <2>1 DEF Value, own
    <3> QED BY <1>4, <3>1
  <2>2. CASE own("value") \ {""} = {}
    <3>1. r.value = IF slot.kind \in DOMAIN HostIP THEN HostIP[slot.kind] ELSE ""
      BY <1>2, <2>2 DEF Value, own
    <3>2. r.kind # "CNAME"
      <4>1. r.kind = "CNAME" => r.value = "" /\ r.value \in HostNames
        BY <1>2, <3>1, RecordsAssumption DEF Valid
      <4> QED BY <4>1, RecordsAssumption
    <3>3. r.value = HostIP[r.kind]
      BY <1>2, <1>3, <3>1, <3>2, RecordsAssumption
    <3>4. Says("value") = {} \/ "" \in Says("value")
      BY <1>4, <2>2
    <3> QED BY <3>2, <3>3, <3>4
  <2> QED BY <2>1, <2>2
<1>7. \/ r.force \in {IsTrue(text) : text \in Says("force")}
      \/ Says("force") = {} /\ r.force = Flag(l, "force")
  <2>1. CASE own("force") = {}
    <3>1. r.force = Flag(l, "force")
      BY <1>2, <2>1, Zenon DEF Forced, own
    <3> QED BY <1>4, <2>1, <3>1, Zenon
  <2>2. CASE own("force") # {}
    <3>1. r.force = \E text \in own("force") : IsTrue(text)
      BY <1>2, <2>2, Zenon DEF Forced, own
    <3>2. \E text \in own("force") : r.force = IsTrue(text)
      <4>1. CASE \E text \in own("force") : IsTrue(text)
        <5>1. PICK text \in own("force") : IsTrue(text)
          BY <4>1
        <5>2. r.force = TRUE /\ IsTrue(text) = TRUE
          BY <3>1, <5>1, Zenon DEF IsTrue
        <5> QED BY <5>2, Zenon
      <4>2. CASE ~(\E text \in own("force") : IsTrue(text))
        <5>1. PICK text \in own("force") : TRUE
          BY <2>2
        <5>2. IsTrue(text) = FALSE
          BY <4>2, <5>1, SMT DEF IsTrue
        <5>3. r.force = FALSE
          BY <3>1, <4>2, Zenon
        <5> QED BY <5>1, <5>2, <5>3, Zenon
      <4> QED BY <4>1, <4>2
    <3> QED BY <1>4, <3>2, Zenon
  <2> QED BY <2>1, <2>2
<1>8. r.force \in BOOLEAN
  BY <1>2, Zenon DEF Forced, Flag, IsTrue
<1>9. slot.alias \in Aliases(l)
  BY <1>3 DEF Aliases
<1> QED BY <1>2, <1>5, <1>6, <1>7, <1>8, <1>9, Zenon DEF Labelled, Says

\* Two spellings of a label that contradict each other.
Contradict(l, k, m) ==
  /\ ParseKind(k[1]) = ParseKind(m[1])
  /\ Alias(k) = Alias(m) /\ Field(k) = Field(m) /\ l[k] # l[m]

\* A kind and alias have a valid value, or an address of the host for default.
HasValue(l, kind, alias) ==
  LET v == Said(l, kind, alias, "value") IN
  IF v \subseteq {""} THEN kind # "CNAME" /\ HostIP[kind] # ""
  ELSE v \subseteq IF kind = "CNAME" THEN HostNames ELSE IPTexts[kind]

\* A value that is not given is the address of the host, if it has one.
LEMMA ValueHeard ==
  ASSUME NEW l, NEW alias, NEW kind \in {"A", "AAAA", "CNAME"},
         \A x, y \in Said(l, kind, alias, "value") : x = y
  PROVE  (Value(kind, Said(l, kind, alias, "value"))
            \in IF kind = "CNAME" THEN HostNames ELSE IPTexts[kind])
         <=> HasValue(l, kind, alias)
<1> DEFINE own == Said(l, kind, alias, "value")
           valid == IF kind = "CNAME" THEN HostNames ELSE IPTexts[kind]
<1>0. HasValue(l, kind, alias) <=> IF own \subseteq {""} THEN kind # "CNAME" /\ HostIP[kind] # ""
                                  ELSE own \subseteq valid
  BY DEF HasValue
<1> HIDE DEF own
<1>a. \A x, y \in own : x = y
  BY DEF own
<1>1. "" \notin valid
  BY RecordsAssumption
<1>2. CASE own \subseteq {""}
  <2>1. Value(kind, own) = IF kind = "CNAME" THEN "" ELSE HostIP[kind]
    BY <1>2, RecordsAssumption DEF Value
  <2>2. kind # "CNAME" => HostIP[kind] \in valid \cup {""}
    BY RecordsAssumption
  <2> HIDE DEF valid
  <2>3. kind = "CNAME" => Value(kind, own) = ""
    BY <2>1
  <2>4. kind # "CNAME" => Value(kind, own) = HostIP[kind]
    BY <2>1
  <2>5. Value(kind, own) \in valid <=> kind # "CNAME" /\ HostIP[kind] # ""
    BY <1>1, <2>2, <2>3, <2>4
  <2> QED BY <1>0, <1>2, <2>5 DEF own, valid
<1>3. CASE ~(own \subseteq {""})
  <2>1. Value(kind, own) \in own
    BY <1>3 DEF Value
  <2>2. own = {Value(kind, own)}
    BY <1>a, <2>1
  <2>3. Value(kind, own) \in valid <=> own \subseteq valid
    BY <2>2
  <2> QED BY <1>0, <1>3, <2>3 DEF own, valid
<1> QED BY <1>2, <1>3

\* Without a contradiction a parse has all that the labels say, and a record is
\* built, and valid, for each name that the labels give a value.
LEMMA BuiltIffSaid ==
  ASSUME NEW host, NEW c, NEW age, NEW l, NEW parse \in Parses(l),
         \A k, m \in Setting(l) : ~Contradict(l, k, m)
  PROVE  {<<r.kind, r.name>> : r \in {x \in Built(Origin(host, c, age), l, parse) : Valid(x)}} =
         {<<ParseKind(k[1]), l[k]>> :
            k \in {m \in Setting(l) : /\ Field(m) = "name" /\ l[m] \in HostNames
                                      /\ HasValue(l, ParseKind(m[1]), Alias(m))}}
<1> DEFINE Rec(slot) == Intent(Origin(host, c, age), l, parse, slot)
           SaidNames == {m \in Setting(l) : /\ Field(m) = "name" /\ l[m] \in HostNames
                                            /\ HasValue(l, ParseKind(m[1]), Alias(m))}
<1>1. ASSUME NEW slot, NEW f
      PROVE  /\ Texts(l, parse, slot, f) = Said(l, slot.kind, slot.alias, f)
             /\ \A x, y \in Said(l, slot.kind, slot.alias, f) : x = y
  <2>1. \A x, y \in Said(l, slot.kind, slot.alias, f) : x = y
    BY DEF Said, Contradict
  <2>2. Texts(l, parse, slot, f) \subseteq Said(l, slot.kind, slot.alias, f)
    BY TextsSaid
  <2>3. Texts(l, parse, slot, f) = {} => Said(l, slot.kind, slot.alias, f) = {}
    BY TextsSaid
  <2> HIDE DEF Said
  <2> QED BY <2>1, <2>2, <2>3
<1>2. ASSUME NEW slot \in Named(parse), NEW k \in parse, k \in Setting(l), Field(k) = "name",
             slot.kind = ParseKind(k[1]), slot.alias = Alias(k),
             slot.kind \in {"A", "AAAA", "CNAME"}, l[k] \in Texts(l, parse, slot, "name")
      PROVE  /\ Rec(slot).kind = ParseKind(k[1]) /\ Rec(slot).name = l[k]
             /\ Valid(Rec(slot)) <=> k \in SaidNames
  <2>1. /\ Rec(slot).kind = slot.kind
        /\ Rec(slot).name = CHOOSE text \in Texts(l, parse, slot, "name") : TRUE
        /\ Rec(slot).value = Value(slot.kind, Texts(l, parse, slot, "value"))
    BY IntentFields
  <2> HIDE DEF Rec
  <2>2. Rec(slot).name = l[k]
    BY <1>1, <1>2, <2>1
  <2>3. (Value(slot.kind, Texts(l, parse, slot, "value"))
           \in IF slot.kind = "CNAME" THEN HostNames ELSE IPTexts[slot.kind])
        <=> HasValue(l, slot.kind, slot.alias)
    <3>1. \A x, y \in Said(l, slot.kind, slot.alias, "value") : x = y
      BY <1>1
    <3>2. Texts(l, parse, slot, "value") = Said(l, slot.kind, slot.alias, "value")
      BY <1>1
    <3> HIDE DEF Said
    <3>3. slot.kind \in {"A", "AAAA", "CNAME"}
      BY <1>2
    <3> QED BY <3>1, <3>2, <3>3, ValueHeard
  <2>4. Valid(Rec(slot)) <=> l[k] \in HostNames /\ HasValue(l, slot.kind, slot.alias)
    BY <2>1, <2>2, <2>3 DEF Valid
  <2> QED BY <1>2, <2>1, <2>2, <2>4
<1> HIDE DEF Rec, SaidNames
<1>3. ASSUME NEW slot \in Named(parse), Valid(Rec(slot))
      PROVE  \E k \in SaidNames : Rec(slot).kind = ParseKind(k[1]) /\ Rec(slot).name = l[k]
  BY <1>2, <1>3, NamedSlots
<1>4. ASSUME NEW m \in SaidNames
      PROVE  \E slot \in Named(parse) :
               Valid(Rec(slot)) /\ Rec(slot).kind = ParseKind(m[1]) /\ Rec(slot).name = l[m]
  <2>1. m \in Setting(l) /\ Field(m) = "name"
    BY DEF SaidNames
  <2>2. PICK k \in parse : Target(k) = Target(m)
    BY <2>1, ParsesCover
  <2>3. ParseKind(k[1]) = ParseKind(m[1]) /\ Alias(k) = Alias(m) /\ Field(k) = Field(m)
    BY <2>2 DEF Target
  <2>4. k \in Setting(l) /\ l[k] = l[m]
    BY <2>1, <2>3, ParsesCover DEF Contradict
  <2> DEFINE slot == [kind |-> Target(k).kind, alias |-> Target(k).alias]
  <2>5. slot \in Named(parse) /\ slot.kind = ParseKind(k[1]) /\ slot.alias = Alias(k)
    BY <2>1, <2>3 DEF Named, Target
  <2>6. slot.kind \in {"A", "AAAA", "CNAME"}
    BY <2>5, NamedSlots
  <2>7. l[k] \in Texts(l, parse, slot, "name")
    <3>1. l[k] \in Said(l, slot.kind, slot.alias, "name")
      BY <2>1, <2>3, <2>4, <2>5 DEF Said
    <3> QED BY <1>1, <3>1
  <2>8. k \in SaidNames
    BY <2>1, <2>3, <2>4 DEF SaidNames
  <2> HIDE DEF slot
  <2> QED BY <1>2, <2>1, <2>3, <2>4, <2>5, <2>6, <2>7, <2>8
<1>5. Built(Origin(host, c, age), l, parse) = {Rec(slot) : slot \in Named(parse)}
  BY DEF Built, Rec
<1>6. \A p : p \in {<<r.kind, r.name>> : r \in {x \in Built(Origin(host, c, age), l, parse) : Valid(x)}}
             <=> \E slot \in Named(parse) : Valid(Rec(slot)) /\ p = <<Rec(slot).kind, Rec(slot).name>>
  BY <1>5
<1>7. \A p : p \in {<<ParseKind(k[1]), l[k]>> : k \in SaidNames}
             <=> \E k \in SaidNames : p = <<ParseKind(k[1]), l[k]>>
  OBVIOUS
<1>8. {<<r.kind, r.name>> : r \in {x \in Built(Origin(host, c, age), l, parse) : Valid(x)}}
      = {<<ParseKind(k[1]), l[k]>> : k \in SaidNames}
  BY <1>3, <1>4, <1>6, <1>7
<1> QED BY <1>8 DEF SaidNames

-----------------------------------------------------------------------------
\* The choice among the intents of a host, in whatever order they come.

\* What Asked holds: times and flags.
Dated(S) == \A r \in S : r.created \in Nat /\ r.force \in BOOLEAN

\* No two rivals for a slot are of the same age and force.
Untied(S) == \A r, s \in S : r # s /\ SameSlot(r, s) => r.created # s.created \/ r.force # s.force

\* Forced first, then older: a strict order, total on the rivals for a slot.
LEMMA PriorOrder ==
  ASSUME NEW S, Dated(S), Untied(S)
  PROVE  /\ \A r, s \in S : Prior(r, s) <=> ShouldReplaceExisting(r, s)
         /\ \A r, s \in S : ~(Prior(r, s) /\ Prior(s, r))
         /\ \A r, s \in S : r # s /\ SameSlot(r, s) => Prior(r, s) \/ Prior(s, r)
         /\ \A r, s, t \in S : Prior(r, s) /\ Prior(s, t) => Prior(r, t)
<1>1. \A r, s \in S : Prior(r, s) <=> ShouldReplaceExisting(r, s)
  <2> SUFFICES ASSUME NEW r \in S, NEW s \in S PROVE Prior(r, s) <=> ShouldReplaceExisting(r, s)
    OBVIOUS
  <2>1. CASE r.force = s.force  BY <2>1 DEF Prior, ShouldReplaceExisting, Before
  <2>2. CASE r.force # s.force
    <3>1. r.force \in BOOLEAN /\ s.force \in BOOLEAN
      BY DEF Dated
    <3> QED BY <2>2, <3>1, Zenon DEF Prior, ShouldReplaceExisting, Before
  <2> QED BY <2>1, <2>2
<1>2. ASSUME NEW r \in S, NEW s \in S PROVE ~(Prior(r, s) /\ Prior(s, r))
  <2>1. CASE r.force = s.force  BY <2>1 DEF Prior, Dated
  <2>2. CASE r.force # s.force
    <3>1. r.force \in BOOLEAN /\ s.force \in BOOLEAN
      BY DEF Dated
    <3> QED BY <2>2, <3>1, Zenon DEF Prior
  <2> QED BY <2>1, <2>2
<1>3. ASSUME NEW r \in S, NEW s \in S, r # s, SameSlot(r, s) PROVE Prior(r, s) \/ Prior(s, r)
  <2>1. CASE r.force = s.force
    <3>1. r.created # s.created
      BY <1>3, <2>1 DEF Untied
    <3> QED BY <2>1, <3>1 DEF Prior, Dated
  <2>2. CASE r.force # s.force
    <3>1. r.force \in BOOLEAN /\ s.force \in BOOLEAN
      BY DEF Dated
    <3> QED BY <2>2, <3>1, Zenon DEF Prior
  <2> QED BY <2>1, <2>2
<1>4. ASSUME NEW r \in S, NEW s \in S, NEW t \in S, Prior(r, s), Prior(s, t) PROVE Prior(r, t)
  <2>1. CASE r.force = s.force /\ s.force = t.force
    BY <1>4, <2>1 DEF Prior, Dated
  <2>2. CASE r.force # s.force \/ s.force # t.force
    <3>1. r.force \in BOOLEAN /\ s.force \in BOOLEAN /\ t.force \in BOOLEAN
      BY DEF Dated
    <3> QED BY <1>4, <2>2, <3>1, Zenon DEF Prior
  <2> QED BY <2>1, <2>2
<1> QED BY <1>1, <1>2, <1>3, <1>4

\* kept has one record for each slot of S, the first of its rivals.
Best(kept, S) ==
  /\ kept \subseteq S
  /\ \A k, m \in kept : k # m => ~SameSlot(k, m)
  /\ \A r \in S : \E k \in kept : SameSlot(k, r) /\ (k = r \/ Prior(k, r))

\* Insert keeps the best of what came.
LEMMA InsertKeepsBest ==
  ASSUME NEW S, Dated(S), Untied(S), NEW T \in SUBSET S, NEW new \in S, NEW kept, Best(kept, T)
  PROVE  Best(Insert(kept, new), T \cup {new})
<1> DEFINE rivals == {r \in kept : SameSlot(r, new)}
<1>1. /\ \A r, s : SameSlot(r, s) => SameSlot(s, r)
      /\ \A r, s, t : SameSlot(r, s) /\ SameSlot(s, t) => SameSlot(r, t)
      /\ \A r : SameSlot(r, r)
  BY DEF SameSlot, IsCNAME
<1>2. kept \subseteq S
  BY DEF Best
<1>3. CASE \A r \in rivals : ShouldReplaceExisting(new, r)
  <2>1. Insert(kept, new) = (kept \ rivals) \cup {new}
    BY <1>3 DEF Insert
  <2>2. ASSUME NEW r \in T PROVE \E k \in Insert(kept, new) : SameSlot(k, r) /\ (k = r \/ Prior(k, r))
    <3>1. PICK k \in kept : SameSlot(k, r) /\ (k = r \/ Prior(k, r))
      BY DEF Best
    <3>2. CASE k \in rivals
      <4>1. Prior(new, k)
        BY <1>2, <1>3, <3>2, PriorOrder
      <4>2. Prior(new, r)
        BY <1>2, <3>1, <4>1, PriorOrder
      <4> QED BY <1>1, <2>1, <3>1, <3>2, <4>2
    <3> QED BY <2>1, <3>1, <3>2
  <2> QED BY <1>1, <2>1, <2>2 DEF Best
<1>4. CASE ~(\A r \in rivals : ShouldReplaceExisting(new, r))
  <2>1. Insert(kept, new) = kept
    BY <1>4 DEF Insert
  <2>2. PICK k \in rivals : ~ShouldReplaceExisting(new, k)
    BY <1>4
  <2>3. k = new \/ Prior(k, new)
    BY <1>1, <1>2, <2>2, PriorOrder
  <2> QED BY <1>1, <2>1, <2>2, <2>3 DEF Best
<1> QED BY <1>3, <1>4

\* The records that come before all their rivals.
Slots(S) == {r \in S : \A s \in S : r # s /\ SameSlot(r, s) => Prior(r, s)}

\* There is no choice: the best of a set are the first in their slots.
LEMMA BestAreSlots ==
  ASSUME NEW S, Dated(S), Untied(S), NEW kept, Best(kept, S)
  PROVE  kept = Slots(S)
<1>1. /\ \A r, s : SameSlot(r, s) => SameSlot(s, r)
      /\ \A r, s, t : SameSlot(r, s) /\ SameSlot(s, t) => SameSlot(r, t)
  BY DEF SameSlot, IsCNAME
<1>2. ASSUME NEW k \in kept, NEW s \in S, k # s, SameSlot(k, s) PROVE Prior(k, s)
  <2>1. PICK m \in kept : SameSlot(m, s) /\ (m = s \/ Prior(m, s))
    BY DEF Best
  <2>2. m = k
    BY <1>1, <1>2, <2>1 DEF Best
  <2> QED BY <1>2, <2>1, <2>2
<1>3. ASSUME NEW r \in Slots(S) PROVE r \in kept
  <2>1. PICK k \in kept : SameSlot(k, r) /\ (k = r \/ Prior(k, r))
    BY DEF Best, Slots
  <2>2. k \in S /\ r \in S
    BY DEF Best, Slots
  <2>3. k # r => Prior(r, k)
    BY <1>1, <2>1, <2>2 DEF Slots
  <2> QED BY <2>1, <2>2, <2>3, PriorOrder
<1> QED BY <1>2, <1>3 DEF Best, Slots

\* The loop over the intents keeps the best of them, in whatever order they come.
LEMMA FoldKeepsBest ==
  ASSUME NEW X, NEW intents \in Seq(X), Dated(ToSet(intents)), Untied(ToSet(intents))
  PROVE  Best(FoldLeft(Insert, {}, intents), ToSet(intents))
<1>1. PICK g : /\ g = [i \in 0..Len(intents) |->
                         IF i = 0 THEN {} ELSE Insert(g[i - 1], intents[i])]
               /\ FoldLeft(Insert, {}, intents) = g[Len(intents)]
  BY FoldRecursion
<1> DEFINE Came(i) == {intents[j] : j \in 1..i}
           P == {i \in Nat : i <= Len(intents) => Best(g[i], Came(i))}
<1>2. 0 \in P
  <2>1. g[0] = {} /\ Came(0) = {}
    BY <1>1
  <2> QED BY <2>1 DEF Best
<1>3. ASSUME NEW i \in Nat, i \in P
      PROVE  i + 1 \in P
  <2> SUFFICES ASSUME i + 1 <= Len(intents) PROVE Best(g[i + 1], Came(i + 1))
    OBVIOUS
  <2>1. g[i + 1] = Insert(g[i], intents[i + 1])
    <3>1. i + 1 \in 0..Len(intents) /\ i + 1 # 0 /\ (i + 1) - 1 = i
      OBVIOUS
    <3> QED BY <1>1, <3>1
  <2>2. Best(g[i], Came(i))
    BY <1>3
  <2>3. intents[i + 1] \in ToSet(intents) /\ Came(i) \subseteq ToSet(intents)
    BY DEF ToSet
  <2>4. Came(i + 1) = Came(i) \cup {intents[i + 1]}
    OBVIOUS
  <2> HIDE DEF Came
  <2> QED BY <2>1, <2>2, <2>3, <2>4, InsertKeepsBest
<1>4. Len(intents) \in P
  <2>1. Len(intents) \in Nat
    OBVIOUS
  <2> HIDE DEF P
  <2> QED BY <1>2, <1>3, <2>1, NatSetInduction
<1>5. Came(Len(intents)) = ToSet(intents)
  BY DEF ToSet
<1> HIDE DEF Came
<1> QED BY <1>1, <1>4, <1>5

\* ChooseKind, on the best of the intents, is the choice between the CNAME of a
\* name and all of its addresses by the same order.
LEMMA ChooseKindByOrder ==
  ASSUME NEW S, Dated(S), Untied(S)
  PROVE  ChooseKind(Slots(S)) = Survivors(S)
<1> DEFINE slots == Slots(S)
           Wins(n) == \E c \in CNAMEs(slots, n) : \A a \in Addresses(slots, n) : Prior(c, a)
<1>1. Survivors(S) = {r \in slots : IsCNAME(r) <=> Wins(r.name)}
  BY DEF Survivors, Slots
<1>2. slots \subseteq S /\ \A r, s \in slots : r # s => ~SameSlot(r, s)
  <2>1. ASSUME NEW r \in slots, NEW s \in slots, r # s, SameSlot(r, s) PROVE FALSE
    <3>1. SameSlot(s, r)
      BY <2>1 DEF SameSlot, IsCNAME
    <3> QED BY <2>1, <3>1, PriorOrder DEF Slots
  <2> QED BY <2>1 DEF Slots
<1>3. ASSUME NEW c \in slots, NEW n
      PROVE  ShouldReplaceAllExisting(c, Addresses(slots, n)) <=> \A a \in Addresses(slots, n) : Prior(c, a)
  <2>1. Addresses(slots, n) \subseteq S
    BY <1>2 DEF Addresses, At
  <2> HIDE DEF slots
  <2>2. ASSUME NEW a \in Addresses(slots, n)
        PROVE  Prior(c, a) <=> IF c.force THEN a.force => Before(c, a) ELSE ~a.force /\ Before(c, a)
    <3>1. c.force \in BOOLEAN /\ a.force \in BOOLEAN
      BY <1>2, <2>1 DEF Dated
    <3> QED BY <3>1, Zenon DEF Prior, Before
  <2>3. CASE c.force
    BY <2>2, <2>3, Zenon DEF ShouldReplaceAllExisting
  <2>4. CASE ~c.force
    BY <2>2, <2>4, Zenon DEF ShouldReplaceAllExisting
  <2> QED BY <2>3, <2>4
<1>4. \A r, c \in slots : IsCNAME(r) /\ IsCNAME(c) /\ r.name = c.name => r = c
  BY <1>2 DEF SameSlot, IsCNAME
<1> HIDE DEF slots
<1>5. ASSUME NEW r \in slots, IsCNAME(r)
      PROVE  ShouldReplaceAllExisting(r, Addresses(slots, r.name)) <=> Wins(r.name)
  BY <1>3, <1>4, <1>5 DEF CNAMEs, At
<1>6. ASSUME NEW r \in slots, ~IsCNAME(r)
      PROVE  (\A c \in CNAMEs(slots, r.name) : ~ShouldReplaceAllExisting(c, Addresses(slots, r.name)))
             <=> ~Wins(r.name)
  BY <1>3 DEF CNAMEs, At
<1> HIDE DEF Wins
<1>7. ChooseKind(slots) = {r \in slots : IsCNAME(r) <=> Wins(r.name)}
  BY <1>5, <1>6 DEF ChooseKind
<1> QED BY <1>1, <1>7 DEF slots

\* Every name that is asked for survives, with its CNAME or with an address.
LEMMA NoNameLost ==
  ASSUME NEW S, Dated(S), Untied(S), NEW kept, Best(kept, S)
  PROVE  {r.name : r \in Survivors(S)} = {r.name : r \in S}
<1> DEFINE Wins(n) == \E c \in CNAMEs(kept, n) : \A a \in Addresses(kept, n) : Prior(c, a)
<1>1. kept = Slots(S)
  BY BestAreSlots
<1>2. Survivors(S) = {r \in kept : IsCNAME(r) <=> Wins(r.name)}
  BY <1>1 DEF Survivors, Slots
<1>3. ASSUME NEW r \in S PROVE \E s \in Survivors(S) : s.name = r.name
  <2>1. PICK k \in kept : SameSlot(k, r)
    BY DEF Best
  <2>2. k.name = r.name
    BY <2>1 DEF SameSlot
  <2>3. CASE Wins(r.name)
    BY <1>2, <2>3 DEF CNAMEs, At
  <2>4. CASE ~Wins(r.name) /\ ~IsCNAME(k)
    BY <1>2, <2>2, <2>4
  <2>5. CASE ~Wins(r.name) /\ IsCNAME(k)
    <3>1. k \in CNAMEs(kept, r.name)
      BY <2>2, <2>5 DEF CNAMEs, At
    <3>2. PICK a \in Addresses(kept, r.name) : ~Prior(k, a)
      BY <2>5, <3>1
    <3>3. a \in kept /\ a.name = r.name /\ ~IsCNAME(a)
      BY <3>2 DEF Addresses, At, IsAddress, IsCNAME
    <3> QED BY <1>2, <2>5, <3>3
  <2> QED BY <2>3, <2>4, <2>5
<1>4. Survivors(S) \subseteq S
  BY <1>2 DEF Best
<1> QED BY <1>3, <1>4

-----------------------------------------------------------------------------
\* The passes.

\* The inductive invariant: what the tracker and List return are lists, and the
\* registry is consistent and says nothing twice.
TrackedLists == \A c \in Containers : tracked[c] \in Seq(ToSet(tracked[c]))
PassesInv ==
  /\ TrackedLists
  /\ actual \in Seq(ToSet(actual)) /\ IsInjective(actual)
  /\ Consistent(ToSet(actual))

\* GetAllDesiredRecordIntents loses no intent of any container and adds none.
LEMMA DesiredContents ==
  ASSUME TrackedLists, NEW intents \in GetAllDesiredRecordIntents
  PROVE  intents \in Seq(Asked) /\ ToSet(intents) = Asked
<1>1. PICK order \in SetToSeqs(Containers) :
        intents = FlattenSeq([i \in DOMAIN order |-> tracked[order[i]]])
  BY DEF GetAllDesiredRecordIntents
<1>2. order \in Seq(Containers) /\ ToSet(order) = Containers
  BY PassesAssumption, OrderContents
<1> DEFINE lists == [i \in DOMAIN order |-> tracked[order[i]]]
<1>3. \A i \in DOMAIN order : order[i] \in Containers /\ tracked[order[i]] \in Seq(Asked)
  <2>1. \A c \in Containers : ToSet(tracked[c]) \subseteq Asked
    BY DEF Asked
  <2> QED BY <1>2, <2>1 DEF TrackedLists
<1>4. lists \in Seq(Seq(Asked)) /\ DOMAIN lists = DOMAIN order
  <2>1. DOMAIN order = 1..Len(order)
    BY <1>2
  <2> HIDE DEF lists
  <2> QED BY <1>2, <1>3, <2>1 DEF lists
<1>5. UNION {ToSet(lists[i]) : i \in DOMAIN lists} = Asked
  <2>1. \A c \in Containers : \E i \in DOMAIN order : order[i] = c
    BY <1>2 DEF ToSet
  <2>2. \A i \in DOMAIN lists : lists[i] = tracked[order[i]] /\ order[i] \in Containers
    BY <1>3
  <2> HIDE DEF lists
  <2>3. ASSUME NEW x \in Asked PROVE \E i \in DOMAIN lists : x \in ToSet(lists[i])
    <3>1. PICK c \in Containers : x \in ToSet(tracked[c])
      BY DEF Asked
    <3>2. PICK i \in DOMAIN order : order[i] = c
      BY <2>1
    <3> QED BY <1>4, <2>2, <3>1, <3>2
  <2>4. \A i \in DOMAIN lists : ToSet(lists[i]) \subseteq Asked
    BY <2>2 DEF Asked
  <2> QED BY <2>3, <2>4
<1> HIDE DEF lists
<1> QED BY <1>1, <1>4, <1>5, FlattenContents DEF lists

\* What a pass wants is consistent and asked for, and its plan is sound.
LEMMA PassPlans ==
  ASSUME PassesInv, Pass
  PROVE  /\ desired' \subseteq Asked /\ IsFiniteSet(desired') /\ Consistent(desired')
         /\ plan' \in SoundPlans(Me, desired', actual, dead)
<1>1. PICK intents \in GetAllDesiredRecordIntents :
        desired' = FilterRecordIntents(intents) /\ plan' \in Plans(desired')
  BY DEF Pass
<1>2. intents \in Seq(Asked) /\ ToSet(intents) = Asked
  BY DesiredContents DEF PassesInv
<1>3. desired' \subseteq Asked /\ Consistent(desired')
  BY <1>1, <1>2, FilterSound
<1>4. IsFiniteSet(desired')
  BY <1>2, <1>3, ListFinite, FS_Subset
<1>5. plan' \in SoundPlans(Me, desired', actual, dead)
  BY <1>1, <1>4, PlanSound DEF PassesInv, Plans
<1> QED BY <1>3, <1>4, <1>5

\* What a pass leaves: what it does not remove, and what it adds, each once.
LEMMA PassWrites ==
  ASSUME PassesInv, Pass
  PROVE  /\ ToSet(actual') = {r \in ToSet(actual) : Key(r) \notin plan'.rem} \cup plan'.add
         /\ actual' \in Seq(ToSet(actual')) /\ IsInjective(actual')
<1> DEFINE rest == {r \in ToSet(actual) : Key(r) \notin plan'.rem}
           kept == Only(actual, rest)
           added == SetToSeq(plan'.add)
           X == rest \cup plan'.add
<1>1. plan'.add \subseteq desired' /\ IsFiniteSet(plan'.add)
  BY PassPlans, FS_Subset DEF SoundPlans
<1>2. kept \in Seq(ToSet(actual)) /\ ToSet(kept) = rest /\ IsInjective(kept)
  BY OnlyContents DEF PassesInv
<1>3. added \in Seq(plan'.add) /\ ToSet(added) = plan'.add /\ IsInjective(added)
  BY <1>1, SetToSeqContents
<1>4. actual' = kept \o added
  BY DEF Pass, Applied
<1>5. rest \cap plan'.add = {}
  BY PassPlans DEF SoundPlans, Fits, SameRecord
<1>6. kept \in Seq(X) /\ added \in Seq(X)
  <2>1. kept \in Seq(rest)
    <3> HIDE DEF kept, rest
    <3> QED BY <1>2, ListOfItsElements
  <2> HIDE DEF kept, added, rest
  <2> QED BY <1>3, <2>1
<1> HIDE DEF kept, added, rest
<1>7. ToSet(actual') = X /\ actual' \in Seq(X)
  BY <1>2, <1>3, <1>4, <1>6, ConcatContents
<1>8. IsInjective(actual')
  BY <1>2, <1>3, <1>4, <1>5, <1>6, ConcatInjective
<1> QED BY <1>7, <1>8 DEF rest

\* The registry is consistent at first, by assumption.
LEMMA PassesInvInit == Init => PassesInv
<1> SUFFICES ASSUME Init PROVE PassesInv
  OBVIOUS
<1>1. PICK universe \in Universes : \E age \in universe.ages :
        LET left == IntentsOf(Me, {Former}, age, universe.left)
                    \cup IntentsOf(Peer, PeerContainers, age, universe.left)
            registries == {A \in SetsUpTo(left, MaxActual) : Consistent(A) /\ NoCycle(A)}
        IN /\ labels \in universe.labels
           /\ LET Heard(c) == GetContainerRecordIntents(Origin(Me, c, age), labels[c]) IN
              tracked \in {t \in [Containers -> UNION {Heard(c) : c \in Containers}] :
                             \A c \in Containers : t[c] \in Heard(c)}
           /\ \E A \in registries :
                /\ actual = SetToSeq(A)
                /\ dead \in {{}} \cup {{r.host} : r \in {x \in A : x.host = Peer}}
  BY DEF Init
<1>2. PICK age \in universe.ages :
        /\ labels \in universe.labels
        /\ \A c \in Containers : tracked[c] \in GetContainerRecordIntents(Origin(Me, c, age), labels[c])
        /\ \E left : \E A \in SetsUpTo(left, MaxActual) : Consistent(A) /\ actual = SetToSeq(A)
  BY <1>1
<1>3. TrackedLists
  BY <1>1, <1>2, PassesAssumption, HeardContents DEF TrackedLists
<1>4. PICK left : \E A \in SetsUpTo(left, MaxActual) : Consistent(A) /\ actual = SetToSeq(A)
  BY <1>2
<1>5. PICK A \in SetsUpTo(left, MaxActual) : Consistent(A) /\ actual = SetToSeq(A)
  BY <1>4
<1>6. IsFiniteSet(A)
  BY PassesAssumption, SetsFinite
<1> QED BY <1>3, <1>5, <1>6, SetToSeqContents DEF PassesInv

\* A pass adds records that fit each other and fit what it leaves.
LEMMA PassesInvNext == PassesInv /\ [Next]_vars => PassesInv'
<1> SUFFICES ASSUME PassesInv, [Next]_vars PROVE PassesInv'
  OBVIOUS
<1>1. CASE UNCHANGED vars
  BY <1>1 DEF PassesInv, TrackedLists, vars
<1>2. CASE Pass
  <2>1. TrackedLists'
    BY <1>2 DEF PassesInv, TrackedLists, Pass
  <2>2. Consistent(ToSet(actual'))
    <3>1. \A d \in plan'.add, r \in ToSet(actual) : Key(r) \notin plan'.rem => Fits(d, r)
      BY <1>2, PassPlans DEF SoundPlans
    <3>2. plan'.add \subseteq desired' /\ Consistent(desired') /\ Consistent(ToSet(actual))
      BY <1>2, PassPlans DEF SoundPlans, PassesInv
    <3> QED BY <1>2, PassWrites, <3>1, <3>2 DEF Consistent, Fits, SameRecord
  <2> QED BY <1>2, <2>1, <2>2, PassWrites DEF PassesInv
<1> QED BY <1>1, <1>2 DEF Next

\* The invariant of the passes (SyncEngine.Run without other hosts and failures).
THEOREM PassesInvariant == Spec => []PassesInv
BY PassesInvInit, PassesInvNext, PTL DEF Spec

\* No pass of a single host ever puts a CNAME beside another record of its name, or
\* a record twice (FilterRecordIntents, ValidateRecord): however many containers
\* ask for the name, and in whatever order the maps are iterated.
THEOREM ConsistencyKept == Spec => []StaysConsistent
<1>1. PassesInv => StaysConsistent
  BY InjectiveLength DEF PassesInv, StaysConsistent
<1> QED BY <1>1, PassesInvariant, PTL

\* A pass removes a record only if it is stale, of this host or of a dead one, or if
\* a record it adds at the same name is forced or older (ReconcileAndValidate).
THEOREM EvictionsAreJustified == Spec => EvictionsJustified
<1>1. ASSUME PassesInv, [Next]_vars
      PROVE  [\A r \in ToSet(actual) :
                Key(r) \in plan'.rem =>
                  \/ Stale(Me, desired', dead, r)
                  \/ \E d \in plan'.add : d.name = r.name /\ (d.force \/ Before(d, r))]_vars
  <2>1. CASE Pass
    BY <1>1, <2>1, PassPlans, EvictionJustified DEF PassesInv
  <2>2. CASE UNCHANGED vars
    BY <2>2
  <2> QED BY <1>1, <2>1, <2>2 DEF Next
<1> QED BY <1>1, PassesInvariant, PTL DEF Spec, EvictionsJustified

\* A record of this host that its containers still ask for survives every pass.
THEOREM WantedStayForGood == Spec => WantedRecordsStay
<1>1. ASSUME PassesInv, [Next]_vars
      PROVE  [\A d \in desired', r \in ToSet(actual) :
                Key(r) = Key(d) => r \in ToSet(actual')]_vars
  <2>1. CASE Pass
    <3> SUFFICES ASSUME NEW d \in desired', NEW r \in ToSet(actual), Key(r) = Key(d)
                 PROVE  r \in ToSet(actual')
      OBVIOUS
    <3>1. Key(d) \notin plan'.rem
      BY <1>1, <2>1, PassPlans, WantedStay DEF PassesInv
    <3> QED BY <1>1, <2>1, <3>1, PassWrites
  <2>2. CASE UNCHANGED vars
    BY <2>2
  <2> QED BY <1>1, <2>1, <2>2 DEF Next
<1> QED BY <1>1, PassesInvariant, PTL DEF Spec, WantedRecordsStay

\* After a pass no record of this host, or of a dead one, is left that no container
\* asks for (the stale records come first in ReconcileAndValidate).
THEOREM StaleIsGone == Spec => []StaleGone
<1>1. Init => StaleGone
  BY DEF Init, StaleGone
<1>2. ASSUME PassesInv, StaleGone, [Next]_vars
      PROVE  StaleGone'
  <2>1. CASE Pass
    <3> SUFFICES ASSUME NEW r \in ToSet(actual'), r.host \in {Me} \cup dead
                 PROVE  Key(r) \in {Key(d) : d \in desired'}
      BY <2>1 DEF StaleGone, Pass
    <3>1. CASE r \in plan'.add
      BY <1>2, <2>1, <3>1, PassPlans DEF SoundPlans
    <3>2. CASE r \in ToSet(actual) /\ Key(r) \notin plan'.rem
      BY <1>2, <2>1, <3>2, PassPlans DEF SoundPlans, StaleKeys, Stale
    <3> QED BY <1>2, <2>1, <3>1, <3>2, PassWrites
  <2>2. CASE UNCHANGED vars
    BY <1>2, <2>2 DEF StaleGone, vars
  <2> QED BY <1>2, <2>1, <2>2 DEF Next
<1> QED BY <1>1, <1>2, PassesInvariant, PTL DEF Spec

-----------------------------------------------------------------------------
\* From the labels to the registry.

\* The tracker has what was read of the labels, the labels do not change, and a
\* pass wants nothing else.
TrackedHeard ==
  \E age \in [Containers \cup PeerContainers -> Nat] : \A c \in Containers :
    /\ IsFiniteSet(DOMAIN labels[c])
    /\ tracked[c] \in GetContainerRecordIntents(Origin(Me, c, age), labels[c])
HeardInv == TrackedHeard /\ (passes > 0 => desired \subseteq Asked)

\* handleEvent reads the labels once, a pass writes what FilterRecordIntents keeps.
LEMMA HeardInvariant == Spec => []HeardInv
<1>1. Init => HeardInv
  <2> SUFFICES ASSUME Init PROVE HeardInv
    OBVIOUS
  <2>1. PICK universe \in Universes : \E age \in universe.ages :
          /\ labels \in universe.labels
          /\ \A c \in Containers : tracked[c] \in GetContainerRecordIntents(Origin(Me, c, age), labels[c])
    BY DEF Init
  <2>2. PICK age \in universe.ages :
          /\ labels \in universe.labels
          /\ \A c \in Containers : tracked[c] \in GetContainerRecordIntents(Origin(Me, c, age), labels[c])
    BY <2>1
  <2>3. age \in [Containers \cup PeerContainers -> Nat] /\ \A c \in Containers : IsFiniteSet(DOMAIN labels[c])
    BY <2>2, PassesAssumption
  <2> QED BY <2>2, <2>3 DEF HeardInv, TrackedHeard, Init
<1>2. PassesInv /\ HeardInv /\ [Next]_vars => HeardInv'
  <2> SUFFICES ASSUME PassesInv, HeardInv, [Next]_vars PROVE HeardInv'
    OBVIOUS
  <2>1. UNCHANGED <<labels, tracked>>
    BY DEF Next, Pass, vars
  <2>2. TrackedHeard' /\ Asked' = Asked
    BY <2>1 DEF HeardInv, TrackedHeard, Asked
  <2>3. CASE Pass
    BY <2>2, <2>3, PassPlans DEF HeardInv
  <2>4. CASE UNCHANGED vars
    BY <2>2, <2>4 DEF HeardInv, vars
  <2> QED BY <2>2, <2>3, <2>4 DEF Next
<1> QED BY <1>1, <1>2, PassesInvariant, PTL DEF Spec

\* What is asked for is of a container of this host that is enabled, and its labels
\* say it.
LEMMA AskedAsLabelled ==
  ASSUME TrackedHeard, NEW r \in Asked
  PROVE  /\ r.id \in Containers /\ Flag(labels[r.id], "enabled") /\ Labelled(labels[r.id], r)
         /\ r.created \in Nat /\ r.force \in BOOLEAN
<1>1. PICK age \in [Containers \cup PeerContainers -> Nat] : \A c \in Containers :
        /\ IsFiniteSet(DOMAIN labels[c])
        /\ tracked[c] \in GetContainerRecordIntents(Origin(Me, c, age), labels[c])
  BY DEF TrackedHeard
<1>2. PICK c \in Containers : r \in ToSet(tracked[c])
  BY DEF Asked
<1>3. Flag(labels[c], "enabled")
  <2>1. tracked[c] # <<>>
    BY <1>2 DEF ToSet
  <2> QED BY <1>1, <2>1, HeardContents
<1>4. PICK parse \in Parses(labels[c]) :
        ToSet(tracked[c]) = {x \in Built(Origin(Me, c, age), labels[c], parse) : Valid(x)}
  BY <1>1, <1>3, HeardContents
<1>5. /\ r.id = c /\ r.created = age[c] /\ r.force \in BOOLEAN
      /\ Labelled(labels[c], r)
  BY <1>2, <1>4, BuiltAsLabelled
<1> QED BY <1>1, <1>3, <1>5

\* After a pass every record of this host in the registry says what the labels of
\* its container say (ParseLabels, GetContainerRecordIntents, ReconcileAndValidate).
THEOREM RegistrySaysLabels == Spec => []RegistryAsLabelled
<1>1. HeardInv /\ StaleGone => RegistryAsLabelled
  <2> SUFFICES ASSUME HeardInv, StaleGone, passes > 0,
                      NEW r \in ToSet(actual), r.host = Me
               PROVE  Flag(labels[r.id], "enabled") /\ Labelled(labels[r.id], r)
    BY Zenon DEF RegistryAsLabelled, Labelled
  <2>1. PICK d \in desired : Key(r) = Key(d)
    BY DEF StaleGone
  <2>2. /\ r.id = d.id /\ r.kind = d.kind /\ r.name = d.name /\ r.value = d.value
        /\ r.force = d.force
    BY <2>1 DEF Key
  <2>3. Flag(labels[d.id], "enabled") /\ Labelled(labels[d.id], d)
    BY AskedAsLabelled DEF HeardInv
  <2> QED BY <2>2, <2>3, Zenon DEF Labelled
<1> QED BY <1>1, HeardInvariant, StaleIsGone, PTL

\* No record is lost between the labels and the tracker, and none is made up
\* (ParseLabels and GetContainerRecordIntents, whatever the order of the labels).
THEOREM LabelsAreHeard == Spec => []LabelsHeard
<1>1. HeardInv => LabelsHeard
  <2> SUFFICES ASSUME HeardInv, NEW c \in Containers, Flag(labels[c], "enabled"),
                      \A k, m \in Setting(labels[c]) : ~Contradict(labels[c], k, m)
               PROVE  {<<r.kind, r.name>> : r \in ToSet(tracked[c])} =
                      {<<ParseKind(k[1]), labels[c][k]>> :
                         k \in {m \in Setting(labels[c]) :
                                  /\ Field(m) = "name" /\ labels[c][m] \in HostNames
                                  /\ HasValue(labels[c], ParseKind(m[1]), Alias(m))}}
    BY Zenon DEF LabelsHeard, Contradict, HasValue
  <2>1. PICK age \in [Containers \cup PeerContainers -> Nat] :
          /\ IsFiniteSet(DOMAIN labels[c])
          /\ tracked[c] \in GetContainerRecordIntents(Origin(Me, c, age), labels[c])
    BY DEF HeardInv, TrackedHeard
  <2>2. PICK parse \in Parses(labels[c]) :
          ToSet(tracked[c]) = {x \in Built(Origin(Me, c, age), labels[c], parse) : Valid(x)}
    BY <2>1, HeardContents
  <2> QED BY <2>2, BuiltIffSaid
<1> QED BY <1>1, HeardInvariant, PTL

\* Unless two rivals are of the same age, the order of a map iteration decides
\* nothing in FilterRecordIntents, and no name is lost to a conflict.
THEOREM OrderDoesNotMatter == Spec => []FilterIndependentOfOrder
<1>1. PassesInv /\ HeardInv => FilterIndependentOfOrder
  <2> SUFFICES ASSUME PassesInv, HeardInv, Untied(Asked),
                      NEW intents \in GetAllDesiredRecordIntents
               PROVE  /\ FilterRecordIntents(intents) = Survivors(Asked)
                      /\ {r.name : r \in Survivors(Asked)} = {r.name : r \in Asked}
    BY DEF FilterIndependentOfOrder, Untied
  <2>1. Dated(Asked)
    BY AskedAsLabelled DEF Dated, HeardInv
  <2>2. intents \in Seq(Asked) /\ ToSet(intents) = Asked
    BY DesiredContents DEF PassesInv
  <2> DEFINE kept == FoldLeft(Insert, {}, intents)
  <2>3. Best(kept, Asked)
    BY <2>1, <2>2, FoldKeepsBest
  <2>4. FilterRecordIntents(intents) = ChooseKind(kept)
    BY Zenon DEF FilterRecordIntents
  <2> HIDE DEF kept
  <2>5. FilterRecordIntents(intents) = Survivors(Asked)
    BY <2>1, <2>3, <2>4, BestAreSlots, ChooseKindByOrder
  <2> QED BY <2>1, <2>3, <2>5, NoNameLost
<1> QED BY <1>1, PassesInvariant, HeardInvariant, PTL

-----------------------------------------------------------------------------
\* The cycle check.

\* The names of C point at each other.
Loop(S, C) ==
  C # {} /\ \A n \in C : \E r \in S : IsCNAME(r) /\ r.name = n /\ r.value \in C

\* In a consistent registry each CNAME is the only one of its name.
LEMMA NoLoop ==
  ASSUME NEW S, Consistent(S)
  PROVE  NoCycle(S) <=> \A C : ~Loop(S, C)
<1> DEFINE cnames == {r \in S : IsCNAME(r)}
           target == [n \in {r.name : r \in cnames} |-> (CHOOSE r \in cnames : r.name = n).value]
<1>1. NoCycle(S) <=> \A n \in DOMAIN target : ~RunsInCircles(target, n)
  BY DEF NoCycle
<1>2. \A r, s \in cnames : r.name = s.name => r = s
  BY DEF Consistent, Fits
<1>3. DOMAIN target = {r.name : r \in cnames}
  OBVIOUS
<1>4. ASSUME NEW r \in cnames PROVE target[r.name] = r.value
  <2> HIDE DEF cnames
  <2>1. (CHOOSE s \in cnames : s.name = r.name) = r
    BY <1>2
  <2> QED BY <2>1
<1> HIDE DEF target
<1>5. ASSUME NEW C, Loop(S, C) PROVE \E n \in DOMAIN target : RunsInCircles(target, n)
  <2>1. \A n \in C : \E r \in cnames : r.name = n /\ r.value \in C
    BY <1>5 DEF Loop
  <2>2. PICK n : n \in C
    BY <1>5 DEF Loop
  <2> HIDE DEF cnames
  <2>3. C \subseteq DOMAIN target /\ \A m \in C : target[m] \in C
    BY <1>3, <1>4, <2>1
  <2> QED BY <2>2, <2>3 DEF RunsInCircles
<1>6. ASSUME NEW n \in DOMAIN target, RunsInCircles(target, n) PROVE \E C : Loop(S, C)
  <2>1. PICK C \in SUBSET DOMAIN target : n \in C /\ \A m \in C : target[m] \in C
    BY <1>6 DEF RunsInCircles
  <2>2. \A m \in C : \E r \in cnames : r.name = m /\ r.value \in C
    BY <1>3, <1>4, <2>1
  <2> QED BY <2>1, <2>2 DEF Loop
<1> QED BY <1>1, <1>5, <1>6

\* A plan with no more than one CNAME to add closes no cycle.
LEMMA OneAliasAdded ==
  ASSUME PassesInv, Pass, NoCycle(ToSet(actual)), Cardinality({d \in plan'.add : IsCNAME(d)}) <= 1
  PROVE  NoCycle(ToSet(actual'))
<1> DEFINE rest == {r \in ToSet(actual) : Key(r) \notin plan'.rem}
<1>1. Consistent(ToSet(actual)) /\ Consistent(ToSet(actual')) /\ ToSet(actual') = rest \cup plan'.add
  BY PassWrites, PassesInvNext DEF PassesInv, Next
<1>2. SUFFICES ASSUME NEW C, Loop(ToSet(actual'), C) PROVE FALSE
  BY <1>1, NoLoop
<1>3. ~Loop(ToSet(actual), C)
  BY <1>1, NoLoop
<1>4. PICK d \in plan'.add : IsCNAME(d) /\ d.name \in C /\ d.value \in C
  <2>1. PICK n \in C : ~(\E r \in ToSet(actual) : IsCNAME(r) /\ r.name = n /\ r.value \in C)
    BY <1>2, <1>3 DEF Loop
  <2>2. PICK r \in ToSet(actual') : IsCNAME(r) /\ r.name = n /\ r.value \in C
    BY <1>2 DEF Loop
  <2> QED BY <1>1, <2>1, <2>2
<1>5. \A e \in plan'.add : IsCNAME(e) => e = d
  <2>1. IsFiniteSet({e \in plan'.add : IsCNAME(e)})
    BY PassPlans, FS_Subset DEF SoundPlans
  <2> QED BY <1>4, <2>1, AtMostOne
<1>6. \A n \in C : n # d.name => \E r \in rest : IsCNAME(r) /\ r.name = n /\ r.value \in C
  BY <1>1, <1>2, <1>5 DEF Loop
<1>7. PICK E \in SUBSET plan'.rem : ValidateRecord(d, Without(actual, E))
  <2>1. plan' \in Plans(desired') /\ IsFiniteSet(desired')
    BY PassPlans DEF Pass
  <2>2. plan' \in CheckedPlans(desired', actual)
    BY <2>1, PlansChecked DEF Plans, PassesInv
  <2> QED BY <1>4, <2>2 DEF CheckedPlans
<1> DEFINE left == Without(actual, E)
           f == Forward(d, left)
<1>8. /\ left \in Seq(ToSet(actual)) /\ IsInjective(left)
      /\ ToSet(left) = {r \in ToSet(actual) : Key(r) \notin E}
  BY OnlyContents DEF Without, PassesInv
<1>9. Consistent(ToSet(left)) /\ rest \subseteq ToSet(left)
  BY <1>1, <1>8 DEF Consistent
<1> HIDE DEF left
<1>10. /\ d.name \in DOMAIN f /\ f[d.name] = d.value
       /\ \A r \in ToSet(left) : IsCNAME(r) /\ r.name # d.name =>
                                   r.name \in DOMAIN f /\ f[r.name] = r.value
  BY <1>8, <1>9, ForwardFollows
<1> HIDE DEF f
<1>11. C \subseteq DOMAIN f /\ \A n \in C : f[n] \in C
  BY <1>4, <1>6, <1>9, <1>10
<1>12. RunsInCircles(f, d.name)
  BY <1>4, <1>11 DEF RunsInCircles
<1> QED BY <1>4, <1>7, <1>12 DEF ValidateRecord, f, left

\* The cycle check sees the registry: a pass that adds no more than one CNAME to a
\* registry without a cycle closes none (rule 4 of ValidateRecord), with
\* however many names the CNAMEs lead through.
THEOREM OneAliasIsSafe == Spec => OneAliasClosesNoCycle
<1>1. ASSUME PassesInv, [Next]_vars
      PROVE  [NoCycle(ToSet(actual)) /\ Cardinality({d \in plan'.add : IsCNAME(d)}) <= 1
              => NoCycle(ToSet(actual'))]_vars
  <2>1. CASE Pass
    BY <1>1, <2>1, OneAliasAdded
  <2>2. CASE UNCHANGED vars
    BY <2>2
  <2> QED BY <1>1, <2>1, <2>2 DEF Next
<1> QED BY <1>1, PassesInvariant, PTL DEF Spec, OneAliasClosesNoCycle

-----------------------------------------------------------------------------
\* The passes come to rest.

\* The sets of records that may be wanted, and those of such a set that are there.
Filtered == {FilterRecordIntents(intents) : intents \in GetAllDesiredRecordIntents}
Present(S) == {d \in S : Key(d) \in Removable(actual)}

\* Where the order of the containers decides nothing, each pass so far has added a
\* record or has left nothing to do.
RestInv ==
  /\ passes \in Nat
  /\ passes > 0 => desired \in Filtered
  /\ passes > 0 /\ Filtered = {desired} =>
       \/ Plans(desired) = {Nothing}
       \/ Cardinality(Present(desired)) >= passes

\* What may be wanted is consistent, and finite.
LEMMA FilteredSound ==
  ASSUME TrackedLists, NEW S \in Filtered
  PROVE  IsFiniteSet(S) /\ Consistent(S)
<1>1. PICK intents \in GetAllDesiredRecordIntents : S = FilterRecordIntents(intents)
  BY DEF Filtered
<1>2. intents \in Seq(Asked)
  BY DesiredContents
<1>3. S \subseteq ToSet(intents) /\ Consistent(S)
  BY <1>1, <1>2, FilterSound
<1> QED BY <1>2, <1>3, ListFinite, FS_Subset

\* What is present of a finite set can be counted.
LEMMA PresentFinite ==
  ASSUME NEW S, IsFiniteSet(S)
  PROVE  IsFiniteSet(Present(S)) /\ Cardinality(Present(S)) \in Nat
BY FS_Subset, FS_CardinalityType DEF Present

\* A pass with nothing to do changes nothing.
LEMMA RestStays ==
  ASSUME PassesInv, Pass, Plans(desired') = {Nothing}
  PROVE  actual' = actual
<1>1. plan' = Nothing
  BY DEF Pass
<1>2. plan'.add = {} /\ plan'.rem = {}
  BY <1>1 DEF Nothing
<1>3. SetToSeq(plan'.add) = <<>>
  <2>1. IsFiniteSet({})
    BY FS_EmptySet
  <2>2. SetToSeq({}) \in Seq({})
    BY <2>1, SetToSeqContents
  <2> QED BY <1>2, <2>2
<1>4. Only(actual, {r \in ToSet(actual) : Key(r) \notin plan'.rem}) = actual
  BY <1>2, OnlyAll DEF PassesInv
<1> QED BY <1>3, <1>4 DEF Pass, Applied, PassesInv

\* A pass that adds nothing leaves nothing to do.
LEMMA QuietPass ==
  ASSUME PassesInv, Pass, plan'.add = {}
  PROVE  Plans(desired)' = {Nothing}
<1>1. SetToSeq(plan'.add) = <<>>
  <2>1. IsFiniteSet({})
    BY FS_EmptySet
  <2>2. SetToSeq({}) \in Seq({})
    BY <2>1, SetToSeqContents
  <2> QED BY <2>2
<1>2. actual' = Without(actual, plan'.rem)
  <2>1. Only(actual, {r \in ToSet(actual) : Key(r) \notin plan'.rem}) \in Seq(ToSet(actual))
    BY OnlyContents DEF PassesInv
  <2> QED BY <1>1, <2>1 DEF Pass, Applied, Without
<1>3. plan' \in ReconcileAndValidate(Me, desired', actual, dead) /\ dead' = dead
  BY DEF Pass, Plans
<1>4. IsFiniteSet(desired')
  BY PassPlans
<1>5. ReconcileAndValidate(Me, desired', Without(actual, plan'.rem), dead) = {Nothing}
  BY <1>3, <1>4, QuietNext DEF PassesInv
<1> QED BY <1>2, <1>3, <1>5 DEF Plans

\* A pass that adds something has more of what it wants in the registry.
LEMMA BusyPass ==
  ASSUME PassesInv, Pass, plan'.add # {}
  PROVE  Cardinality(Present(desired)') >= Cardinality(Present(desired')) + 1
<1>1. /\ IsFiniteSet(desired') /\ Consistent(desired')
      /\ plan' \in SoundPlans(Me, desired', actual, dead)
      /\ Consistent(ToSet(actual)) /\ actual \in Seq(ToSet(actual))
  BY PassPlans DEF PassesInv
<1>2. \A d \in desired' : Key(d) \notin plan'.rem
  BY <1>1, WantedStay
<1>3. PICK e \in plan'.add : TRUE
  OBVIOUS
<1>4. e \in desired' /\ e \notin Present(desired')
  <2>1. e \in desired'
    BY <1>1 DEF SoundPlans
  <2>2. ASSUME NEW r \in ToSet(actual), Key(r) = Key(e) PROVE FALSE
    <3>1. Key(r) \notin plan'.rem
      BY <1>2, <2>1, <2>2
    <3>2. Fits(e, r)
      BY <1>1, <3>1 DEF SoundPlans
    <3> QED BY <2>2, <3>2 DEF Fits, SameRecord, Key
  <2> QED BY <2>1, <2>2 DEF Present, Removable
<1>5. ToSet(actual') = {r \in ToSet(actual) : Key(r) \notin plan'.rem} \cup plan'.add
  BY PassWrites
<1>6. Present(desired') \cup {e} \subseteq Present(desired)'
  BY <1>2, <1>3, <1>4, <1>5 DEF Present, Removable
<1>7. IsFiniteSet(Present(desired)')
  BY <1>1, FS_Subset DEF Present
<1>8. /\ IsFiniteSet(Present(desired')) /\ Cardinality(Present(desired')) \in Nat
      /\ Cardinality(Present(desired') \cup {e}) = Cardinality(Present(desired')) + 1
  BY <1>1, <1>4, PresentFinite, FS_AddElement
<1>9. /\ Cardinality(Present(desired') \cup {e}) <= Cardinality(Present(desired)')
      /\ Cardinality(Present(desired)') \in Nat
  BY <1>6, <1>7, FS_Subset, FS_CardinalityType
<1> QED BY <1>8, <1>9

\* Each pass adds a record that is wanted, which then stays, or leaves nothing to do.
LEMMA RestInvNext == PassesInv /\ RestInv /\ [Next]_vars => RestInv'
<1> SUFFICES ASSUME PassesInv, RestInv, [Next]_vars PROVE RestInv'
  OBVIOUS
<1>1. CASE UNCHANGED vars
  BY <1>1 DEF RestInv, Filtered, GetAllDesiredRecordIntents, Plans, Present, vars
<1>2. CASE Pass
  <2>1. passes \in Nat /\ passes' = passes + 1 /\ UNCHANGED <<tracked, dead>>
    BY <1>2 DEF RestInv, Pass
  <2>2. Filtered' = Filtered
    BY <2>1 DEF Filtered, GetAllDesiredRecordIntents
  <2>3. desired' \in Filtered
    BY <1>2 DEF Pass, Filtered
  <2>4. ASSUME Filtered = {desired'}
        PROVE  \/ Plans(desired)' = {Nothing}
               \/ Cardinality(Present(desired)') >= passes + 1
    <3>1. IsFiniteSet(desired') /\ Cardinality(Present(desired')) \in Nat
      BY <1>2, PassPlans, PresentFinite
    <3>2. passes > 0 => desired = desired'
      BY <2>4 DEF RestInv
    <3>3. CASE Plans(desired') = {Nothing}
      <4>1. actual' = actual
        BY <1>2, <3>3, RestStays
      <4> QED BY <2>1, <3>3, <4>1 DEF Plans
    <3>4. CASE plan'.add = {}
      BY <1>2, <3>4, QuietPass
    <3>5. CASE Plans(desired') # {Nothing} /\ plan'.add # {}
      <4>1. Cardinality(Present(desired')) >= passes
        <5>1. CASE passes = 0
          BY <3>1, <5>1
        <5>2. CASE passes > 0
          BY <2>4, <3>2, <3>5, <5>2 DEF RestInv
        <5> QED BY <2>1, <5>1, <5>2
      <4>2. Cardinality(Present(desired)') >= Cardinality(Present(desired')) + 1
        BY <1>2, <3>5, BusyPass
      <4>3. Cardinality(Present(desired)') \in Nat
        BY <3>1, FS_Subset, FS_CardinalityType DEF Present
      <4> QED BY <2>1, <3>1, <4>1, <4>2, <4>3
    <3> QED BY <3>3, <3>4, <3>5
  <2> QED BY <2>1, <2>2, <2>3, <2>4 DEF RestInv
<1> QED BY <1>1, <1>2 DEF Next

\* The passes come to rest: as many passes as there are wanted records leave nothing
\* to do (SyncEngine.Run without other hosts and failures), however long the chains
\* of CNAMEs that can only be added one after another.
THEOREM PassesComeToRest == Spec => []ComesToRest
<1>1. Init => RestInv
  BY DEF Init, RestInv
<1>2. PassesInv /\ StaleGone /\ RestInv => ComesToRest
  <2> SUFFICES ASSUME PassesInv, StaleGone, RestInv,
                      passes > 0, passes >= Cardinality(desired),
                      \A intents \in GetAllDesiredRecordIntents : FilterRecordIntents(intents) = desired
               PROVE  Plans(desired) = {Nothing}
    BY DEF ComesToRest, Nothing
  <2>1. desired \in Filtered /\ Filtered = {desired}
    BY DEF RestInv, Filtered
  <2>2. IsFiniteSet(desired)
    BY <2>1, FilteredSound DEF PassesInv
  <2>3. CASE Cardinality(Present(desired)) >= passes
    <3>1. Present(desired) \subseteq desired
      BY DEF Present
    <3>2. Cardinality(Present(desired)) = Cardinality(desired)
      <4>1. Cardinality(Present(desired)) <= Cardinality(desired)
        BY <2>2, <3>1, FS_Subset
      <4> QED BY <2>2, <2>3, <4>1, PresentFinite, FS_CardinalityType DEF RestInv
    <3>3. Present(desired) = desired
      BY <2>2, <3>1, <3>2, FS_Subset
    <3>4. \A d \in desired : Key(d) \in Removable(actual)
      BY <3>3 DEF Present
    <3>5. StaleKeys(Me, desired, actual, dead) = {}
      BY DEF StaleGone, StaleKeys, Stale
    <3> QED BY <2>2, <3>4, <3>5, AllPresent DEF Plans, PassesInv
  <2> QED BY <2>1, <2>3 DEF RestInv
<1> QED BY <1>1, <1>2, RestInvNext, PassesInvariant, StaleIsGone, PTL DEF Spec

=============================================================================
