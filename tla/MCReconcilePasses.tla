-------------------------- MODULE MCReconcilePasses --------------------------
(***************************************************************************)
(* Instances of ReconcilePasses for TLC: sets of labels.                   *)
(***************************************************************************)
EXTENDS ReconcilePasses, TLC

AddressTexts == [A |-> {"v4", "w4"}, AAAA |-> {"v6"}]
IPv4Only == [A |-> "v4", AAAA |-> ""]
Numbers == "60" :> 60

On == <<"enabled">> :> "true"

\* Every order of up to n creation times, with and without ties, once: a time
\* is used only if the time before it is.
Orders(n) == {age \in [Containers \cup PeerContainers -> 1..n] :
                \A t \in 2..n : (\E c \in DOMAIN age : age[c] = t) => \E c \in DOMAIN age : age[c] = t - 1}

\* The labels of a record <<kind, name, value>> under an alias.
Labels(r, alias, force) ==
  (<<r[1], alias, "name">> :> r[2]) @@ (<<r[1], alias, "value">> :> r[3])
  @@ (IF force THEN <<r[1], alias, "force">> :> "true" ELSE <<>>)

\* One container asks for up to two of a sequence of records, or each for one;
\* the registry has records that are forced or not.
UpToTwo(records, forces, ages) ==
  LET one(fs) == {On @@ Labels(records[i], "x", f) : i \in DOMAIN records, f \in fs}
      two == {On @@ Labels(records[i], "x", f) @@ Labels(records[j], "y", g) :
                <<i, j>> \in {<<k, l>> \in (DOMAIN records) \X (DOMAIN records) : k <= l}, f, g \in BOOLEAN}
  IN [labels |-> {ls \in [Containers -> {On} \cup one(BOOLEAN) \cup two] :
                    \A c, d \in Containers : c # d /\ ls[c] \in two => ls[d] = On},
      left |-> one(forces),
      ages |-> ages]

\* One name, with an address of each family and two aliases.
OneName == UpToTwo(<<<<"A", "n", "v4">>, <<"AAAA", "n", "v6">>,
                     <<"CNAME", "n", "m1">>, <<"CNAME", "n", "m2">>>>, BOOLEAN, Orders(3))

\* One name, with two addresses of one family.
TwoAddresses == UpToTwo(<<<<"A", "n", "v4">>, <<"A", "n", "w4">>>>, BOOLEAN, Orders(2))

\* Three names that can point at each other.
Cycles == UpToTwo(<<<<"CNAME", "a", "b">>, <<"CNAME", "b", "c">>, <<"CNAME", "c", "a">>,
                    <<"CNAME", "b", "a">>, <<"A", "c", "v4">>>>, {FALSE}, Orders(2))

\* Labels that leave something out, say it twice or say it wrong.
Names == {<<"A", "name">> :> "n", <<"AAAA", "name">> :> "n", <<"CNAME", "name">> :> "n",
          <<"A", "name">> :> "not a name",
          (<<"A", "name">> :> "n") @@ (<<"a", "name">> :> "m1"),
          (<<"A", "name">> :> "n") @@ (<<"A", "x", "name">> :> "m1")}
Extras == {<<"a", "value">> :> "v4", <<"A", "value">> :> "not an address",
           <<"a", "value">> :> "", <<"cname", "value">> :> "m1", <<"A", "x", "value">> :> "v4",
           <<"a", "ttl">> :> "60", <<"A", "ttl">> :> "soon",
           <<"A", "force">> :> "false", <<"force">> :> "TRUE",
           <<"MX", "name">> :> "n", <<"enabled">> :> "no"}
Odd == LET odd == {e @@ f @@ n @@ On : n \in Names, e \in Extras, f \in Extras} IN
       [labels |-> {[c \in Containers |-> IF c = Former THEN l ELSE On] : l \in odd},
        left |-> {On @@ Labels(<<"A", "n", "v4">>, "x", FALSE)},
        ages |-> Orders(2)]

AllUniverses == {OneName, TwoAddresses, Cycles, Odd}
OnlyCycles == {Cycles}

=============================================================================
