---------------------------- MODULE MCSyncEngine ----------------------------
(***************************************************************************)
(* Instances of SyncEngine for TLC.                                        *)
(***************************************************************************)
EXTENDS SyncEngine

CONSTANTS h1, h2, c1, c2, c3

Intent(c, h, age, n, k, v, f) ==
  [id |-> c, host |-> h, force |-> f, created |-> age, ttl |-> 0,
   name |-> n, kind |-> k, value |-> v]

OneName == <<"n">>
NameAndChild == <<"n", "sub.n">>
NoSubdomain == {}
ChildBelow == {<<"sub.n", "n">>}

FirstHasC1C3 == [c \in Containers |-> IF c = c2 THEN h2 ELSE h1]

\* An event makes a container as young as the youngest.
Young == [c \in Containers |-> 3]

\* The address of c1 is younger than the alias of c2; c3, on the host of c1,
\* has an address that is older than both.
AliasOlder ==
  [c \in Containers |->
     CASE c = c1 -> {Intent(c1, h1, 3, "n", "A", "v1", FALSE)}
       [] c = c2 -> {Intent(c2, h2, 2, "n", "CNAME", "m", FALSE)}
       [] c = c3 -> {Intent(c3, h1, 1, "n", "A", "v3", FALSE)}]

\* c1 asks for a name and its child; the alias of c2 is older at the name.
ParentContested ==
  [c \in Containers |->
     CASE c = c1 -> {Intent(c1, h1, 2, "n", "A", "v1", FALSE), Intent(c1, h1, 2, "sub.n", "A", "v1", FALSE)}
       [] c = c2 -> {Intent(c2, h2, 1, "n", "CNAME", "m", FALSE)}]
=============================================================================
