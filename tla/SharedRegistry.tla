--------------------------- MODULE SharedRegistry ---------------------------
(***************************************************************************)
(* What the daemons of several Docker hosts together promise of the        *)
(* records they share, whatever their passes are made of: one at a time    *)
(* has its turn to write; it puts in its own records only, where they fit, *)
(* and takes away its own, those of hosts it found without a heartbeat,    *)
(* and those its own take precedence over.  SyncEngine implements this     *)
(* specification.                                                          *)
(***************************************************************************)
EXTENDS Reconciliation

CONSTANTS Hosts,
          Records,  \* the record intents of all containers
          Below     \* <<n, m>> for every name n that is a subdomain of m

VARIABLES content,  \* the records in the registry
          turn,     \* the host whose turn it is to write, if any
          alive,    \* the hosts whose heartbeat key exists
          dead,     \* dead[h]: the hosts that h found without one
          faulty    \* a request has failed, or a member has lagged behind

vars == <<content, turn, alive, dead, faulty>>

Init ==
  /\ content = {} /\ turn = {} /\ alive = {} /\ faulty = FALSE
  /\ dead = [h \in Hosts |-> {}]

Begin(h) == turn = {} /\ turn' = {h} /\ UNCHANGED <<content, alive, dead, faulty>>

\* In its turn h asks who is alive.
Ask(h) ==
  /\ h \in turn
  /\ dead' = [dead EXCEPT ![h] = Hosts \ (alive \cup {h})]
  /\ UNCHANGED <<content, turn, alive, faulty>>

\* A record of h at the name of r that is forced, or older than r.
Precedes(h, r) == \E d \in Records : d.host = h /\ d.name = r.name /\ (d.force \/ Before(d, r))

\* Remove takes the same record of the same container at subdomains too.
TakenAlong(r) ==
  \E k \in Records : /\ <<r.name, k.name>> \in Below
                     /\ k.id = r.id /\ k.host = r.host /\ k.kind = r.kind /\ k.value = r.value

TakeAway(h) ==
  /\ h \in turn /\ UNCHANGED <<turn, alive, dead, faulty>>
  /\ content' \subseteq content
  /\ \A r \in content \ content' :
       r.host \in {h} \cup dead[h] \/ Precedes(h, r) \/ TakenAlong(r)

Register(h) ==
  /\ h \in turn /\ UNCHANGED <<turn, alive, dead, faulty>>
  /\ \E r \in Records : /\ r.host = h /\ \A s \in content : Fits(r, s)
                        /\ content' = content \cup {r}

\* Once a request of a pass has failed, nothing is promised of the records.
Fault(h) ==
  /\ h \in turn /\ UNCHANGED <<turn, alive, dead>>
  /\ faulty' = TRUE /\ content' \subseteq Records

\* The turn ends with what h knew of the others, the last request may fail.
Forgets(h) == turn' = turn \ {h} /\ dead' = [dead EXCEPT ![h] = {}]
Finish(h) == h \in turn /\ Forgets(h) /\ faulty' \in {faulty, TRUE} /\ UNCHANGED <<content, alive>>

\* The heartbeat of h begins, or runs out; its daemon ends, with it or not.
Publish(h) == alive' = alive \cup {h} /\ UNCHANGED <<content, turn, dead, faulty>>
RunsOut(h) == alive' = alive \ {h} /\ UNCHANGED <<content, turn, dead, faulty>>
Ends(h) == Forgets(h) /\ alive' \in {alive, alive \ {h}} /\ UNCHANGED <<content, faulty>>

Next == \E h \in Hosts :
  \/ Begin(h) \/ Ask(h) \/ TakeAway(h) \/ Register(h) \/ Fault(h) \/ Finish(h)
  \/ Publish(h) \/ RunsOut(h) \/ Ends(h)

Spec == Init /\ [][Next]_vars

=============================================================================
