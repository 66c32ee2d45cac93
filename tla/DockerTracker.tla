--------------------------- MODULE DockerTracker ---------------------------
(***************************************************************************)
(* How one daemon follows its Docker daemon: the generator goroutine       *)
(* (DockerGenerator.Subscribe and runOnce), which lists the containers,    *)
(* streams events and reconnects; the bounded channel; and the goroutine   *)
(* of the engine that puts what comes out of it into MemoryState.          *)
(*                                                                         *)
(* Docker itself is external: a set of running containers and a log of     *)
(* start and stop events, of which a restart of Docker forgets the past.   *)
(* The position of an event in the log stands for its time.  A container   *)
(* that stops gives a die event, and maybe a stop event: the tracker       *)
(* treats the two alike, one event stands for both.  All the containers    *)
(* carry labels; what they ask for and when a container was created play   *)
(* no part here, nor does the time the generator waits before it connects  *)
(* again.                                                                  *)
(***************************************************************************)
EXTENDS Integers, Sequences, SequencesExt

CONSTANTS
  Containers,
  AtStart,               \* the containers that run at first
  Untracked,             \* the entry of a container the tracker does not have
  BufferSize,            \* of the channel
  ResyncPruneThreshold,
  MaxChanges,            \* bound: containers that start or stop
  MaxDrops,              \* bound: connections to Docker that fail or drop
  MaxRestarts            \* bound: restarts of Docker

ASSUME TrackerAssumption ==
  /\ AtStart \subseteq Containers
  /\ BufferSize \in Nat \ {0} /\ ResyncPruneThreshold \in Nat \ {0}
  /\ Untracked \notin Nat
  /\ {MaxChanges, MaxDrops, MaxRestarts} \subseteq Nat

VARIABLES
  running,    \* Docker: the containers that run
  log, kept,  \* Docker: the events, and the first it still remembers
  phase,      \* of the generator
  listed,     \* the containers of the last list
  toSend,     \* those still to be sent as detections
  since,      \* the event a new connection resumes from
  cursor,     \* the next event of the stream
  out,        \* the channel
  consumer,   \* whether the goroutine of the engine runs
  tracked,    \* MemoryState: the missed resyncs of each tracked container
  cancelled,  \* the context is cancelled
  drops, restarts

docker == <<running, log, kept>>
connection == <<phase, listed, toSend, since, cursor>>
vars == <<docker, connection, out, consumer, tracked, cancelled, drops, restarts>>

Event(kind, c) == [kind |-> kind, id |-> c]
Resync(ids) == [kind |-> "resync", ids |-> ids]
Changes == {Event(kind, c) : kind \in {"start", "die"}, c \in Containers}
Messages == Changes \cup {Event("initial_detection", c) : c \in Containers}
                    \cup {Resync(ids) : ids \in SUBSET Containers}

TypeOK ==
  /\ log \in Seq(Changes) /\ out \in Seq(Messages)
  /\ running \subseteq Containers /\ listed \subseteq Containers /\ toSend \subseteq listed
  /\ kept \in 1..(Len(log) + 1) /\ since \in 1..(Len(log) + 1) /\ cursor \in 1..(Len(log) + 1)
  /\ phase \in {"list", "detect", "connect", "stream", "wait", "ended"}
  /\ Len(out) <= BufferSize
  /\ tracked \in [Containers -> 0..(ResyncPruneThreshold - 1) \cup {Untracked}]
  /\ consumer \in BOOLEAN /\ cancelled \in BOOLEAN

Init ==
  /\ running = AtStart
  /\ log = <<>> /\ kept = 1
  /\ phase = "list" /\ listed = {} /\ toSend = {}
  /\ since = 1 /\ cursor = 1
  /\ out = <<>>
  /\ consumer = TRUE
  /\ tracked = [c \in Containers |-> Untracked]
  /\ cancelled = FALSE
  /\ drops = 0 /\ restarts = 0

-----------------------------------------------------------------------------
\* Docker.

ContainerStarts(c) ==
  /\ c \notin running /\ Len(log) < MaxChanges
  /\ running' = running \cup {c}
  /\ log' = Append(log, Event("start", c))
  /\ UNCHANGED <<kept, connection, out, consumer, tracked, cancelled, drops, restarts>>

ContainerStops(c) ==
  /\ c \in running /\ Len(log) < MaxChanges
  /\ running' = running \ {c}
  /\ log' = Append(log, Event("die", c))
  /\ UNCHANGED <<kept, connection, out, consumer, tracked, cancelled, drops, restarts>>

\* Docker goes away, with some of its containers, and comes back without its
\* history.  Whoever was connected is not any more.
DockerRestarts(survivors) ==
  /\ restarts < MaxRestarts
  /\ restarts' = restarts + 1
  /\ running' = survivors
  /\ kept' = Len(log) + 1
  /\ phase' = IF phase = "stream" THEN "wait" ELSE phase
  /\ UNCHANGED <<log, listed, toSend, since, cursor, out, consumer, tracked, cancelled, drops>>

-----------------------------------------------------------------------------
\* The generator.

RoomForOneMore == Len(out) <= BufferSize
Room == Len(out) < BufferSize
Send(e) == out' = Append(out, e)

ListContainers ==
  /\ phase = "list"
  /\ listed' = running
  /\ toSend' = running
  /\ phase' = "detect"
  /\ UNCHANGED <<docker, since, cursor, out, consumer, tracked, cancelled, drops, restarts>>

ListFails ==
  /\ phase = "list" /\ drops < MaxDrops
  /\ phase' = "wait"
  /\ drops' = drops + 1
  /\ UNCHANGED <<docker, listed, toSend, since, cursor, out, consumer, tracked, cancelled, restarts>>

SendDetection(c) ==
  /\ phase = "detect" /\ c \in toSend /\ Room
  /\ Send(Event("initial_detection", c))
  /\ toSend' = toSend \ {c}
  /\ UNCHANGED <<docker, phase, listed, since, cursor, consumer, tracked, cancelled, drops, restarts>>

SendResync ==
  /\ phase = "detect" /\ toSend = {} /\ Room
  /\ Send(Resync(listed))
  /\ phase' = "connect"
  /\ UNCHANGED <<docker, listed, toSend, since, cursor, consumer, tracked, cancelled, drops, restarts>>

\* Events since the last one seen, that one included, if Docker has them.
ResumeFromNow == Len(log) + 1
ResumeFrom == IF since < kept THEN kept ELSE since

Connect ==
  /\ phase = "connect"
  /\ phase' = "stream"
  /\ cursor' = ResumeFrom
  /\ UNCHANGED <<docker, listed, toSend, since, out, consumer, tracked, cancelled, drops, restarts>>

\* A message of the stream: it is the one to resume from, and is passed on.
StreamEvent ==
  /\ phase = "stream" /\ cursor <= Len(log) /\ Room
  /\ since' = cursor
  /\ cursor' = cursor + 1
  /\ Send(log[cursor])
  /\ UNCHANGED <<docker, phase, listed, toSend, consumer, tracked, cancelled, drops, restarts>>

\* The stream fails or is closed.
StreamDrops ==
  /\ phase = "stream" /\ drops < MaxDrops
  /\ phase' = "wait"
  /\ drops' = drops + 1
  /\ UNCHANGED <<docker, listed, toSend, since, cursor, out, consumer, tracked, cancelled, restarts>>

Reconnect ==
  /\ phase = "wait" /\ ~cancelled
  /\ phase' = "list"
  /\ UNCHANGED <<docker, listed, toSend, since, cursor, out, consumer, tracked, cancelled, drops, restarts>>

\* Every wait of the generator is a select with ctx.Done().
NoticesOnlyWithRoom == cancelled /\ Room
NoticesCancel == cancelled

GeneratorEnds ==
  /\ phase # "ended" /\ NoticesCancel
  /\ phase' = "ended"
  /\ UNCHANGED <<docker, listed, toSend, since, cursor, out, consumer, tracked, cancelled, drops, restarts>>

-----------------------------------------------------------------------------
\* The engine: handleEvent on MemoryState.

Upserted(t, c) == [t EXCEPT ![c] = 0]
MarkRemoved(t, c) == [t EXCEPT ![c] = Untracked]

\* A tracked container is pruned when that many lists in a row lack it.
RetainRunning(t, ids) ==
  [c \in Containers |->
     CASE t[c] = Untracked -> Untracked
       [] t[c] # Untracked /\ c \in ids -> 0
       [] t[c] # Untracked /\ c \notin ids ->
            IF t[c] + 1 >= ResyncPruneThreshold THEN Untracked ELSE t[c] + 1]

Handled(t, e) ==
  CASE e.kind = "resync" -> RetainRunning(t, e.ids)
    [] e.kind \in {"initial_detection", "start"} -> Upserted(t, e.id)
    [] e.kind = "die" -> MarkRemoved(t, e.id)

HandleEvent ==
  /\ consumer /\ out # <<>>
  /\ tracked' = Handled(tracked, Head(out))
  /\ out' = Tail(out)
  /\ UNCHANGED <<docker, connection, consumer, cancelled, drops, restarts>>

ConsumerEnds ==
  /\ consumer
  /\ cancelled \/ (phase = "ended" /\ out = <<>>)
  /\ consumer' = FALSE
  /\ UNCHANGED <<docker, connection, out, tracked, cancelled, drops, restarts>>

Cancel ==
  /\ ~cancelled
  /\ cancelled' = TRUE
  /\ UNCHANGED <<docker, connection, out, consumer, tracked, drops, restarts>>

GeneratorGoesOn ==
  \/ ListContainers \/ SendResync \/ Connect \/ StreamEvent \/ Reconnect
  \/ \E c \in toSend : SendDetection(c)

Next ==
  \/ \E c \in Containers : ContainerStarts(c) \/ ContainerStops(c)
  \/ \E survivors \in SUBSET running : DockerRestarts(survivors)
  \/ GeneratorGoesOn \/ ListFails \/ StreamDrops \/ GeneratorEnds \/ HandleEvent \/ ConsumerEnds \/ Cancel

Spec == Init /\ [][Next]_vars

\* Both goroutines run on; a select that can see the cancelled context does so
\* in the end.
FairSpec ==
  /\ Spec
  /\ WF_vars(GeneratorGoesOn) /\ WF_vars(GeneratorEnds)
  /\ WF_vars(HandleEvent) /\ WF_vars(ConsumerEnds)

-----------------------------------------------------------------------------
Tracked(t) == {c \in Containers : t[c] # Untracked}

\* What the tracker will hold once the channel and the stream are drained.
Drained == FoldLeft(Handled, tracked, out \o SubSeq(log, cursor, Len(log)))

\* While the stream is up and Docker keeps its history, what is on its way will
\* bring the tracker to exactly what runs, however list, replayed and live
\* events overlap.
ExactWithHistory == phase = "stream" /\ restarts = 0 => Tracked(Drained) = running

\* A connection resumes where the last one left off: between the last event seen
\* and the next one of the stream there is none that Docker remembers, whatever
\* it forgot.
NothingSkipped == phase = "stream" => cursor <= since + 1 \/ cursor <= kept

\* With its connection left in peace, and as long as Docker keeps its history,
\* the tracker comes to track exactly what runs.
CatchesUp == <>[](cancelled \/ restarts > 0 \/ running = Tracked(tracked))

\* A cancelled context ends both goroutines, even with the channel full.
EndsOnCancel == cancelled ~> (phase = "ended" /\ ~consumer)

=============================================================================
