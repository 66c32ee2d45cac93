------------------------- MODULE DockerTracker_proofs -------------------------
(***************************************************************************)
(* What TLAPS proves of the way a daemon follows Docker, for any           *)
(* containers, buffer, threshold and history: its types, that a connection *)
(* resumes where the last one left off, and that what is on its way always *)
(* brings the tracker to exactly what runs.                                *)
(***************************************************************************)
EXTENDS DockerTracker, DataLemmas

Entries == 0..(ResyncPruneThreshold - 1) \cup {Untracked}
Trackers == [Containers -> Entries]

\* The two parts of the type invariant: the generator with Docker, and the channel
\* with the tracker.
GeneratorOK ==
  /\ running \subseteq Containers /\ listed \subseteq Containers /\ toSend \subseteq listed
  /\ log \in Seq(Changes)
  /\ kept \in 1..(Len(log) + 1) /\ since \in 1..(Len(log) + 1) /\ cursor \in 1..(Len(log) + 1)
  /\ phase \in {"list", "detect", "connect", "stream", "wait", "ended"}
ChannelOK ==
  /\ out \in Seq(Messages) /\ Len(out) <= BufferSize
  /\ tracked \in Trackers
  /\ consumer \in BOOLEAN /\ cancelled \in BOOLEAN

\* The type invariant is its two parts, before a step and after it.
LEMMA TypeParts ==
  /\ TypeOK <=> GeneratorOK /\ ChannelOK
  /\ TypeOK' <=> GeneratorOK' /\ ChannelOK'
BY DEF TypeOK, GeneratorOK, ChannelOK, Trackers, Entries

\* handleEvent keeps the tracker well-formed, whatever comes out of the channel.
LEMMA HandledTyped ==
  ASSUME NEW t \in Trackers, NEW e \in Messages
  PROVE  Handled(t, e) \in Trackers
<1>1. ASSUME NEW c \in Containers PROVE Upserted(t, c) \in Trackers /\ MarkRemoved(t, c) \in Trackers
  BY TrackerAssumption DEF Trackers, Entries, Upserted, MarkRemoved
<1>2. ASSUME NEW ids PROVE RetainRunning(t, ids) \in Trackers
  <2> DEFINE entry(c) ==
        CASE t[c] = Untracked -> Untracked
          [] t[c] # Untracked /\ c \in ids -> 0
          [] t[c] # Untracked /\ c \notin ids ->
               IF t[c] + 1 >= ResyncPruneThreshold THEN Untracked ELSE t[c] + 1
  <2>1. ASSUME NEW c \in Containers PROVE entry(c) \in Entries
    <3>1. t[c] \in Entries
      BY DEF Trackers
    <3>2. CASE t[c] = Untracked  BY <3>2 DEF Entries
    <3>3. CASE t[c] # Untracked /\ c \in ids  BY <3>3, TrackerAssumption DEF Entries
    <3>4. CASE t[c] # Untracked /\ c \notin ids  BY <3>1, <3>4, TrackerAssumption DEF Entries
    <3> QED
      BY <3>2, <3>3, <3>4
  <2> QED
    BY <2>1 DEF RetainRunning, Trackers
<1>3. CASE \E kind \in {"start", "die"}, c \in Containers : e = Event(kind, c)
  BY <1>1, <1>3 DEF Event, Handled
<1>4. CASE \E c \in Containers : e = Event("initial_detection", c)
  BY <1>1, <1>4 DEF Event, Handled
<1>5. CASE \E ids \in SUBSET Containers : e = Resync(ids)
  BY <1>2, <1>5 DEF Resync, Handled
<1> QED
  BY <1>3, <1>4, <1>5 DEF Messages, Changes

\* The generator starts with an empty channel and an empty tracker.
LEMMA TypesInit == Init => TypeOK /\ NothingSkipped
<1> SUFFICES ASSUME Init PROVE TypeOK /\ NothingSkipped
  OBVIOUS
<1>1. GeneratorOK  BY TrackerAssumption DEF Init, GeneratorOK
<1>2. ChannelOK
  <2>1. out \in Seq(Messages) /\ Len(out) <= BufferSize
    BY TrackerAssumption DEF Init
  <2>2. tracked \in Trackers
    BY DEF Init, Trackers, Entries
  <2> QED
    BY <2>1, <2>2 DEF Init, ChannelOK
<1>3. NothingSkipped  BY DEF Init, NothingSkipped
<1> QED
  BY <1>1, <1>2, <1>3, TypeParts

\* Docker changes its containers and its log; what is kept of the log and the
\* positions in it stay within it.
LEMMA DockerSteps ==
  ASSUME GeneratorOK, NothingSkipped,
         \/ \E c \in Containers : ContainerStarts(c) \/ ContainerStops(c)
         \/ \E survivors \in SUBSET running : DockerRestarts(survivors)
  PROVE  GeneratorOK' /\ NothingSkipped' /\ UNCHANGED <<out, tracked, consumer, cancelled>>
<1> USE DEF GeneratorOK, NothingSkipped, connection
<1>1. ASSUME NEW c \in Containers, NEW kind \in {"start", "die"}, log' = Append(log, Event(kind, c))
      PROVE  log' \in Seq(Changes) /\ Len(log') = Len(log) + 1
  BY <1>1 DEF Changes
<1>2. ASSUME NEW c \in Containers, ContainerStarts(c) \/ ContainerStops(c)
      PROVE  GeneratorOK' /\ NothingSkipped' /\ UNCHANGED <<out, tracked, consumer, cancelled>>
  BY <1>1, <1>2 DEF ContainerStarts, ContainerStops
<1>3. ASSUME NEW survivors \in SUBSET running, DockerRestarts(survivors)
      PROVE  GeneratorOK' /\ NothingSkipped' /\ UNCHANGED <<out, tracked, consumer, cancelled>>
  BY <1>3 DEF DockerRestarts
<1> QED
  BY <1>2, <1>3

\* The generator sends what it may, and only when there is room.
LEMMA GeneratorSteps ==
  ASSUME TypeOK, NothingSkipped, GeneratorGoesOn \/ ListFails \/ StreamDrops \/ GeneratorEnds
  PROVE  TypeOK' /\ NothingSkipped'
<1>a. GeneratorOK /\ ChannelOK
  BY TypeParts
<1>b. ASSUME NEW e \in Messages, Room, Send(e), UNCHANGED <<consumer, tracked, cancelled>>
      PROVE  ChannelOK'
  BY <1>a, <1>b, TrackerAssumption DEF ChannelOK, Room, Send
<1>c. ASSUME UNCHANGED <<out, consumer, tracked, cancelled>> PROVE ChannelOK'
  BY <1>a, <1>c DEF ChannelOK
<1> USE DEF docker
<1>1. CASE ListContainers \/ Reconnect \/ ListFails \/ StreamDrops \/ GeneratorEnds
  <2>1. GeneratorOK' /\ NothingSkipped'
    BY <1>a, <1>1 DEF GeneratorOK, NothingSkipped, ListContainers, Reconnect, ListFails, StreamDrops,
       GeneratorEnds
  <2>2. ChannelOK'
    BY <1>c, <1>1 DEF ListContainers, Reconnect, ListFails, StreamDrops, GeneratorEnds
  <2> QED
    BY <2>1, <2>2, TypeParts
<1>2. ASSUME NEW c \in toSend, SendDetection(c) PROVE TypeOK' /\ NothingSkipped'
  <2>1. Event("initial_detection", c) \in Messages
    BY <1>a DEF GeneratorOK, Messages
  <2>2. ChannelOK'
    BY <1>b, <1>2, <2>1 DEF SendDetection
  <2>3. GeneratorOK' /\ NothingSkipped'
    BY <1>a, <1>2 DEF GeneratorOK, NothingSkipped, SendDetection
  <2> QED
    BY <2>2, <2>3, TypeParts
<1>3. CASE SendResync
  <2>1. Resync(listed) \in Messages
    BY <1>a DEF GeneratorOK, Messages
  <2>2. ChannelOK'
    BY <1>b, <1>3, <2>1 DEF SendResync
  <2>3. GeneratorOK' /\ NothingSkipped'
    BY <1>a, <1>3 DEF GeneratorOK, NothingSkipped, SendResync
  <2> QED
    BY <2>2, <2>3, TypeParts
<1>4. CASE Connect
  <2>1. ChannelOK'
    BY <1>c, <1>4 DEF Connect
  <2>2. GeneratorOK' /\ NothingSkipped'
    BY <1>a, <1>4 DEF GeneratorOK, NothingSkipped, Connect, ResumeFrom
  <2> QED
    BY <2>1, <2>2, TypeParts
<1>5. CASE StreamEvent
  <2>1. log[cursor] \in Messages
    BY <1>a, <1>5 DEF GeneratorOK, StreamEvent, Messages
  <2>2. ChannelOK'
    BY <1>b, <1>5, <2>1 DEF StreamEvent
  <2>3. GeneratorOK' /\ NothingSkipped'
    BY <1>a, <1>5 DEF GeneratorOK, NothingSkipped, StreamEvent
  <2> QED
    BY <2>2, <2>3, TypeParts
<1> QED
  BY <1>1, <1>2, <1>3, <1>4, <1>5 DEF GeneratorGoesOn

\* The engine takes the events in the order in which they were sent.
LEMMA EngineSteps ==
  ASSUME TypeOK, HandleEvent \/ ConsumerEnds \/ Cancel
  PROVE  ChannelOK' /\ UNCHANGED <<docker, connection>>
<1>a. ChannelOK
  BY TypeParts
<1>1. CASE HandleEvent
  <2>1. Head(out) \in Messages /\ Tail(out) \in Seq(Messages) /\ Len(Tail(out)) <= BufferSize
    BY <1>a, <1>1, TrackerAssumption DEF ChannelOK, HandleEvent
  <2>2. Handled(tracked, Head(out)) \in Trackers
    BY <1>a, <2>1, HandledTyped DEF ChannelOK
  <2> QED
    BY <1>a, <1>1, <2>1, <2>2 DEF ChannelOK, HandleEvent
<1>2. CASE ConsumerEnds \/ Cancel
  BY <1>a, <1>2 DEF ChannelOK, ConsumerEnds, Cancel
<1> QED
  BY <1>1, <1>2

\* Every step of Docker, the generator and the engine keeps both.
LEMMA TypesNext == TypeOK /\ NothingSkipped /\ [Next]_vars => TypeOK' /\ NothingSkipped'
<1> SUFFICES ASSUME TypeOK, NothingSkipped, [Next]_vars PROVE TypeOK' /\ NothingSkipped'
  OBVIOUS
<1>a. GeneratorOK /\ ChannelOK
  BY TypeParts
<1>1. CASE \/ \E c \in Containers : ContainerStarts(c) \/ ContainerStops(c)
           \/ \E survivors \in SUBSET running : DockerRestarts(survivors)
  <2>1. GeneratorOK' /\ NothingSkipped' /\ UNCHANGED <<out, tracked, consumer, cancelled>>
    BY <1>a, <1>1, DockerSteps
  <2> QED
    BY <1>a, <2>1, TypeParts DEF ChannelOK
<1>2. CASE GeneratorGoesOn \/ ListFails \/ StreamDrops \/ GeneratorEnds
  BY <1>2, GeneratorSteps
<1>3. CASE HandleEvent \/ ConsumerEnds \/ Cancel
  <2>1. ChannelOK' /\ UNCHANGED <<docker, connection>>
    BY <1>3, EngineSteps
  <2> QED
    BY <1>a, <2>1, TypeParts DEF docker, connection, GeneratorOK, NothingSkipped
<1>4. CASE UNCHANGED vars
  BY <1>a, <1>4, TypeParts DEF vars, docker, connection, GeneratorOK, ChannelOK, NothingSkipped
<1> QED
  BY <1>1, <1>2, <1>3, <1>4 DEF Next

\* Type correctness: the channel never holds more than its buffer
\* (DockerGenerator.Subscribe), and the misses of a container stay below the
\* threshold (MemoryState.RetainRunning).
THEOREM TypeCorrect == Spec => []TypeOK
BY TypesInit, TypesNext, PTL DEF Spec

\* However often the connection drops and Docker restarts, the stream skips no
\* event that Docker still has (runOnce, lastEventTime).
THEOREM StreamSkipsNothing == Spec => []NothingSkipped
BY TypesInit, TypesNext, PTL DEF Spec

-----------------------------------------------------------------------------
\* The tracker after a list of messages.

IsFold(g, t, s) ==
  g = [i \in 0..Len(s) |-> IF i = 0 THEN t ELSE Handled(g[i - 1], s[i])]

\* The engine handles the messages of a list one after another.
LEMMA FoldRecursion ==
  ASSUME NEW X, NEW s \in Seq(X), NEW t
  PROVE  \E g : IsFold(g, t, s) /\ FoldLeft(Handled, t, s) = g[Len(s)]
<1> DEFINE Solves(g, n) ==
      g = [S \in SUBSET (1..n) |-> IF S = {} THEN t ELSE Handled(g[S \ {Max(S)}], s[Max(S)])]
           P == {n \in Nat : \E g : Solves(g, n)}
<1>1. 0 \in P
  <2>1. Solves([S \in SUBSET (1..0) |-> t], 0)
    OBVIOUS
  <2> QED BY <2>1
<1>2. ASSUME NEW n \in Nat, n \in P
      PROVE  n + 1 \in P
  <2>1. PICK g : Solves(g, n)
    BY <1>2
  <2> DEFINE h == [S \in SUBSET (1..(n + 1)) |->
                     IF n + 1 \in S THEN Handled(g[S \ {n + 1}], s[n + 1]) ELSE g[S]]
  <2>2. ASSUME NEW S \in SUBSET (1..(n + 1))
        PROVE  h[S] = IF S = {} THEN t ELSE Handled(h[S \ {Max(S)}], s[Max(S)])
    <3>1. CASE n + 1 \in S
      <4>1. Max(S) = n + 1
        BY <3>1, MaxInterval
      <4>2. h[S] = Handled(g[S \ {n + 1}], s[n + 1])
        BY <3>1
      <4>3. h[S \ {n + 1}] = g[S \ {n + 1}]
        OBVIOUS
      <4> HIDE DEF h
      <4> QED BY <3>1, <4>1, <4>2, <4>3
    <3>2. CASE n + 1 \notin S
      <4>1. S \in SUBSET (1..n) /\ h[S] = g[S]
        BY <3>2
      <4>2. h[S \ {Max(S)}] = g[S \ {Max(S)}]
        BY <3>2
      <4>3. g[S] = IF S = {} THEN t ELSE Handled(g[S \ {Max(S)}], s[Max(S)])
        BY <2>1, <4>1
      <4> HIDE DEF h
      <4> QED BY <4>1, <4>2, <4>3
    <3> QED BY <3>1, <3>2
  <2>3. Solves(h, n + 1)
    BY <2>2, Zenon
  <2> HIDE DEF Solves, h
  <2> QED BY <2>3
<1>3. Nat \subseteq P
  <2> HIDE DEF P
  <2> QED BY <1>1, <1>2, NatSetInduction
<1>4. DOMAIN s = 1..Len(s)
  OBVIOUS
<1>5. PICK g0 : Solves(g0, Len(s))
  <2>1. Len(s) \in P
    <3> HIDE DEF P
    <3> QED BY <1>3
  <2> QED BY <2>1
<1>6. PICK g : Solves(g, Len(s)) /\ FoldLeft(Handled, t, s) = g[1..Len(s)]
  BY <1>4, <1>5, Zenon DEF FoldLeft, MapThenFoldSet
<1> DEFINE f == [i \in 0..Len(s) |-> g[1..i]]
<1>7. ASSUME NEW i \in 0..Len(s)
      PROVE  f[i] = IF i = 0 THEN t ELSE Handled(f[i - 1], s[i])
  <2>1. CASE i = 0
    BY <1>6, <2>1
  <2>2. CASE i # 0
    <3>1. Max(1..i) = i
      <4>1. i - 1 \in Nat /\ (i - 1) + 1 = i /\ 1..i \in SUBSET (1..i) /\ i \in 1..i
        BY <2>2
      <4> QED BY <4>1, MaxInterval
    <3>2. /\ (1..i) \ {i} = 1..(i - 1)
          /\ 1..i # {}
          /\ 1..i \in SUBSET (1..Len(s))
      <4>1. 1..i # {} /\ 1..i \in SUBSET (1..Len(s))
        <5>1. i \in 1..i /\ \A j \in 1..i : j \in 1..Len(s)
          BY <2>2
        <5> QED BY <5>1
      <4>2. \A j : j \in (1..i) \ {i} <=> j \in 1..(i - 1)
        BY <2>2
      <4> QED BY <4>1, <4>2
    <3>3. g[1..i] = Handled(g[(1..i) \ {i}], s[i])
      BY <1>6, <3>1, <3>2
    <3>4. f[i] = g[1..i] /\ f[i - 1] = g[1..(i - 1)]
      BY <2>2
    <3> HIDE DEF f
    <3> QED BY <2>2, <3>2, <3>3, <3>4
  <2> QED BY <2>1, <2>2
<1>8. IsFold(f, t, s)
  BY <1>7, Zenon DEF IsFold
<1>9. FoldLeft(Handled, t, s) = f[Len(s)]
  BY <1>6
<1> HIDE DEF f
<1> QED BY <1>8, <1>9

\* Two lists that begin alike are handled alike up to there.
LEMMA FoldAgrees ==
  ASSUME NEW X, NEW s \in Seq(X), NEW u \in Seq(X), NEW t, NEW g, NEW h,
         IsFold(g, t, s), IsFold(h, t, u),
         NEW n \in Nat, n <= Len(s), n <= Len(u), \A i \in 1..n : s[i] = u[i]
  PROVE  g[n] = h[n]
<1> DEFINE P == {i \in Nat : i <= n => g[i] = h[i]}
<1>1. 0 \in P
  BY DEF IsFold
<1>2. ASSUME NEW i \in Nat, i \in P
      PROVE  i + 1 \in P
  <2> SUFFICES ASSUME i + 1 <= n PROVE g[i + 1] = h[i + 1]
    OBVIOUS
  <2>1. /\ i + 1 \in 0..Len(s) /\ i + 1 \in 0..Len(u) /\ i + 1 # 0 /\ (i + 1) - 1 = i
        /\ i + 1 \in 1..n
    OBVIOUS
  <2>2. g[i + 1] = Handled(g[i], s[i + 1])
    BY <2>1 DEF IsFold
  <2>3. h[i + 1] = Handled(h[i], u[i + 1])
    BY <2>1 DEF IsFold
  <2> QED BY <1>2, <2>1, <2>2, <2>3
<1>3. n \in P
  <2> HIDE DEF P
  <2> QED BY <1>1, <1>2, NatSetInduction
<1> QED BY <1>3

\* No message, no change.
LEMMA FoldEmpty ==
  ASSUME NEW t
  PROVE  FoldLeft(Handled, t, <<>>) = t
<1>1. PICK g : IsFold(g, t, <<>>) /\ FoldLeft(Handled, t, <<>>) = g[Len(<<>>)]
  <2>1. <<>> \in Seq({})
    OBVIOUS
  <2> QED BY <2>1, FoldRecursion
<1> QED BY <1>1 DEF IsFold

\* One more message is handled last.
LEMMA FoldAppend ==
  ASSUME NEW X, NEW s \in Seq(X), NEW e \in X, NEW t
  PROVE  FoldLeft(Handled, t, Append(s, e)) = Handled(FoldLeft(Handled, t, s), e)
<1> DEFINE u == Append(s, e)
<1>1. u \in Seq(X) /\ Len(u) = Len(s) + 1 /\ u[Len(s) + 1] = e /\ \A i \in 1..Len(s) : u[i] = s[i]
  OBVIOUS
<1> HIDE DEF u
<1>2. PICK g : IsFold(g, t, s) /\ FoldLeft(Handled, t, s) = g[Len(s)]
  BY FoldRecursion
<1>3. PICK h : IsFold(h, t, u) /\ FoldLeft(Handled, t, u) = h[Len(u)]
  BY <1>1, FoldRecursion
<1>4. Len(s) \in Nat
  OBVIOUS
<1>5. g[Len(s)] = h[Len(s)]
  BY <1>1, <1>2, <1>3, <1>4, FoldAgrees
<1>6. h[Len(s) + 1] = Handled(h[Len(s)], e)
  <2>1. Len(s) + 1 \in 0..Len(u) /\ Len(s) + 1 # 0 /\ (Len(s) + 1) - 1 = Len(s)
    BY <1>1, <1>4
  <2> QED BY <1>1, <1>3, <2>1 DEF IsFold
<1> QED BY <1>1, <1>2, <1>3, <1>5, <1>6 DEF u

\* The first message is handled first.
LEMMA FoldHead ==
  ASSUME NEW X, NEW s \in Seq(X), s # <<>>, NEW t
  PROVE  FoldLeft(Handled, t, s) = FoldLeft(Handled, Handled(t, Head(s)), Tail(s))
<1> DEFINE u == Tail(s)
<1>1. /\ u \in Seq(X) /\ Len(u) \in Nat /\ Len(s) = Len(u) + 1
      /\ Head(s) = s[1] /\ \A i \in 1..Len(u) : u[i] = s[i + 1]
  OBVIOUS
<1> HIDE DEF u
<1>2. PICK g : IsFold(g, t, s) /\ FoldLeft(Handled, t, s) = g[Len(s)]
  BY FoldRecursion
<1>3. PICK h : /\ IsFold(h, Handled(t, Head(s)), u)
               /\ FoldLeft(Handled, Handled(t, Head(s)), u) = h[Len(u)]
  BY <1>1, FoldRecursion
<1> DEFINE P == {i \in Nat : i <= Len(u) => h[i] = g[i + 1]}
<1>4. 0 \in P
  <2>1. h[0] = Handled(t, s[1])
    BY <1>1, <1>3 DEF IsFold
  <2>2. g[0] = t /\ g[1] = Handled(g[0], s[1])
    <3>1. 1 \in 0..Len(s) /\ 0 \in 0..Len(s) /\ 1 - 1 = 0
      BY <1>1
    <3> QED BY <1>2, <3>1 DEF IsFold
  <2> QED BY <2>1, <2>2
<1>5. ASSUME NEW i \in Nat, i \in P
      PROVE  i + 1 \in P
  <2> SUFFICES ASSUME i + 1 <= Len(u) PROVE h[i + 1] = g[i + 2]
    OBVIOUS
  <2>1. /\ i + 1 \in 0..Len(u) /\ i + 1 # 0 /\ (i + 1) - 1 = i /\ i + 1 \in 1..Len(u)
        /\ i + 2 \in 0..Len(s) /\ i + 2 # 0 /\ (i + 2) - 1 = i + 1 /\ (i + 1) + 1 = i + 2
    BY <1>1
  <2>2. h[i + 1] = Handled(h[i], u[i + 1])
    BY <1>3, <2>1 DEF IsFold
  <2>3. g[i + 2] = Handled(g[i + 1], s[i + 2])
    BY <1>2, <2>1 DEF IsFold
  <2>4. u[i + 1] = s[i + 2]
    BY <1>1, <2>1
  <2> QED BY <1>5, <2>1, <2>2, <2>3, <2>4
<1>6. Len(u) \in P
  <2> HIDE DEF P
  <2> QED BY <1>1, <1>4, <1>5, NatSetInduction
<1>7. h[Len(u)] = g[Len(s)]
  BY <1>1, <1>6
<1> QED BY <1>2, <1>3, <1>7, Zenon DEF u

\* Whatever messages come, the tracker stays well-formed.
LEMMA FoldTyped ==
  ASSUME NEW s \in Seq(Messages), NEW t \in Trackers
  PROVE  FoldLeft(Handled, t, s) \in Trackers
<1>1. PICK g : IsFold(g, t, s) /\ FoldLeft(Handled, t, s) = g[Len(s)]
  BY FoldRecursion
<1> DEFINE P == {i \in Nat : i <= Len(s) => g[i] \in Trackers}
<1>2. 0 \in P
  BY <1>1 DEF IsFold
<1>3. ASSUME NEW i \in Nat, i \in P
      PROVE  i + 1 \in P
  <2> SUFFICES ASSUME i + 1 <= Len(s) PROVE g[i + 1] \in Trackers
    OBVIOUS
  <2>1. i + 1 \in 0..Len(s) /\ i + 1 # 0 /\ (i + 1) - 1 = i /\ s[i + 1] \in Messages
    OBVIOUS
  <2>2. g[i + 1] = Handled(g[i], s[i + 1])
    BY <1>1, <2>1 DEF IsFold
  <2> QED BY <1>3, <2>1, <2>2, HandledTyped
<1>4. Len(s) \in P
  <2>1. Len(s) \in Nat
    OBVIOUS
  <2> HIDE DEF P
  <2> QED BY <1>2, <1>3, <2>1, NatSetInduction
<1> QED BY <1>1, <1>4

\* What a message means to a container: a start or a detection, and a die, decide
\* whether it is tracked; a resync takes away only one that it lacks.
LEMMA EventDecides ==
  ASSUME NEW t \in Trackers, NEW c \in Containers, NEW d \in Containers
  PROVE  /\ \A kind \in {"start", "initial_detection"} :
              Handled(t, Event(kind, d))[c] # Untracked <=> c = d \/ t[c] # Untracked
         /\ Handled(t, Event("die", d))[c] # Untracked <=> c # d /\ t[c] # Untracked
<1>1. Untracked # 0
  BY TrackerAssumption
<1> QED BY <1>1 DEF Handled, Event, Upserted, MarkRemoved, Trackers

\* A resync tracks nothing new, and keeps what it lists (RetainRunning).
LEMMA ResyncDecides ==
  ASSUME NEW t \in Trackers, NEW c \in Containers, NEW ids
  PROVE  /\ t[c] = Untracked => Handled(t, Resync(ids))[c] = Untracked
         /\ c \in ids /\ t[c] # Untracked => Handled(t, Resync(ids))[c] # Untracked
<1>1. Untracked # 0
  BY TrackerAssumption
<1>2. Handled(t, Resync(ids)) = RetainRunning(t, ids)
  BY DEF Handled, Resync
<1>3. t[c] = Untracked => RetainRunning(t, ids)[c] = Untracked
  BY DEF RetainRunning
<1>4. c \in ids /\ t[c] # Untracked => RetainRunning(t, ids)[c] = 0
  BY DEF RetainRunning
<1> QED BY <1>1, <1>2, <1>3, <1>4

-----------------------------------------------------------------------------
\* What is on its way.

\* Whether c will be tracked when the channel is drained.
After == FoldLeft(Handled, tracked, out)
Will(c) == After[c] # Untracked

\* No event of c at the position p of the log or after.
Settled(c, p) == \A i \in 1..Len(log) : log[i].id = c => i < p

\* The last event of a container tells whether it runs.
LogTells ==
  \A i \in 1..Len(log) :
    Settled(log[i].id, i + 1) => (log[i].kind = "start" <=> log[i].id \in running)

\* While the stream is up: the channel brings the tracker to what runs, but for the
\* containers with an event in the stream.
StreamTells ==
  phase = "stream" => /\ since <= cursor
                      /\ \A c \in Containers : Settled(c, cursor) => (Will(c) <=> c \in running)

\* While it is not: no container that has stopped is tracked, unless its stop is
\* replayed; and what the list found is on its way, unless it is still to be sent.
GoneUntracked ==
  phase \notin {"stream", "ended"} =>
    \A c \in Containers \ running : Settled(c, since) => ~Will(c)
ListTells ==
  phase = "detect" => \A c \in Containers : Settled(c, since) => (c \in listed <=> c \in running)
Detected ==
  phase \in {"detect", "connect"} =>
    \A c \in running : Settled(c, since) /\ (phase = "detect" => c \notin toSend) => Will(c)

HistoryParts == kept = 1 /\ LogTells /\ StreamTells /\ GoneUntracked /\ ListTells /\ Detected
HistoryInv == restarts \in Nat /\ (restarts = 0 => HistoryParts)

\* What the channel leads to is a tracker.
LEMMA AfterTyped == TypeOK => After \in Trackers
BY TypeParts, FoldTyped DEF ChannelOK, After

\* A message that is sent comes last, one that is taken was first.
LEMMA AfterSend ==
  ASSUME TypeOK, NEW e \in Messages, Send(e), UNCHANGED tracked
  PROVE  After' = Handled(After, e)
BY TypeParts, FoldAppend DEF ChannelOK, After, Send

\* A message that is handled was counted already.
LEMMA AfterTake ==
  ASSUME TypeOK, HandleEvent
  PROVE  After' = After
BY TypeParts, FoldHead DEF ChannelOK, After, HandleEvent

\* At first nothing runs unseen: the list is still to come.
LEMMA HistoryInit == Init => HistoryInv
<1> SUFFICES ASSUME Init PROVE HistoryInv
  OBVIOUS
<1>1. After = tracked
  BY FoldEmpty DEF Init, After
<1> QED BY <1>1 DEF Init, HistoryInv, HistoryParts, LogTells, StreamTells, GoneUntracked, ListTells,
        Detected, Will

\* A container that starts or stops has an event that is still to come.
LEMMA HistoryDocker ==
  ASSUME TypeOK, HistoryInv, restarts = 0,
         NEW c \in Containers, ContainerStarts(c) \/ ContainerStops(c)
  PROVE  HistoryParts'
<1> USE DEF connection
<1>1. GeneratorOK /\ HistoryParts
  BY TypeParts DEF HistoryInv
<1>2. PICK kind \in {"start", "die"} :
        /\ log' = Append(log, Event(kind, c))
        /\ kind = "start" <=> c \in running'
        /\ running' \in {running \cup {c}, running \ {c}}
        /\ UNCHANGED <<kept, phase, listed, toSend, since, cursor, out, tracked>>
  BY DEF ContainerStarts, ContainerStops
<1>3. /\ Len(log) \in Nat /\ Len(log') = Len(log) + 1 /\ log'[Len(log) + 1] = Event(kind, c)
      /\ \A i \in 1..Len(log) : log'[i] = log[i] /\ log[i] \in Changes
  BY <1>1, <1>2 DEF GeneratorOK
<1>4. ASSUME NEW d \in Containers \ {c}
      PROVE  (d \in running' <=> d \in running) /\ \A p : Settled(d, p)' <=> Settled(d, p)
  BY <1>2, <1>3 DEF Settled, Event
<1>5. ASSUME NEW p \in 1..(Len(log) + 1) PROVE ~Settled(c, p)'
  BY <1>3 DEF Settled, Event
<1>6. since \in 1..(Len(log) + 1) /\ cursor \in 1..(Len(log) + 1) /\ UNCHANGED <<since, cursor>>
  BY <1>1, <1>2 DEF GeneratorOK
<1>7. \A d : Will(d)' <=> Will(d)
  BY <1>2 DEF Will, After
<1>8. LogTells'
  <2> SUFFICES ASSUME NEW i \in 1..Len(log'), NEW d, log'[i].id = d, Settled(d, i + 1)'
               PROVE  log'[i].kind = "start" <=> d \in running'
    BY DEF LogTells, Settled
  <2>1. CASE i = Len(log) + 1
    BY <1>2, <1>3, <2>1 DEF Event
  <2>2. CASE i \in 1..Len(log)
    <3>1. log'[i] = log[i] /\ d \in Containers
      BY <1>3, <2>2 DEF Changes, Event
    <3>2. d # c
      <4>1. i + 1 \in 1..(Len(log) + 1)
        BY <1>3, <2>2
      <4> QED BY <1>5, <4>1
    <3>3. Settled(d, i + 1)
      BY <1>4, <3>1, <3>2
    <3> QED BY <1>1, <1>4, <2>2, <3>1, <3>2, <3>3 DEF HistoryParts, LogTells
  <2> QED BY <1>3, <2>1, <2>2
<1>9. StreamTells'
  BY <1>1, <1>2, <1>4, <1>5, <1>6, <1>7 DEF HistoryParts, StreamTells
<1>10. GoneUntracked'
  BY <1>1, <1>2, <1>4, <1>5, <1>6, <1>7 DEF HistoryParts, GoneUntracked
<1>11. ListTells'
  BY <1>1, <1>2, <1>4, <1>5, <1>6 DEF HistoryParts, ListTells
<1>12. running' \subseteq Containers
  BY <1>1, <1>2 DEF GeneratorOK
<1>13. Detected'
  BY <1>1, <1>2, <1>4, <1>5, <1>6, <1>7, <1>12 DEF HistoryParts, Detected
<1> QED BY <1>1, <1>2, <1>8, <1>9, <1>10, <1>11, <1>13 DEF HistoryParts

\* A step that sends nothing and changes no container.
LEMMA HistoryQuiet ==
  ASSUME TypeOK, HistoryParts, UNCHANGED <<docker, since>>, After' = After,
         \/ UNCHANGED <<phase, listed, toSend, cursor>>
         \/ ListContainers \/ Reconnect \/ ListFails \/ StreamDrops \/ GeneratorEnds \/ Connect
  PROVE  HistoryParts'
<1> USE DEF docker
<1>1. GeneratorOK
  BY TypeParts
<1>2. (\A c : Will(c)' <=> Will(c)) /\ (\A c, p : Settled(c, p)' <=> Settled(c, p))
  BY DEF Will, Settled
<1>3. LogTells'
  BY DEF HistoryParts, LogTells, Settled
<1>4. since \in Nat /\ cursor \in Nat
  BY <1>1 DEF GeneratorOK
<1>5. \A c : since <= cursor /\ Settled(c, since) => Settled(c, cursor)
  BY <1>1, <1>4 DEF Settled
<1>6. CASE UNCHANGED <<phase, listed, toSend, cursor>>
  BY <1>2, <1>3, <1>6 DEF HistoryParts, StreamTells, GoneUntracked, ListTells, Detected
<1>7. CASE ListContainers
  BY <1>2, <1>3, <1>7 DEF ListContainers, HistoryParts, StreamTells, GoneUntracked, ListTells, Detected
<1>8. CASE Reconnect \/ ListFails
  BY <1>2, <1>3, <1>8 DEF Reconnect, ListFails, HistoryParts, StreamTells, GoneUntracked, ListTells,
     Detected
<1>9. CASE StreamDrops
  BY <1>1, <1>2, <1>3, <1>5, <1>9 DEF GeneratorOK, StreamDrops, HistoryParts, StreamTells,
     GoneUntracked, ListTells, Detected
<1>10. CASE GeneratorEnds
  BY <1>2, <1>3, <1>10 DEF GeneratorEnds, HistoryParts, StreamTells, GoneUntracked, ListTells, Detected
<1>11. CASE Connect
  <2>1. cursor' = since /\ phase = "connect" /\ phase' = "stream"
    BY <1>1, <1>4, <1>11 DEF Connect, ResumeFrom, HistoryParts, GeneratorOK
  <2> QED BY <1>2, <1>3, <1>4, <2>1 DEF HistoryParts, StreamTells, GoneUntracked, ListTells, Detected
<1> QED BY <1>6, <1>7, <1>8, <1>9, <1>10, <1>11

\* The generator sends the containers of its list, then the list.
LEMMA HistoryDetect ==
  ASSUME TypeOK, HistoryParts, SendResync \/ \E c \in toSend : SendDetection(c)
  PROVE  HistoryParts'
<1> USE DEF docker
<1>1. GeneratorOK /\ After \in Trackers
  BY TypeParts, AfterTyped
<1>2. \A c, p : Settled(c, p)' <=> Settled(c, p)
  BY DEF Settled, SendResync, SendDetection
<1>3. LogTells'
  BY DEF HistoryParts, LogTells, Settled, SendResync, SendDetection
<1>4. CASE SendResync
  <2>1. After' = Handled(After, Resync(listed))
    <3>1. Resync(listed) \in Messages
      BY <1>1 DEF GeneratorOK, Messages
    <3> QED BY <1>4, <3>1, AfterSend DEF SendResync
  <2>2. \A c \in Containers : /\ ~Will(c) => ~Will(c)'
                              /\ c \in listed /\ Will(c) => Will(c)'
    BY <1>1, <2>1, ResyncDecides DEF Will
  <2>3. running \subseteq Containers
    BY <1>1 DEF GeneratorOK
  <2> QED BY <1>2, <1>3, <1>4, <2>2, <2>3 DEF SendResync, HistoryParts, StreamTells, GoneUntracked,
          ListTells, Detected
<1>5. ASSUME NEW d \in toSend, SendDetection(d) PROVE HistoryParts'
  <2>1. d \in Containers /\ d \in listed
    BY <1>1 DEF GeneratorOK
  <2>2. After' = Handled(After, Event("initial_detection", d))
    <3>1. Event("initial_detection", d) \in Messages
      BY <2>1 DEF Messages
    <3> QED BY <1>5, <3>1, AfterSend DEF SendDetection
  <2>3. \A c \in Containers : Will(c)' <=> c = d \/ Will(c)
    BY <1>1, <2>1, <2>2, EventDecides DEF Will
  <2>4. running \subseteq Containers
    BY <1>1 DEF GeneratorOK
  <2> QED BY <1>2, <1>3, <1>5, <2>1, <2>3, <2>4 DEF SendDetection, HistoryParts, StreamTells,
          GoneUntracked, ListTells, Detected
<1> QED BY <1>4, <1>5

\* What one event of the log does for all the containers without a later one.
LEMMA EventTells ==
  ASSUME GeneratorOK, LogTells, NEW t \in Trackers, NEW p \in 1..Len(log),
         \A c \in Containers : Settled(c, p) => (t[c] # Untracked <=> c \in running)
  PROVE  \A c \in Containers :
           Settled(c, p + 1) => (Handled(t, log[p])[c] # Untracked <=> c \in running)
<1> SUFFICES ASSUME NEW c \in Containers, Settled(c, p + 1)
             PROVE  Handled(t, log[p])[c] # Untracked <=> c \in running
  OBVIOUS
<1>1. log[p] \in Changes
  BY DEF GeneratorOK
<1>2. PICK kind \in {"start", "die"}, d \in Containers : log[p] = Event(kind, d)
  BY <1>1 DEF Changes
<1>3. CASE c = d
  <2>1. log[p].id = c /\ log[p].kind = kind
    BY <1>2, <1>3 DEF Event
  <2>2. kind = "start" <=> c \in running
    BY <2>1 DEF LogTells
  <2> QED BY <1>2, <1>3, <2>2, EventDecides
<1>4. CASE c # d
  <2>1. Settled(c, p)
    <3> SUFFICES ASSUME NEW i \in 1..Len(log), log[i].id = c PROVE i < p
      BY DEF Settled
    <3>1. i < p + 1
      BY DEF Settled
    <3>2. i # p
      BY <1>2, <1>4 DEF Event
    <3> QED BY <3>1, <3>2
  <2> QED BY <1>2, <1>4, <2>1, EventDecides
<1> QED BY <1>3, <1>4

\* An event of the stream settles its container, and is passed on.
LEMMA HistoryStream ==
  ASSUME TypeOK, HistoryParts, StreamEvent
  PROVE  HistoryParts'
<1> USE DEF docker
<1>1. GeneratorOK /\ After \in Trackers
  BY TypeParts, AfterTyped
<1>2. cursor \in 1..Len(log) /\ log[cursor] \in Messages
  BY <1>1 DEF StreamEvent, GeneratorOK, Messages
<1>3. After' = Handled(After, log[cursor])
  BY <1>2, AfterSend DEF StreamEvent
<1>4. \A c \in Containers : Settled(c, cursor + 1) => (Will(c)' <=> c \in running)
  BY <1>1, <1>2, <1>3, EventTells DEF HistoryParts, StreamTells, StreamEvent, Will
<1>5. \A c, p : Settled(c, p)' <=> Settled(c, p)
  BY DEF Settled, StreamEvent
<1>6. LogTells'
  BY DEF HistoryParts, LogTells, Settled, StreamEvent
<1>7. StreamTells'
  BY <1>2, <1>4, <1>5 DEF StreamTells, StreamEvent
<1> QED BY <1>6, <1>7 DEF HistoryParts, StreamEvent, GoneUntracked, ListTells, Detected

\* Every step keeps the invariant, unless it restarts Docker.
LEMMA HistoryNext == TypeOK /\ HistoryInv /\ [Next]_vars => HistoryInv'
<1> SUFFICES ASSUME TypeOK, HistoryInv, [Next]_vars PROVE HistoryInv'
  OBVIOUS
<1>1. CASE \E survivors \in SUBSET running : DockerRestarts(survivors)
  BY <1>1 DEF HistoryInv, DockerRestarts
<1>2. CASE ~(\E survivors \in SUBSET running : DockerRestarts(survivors))
  <2>1. restarts' = restarts
    BY <1>2 DEF Next, ContainerStarts, ContainerStops, GeneratorGoesOn, ListContainers, SendResync,
       Connect, StreamEvent, Reconnect, SendDetection, ListFails, StreamDrops, GeneratorEnds,
       HandleEvent, ConsumerEnds, Cancel, vars
  <2> SUFFICES ASSUME restarts = 0 PROVE HistoryParts'
    BY <2>1 DEF HistoryInv
  <2>2. HistoryParts
    BY DEF HistoryInv
  <2>3. CASE \E c \in Containers : ContainerStarts(c) \/ ContainerStops(c)
    BY <2>3, HistoryDocker
  <2>4. CASE SendResync \/ \E c \in toSend : SendDetection(c)
    BY <2>2, <2>4, HistoryDetect
  <2>5. CASE StreamEvent
    BY <2>2, <2>5, HistoryStream
  <2>6. CASE ListContainers \/ Reconnect \/ ListFails \/ StreamDrops \/ GeneratorEnds \/ Connect
    <3>1. UNCHANGED <<docker, since, out, tracked>>
      BY <2>6 DEF ListContainers, Reconnect, ListFails, StreamDrops, GeneratorEnds, Connect
    <3>2. After' = After
      BY <3>1 DEF After
    <3> QED BY <2>2, <2>6, <3>1, <3>2, HistoryQuiet
  <2>7. CASE HandleEvent
    <3>1. UNCHANGED <<docker, connection>>
      BY <2>7 DEF HandleEvent
    <3> QED BY <2>2, <2>7, <3>1, AfterTake, HistoryQuiet DEF connection
  <2>8. CASE ConsumerEnds \/ Cancel \/ UNCHANGED vars
    <3>1. UNCHANGED <<docker, connection, out, tracked>>
      BY <2>8 DEF ConsumerEnds, Cancel, vars
    <3>2. After' = After
      BY <3>1 DEF After
    <3> QED BY <2>2, <3>1, <3>2, HistoryQuiet DEF connection
  <2> QED BY <1>2, <2>3, <2>4, <2>5, <2>6, <2>7, <2>8 DEF Next, GeneratorGoesOn
<1> QED BY <1>1, <1>2

\* What is on its way, while Docker has forgotten nothing: the invariant that the
\* generator (runOnce) and the engine (handleEvent) keep between them, and from
\* which it follows that the tracker ends with exactly what runs.
THEOREM HistoryInvariant == Spec => []HistoryInv
BY TypeCorrect, HistoryInit, HistoryNext, PTL DEF Spec

\* The events of the stream that the generator has not read.
LEMMA Suffix ==
  ASSUME GeneratorOK
  PROVE  /\ SubSeq(log, cursor, Len(log)) \in Seq(Messages)
         /\ Len(SubSeq(log, cursor, Len(log))) = Len(log) - cursor + 1
         /\ \A j \in 1..(Len(log) - cursor + 1) :
              SubSeq(log, cursor, Len(log))[j] = log[cursor + j - 1]
<1>1. log \in Seq(Messages) /\ Len(log) \in Nat /\ cursor \in 1..(Len(log) + 1)
  BY DEF GeneratorOK, Messages
<1> DEFINE s == SubSeq(log, cursor, Len(log))
<1>2. Len(s) = Len(log) - cursor + 1 /\ s \in Seq(Messages)
  BY <1>1
<1>3. \A j \in 1..(Len(log) - cursor + 1) : s[j] = log[cursor + j - 1]
  BY <1>1
<1> QED BY <1>2, <1>3

\* Once the channel is drained, each event of the stream settles its container.
LEMMA DrainedTells ==
  ASSUME TypeOK, HistoryParts, phase = "stream"
  PROVE  \A c \in Containers : Drained[c] # Untracked <=> c \in running
<1>1. GeneratorOK /\ out \in Seq(Messages) /\ tracked \in Trackers
  BY TypeParts DEF ChannelOK
<1> DEFINE s == SubSeq(log, cursor, Len(log))
           u == out \o s
           n == Len(log) - cursor + 1
<1>2. /\ s \in Seq(Messages) /\ Len(s) = n
      /\ \A j \in 1..n : s[j] = log[cursor + j - 1]
  BY <1>1, Suffix
<1>3. /\ n \in Nat /\ Len(out) \in Nat /\ Len(log) \in Nat /\ cursor \in Nat \ {0}
      /\ cursor + n = Len(log) + 1
  BY <1>1 DEF GeneratorOK
<1> HIDE DEF s, n
<1>4. /\ u \in Seq(Messages) /\ Len(u) = Len(out) + n
      /\ \A i \in 1..Len(out) : u[i] = out[i]
      /\ \A j \in 1..n : u[Len(out) + j] = s[j]
  BY <1>1, <1>2, <1>3
<1> HIDE DEF u
<1>5. PICK g : IsFold(g, tracked, u) /\ FoldLeft(Handled, tracked, u) = g[Len(u)]
  BY <1>4, FoldRecursion
<1>6. PICK h : IsFold(h, tracked, out) /\ FoldLeft(Handled, tracked, out) = h[Len(out)]
  BY <1>1, FoldRecursion
<1>7. g[Len(out)] = h[Len(out)]
  BY <1>1, <1>3, <1>4, <1>5, <1>6, FoldAgrees
<1> DEFINE Good(j) == /\ g[Len(out) + j] \in Trackers
                      /\ \A c \in Containers :
                           Settled(c, cursor + j) => (g[Len(out) + j][c] # Untracked <=> c \in running)
           P == {j \in Nat : j <= n => Good(j)}
<1>8. 0 \in P
  <2>1. After = g[Len(out)] /\ After \in Trackers
    BY <1>6, <1>7, AfterTyped DEF After
  <2>2. \A c \in Containers : Settled(c, cursor) => (After[c] # Untracked <=> c \in running)
    BY DEF HistoryParts, StreamTells, Will
  <2>3. Len(out) + 0 = Len(out) /\ cursor + 0 = cursor
    BY <1>3
  <2> QED BY <2>1, <2>2, <2>3
<1>9. ASSUME NEW j \in Nat, j \in P
      PROVE  j + 1 \in P
  <2> SUFFICES ASSUME j + 1 <= n PROVE Good(j + 1)
    OBVIOUS
  <2>1. Good(j)
    BY <1>3, <1>9
  <2>2. /\ Len(out) + (j + 1) \in 0..Len(u) /\ Len(out) + (j + 1) # 0
        /\ (Len(out) + (j + 1)) - 1 = Len(out) + j
        /\ cursor + j \in 1..Len(log) /\ j + 1 \in 1..n
        /\ cursor + (j + 1) - 1 = cursor + j /\ cursor + (j + 1) = (cursor + j) + 1
    <3> HIDE DEF P
    <3>1. Len(u) = Len(out) + n
      BY <1>4
    <3>2. Len(out) + (j + 1) \in 0..Len(u)
      BY <1>3, <3>1
    <3> QED BY <1>3, <3>2
  <2>3. u[Len(out) + (j + 1)] = log[cursor + j]
    BY <1>2, <1>4, <2>2
  <2>4. g[Len(out) + (j + 1)] = Handled(g[Len(out) + j], log[cursor + j])
    BY <1>5, <2>2, <2>3 DEF IsFold
  <2>5. log[cursor + j] \in Messages
    BY <1>1, <2>2 DEF GeneratorOK, Messages
  <2>6. g[Len(out) + (j + 1)] \in Trackers
    BY <2>1, <2>4, <2>5, HandledTyped
  <2>7. \A c \in Containers : Settled(c, (cursor + j) + 1) =>
          (Handled(g[Len(out) + j], log[cursor + j])[c] # Untracked <=> c \in running)
    BY <1>1, <2>1, <2>2, EventTells DEF HistoryParts
  <2> QED BY <2>2, <2>4, <2>6, <2>7
<1>10. Good(n)
  <2>1. n \in P
    <3> HIDE DEF P
    <3> QED BY <1>3, <1>8, <1>9, NatSetInduction
  <2> QED BY <1>3, <2>1
<1>11. ASSUME NEW c PROVE Settled(c, cursor + n)
  BY <1>3 DEF Settled
<1>12. Drained = g[Len(out) + n]
  BY <1>4, <1>5, Zenon DEF Drained, u, s
<1> QED BY <1>10, <1>11, <1>12

\* While the stream is up and Docker has not restarted, what is on its way brings the
\* tracker to exactly what runs, however the list, the replayed events and the live
\* ones overlap (DockerGenerator.runOnce, SyncEngine.handleEvent, MemoryState).
THEOREM ExactUnderHistory == Spec => []ExactWithHistory
<1>1. TypeOK /\ HistoryInv => ExactWithHistory
  <2> SUFFICES ASSUME TypeOK, HistoryInv, phase = "stream", restarts = 0
               PROVE  Tracked(Drained) = running
    BY DEF ExactWithHistory
  <2>1. HistoryParts
    BY DEF HistoryInv
  <2>2. \A c \in Containers : Drained[c] # Untracked <=> c \in running
    BY <2>1, DrainedTells
  <2>3. running \subseteq Containers
    BY TypeParts DEF GeneratorOK
  <2> QED BY <2>2, <2>3 DEF Tracked
<1> QED BY <1>1, TypeCorrect, HistoryInvariant, PTL

=============================================================================
