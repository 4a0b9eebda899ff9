------------------------ MODULE ControlBridgeProofs ------------------------
(***************************************************************************)
(* The safety of the control bridge, for every number of connections,      *)
(* permits and inputs, and every capacity of the broadcast channel.        *)
(*                                                                         *)
(* The inductive invariant Inv is TypeOK and three parts that do not       *)
(* depend on each other: GateInv counts the permits, InputInv says where   *)
(* the newest input is, StateInv orders the states a connection wrote, has *)
(* not yet received, and will be sent.                                     *)
(***************************************************************************)
EXTENDS ControlBridge, WellFoundedInduction, TLAPS

USE CapacityAssumption, BoundsAssumption, ChoiceAssumption

\* The permits are accounted for, within the bound; only a server thread that has
\* left its loop has closed the gate.
GateInv ==
    /\ EveryTickHasAPermit
    /\ released + steps <= MaxPermits
    /\ closed => pc = "done"
    /\ pc = "asleep" => permits = 0

\* No input is newer than the newest, which is in the game, queued or about to be
\* queued.
InputInv ==
    /\ input <= version
    /\ \A i \in DOMAIN queue : queue[i] <= version
    /\ \A c \in Con : queuing[c] <= version
    /\ \/ input = version
       \/ \E i \in DOMAIN queue : queue[i] = version
       \/ \E c \in Con : queuing[c] = version

Between(q, lo, hi) == \A i \in DOMAIN q : lo <= q[i] /\ q[i] <= hi

Sorted(q) == \A i, j \in DOMAIN q : i < j => q[i] <= q[j]

\* What a connection wrote is not newer than what it has yet to receive, which is
\* in order, and not newer than the tick the server is at.
StateInv ==
    /\ last_state <= ticks
    /\ \A c \in Con :
          /\ con[c] = "none" => seen[c] = None
          /\ con[c] /= "open" => backlog[c] = <<>>
          /\ seen[c] <= ticks
          /\ Between(backlog[c], seen[c], ticks)
          /\ Sorted(backlog[c])

Inv == TypeOK /\ GateInv /\ InputInv /\ StateInv

----------------------------------------------------------------------------
(***************************************************************************)
(* The newest of the queued inputs.                                        *)
(***************************************************************************)

\* A set of versions has a newest.
LEMMA NewestExists ==
    ASSUME NEW V \in SUBSET (0..MaxInputs), V /= {}
    PROVE  \E v \in V : \A w \in V : w <= v
<1> DEFINE D == {MaxInputs - v : v \in V}
<1>1. D \subseteq Nat /\ D /= {}
  <2>1. \A v \in V : v \in 0..MaxInputs /\ MaxInputs - v \in Nat
    OBVIOUS
  <2> QED BY <2>1
<1>2. PICK n \in D : \A m \in D : ~ (<<m, n>> \in OpToRel(<, Nat))
  <2> HIDE DEF D
  <2> QED BY <1>1, NatLessThanWellFounded, WFMin
<1>3. PICK v \in V : n = MaxInputs - v
  BY <1>2
<1>4. ASSUME NEW w \in V PROVE w <= v
  <2>1. MaxInputs - w \in D
    OBVIOUS
  <2>2. v \in 0..MaxInputs /\ w \in 0..MaxInputs
    OBVIOUS
  <2>3. OpToRel(<, Nat) = {ss \in Nat \X Nat : ss[1] < ss[2]}
    BY DEF OpToRel
  <2>4. MaxInputs - w \in Nat /\ MaxInputs - v \in Nat
    BY <2>2
  <2>5. ~ (MaxInputs - w < MaxInputs - v)
    <3>1. <<MaxInputs - w, MaxInputs - v>> \notin OpToRel(<, Nat)
      BY <1>2, <1>3, <2>1
    <3> QED BY <2>3, <2>4, <3>1
  <2> QED BY <2>2, <2>5
<1> QED BY <1>4

\* The game ends up with an input that it had or that was queued, and with no
\* older one than any of them.
LEMMA AppliedIsNewest ==
    ASSUME NEW q \in Seq(1..MaxInputs), input \in 0..MaxInputs
    PROVE  /\ Applied(q) \in {input} \cup {q[i] : i \in DOMAIN q}
           /\ Applied(q) \in 0..MaxInputs
           /\ input <= Applied(q)
           /\ \A i \in DOMAIN q : q[i] <= Applied(q)
<1> DEFINE V == {input} \cup {q[i] : i \in DOMAIN q}
           Newest(v) == \A w \in V : w <= v
<1>1. V \in SUBSET (0..MaxInputs) /\ V /= {}
  <2>1. \A i \in DOMAIN q : q[i] \in 1..MaxInputs
    OBVIOUS
  <2> QED BY <2>1
<1>2. \E v \in V : Newest(v)
  BY <1>1, NewestExists
<1>3. Applied(q) = CHOOSE v \in V : Newest(v)
  BY DEF Applied
<1>4. Applied(q) \in V /\ Newest(Applied(q))
  <2> HIDE DEF V, Newest
  <2> QED BY <1>2, <1>3
<1> QED BY <1>1, <1>4

----------------------------------------------------------------------------
(***************************************************************************)
(* The invariant.                                                          *)
(***************************************************************************)

\* Init establishes the invariant.
LEMMA InitInv == Init => Inv
<1> SUFFICES ASSUME Init PROVE Inv
  OBVIOUS
<1>1. TypeOK
  <2>1. backlog \in [Con -> Seq(Tick)] /\ queue \in Seq(1..MaxInputs)
    BY DEF Init
  <2>2. \A c \in Con : Len(backlog[c]) = 0
    BY DEF Init
  <2>3. responses \in [Con -> Nat]
    BY DEF Init
  <2>4. \A c \in Con : Len(backlog[c]) <= Capacity
    BY <2>2
  <2>5. /\ con \in [Con -> {"none", "greeted", "open"}]
        /\ lagged \in [Con -> BOOLEAN] /\ muted \in [Con -> BOOLEAN]
        /\ queuing \in [Con -> 1..MaxInputs \cup {None}]
        /\ seen \in [Con -> Tick \cup {None}]
    BY DEF Init
  <2>6. /\ pc = "publish" /\ is_open \in BOOLEAN /\ closed \in BOOLEAN
        /\ steps = 0 /\ ticks = 0 /\ permits = 0 /\ released = 0 /\ last_state = None
        /\ version = 0 /\ input = 0
    BY DEF Init
  <2> QED BY <2>1, <2>3, <2>4, <2>5, <2>6 DEF TypeOK, Tick
<1>2. GateInv
  BY DEF Init, GateInv, EveryTickHasAPermit
<1>3. InputInv
  BY DEF Init, InputInv, None
<1>4. StateInv
  <2>1. \A c \in Con : backlog[c] = <<>> /\ DOMAIN backlog[c] = {} /\ seen[c] = -1
    BY DEF Init, None
  <2> QED BY <2>1 DEF Init, StateInv, None, Between, Sorted
<1> QED BY <1>1, <1>2, <1>3, <1>4 DEF Inv

\* Every step keeps the types.
LEMMA TypeStep == Inv /\ [Next]_vars => TypeOK'
<1> SUFFICES ASSUME Inv, [Next]_vars PROVE TypeOK'
  OBVIOUS
<1>t. TypeOK
  BY DEF Inv
<1>g. GateInv
  BY DEF Inv
<1> USE <1>t DEF Tick, None
<1>1. CASE ServerStep
  <2>1. CASE HandleEvents BY <1>g, <2>1 DEF HandleEvents, TypeOK, GateInv, EveryTickHasAPermit, inputVars, writerVars
  <2>2. CASE NoTick BY <2>2 DEF NoTick, TypeOK, gateVars, inputVars, writerVars
  <2>3. CASE NextTick BY <2>3 DEF NextTick, TypeOK, gateVars, inputVars, writerVars
  <2>4. CASE WaitForTick BY <2>4 DEF WaitForTick, TypeOK, inputVars, writerVars
  <2>5. CASE RunTick
    <3>1. input' \in 0..MaxInputs
      BY <2>5, AppliedIsNewest DEF RunTick, TypeOK
    <3>2. ticks' \in Tick
      BY <2>5, <1>g DEF RunTick, TypeOK, GateInv, EveryTickHasAPermit
    <3> QED BY <2>5, <3>1, <3>2 DEF RunTick, TypeOK, gateVars, writerVars
  <2>6. CASE Publish BY <2>6 DEF Publish, TypeOK, gateVars, inputVars, writerVars
  <2>7. CASE Broadcast
    <3>1. ASSUME NEW c \in Con
          PROVE  /\ backlog'[c] \in Seq(Tick)
                 /\ Len(backlog'[c]) <= Capacity
      <4>1. CASE ~Subscribed(c) BY <2>7, <4>1 DEF Broadcast, TypeOK
      <4>2. CASE Subscribed(c) /\ Len(backlog[c]) = Capacity
        <5>1. backlog'[c] = Append(Tail(backlog[c]), ticks)
          BY <2>7, <4>2 DEF Broadcast, TypeOK
        <5> QED BY <4>2, <5>1 DEF TypeOK
      <4>3. CASE Subscribed(c) /\ Len(backlog[c]) /= Capacity
        <5>1. backlog'[c] = Append(backlog[c], ticks)
          BY <2>7, <4>3 DEF Broadcast, TypeOK
        <5> QED BY <4>3, <5>1 DEF TypeOK
      <4> QED BY <4>1, <4>2, <4>3
    <3>2. backlog' \in [Con -> Seq(Tick)]
      BY <2>7, <3>1 DEF Broadcast
    <3>3. lagged' \in [Con -> BOOLEAN]
      BY <2>7 DEF Broadcast, TypeOK
    <3> QED BY <2>7, <3>1, <3>2, <3>3 DEF Broadcast, TypeOK, gateVars, inputVars
  <2>8. CASE CloseGate BY <2>8 DEF CloseGate, TypeOK, inputVars, writerVars
  <2> QED BY <1>1, <2>1, <2>2, <2>3, <2>4, <2>5, <2>6, <2>7, <2>8 DEF ServerStep
<1>2. CASE Spurious BY <1>2 DEF Spurious, TypeOK, gateVars, inputVars, writerVars
<1>3. CASE DeterministicStep BY <1>3 DEF DeterministicStep, TypeOK, gateVars, inputVars, writerVars
<1>4. CASE Stop BY <1>4 DEF Stop, TypeOK, gateVars, inputVars, writerVars
<1>5. ASSUME NEW c \in Con, Greet(c) \/ Subscribe(c) \/ Command(c) \/ Writer(c)
      PROVE  TypeOK'
  <2>1. CASE Greet(c) BY <2>1 DEF Greet, TypeOK, serverVars, gateVars, inputVars
  <2>2. CASE Subscribe(c) BY <2>2 DEF Subscribe, TypeOK, serverVars, gateVars, inputVars, writerVars
  <2>3. CASE Step(c)
    <3>1. PICK n \in 1..(MaxPermits - released - steps) : Allow(n)
      BY <2>3 DEF Step
    <3>2. permits' \in Tick /\ released' \in Tick /\ pc' \in {pc, "gate"} /\ closed' = closed
      BY <1>g, <3>1 DEF Allow, Notified, TypeOK, GateInv, EveryTickHasAPermit
    <3>3. responses' \in [Con -> Nat]
      BY <2>3 DEF Step, TypeOK
    <3> QED BY <2>3, <3>2, <3>3 DEF Step, TypeOK, inputVars, writerVars
  <2>4. CASE NewInput(c) BY <2>4 DEF NewInput, TypeOK, serverVars, gateVars, writerVars
  <2>5. CASE QueueInput(c) BY <2>5 DEF QueueInput, TypeOK, serverVars, gateVars, writerVars
  <2>6. CASE WriteResponse(c) BY <2>6 DEF WriteResponse, TypeOK, serverVars, gateVars, inputVars
  <2>7. CASE WriteState(c)
    <3>1. Head(backlog[c]) \in Tick /\ Tail(backlog[c]) \in Seq(Tick) /\ Len(Tail(backlog[c])) <= Capacity
      BY <2>7 DEF WriteState, TypeOK
    <3> QED BY <2>7, <3>1 DEF WriteState, TypeOK, serverVars, gateVars, inputVars
  <2>8. CASE Lagged(c) BY <2>8 DEF Lagged, TypeOK, serverVars, gateVars, inputVars
  <2> QED BY <1>5, <2>1, <2>2, <2>3, <2>4, <2>5, <2>6, <2>7, <2>8 DEF Command, Writer
<1>6. CASE UNCHANGED vars
  BY <1>6 DEF vars, serverVars, gateVars, inputVars, writerVars, TypeOK
<1> QED BY <1>1, <1>2, <1>3, <1>4, <1>5, <1>6 DEF Next

\* Every step accounts for its permits: a step of a connection and a client's step
\* add what they hand out, the gate takes one for the tick that follows.
LEMMA GateStep == Inv /\ [Next]_vars => GateInv'
<1> SUFFICES ASSUME Inv, [Next]_vars PROVE GateInv'
  OBVIOUS
<1>t. /\ ticks \in Nat /\ permits \in Nat /\ released \in Nat /\ steps \in Nat
      /\ closed \in BOOLEAN
      /\ GateInv
  BY DEF Inv, TypeOK, Tick
<1> USE <1>t DEF GateInv, EveryTickHasAPermit
<1>1. CASE HandleEvents BY <1>1 DEF HandleEvents
<1>2. CASE NoTick \/ NextTick BY <1>2 DEF NoTick, NextTick, gateVars
<1>3. CASE WaitForTick BY <1>3 DEF WaitForTick
<1>4. CASE RunTick BY <1>4 DEF RunTick, gateVars
<1>5. CASE Publish \/ Broadcast \/ CloseGate BY <1>5 DEF Publish, Broadcast, CloseGate, gateVars
<1>6. CASE Spurious \/ DeterministicStep \/ Stop BY <1>6 DEF Spurious, DeterministicStep, Stop, gateVars
<1>7. ASSUME NEW c \in Con, Step(c)
      PROVE  GateInv'
  <2>1. PICK n \in 1..(MaxPermits - released - steps) : Allow(n)
    BY <1>7 DEF Step
  <2> QED BY <1>7, <2>1 DEF Step, Allow, Notified
<1>8. ASSUME NEW c \in Con,
             Greet(c) \/ Subscribe(c) \/ NewInput(c) \/ QueueInput(c) \/ Writer(c)
      PROVE  GateInv'
  BY <1>8 DEF Greet, Subscribe, NewInput, QueueInput, Writer, WriteResponse, WriteState, Lagged, serverVars, gateVars
<1>9. CASE UNCHANGED vars
  BY <1>9 DEF vars, serverVars, gateVars
<1> QED
  BY <1>1, <1>2, <1>3, <1>4, <1>5, <1>6, <1>7, <1>8, <1>9 DEF Next, ServerStep, Command

\* The newest input stays where a later step finds it: NewInput hands it to the
\* command's handler, QueueInput to the queue, RunTick to the game.
LEMMA InputStep == Inv /\ [Next]_vars => InputInv'
<1> SUFFICES ASSUME Inv, [Next]_vars PROVE InputInv'
  OBVIOUS
<1>t. TypeOK /\ InputInv
  BY DEF Inv
<1> USE <1>t
<1>1. CASE UNCHANGED inputVars
  BY <1>1 DEF inputVars, InputInv
<1>2. CASE RunTick
  <2>1. /\ Applied(queue) \in {input} \cup {queue[i] : i \in DOMAIN queue}
        /\ input <= Applied(queue)
        /\ \A i \in DOMAIN queue : queue[i] <= Applied(queue)
        /\ Applied(queue) \in 0..MaxInputs
    BY AppliedIsNewest DEF TypeOK
  <2>2. input' = Applied(queue) /\ DOMAIN queue' = {} /\ version' = version /\ queuing' = queuing
    BY <1>2 DEF RunTick
  <2>3. input' <= version
    BY <2>1, <2>2 DEF InputInv
  <2>4. version \in 0..MaxInputs
    BY DEF TypeOK
  <2>5. input' = version \/ \E c \in Con : queuing[c] = version
    <3>1. CASE input = version \/ \E i \in DOMAIN queue : queue[i] = version
      BY <2>1, <2>2, <2>3, <2>4, <3>1
    <3> QED BY <3>1 DEF InputInv
  <2> QED BY <2>2, <2>3, <2>5 DEF InputInv
<1>3. ASSUME NEW c \in Con, NewInput(c)
      PROVE  InputInv'
  <2>1. queuing' = [queuing EXCEPT ![c] = version + 1] /\ version' = version + 1 /\ version \in Nat
    BY <1>3 DEF NewInput, TypeOK
  <2>2. queuing'[c] = version' /\ \A d \in Con : queuing'[d] <= version'
    <3>1. \A d \in Con : queuing[d] \in Int /\ queuing[d] <= version
      BY DEF TypeOK, InputInv, None
    <3>2. queuing'[c] = version + 1 /\ \A d \in Con \ {c} : queuing'[d] = queuing[d]
      BY <2>1 DEF TypeOK
    <3> QED BY <2>1, <3>1, <3>2
  <2>3. input' = input /\ queue' = queue /\ input \in Nat /\ \A i \in DOMAIN queue : queue[i] \in Nat
    BY <1>3 DEF NewInput, TypeOK
  <2> QED BY <2>1, <2>2, <2>3 DEF InputInv
<1>4. ASSUME NEW c \in Con, QueueInput(c)
      PROVE  InputInv'
  <2>1. queuing[c] \in 1..MaxInputs /\ queue \in Seq(1..MaxInputs)
    BY <1>4 DEF QueueInput, TypeOK
  <2>2. /\ queue' = Append(queue, queuing[c])
        /\ queuing' = [queuing EXCEPT ![c] = None]
        /\ input' = input /\ version' = version
    BY <1>4 DEF QueueInput
  <2>3. /\ DOMAIN queue' = 1..(Len(queue) + 1)
        /\ \A i \in DOMAIN queue : queue'[i] = queue[i]
        /\ queue'[Len(queue) + 1] = queuing[c]
        /\ Len(queue) \in Nat /\ DOMAIN queue = 1..Len(queue)
    BY <2>1, <2>2
  <2>4. \A i \in DOMAIN queue' : queue'[i] <= version'
    BY <2>2, <2>3 DEF InputInv
  <2>5. \A d \in Con : queuing'[d] <= version'
    BY <2>2 DEF TypeOK, InputInv, None
  <2>6. \/ input' = version'
        \/ \E i \in DOMAIN queue' : queue'[i] = version'
        \/ \E d \in Con : queuing'[d] = version'
    <3>1. CASE input = version
      BY <2>2, <3>1
    <3>2. CASE \E i \in DOMAIN queue : queue[i] = version
      BY <2>2, <2>3, <3>2
    <3>3. ASSUME NEW d \in Con, queuing[d] = version
          PROVE  \/ \E i \in DOMAIN queue' : queue'[i] = version'
                 \/ \E e \in Con : queuing'[e] = version'
      <4>1. CASE d = c
        BY <2>2, <2>3, <3>3, <4>1
      <4>2. CASE d /= c
        <5>1. queuing'[d] = version'
          BY <2>2, <3>3, <4>2 DEF TypeOK
        <5> QED BY <5>1
      <4> QED BY <4>1, <4>2
    <3> QED BY <3>1, <3>2, <3>3 DEF InputInv
  <2> QED BY <2>2, <2>4, <2>5, <2>6 DEF InputInv
<1>5. CASE ServerStep /\ ~RunTick
  BY <1>1, <1>5 DEF ServerStep, HandleEvents, NoTick, NextTick, WaitForTick, Publish, Broadcast, CloseGate
<1>6. CASE Spurious \/ DeterministicStep \/ Stop
  BY <1>1, <1>6 DEF Spurious, DeterministicStep, Stop
<1>7. ASSUME NEW c \in Con, Greet(c) \/ Subscribe(c) \/ Step(c) \/ Writer(c)
      PROVE  InputInv'
  BY <1>1, <1>7 DEF Greet, Subscribe, Step, Writer, WriteResponse, WriteState, Lagged
<1>8. CASE UNCHANGED vars
  BY <1>1, <1>8 DEF vars
<1> QED
  BY <1>2, <1>3, <1>4, <1>5, <1>6, <1>7, <1>8 DEF Next, Command

\* What one connection wrote, has to receive and will be sent is in order.
Ordered(c) ==
    /\ con[c] = "none" => seen[c] = None
    /\ con[c] /= "open" => backlog[c] = <<>>
    /\ seen[c] <= ticks
    /\ Between(backlog[c], seen[c], ticks)
    /\ Sorted(backlog[c])

\* A newest state can be appended.
LEMMA AppendInOrder ==
    ASSUME NEW q \in Seq(Nat), NEW lo \in Int, NEW hi \in Nat,
           lo <= hi, Between(q, lo, hi), Sorted(q)
    PROVE  Between(Append(q, hi), lo, hi) /\ Sorted(Append(q, hi))
<1> DEFINE r == Append(q, hi)
<1>1. /\ Len(q) \in Nat /\ DOMAIN q = 1..Len(q) /\ DOMAIN r = 1..(Len(q) + 1)
      /\ \A i \in 1..Len(q) : r[i] = q[i] /\ q[i] \in Nat
      /\ r[Len(q) + 1] = hi
  OBVIOUS
<1> HIDE DEF r
<1>2. \A i \in DOMAIN r : lo <= r[i] /\ r[i] <= hi
  BY <1>1 DEF Between
<1>3. ASSUME NEW i \in DOMAIN r, NEW j \in DOMAIN r, i < j
      PROVE  r[i] <= r[j]
  <2>1. CASE j = Len(q) + 1
    BY <1>1, <1>2, <2>1
  <2>2. CASE j /= Len(q) + 1
    <3>1. i \in DOMAIN q /\ j \in DOMAIN q
      BY <1>1, <1>3, <2>2
    <3> QED BY <1>1, <1>3, <3>1 DEF Sorted
  <2> QED BY <2>1, <2>2
<1>4. Between(r, lo, hi) /\ Sorted(r)
  BY <1>2, <1>3 DEF Between, Sorted
<1> QED BY <1>4 DEF r

\* The oldest state can be taken, and what is left is not older.
LEMMA TakeInOrder ==
    ASSUME NEW q \in Seq(Nat), q /= <<>>, NEW lo \in Int, NEW hi \in Nat,
           Between(q, lo, hi), Sorted(q)
    PROVE  /\ Tail(q) \in Seq(Nat) /\ Sorted(Tail(q))
           /\ lo <= Head(q) /\ Head(q) <= hi
           /\ Between(Tail(q), lo, hi) /\ Between(Tail(q), Head(q), hi)
<1> DEFINE r == Tail(q)
<1>1. /\ Len(q) \in Nat \ {0} /\ DOMAIN q = 1..Len(q) /\ DOMAIN r = 1..(Len(q) - 1)
      /\ \A i \in 1..(Len(q) - 1) : r[i] = q[i + 1] /\ i + 1 \in DOMAIN q
      /\ Head(q) = q[1] /\ 1 \in DOMAIN q
      /\ r \in Seq(Nat)
  OBVIOUS
<1> HIDE DEF r
<1>2. \A i \in DOMAIN r : q[1] <= r[i] /\ lo <= r[i] /\ r[i] <= hi
  <2>1. \A i \in DOMAIN r : 1 < i + 1
    BY <1>1
  <2> QED BY <1>1, <2>1 DEF Between, Sorted
<1>3. ASSUME NEW i \in DOMAIN r, NEW j \in DOMAIN r, i < j
      PROVE  r[i] <= r[j]
  <2>1. i + 1 \in DOMAIN q /\ j + 1 \in DOMAIN q /\ i + 1 < j + 1
    BY <1>1, <1>3, SMTT(30)
  <2> QED BY <1>1, <2>1 DEF Sorted
<1>4. Between(r, lo, hi) /\ Between(r, q[1], hi) /\ Sorted(r)
  BY <1>2, <1>3 DEF Between, Sorted
<1> QED BY <1>1, <1>4 DEF Between, r

\* Every step keeps the states of every connection in order: what is broadcast is
\* the newest, a full receiver loses its oldest, a writer takes the oldest.
LEMMA StateStep == Inv /\ [Next]_vars => StateInv'
<1> SUFFICES ASSUME Inv, [Next]_vars PROVE StateInv'
  OBVIOUS
<1>t. /\ ticks \in Nat /\ last_state \in Int /\ last_state <= ticks
      /\ \A c \in Con : seen[c] \in Int /\ backlog[c] \in Seq(Nat) /\ Ordered(c)
      /\ con \in [Con -> {"none", "greeted", "open"}]
      /\ DOMAIN seen = Con /\ DOMAIN backlog = Con
  <2>1. \A c \in Con : seen[c] \in Int /\ backlog[c] \in Seq(Nat)
    BY DEF Inv, TypeOK, Tick, None
  <2> QED BY <2>1 DEF Inv, TypeOK, Tick, None, StateInv, Ordered
<1>s. ASSUME last_state' <= ticks', \A c \in Con : Ordered(c)' PROVE StateInv'
  BY <1>s DEF StateInv, Ordered
<1>1. CASE UNCHANGED <<ticks, last_state, seen, backlog, con>>
  BY <1>t, <1>1, <1>s DEF Ordered
<1>2. CASE RunTick
  <2>1. ticks' = ticks + 1 /\ UNCHANGED <<last_state, seen, backlog, con>>
    BY <1>2 DEF RunTick, writerVars
  <2>2. ASSUME NEW c \in Con PROVE Ordered(c)'
    <3>1. \A i \in DOMAIN backlog[c] : backlog[c][i] \in Nat
      BY <1>t
    <3> QED BY <1>t, <2>1, <3>1 DEF Ordered, Between
  <2> QED BY <1>t, <1>s, <2>1, <2>2
<1>3. CASE Publish
  <2>1. last_state' = ticks /\ UNCHANGED <<ticks, seen, backlog, con>>
    BY <1>3 DEF Publish, writerVars
  <2>2. ASSUME NEW c \in Con PROVE Ordered(c)'
    BY <1>t, <2>1 DEF Ordered
  <2> QED BY <1>t, <1>s, <2>1, <2>2
<1>4. CASE Broadcast
  <2>1. UNCHANGED <<ticks, last_state, seen, con>>
    BY <1>4 DEF Broadcast
  <2>2. ASSUME NEW c \in Con PROVE Ordered(c)'
    <3> DEFINE q == IF Len(backlog[c]) = Capacity THEN Tail(backlog[c]) ELSE backlog[c]
    <3>1. CASE ~Subscribed(c)
      <4>1. backlog'[c] = backlog[c]
        BY <1>4, <3>1 DEF Broadcast
      <4> QED BY <1>t, <2>1, <4>1 DEF Ordered
    <3>2. CASE Subscribed(c)
      <4>1. backlog'[c] = Append(q, ticks)
        BY <1>4, <3>2 DEF Broadcast
      <4>2. seen[c] \in Int /\ seen[c] <= ticks /\ con[c] = "open"
        BY <1>t, <3>2 DEF Ordered, Subscribed
      <4>3. q \in Seq(Nat) /\ Between(q, seen[c], ticks) /\ Sorted(q)
        <5>1. CASE Len(backlog[c]) /= Capacity
          BY <1>t, <5>1 DEF Ordered
        <5>2. CASE Len(backlog[c]) = Capacity
          <6>1. backlog[c] \in Seq(Nat) /\ backlog[c] /= <<>>
            BY <1>t, <5>2
          <6> QED BY <1>t, <4>2, <5>2, <6>1, TakeInOrder DEF Ordered
        <5> QED BY <5>1, <5>2
      <4> HIDE DEF q
      <4>4. Between(backlog'[c], seen[c], ticks) /\ Sorted(backlog'[c])
        BY <1>t, <4>1, <4>2, <4>3, AppendInOrder
      <4> QED BY <2>1, <4>2, <4>4 DEF Ordered
    <3> QED BY <3>1, <3>2
  <2> QED BY <1>t, <1>s, <2>1, <2>2
<1>5. ASSUME NEW c \in Con, Greet(c)
      PROVE  StateInv'
  <2>1. /\ UNCHANGED <<ticks, last_state, backlog>>
        /\ con[c] = "none" /\ con' = [con EXCEPT ![c] = "greeted"]
        /\ seen' = [seen EXCEPT ![c] = last_state]
    BY <1>5 DEF Greet, serverVars
  <2>2. ASSUME NEW d \in Con PROVE Ordered(d)'
    <3>1. CASE d = c
      <4>1. backlog'[c] = <<>> /\ seen'[c] = last_state /\ con'[c] = "greeted"
        BY <1>t, <2>1 DEF Ordered
      <4> QED BY <1>t, <2>1, <3>1, <4>1 DEF Ordered, Between, Sorted
    <3>2. CASE d /= c
      <4>1. backlog'[d] = backlog[d] /\ seen'[d] = seen[d] /\ con'[d] = con[d]
        BY <1>t, <2>1, <3>2
      <4> QED BY <1>t, <2>1, <4>1 DEF Ordered
    <3> QED BY <3>1, <3>2
  <2> QED BY <1>t, <1>s, <2>1, <2>2
<1>6. ASSUME NEW c \in Con, Subscribe(c)
      PROVE  StateInv'
  <2>1. /\ UNCHANGED <<ticks, last_state, backlog, seen>>
        /\ con[c] = "greeted" /\ con' = [con EXCEPT ![c] = "open"]
    BY <1>6 DEF Subscribe, serverVars, writerVars
  <2>2. ASSUME NEW d \in Con PROVE Ordered(d)'
    BY <1>t, <2>1 DEF Ordered
  <2> QED BY <1>t, <1>s, <2>1, <2>2
<1>7. ASSUME NEW c \in Con, WriteState(c)
      PROVE  StateInv'
  <2>1. /\ UNCHANGED <<ticks, last_state, con>>
        /\ con[c] = "open" /\ backlog[c] /= <<>>
        /\ seen' = [seen EXCEPT ![c] = Head(backlog[c])]
        /\ backlog' = [backlog EXCEPT ![c] = Tail(backlog[c])]
    BY <1>7 DEF WriteState, serverVars
  <2>2. ASSUME NEW d \in Con PROVE Ordered(d)'
    <3>1. CASE d = c
      <4>1. /\ Between(Tail(backlog[c]), Head(backlog[c]), ticks)
            /\ Sorted(Tail(backlog[c])) /\ Head(backlog[c]) <= ticks
        BY <1>t, <2>1, TakeInOrder DEF Ordered
      <4>2. seen'[c] = Head(backlog[c]) /\ backlog'[c] = Tail(backlog[c]) /\ con'[c] = "open"
        BY <1>t, <2>1
      <4> QED BY <2>1, <3>1, <4>1, <4>2 DEF Ordered
    <3>2. CASE d /= c
      <4>1. backlog'[d] = backlog[d] /\ seen'[d] = seen[d] /\ con'[d] = con[d]
        BY <1>t, <2>1, <3>2
      <4> QED BY <1>t, <2>1, <4>1 DEF Ordered
    <3> QED BY <3>1, <3>2
  <2> QED BY <1>t, <1>s, <2>1, <2>2
<1>8. CASE HandleEvents \/ NoTick \/ NextTick \/ WaitForTick \/ CloseGate
  BY <1>1, <1>8 DEF HandleEvents, NoTick, NextTick, WaitForTick, CloseGate, writerVars
<1>9. CASE Spurious \/ DeterministicStep \/ Stop
  BY <1>1, <1>9 DEF Spurious, DeterministicStep, Stop, writerVars
<1>10. ASSUME NEW c \in Con, Command(c) \/ WriteResponse(c) \/ Lagged(c)
       PROVE  StateInv'
  BY <1>1, <1>10 DEF Command, Step, NewInput, QueueInput, WriteResponse, Lagged, serverVars, writerVars
<1>11. CASE UNCHANGED vars
  BY <1>1, <1>11 DEF vars, serverVars, writerVars
<1> QED
  BY <1>2, <1>3, <1>4, <1>5, <1>6, <1>7, <1>8, <1>9, <1>10, <1>11 DEF Next, ServerStep, Writer

----------------------------------------------------------------------------
(***************************************************************************)
(* The theorems.                                                           *)
(***************************************************************************)

\* The types, the count of the permits, the place of the newest input and the order
\* of the states are kept by every step of the control bridge and its users.
THEOREM BridgeInvariant == Spec => []Inv
<1>1. Inv /\ [Next]_vars => Inv'
  BY TypeStep, GateStep, InputStep, StateStep DEF Inv
<1> QED BY InitInv, <1>1, PTL DEF Spec

\* However the steps of control connections and of game clients interleave with the
\* server's loop, every permit handed out lets exactly one tick run.
THEOREM PermitsAreExact == Spec => []EveryTickHasAPermit
<1>1. Inv => EveryTickHasAPermit
  BY DEF Inv, GateInv
<1> QED BY BridgeInvariant, <1>1, PTL

\* The server thread never waits at the gate while there is a permit, or after the
\* gate was closed.
THEOREM NobodySleepsOnAPermit == Spec => []NoLostWakeup
<1>1. Inv => NoLostWakeup
  BY DEF Inv, GateInv, NoLostWakeup
<1> QED BY BridgeInvariant, <1>1, PTL

\* When every input that got a version has been taken from the queue, the player's
\* input in the game is the newest, in whatever order they were queued.
THEOREM NewestInputIsKept == Spec => []NewestInputWins
<1>1. Inv => NewestInputWins
  <2> SUFFICES ASSUME Inv, queue = <<>>, \A c \in Con : queuing[c] = None
               PROVE  input = version
    BY DEF NewestInputWins
  <2>1. version \in Nat /\ input \in Nat /\ DOMAIN queue = {}
    BY DEF Inv, TypeOK
  <2> QED BY <2>1 DEF Inv, InputInv, None
<1> QED BY BridgeInvariant, <1>1, PTL

\* A control connection is told about the ticks in their order, however far behind
\* it is and whatever it lost.
THEOREM StatesStayInOrder == Spec => StatesInOrder
<1>1. Inv /\ [Next]_vars => [\A c \in Con : seen[c] <= seen'[c]]_vars
  <2> SUFFICES ASSUME Inv, [Next]_vars, NEW c \in Con
               PROVE  seen[c] <= seen'[c]
    OBVIOUS
  <2>1. /\ seen \in [Con -> Int] /\ last_state \in Int /\ backlog[c] \in Seq(Nat)
        /\ last_state >= -1 /\ Ordered(c)
    BY DEF Inv, TypeOK, Tick, None, StateInv, Ordered
  <2>2. CASE UNCHANGED seen
    BY <2>1, <2>2
  <2>3. ASSUME NEW d \in Con, Greet(d)
        PROVE  seen[c] <= seen'[c]
    BY <2>1, <2>3 DEF Greet, Ordered, None
  <2>4. ASSUME NEW d \in Con, WriteState(d)
        PROVE  seen[c] <= seen'[c]
    <3>1. CASE d = c
      <4>1. seen'[c] = backlog[c][1] /\ 1 \in DOMAIN backlog[c]
        BY <2>1, <2>4, <3>1 DEF WriteState
      <4> QED BY <2>1, <4>1 DEF Ordered, Between
    <3>2. CASE d /= c
      BY <2>1, <2>4, <3>2 DEF WriteState
    <3> QED BY <3>1, <3>2
  <2>5. CASE ServerStep \/ Spurious \/ DeterministicStep \/ Stop
    BY <2>2, <2>5 DEF ServerStep, HandleEvents, NoTick, NextTick, WaitForTick, RunTick, Publish,
                      Broadcast, CloseGate, Spurious, DeterministicStep, Stop, writerVars
  <2>6. ASSUME NEW d \in Con, Subscribe(d) \/ Command(d) \/ WriteResponse(d) \/ Lagged(d)
        PROVE  seen[c] <= seen'[c]
    BY <2>2, <2>6 DEF Subscribe, Command, Step, NewInput, QueueInput, WriteResponse, Lagged, writerVars
  <2> QED BY <2>2, <2>3, <2>4, <2>5, <2>6 DEF Next, Writer, vars, writerVars
<1> QED BY BridgeInvariant, <1>1, PTL DEF Spec, StatesInOrder

=============================================================================
