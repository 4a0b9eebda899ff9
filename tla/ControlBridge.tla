--------------------------- MODULE ControlBridge ---------------------------
(***************************************************************************)
(* The control bridge of the game server                                   *)
(* (src/game/game-server/src/control.rs) and the loop of the server thread *)
(* it holds: the server runs a tick only with a permit.  Connections of    *)
(* the control websocket hand out permits and inputs and are told about    *)
(* every tick; a game client can hand out permits, too, with a             *)
(* DeterministicStep message, which the server thread itself receives.     *)
(*                                                                         *)
(* A connection is two tasks: one handles commands, one writes responses   *)
(* and the states it receives from a broadcast channel that holds at most  *)
(* Capacity of them.  A state is the number of the tick it was taken at.   *)
(* Inputs are those of one player, told apart by their version.            *)
(***************************************************************************)
EXTENDS Integers, Sequences, FiniteSets

CONSTANTS
    Con,             \* control connections
    Capacity,        \* BROADCAST_CHANNEL_CAPACITY
    MaxPermits,      \* the bound on the permits handed out
    MaxInputs,       \* the bound on the inputs queued
    ClientSteps,     \* whether a game client sends DeterministicStep
    MayClose         \* whether the server is told to stop

ASSUME CapacityAssumption == Capacity \in Nat \ {0}
ASSUME BoundsAssumption == MaxPermits \in Nat /\ MaxInputs \in Nat
ASSUME ChoiceAssumption == ClientSteps \in BOOLEAN /\ MayClose \in BOOLEAN

VARIABLES
    pc,             \* where the server thread is
    is_open,
    steps,          \* DeterministicStep messages in the event queue
    ticks,          \* cur_monotonic_tick
    permits, closed, \* TickGateState
    released,       \* all permits handed out
    last_state,
    queue,          \* the versions of the queued inputs
    version,        \* the newest version in player_inputs
    input,          \* the version the player's input has in the game
    con,            \* how far each connection is
    backlog,        \* the states each receiver has not received
    lagged,         \* receivers that lost states
    muted,          \* writers that wait for a response only
    responses,      \* how many responses are not yet written
    queuing,        \* the version a command handler is about to queue
    seen            \* the last state each connection wrote

serverVars == <<pc, is_open, steps, ticks>>
gateVars == <<permits, closed, released>>
inputVars == <<queue, version, input, queuing>>
writerVars == <<backlog, lagged, muted, seen>>
vars == <<serverVars, gateVars, last_state, inputVars, con, responses, writerVars>>

None == -1
Tick == 0..MaxPermits
----------------------------------------------------------------------------

\* The server publishes a state before the first tick.
Init ==
    /\ pc = "publish" /\ is_open = TRUE /\ steps = 0 /\ ticks = 0
    /\ permits = 0 /\ closed = FALSE /\ released = 0
    /\ last_state = None
    /\ queue = <<>> /\ version = 0 /\ input = 0
    /\ con = [c \in Con |-> "none"]
    /\ backlog = [c \in Con |-> <<>>]
    /\ lagged = [c \in Con |-> FALSE] /\ muted = [c \in Con |-> FALSE]
    /\ responses = [c \in Con |-> 0]
    /\ queuing = [c \in Con |-> None]
    /\ seen = [c \in Con |-> None]

----------------------------------------------------------------------------
(***************************************************************************)
(* The tick gate                                                           *)
(***************************************************************************)

\* notify_all: a waiting server thread looks again.
Notified == IF pc = "asleep" THEN "gate" ELSE pc

\* Mutant: nobody is woken.
Allow_Silent(n) ==
    /\ permits' = permits + n
    /\ released' = released + n
    /\ UNCHANGED <<closed, pc>>

\* Mutant: the count replaces the permits there are.
Allow_Replaces(n) ==
    /\ permits' = n
    /\ released' = released + n
    /\ pc' = Notified
    /\ UNCHANGED closed

\* TickGate::allow.  MaxPermits bounds the sum, far from where it saturates.
Allow(n) ==
    /\ permits' = permits + n
    /\ released' = released + n
    /\ pc' = Notified
    /\ UNCHANGED closed

\* TickGate::wait_for_tick, from getting the lock to leaving it or to waiting.
WaitForTick ==
    /\ pc = "gate"
    /\ pc' = IF closed THEN "closing" ELSE IF permits = 0 THEN "asleep" ELSE "tick"
    /\ permits' = IF closed \/ permits = 0 THEN permits ELSE permits - 1
    /\ UNCHANGED <<is_open, steps, ticks, closed, released, last_state, inputVars, con, responses, writerVars>>

\* A condition variable may wake up for no reason.
Spurious ==
    /\ pc = "asleep"
    /\ pc' = "gate"
    /\ UNCHANGED <<is_open, steps, ticks, gateVars, last_state, inputVars, con, responses, writerVars>>

----------------------------------------------------------------------------
(***************************************************************************)
(* The server thread                                                       *)
(***************************************************************************)

\* The loop's condition, and the messages that have arrived.
HandleEvents ==
    /\ pc = "events"
    /\ IF is_open
       THEN /\ pc' = "ticks"
            /\ permits' = permits + steps
            /\ released' = released + steps
            /\ steps' = 0
       ELSE /\ pc' = "closing"
            /\ UNCHANGED <<permits, released, steps>>
    /\ UNCHANGED <<is_open, ticks, closed, last_state, inputVars, con, responses, writerVars>>

\* is_next_tick: time decides.
NextTick ==
    /\ pc = "ticks"
    /\ pc' = "gate"
    /\ UNCHANGED <<is_open, steps, ticks, gateVars, last_state, inputVars, con, responses, writerVars>>

NoTick ==
    /\ pc = "ticks"
    /\ pc' = "events"
    /\ UNCHANGED <<is_open, steps, ticks, gateVars, last_state, inputVars, con, responses, writerVars>>

\* Mutant: inputs are applied in the order of the queue.
Applied_Last(q) == IF q = <<>> THEN input ELSE q[Len(q)]

\* player_inp for every input in the queue: only a newer version overwrites.
Applied(q) ==
    LET versions == {input} \cup {q[i] : i \in DOMAIN q}
    IN  CHOOSE v \in versions : \A w \in versions : w <= v

\* take_inputs, apply_control_inputs and the game's tick.
RunTick ==
    /\ pc = "tick"
    /\ pc' = "publish"
    /\ input' = Applied(queue)
    /\ queue' = <<>>
    /\ ticks' = ticks + 1
    /\ UNCHANGED <<is_open, steps, gateVars, last_state, version, queuing, con, responses, writerVars>>

\* publish_state: first last_state, then the channel.
Publish ==
    /\ pc = "publish"
    /\ pc' = "broadcast"
    /\ last_state' = ticks
    /\ UNCHANGED <<is_open, steps, ticks, gateVars, inputVars, con, responses, writerVars>>

Subscribed(c) == con[c] = "open"

\* A full receiver loses the oldest state.  The first state is published before
\* the loop, every other in the loop over the ticks that are due.
Broadcast ==
    /\ pc = "broadcast"
    /\ pc' = IF ticks = 0 THEN "events" ELSE "ticks"
    /\ LET full == {c \in Con : Subscribed(c) /\ Len(backlog[c]) = Capacity}
       IN  /\ backlog' = [c \in Con |->
                  IF ~Subscribed(c) THEN backlog[c]
                  ELSE Append(IF c \in full THEN Tail(backlog[c]) ELSE backlog[c], ticks)]
           /\ lagged' = [c \in Con |-> lagged[c] \/ c \in full]
    /\ UNCHANGED <<is_open, steps, ticks, gateVars, last_state, inputVars, con, responses, muted, seen>>

\* ControlBridge::close, after the loop.
CloseGate ==
    /\ pc = "closing"
    /\ pc' = "done"
    /\ closed' = TRUE
    /\ UNCHANGED <<is_open, steps, ticks, permits, released, last_state, inputVars, con, responses, writerVars>>

\* A game client in deterministic mode sends DeterministicStep and waits for the
\* snapshot before it sends another.
DeterministicStep ==
    /\ ClientSteps
    /\ steps = 0 /\ released < MaxPermits
    /\ steps' = 1
    /\ UNCHANGED <<pc, is_open, ticks, gateVars, last_state, inputVars, con, responses, writerVars>>

\* LocalServerThread::drop.
Stop ==
    /\ MayClose /\ is_open
    /\ is_open' = FALSE
    /\ UNCHANGED <<pc, steps, ticks, gateVars, last_state, inputVars, con, responses, writerVars>>

----------------------------------------------------------------------------
(***************************************************************************)
(* The control connections                                                 *)
(***************************************************************************)

\* Mutant: the connection subscribes before it reads the last state.
Greet_Subscribed(c) ==
    \/ /\ con[c] = "none"
       /\ con' = [con EXCEPT ![c] = "open"]
       /\ muted' = [muted EXCEPT ![c] = TRUE]
       /\ UNCHANGED <<serverVars, gateVars, last_state, inputVars, responses, backlog, lagged, seen>>
    \/ /\ con[c] = "open" /\ muted[c] /\ seen[c] = None /\ last_state /= None
       /\ muted' = [muted EXCEPT ![c] = FALSE]
       /\ seen' = [seen EXCEPT ![c] = last_state]
       /\ UNCHANGED <<serverVars, gateVars, last_state, inputVars, con, responses, backlog, lagged>>

\* A connection first writes the last state, if there is one ...
Greet(c) ==
    /\ con[c] = "none"
    /\ con' = [con EXCEPT ![c] = "greeted"]
    /\ seen' = [seen EXCEPT ![c] = last_state]
    /\ UNCHANGED <<serverVars, gateVars, last_state, inputVars, responses, backlog, lagged, muted>>

\* ... and then subscribes.
Subscribe(c) ==
    /\ con[c] = "greeted"
    /\ con' = [con EXCEPT ![c] = "open"]
    /\ UNCHANGED <<serverVars, gateVars, last_state, inputVars, responses, writerVars>>

\* {"type": "step"}: at least one tick.
Step(c) ==
    /\ con[c] = "open"
    /\ \E n \in 1..(MaxPermits - released - steps) : Allow(n)
    /\ responses' = [responses EXCEPT ![c] = @ + 1]
    /\ UNCHANGED <<is_open, steps, ticks, last_state, inputVars, con, writerVars>>

\* {"type": "input"}: the input gets its version under one lock ...
NewInput(c) ==
    /\ con[c] = "open" /\ queuing[c] = None
    /\ version < MaxInputs
    /\ version' = version + 1
    /\ queuing' = [queuing EXCEPT ![c] = version']
    /\ UNCHANGED <<serverVars, gateVars, last_state, queue, input, con, responses, writerVars>>

\* ... and is queued under another.
QueueInput(c) ==
    /\ queuing[c] /= None
    /\ queue' = Append(queue, queuing[c])
    /\ queuing' = [queuing EXCEPT ![c] = None]
    /\ responses' = [responses EXCEPT ![c] = @ + 1]
    /\ UNCHANGED <<serverVars, gateVars, last_state, version, input, con, writerVars>>

\* The writer's select, with a response ...
WriteResponse(c) ==
    /\ con[c] = "open" /\ responses[c] > 0
    /\ responses' = [responses EXCEPT ![c] = @ - 1]
    /\ muted' = [muted EXCEPT ![c] = FALSE]
    /\ UNCHANGED <<serverVars, gateVars, last_state, inputVars, con, backlog, lagged, seen>>

\* Mutant: the writer awaits a state once.
WriteState_Once(c) ==
    /\ con[c] = "open" /\ ~muted[c] /\ ~lagged[c] /\ backlog[c] /= <<>>
    /\ seen' = [seen EXCEPT ![c] = Head(backlog[c])]
    /\ backlog' = [backlog EXCEPT ![c] = Tail(@)]
    /\ muted' = [muted EXCEPT ![c] = TRUE]
    /\ UNCHANGED <<serverVars, gateVars, last_state, inputVars, con, responses, lagged>>

\* ... with a state ...
WriteState(c) ==
    /\ con[c] = "open" /\ ~muted[c] /\ ~lagged[c] /\ backlog[c] /= <<>>
    /\ seen' = [seen EXCEPT ![c] = Head(backlog[c])]
    /\ backlog' = [backlog EXCEPT ![c] = Tail(@)]
    /\ UNCHANGED <<serverVars, gateVars, last_state, inputVars, con, responses, lagged, muted>>

\* ... or with an error, which does not match Ok(state): this select goes on with
\* the responses alone.
Lagged(c) ==
    /\ con[c] = "open" /\ ~muted[c] /\ lagged[c]
    /\ lagged' = [lagged EXCEPT ![c] = FALSE]
    /\ muted' = [muted EXCEPT ![c] = TRUE]
    /\ UNCHANGED <<serverVars, gateVars, last_state, inputVars, con, responses, backlog, seen>>

----------------------------------------------------------------------------

ServerStep ==
    \/ HandleEvents \/ NoTick \/ NextTick \/ WaitForTick \/ RunTick
    \/ Publish \/ Broadcast \/ CloseGate

Command(c) == Step(c) \/ NewInput(c) \/ QueueInput(c)

Writer(c) == WriteResponse(c) \/ WriteState(c) \/ Lagged(c)

Next ==
    \/ ServerStep
    \/ Spurious
    \/ DeterministicStep
    \/ Stop
    \/ \E c \in Con : Greet(c) \/ Subscribe(c) \/ Command(c) \/ Writer(c)

Spec == Init /\ [][Next]_vars

\* The server thread runs and time passes, so that a tick becomes due; the
\* connections' tasks are scheduled (each has finitely many things to do here, so
\* that fairness to all of them is fairness to each).
FairSpec ==
    /\ Spec
    /\ WF_vars(ServerStep) /\ SF_vars(NextTick)
    /\ WF_vars(\E c \in Con : Subscribe(c) \/ QueueInput(c) \/ Writer(c))

----------------------------------------------------------------------------
(***************************************************************************)
(* Properties                                                              *)
(***************************************************************************)

\* The variables have their types, and no receiver holds more than the channel.
TypeOK ==
    /\ pc \in {"events", "ticks", "gate", "asleep", "tick", "publish", "broadcast", "closing", "done"}
    /\ is_open \in BOOLEAN /\ closed \in BOOLEAN
    /\ steps \in 0..1
    /\ ticks \in Tick /\ permits \in Tick /\ released \in Tick
    /\ last_state \in Tick \cup {None}
    /\ queue \in Seq(1..MaxInputs) /\ version \in 0..MaxInputs /\ input \in 0..MaxInputs
    /\ con \in [Con -> {"none", "greeted", "open"}]
    /\ backlog \in [Con -> Seq(Tick)]
    /\ \A c \in Con : Len(backlog[c]) <= Capacity
    /\ lagged \in [Con -> BOOLEAN] /\ muted \in [Con -> BOOLEAN]
    /\ responses \in [Con -> Nat]
    /\ queuing \in [Con -> 1..MaxInputs \cup {None}]
    /\ seen \in [Con -> Tick \cup {None}]

\* "Allows `count` ticks to run" (docs/server-control.md:25): however steps and
\* ticks interleave, every permit is for one tick.
EveryTickHasAPermit == ticks + permits + (IF pc = "tick" THEN 1 ELSE 0) = released

\* A permit wakes the server thread: it never sleeps on one.
NoLostWakeup == pc = "asleep" => permits = 0 /\ ~closed

\* Two connections may queue their inputs in the other order than they got their
\* versions, but the newest input is what the game ends up with.
NewestInputWins ==
    queue = <<>> /\ (\A c \in Con : queuing[c] = None) => input = version

\* A connection is never told about a tick after it was told about a later one.
StatesInOrder == [][\A c \in Con : seen[c] <= seen'[c]]_vars

\* Every permit handed out is used, unless the server stops: it never waits for good
\* with permits left.
PermitsAreUsed == []<>(ticks = released \/ ~is_open)

\* "Subsequent snapshots are pushed as ticks complete" (server-control.md:102): what
\* a connection received is written, unless the receiver lost states and the writer
\* waits for a response, which leaves it full.
StatesAreWritten ==
    \A c \in Con :
        []<>(backlog[c] = <<>> \/ (muted[c] /\ Len(backlog[c]) = Capacity))

\* "A thread that joins when dropped" (join_thread.rs:6): LocalServerThread clears
\* is_open and then waits for the server thread, which has to end.
StopsWhenDropped == ~is_open ~> pc = "done"

=============================================================================
