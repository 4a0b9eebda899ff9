----------------------------- MODULE InputSync -----------------------------
(***************************************************************************)
(* The inputs a client sends for one player (src/src/client/game,          *)
(* game-server/src/server.rs, server_game.rs).                             *)
(*                                                                         *)
(* An input is for a tick the client predicts.  A message is a chain: the  *)
(* inputs of the last ticks, so that a lost message is made up for by the  *)
(* next, as differences that start from an input the server has confirmed. *)
(* The client keeps the inputs that may still be confirmed, at most        *)
(* ClientStore, the server those the client may still start from, at most  *)
(* ServerStore.  The server applies an input at once when its tick is due  *)
(* or over, and queues it otherwise; every input has a version and never   *)
(* replaces a later one.                                                   *)
(*                                                                         *)
(* Messages and snapshots, which confirm them, get lost and overtake each  *)
(* other.  What an input holds is the number of clicks so far; applying a  *)
(* difference to another input than it was taken from gives Garbage.       *)
(***************************************************************************)
EXTENDS Integers, Sequences, FiniteSets

CONSTANTS
    ClientStore,        \* 10: see as_diff in send_input
    ServerStore,        \* 50: see input_storage in handle_msg
    TicksToSend,        \* for how many ticks an input is sent
    TicksPerSnapshot,   \* sv.ticks_per_snapshot
    MaxAhead,           \* how far ahead an input is queued (3 seconds)
    MaxTick,            \* bound: ticks of the server and of the client
    MaxClicks,          \* bound: clicks
    MaxLost             \* bound: input messages lost

ASSUME StoreAssumption == ClientStore \in Nat \ {0} /\ ServerStore \in Nat \ {0}
ASSUME TicksAssumption ==
    TicksToSend \in Nat \ {0} /\ TicksPerSnapshot \in Nat \ {0} /\ MaxAhead \in Nat
ASSUME BoundsAssumption == MaxTick \in Nat /\ MaxClicks \in Nat /\ MaxLost \in Nat

VARIABLES
    clicks,                 \* local_player.input
    sent_input,             \* the input sent last: [clicks, version]
    sent_inp_tick,          \* the tick of the last change that was sent
    tick_of_inp,            \* the tick the client predicts
    flushed,                \* whether an input was sent in this tick
    input_per_tick,         \* the inputs of past ticks
    server_input,           \* the confirmed input chains start from: [id, inp]
    server_input_storage,   \* the inputs that may still be confirmed, by id
    input_id,               \* the next message's id
    snap_acks,              \* whether there is a snapshot to confirm
    cur_monotonic_tick,     \* the server's tick
    player_inp,             \* the player's input on the server
    queued_inputs,          \* inputs for later ticks
    input_storage,          \* the inputs chains may start from, by id
    inputs_to_ack,          \* messages to confirm with the next snapshot
    inputs, snapshots,      \* messages under way
    lost,                   \* how many input messages were lost
    made, fired,            \* history: the inputs sent, what the game was told to fire
    behind                  \* history: whether the client fell behind (FellBehind)

clientVars == <<clicks, sent_input, sent_inp_tick, tick_of_inp, flushed, input_per_tick,
                server_input, server_input_storage, input_id, snap_acks, made, behind>>
serverVars == <<cur_monotonic_tick, player_inp, queued_inputs, input_storage, inputs_to_ack, fired>>
vars == <<clientVars, serverVars, inputs, snapshots, lost>>

Empty == [i \in {} |-> 0]
NoInput == [clicks |-> 0, version |-> 0]

\* An input in a chain, and what a chain starts from when nothing is confirmed yet.
Chainable(tick, inp) == [tick |-> tick, inp |-> inp]
Default == Chainable(0, NoInput)

NoId == -1

\* A player that joined long after the first tick of the game, which is tick 0 here.
Init ==
    /\ clicks = 0 /\ sent_input = NoInput /\ sent_inp_tick = 0 - TicksToSend
    /\ tick_of_inp = 1 /\ flushed = FALSE /\ input_per_tick = Empty
    /\ server_input = [id |-> NoId, inp |-> Default]
    /\ server_input_storage = Empty /\ input_id = 0 /\ snap_acks = FALSE
    /\ cur_monotonic_tick = 0 /\ player_inp = NoInput
    /\ queued_inputs = Empty /\ input_storage = Empty /\ inputs_to_ack = {}
    /\ inputs = {} /\ snapshots = {} /\ lost = 0
    /\ made = <<>> /\ fired = 0 /\ behind = FALSE

Without(f, S) == [i \in DOMAIN f \ S |-> f[i]]
With(f, i, v) == [j \in DOMAIN f \cup {i} |-> IF j = i THEN v ELSE f[j]]

----------------------------------------------------------------------------
(***************************************************************************)
(* The client                                                              *)
(***************************************************************************)

\* The player clicks.
Click ==
    /\ clicks < MaxClicks
    /\ tick_of_inp + TicksToSend <= MaxTick + 1
    /\ clicks' = clicks + 1
    /\ UNCHANGED <<sent_input, sent_inp_tick, tick_of_inp, flushed, input_per_tick, server_input,
                   server_input_storage, input_id, snap_acks, made, behind, serverVars, inputs,
                   snapshots, lost>>

\* Mutant: only a change is sent.
Resends_Never == FALSE

\* The input did not change but is recent: it is sent again, once in a tick.
Resends == tick_of_inp - sent_inp_tick < TicksToSend /\ ~flushed

\* The inputs of the last ticks, as far as there are any, and the one of this tick.
ChainTo(inp) ==
    {Chainable(t, input_per_tick[t]) :
        t \in DOMAIN input_per_tick \cap (tick_of_inp - TicksToSend + 1 .. tick_of_inp - 1)}
    \cup {Chainable(tick_of_inp, inp)}

\* Mutant: the client keeps what it told the server not to keep.
Keeps_Always(inp) == server_input_storage' = With(server_input_storage, input_id, Chainable(tick_of_inp, inp))

\* The end of a chain is kept while there is room.
Keeps(inp) ==
    server_input_storage' =
        IF Cardinality(DOMAIN server_input_storage) < ClientStore
        THEN With(server_input_storage, input_id, Chainable(tick_of_inp, inp))
        ELSE server_input_storage

Message(chain) ==
    [id |-> input_id, diff_id |-> server_input.id, base |-> server_input.inp, chain |-> chain,
     as_diff |-> Cardinality(DOMAIN server_input_storage) < ClientStore]

\* A chain is under way that starts from an input of ServerStore messages ago.
FellBehind(messages, id) ==
    \E m \in messages : m.chain # {} /\ m.diff_id # NoId /\ id - m.diff_id >= ServerStore

\* A frame: flush_player_inputs, which sends the player's inputs ...
FlushInputs ==
    LET changed == clicks # sent_input.clicks
        inp == [clicks |-> clicks, version |-> sent_input.version + 1]
    IN  /\ changed \/ Resends
        /\ sent_input' = inp
        /\ sent_inp_tick' = IF changed THEN tick_of_inp ELSE sent_inp_tick
        /\ made' = Append(made, clicks)
        /\ inputs' = inputs \cup {Message(ChainTo(inp))}
        /\ Keeps(inp)
        /\ input_id' = input_id + 1
        /\ behind' = (behind \/ FellBehind(inputs', input_id'))
        /\ snap_acks' = FALSE
        /\ input_per_tick' = With(input_per_tick, tick_of_inp, inp)
        /\ flushed' = TRUE
        /\ UNCHANGED <<clicks, tick_of_inp, server_input, serverVars, snapshots, lost>>

\* ... or only confirms snapshots.
FlushAcks ==
    /\ clicks = sent_input.clicks /\ ~Resends /\ snap_acks
    /\ inputs' = inputs \cup {[Message({}) EXCEPT !.as_diff = FALSE]}
    /\ input_id' = input_id + 1
    /\ behind' = (behind \/ FellBehind(inputs', input_id'))
    /\ snap_acks' = FALSE
    /\ input_per_tick' = With(input_per_tick, tick_of_inp, sent_input)
    /\ UNCHANGED <<clicks, sent_input, sent_inp_tick, tick_of_inp, flushed, server_input,
                   server_input_storage, made, serverVars, snapshots, lost>>

\* A frame that has no input to send, and after it the prediction goes on by a tick,
\* for which the last input is noted down, too.
PredictTick ==
    /\ clicks = sent_input.clicks /\ ~Resends
    /\ tick_of_inp <= MaxTick
    /\ tick_of_inp' = tick_of_inp + 1
    /\ flushed' = FALSE
    /\ input_per_tick' =
           With(With(input_per_tick, tick_of_inp, sent_input), tick_of_inp', sent_input)
    /\ UNCHANGED <<clicks, sent_input, sent_inp_tick, server_input, server_input_storage,
                   input_id, snap_acks, made, behind, serverVars, inputs, snapshots, lost>>

\* ack_input for every confirmation, in the order the messages arrived in, which may
\* be any: one that is kept becomes the base, unless a later one came before it.
AckInputs(acks) ==
    LET hits == acks \cap DOMAIN server_input_storage
    IN  /\ server_input_storage' =
               Without(server_input_storage,
                       {i \in DOMAIN server_input_storage : \E a \in acks : i <= a})
        /\ \/ /\ \A h \in hits : \E a \in acks : h < a /\ a \notin hits
              /\ UNCHANGED server_input
           \/ \E h \in hits :
                /\ \A g \in hits : g > h => \E a \in acks : g < a /\ a \notin hits
                /\ server_input' = [id |-> h, inp |-> server_input_storage[h]]

\* A snapshot's confirmations are handled first; if it is new and can be decoded, it
\* is confirmed in turn and ends the inputs of the ticks before it.
ReceiveSnapshot(m) ==
    /\ m \in snapshots
    /\ snapshots' = snapshots \ {m}
    /\ AckInputs(m.acks)
    /\ \/ UNCHANGED <<snap_acks, input_per_tick>>
       \/ /\ snap_acks' = TRUE
          /\ input_per_tick' = Without(input_per_tick, {t \in DOMAIN input_per_tick : t < m.tick})
    /\ UNCHANGED <<clicks, sent_input, sent_inp_tick, tick_of_inp, flushed, input_id, made,
                   behind, serverVars, inputs, lost>>

----------------------------------------------------------------------------
(***************************************************************************)
(* The server                                                              *)
(***************************************************************************)

\* What a difference to another input may be decoded to: more clicks than were made and
\* a later version.
Garbage == Chainable(0, [clicks |-> MaxClicks + 1, version |-> input_id + 1])

\* Whether the chain's start is still there, and what the chain is decoded to.
Decodable(m) == m.diff_id = NoId \/ m.diff_id \in DOMAIN input_storage
Decoded(m) ==
    IF m.diff_id = NoId \/ input_storage[m.diff_id] = m.base THEN m.chain ELSE {Garbage}

LatestTick(chain) == CHOOSE i \in chain : \A j \in chain : j.tick <= i.tick

\* One input is stored: the oldest one goes if there are too many.
Insert(store, id, inp) ==
    LET ids == DOMAIN store
        kept == IF Cardinality(ids) >= ServerStore
                THEN Without(store, {i \in ids : \A j \in ids : i <= j})
                ELSE store
    IN  With(kept, id, inp)

\* Mutant: the chain's first input is kept.
Stored_First(m, chain) ==
    Insert(input_storage, m.id, CHOOSE i \in chain : \A j \in chain : i.tick <= j.tick)

\* Every input of a chain is stored under the same id, so that the last one stays; the
\* second may still remove one, the others change nothing.
Stored(m, chain) ==
    LET last == LatestTick(chain)
        once == Insert(input_storage, m.id, last)
    IN  IF Cardinality(chain) = 1 THEN once ELSE Insert(once, m.id, last)

Newest(S) == CHOOSE i \in S : \A j \in S : j.version <= i.version

\* The clicks between two inputs; they are never negative.
Clicked(inp) == IF inp.clicks > player_inp.clicks THEN inp.clicks - player_inp.clicks ELSE 0

\* try_overwrite for some inputs, one after the other.
Overwrite(S) ==
    /\ player_inp' = Newest({player_inp} \cup S)
    /\ fired' = fired + Clicked(player_inp')

\* player_inp for the inputs of a chain: the ones that are due are applied ...
Due(chain) == {i \in chain : i.tick <= cur_monotonic_tick + 1}

\* ... and those of the next ticks are queued.
Early(chain) ==
    {i \in chain : i.tick > cur_monotonic_tick + 1 /\ i.tick - cur_monotonic_tick < MaxAhead}

Queued(chain) ==
    LET early == Early(chain)
    IN  [t \in DOMAIN queued_inputs \cup {i.tick : i \in early} |->
            Newest((IF t \in DOMAIN queued_inputs THEN {queued_inputs[t]} ELSE {})
                   \cup {i.inp : i \in {j \in early : j.tick = t}})]

PlayerInp(chain) ==
    /\ Overwrite({i.inp : i \in Due(chain)})
    /\ queued_inputs' = Queued(chain)

\* An Inputs message is confirmed, whether its inputs can be decoded or not.
ReceiveInputs(m) ==
    /\ m \in inputs
    /\ inputs' = inputs \ {m}
    /\ inputs_to_ack' = inputs_to_ack \cup {m.id}
    /\ IF m.chain # {} /\ Decodable(m)
       THEN /\ input_storage' = IF m.as_diff THEN Stored(m, Decoded(m)) ELSE input_storage
            /\ PlayerInp(Decoded(m))
       ELSE UNCHANGED <<input_storage, player_inp, queued_inputs, fired>>
    /\ UNCHANGED <<cur_monotonic_tick, clientVars, snapshots, lost>>

\* The snapshots a tick sends, with all confirmations there are.
SendSnapshot(tick) ==
    IF tick % TicksPerSnapshot = 0
    THEN /\ snapshots' = snapshots \cup {[tick |-> tick, acks |-> inputs_to_ack]}
         /\ inputs_to_ack' = {}
    ELSE UNCHANGED <<snapshots, inputs_to_ack>>

\* Mutant: the queue is looked at before the tick is counted.
ServerTick_LooksFirst ==
    /\ cur_monotonic_tick <= MaxTick
    /\ cur_monotonic_tick' = cur_monotonic_tick + 1
    /\ Overwrite(IF cur_monotonic_tick \in DOMAIN queued_inputs
                 THEN {queued_inputs[cur_monotonic_tick]} ELSE {})
    /\ queued_inputs' = Without(queued_inputs, {cur_monotonic_tick})
    /\ SendSnapshot(cur_monotonic_tick')
    /\ UNCHANGED <<clientVars, input_storage, inputs, lost>>

\* A tick, with the inputs that were queued for it.
ServerTick ==
    /\ cur_monotonic_tick <= MaxTick
    /\ cur_monotonic_tick' = cur_monotonic_tick + 1
    /\ Overwrite(IF cur_monotonic_tick' \in DOMAIN queued_inputs
                 THEN {queued_inputs[cur_monotonic_tick']} ELSE {})
    /\ queued_inputs' = Without(queued_inputs, {cur_monotonic_tick'})
    /\ SendSnapshot(cur_monotonic_tick')
    /\ UNCHANGED <<clientVars, input_storage, inputs, lost>>

----------------------------------------------------------------------------
(***************************************************************************)
(* The network                                                             *)
(***************************************************************************)
\* Unreliable: a message may get lost.  A snapshot that is never received is a lost one.
LoseInputs(m) ==
    /\ lost < MaxLost /\ m \in inputs
    /\ lost' = lost + 1
    /\ inputs' = inputs \ {m}
    /\ UNCHANGED <<clientVars, serverVars, snapshots>>

Next ==
    \/ Click \/ FlushInputs \/ FlushAcks \/ PredictTick
    \/ \E m \in snapshots : ReceiveSnapshot(m)
    \/ \E m \in inputs : ReceiveInputs(m) \/ LoseInputs(m)
    \/ ServerTick

Spec == Init /\ [][Next]_vars

\* Frames are drawn, time passes on both sides, and a message that is not lost arrives
\* (there are finitely many, so that none waits forever).
FairSpec ==
    /\ Spec
    /\ WF_vars(FlushInputs) /\ WF_vars(PredictTick) /\ WF_vars(ServerTick)
    /\ WF_vars(\E m \in inputs : ReceiveInputs(m))

----------------------------------------------------------------------------
(***************************************************************************)
(* Properties                                                              *)
(***************************************************************************)

\* localplayer/mod.rs:62: "last input the server knows about".  A chain that starts
\* from an input the server does not have is dropped but confirmed, and its confirmation
\* makes the client start from another one that was never stored.  Until the client
\* falls behind, the server has every input of the last ServerStore messages that a
\* chain starts from or will start from, in whatever order messages and confirmations
\* arrive, although it stores only some and has to forget the oldest.
Known(id, inp) ==
    id # NoId /\ input_id - id < ServerStore =>
        id \in DOMAIN input_storage /\ input_storage[id] = inp

BaseIsKnown ==
    ~behind => /\ Known(server_input.id, server_input.inp)
               /\ \A m \in inputs : m.chain # {} => Known(m.diff_id, m.base)

\* An input never waits for a tick that was run already: whatever the order in which
\* chains arrive and ticks are run, it is applied in its tick or not queued at all.
NothingLeftInTheQueue == \A t \in DOMAIN queued_inputs : t > cur_monotonic_tick

\* Whatever is lost, repeated in the next chains and reordered, the server goes through
\* the client's inputs in the order they were made, and fires every click once.
Stream == INSTANCE InputStream WITH applied <- player_inp.version
ImplementsInputStream == Stream!Spec

\* An input under way will not be used: its start is gone, or its tick is too far ahead.
Unusable ==
    \E m \in inputs :
        \/ m.chain # {} /\ ~Decodable(m)
        \/ \E i \in m.chain : i.tick - cur_monotonic_tick >= MaxAhead

\* data.rs:616: an input is sent for TicksToSend ticks.  As long as fewer messages than
\* that are lost, and none that arrives is unusable, the last click arrives.
LastInputArrives ==
    [](~Unusable) => \A n \in 1 .. MaxClicks : clicks >= n ~> player_inp.clicks >= n
=============================================================================
