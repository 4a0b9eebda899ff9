---------------------------- MODULE OrderedSend ----------------------------
(***************************************************************************)
(* Sending in order on one connection (src/lib/network: send_ordered_to,   *)
(* push_ordered_reliable_packet_in_order, send_one_ordered_reliable).      *)
(*                                                                         *)
(* The network thread puts a packet into the queue of its channel and      *)
(* starts a task for it.  A task looks the connection up, moves the FRONT  *)
(* packet of the queue, not necessarily its own, to the connection's queue *)
(* for the channel, and then writes the front of that queue to the         *)
(* channel's stream.  The tasks run in any order; that the packets do not  *)
(* depends on every task moving exactly one packet at each stage.          *)
(*                                                                         *)
(* A connection has at most NumBidiStreams streams, one of them for the    *)
(* Global channel, to which packets fall back when no stream is left.      *)
(*                                                                         *)
(* A task's move from queue to queue happens under the channel's lock, a   *)
(* write under the stream's lock: each is one step here.  Programs send    *)
(* only after the connection is announced, so it is there at the start.    *)
(***************************************************************************)
EXTENDS Integers, Sequences, FiniteSets

CONSTANTS
    Channel,           \* the channels in use
    Global,            \* NetworkInOrderChannel::Global
    NumBidiStreams,    \* NUM_BIDI_STREAMS
    MaxPackets         \* the bound on the packets sent

ASSUME GlobalIsAChannel == Global \in Channel
ASSUME StreamsAssumption == NumBidiStreams \in Nat \ {0}
ASSUME MaxPacketsAssumption == MaxPackets \in Nat

VARIABLES
    sent,              \* the packets sent on every channel, as numbers in order
    channel_packets,   \* the queues of all_in_order_packets
    pc,                \* the step of every packet's task
    channel,           \* the channel of every packet's task
    channels,          \* the connection's channels that exist
    in_order_packets,  \* the connection's queue of every channel
    wire,              \* what was written to every channel's stream
    found,             \* the connection can be looked up
    open               \* the connection is open

vars == <<sent, channel_packets, pc, channel, channels, in_order_packets, wire, found, open>>

Packet == 1..MaxPackets

Step == {"none", "started", "found", "not found", "pushed", "done"}

NumSent == Cardinality({k \in Packet : pc[k] /= "none"})

----------------------------------------------------------------------------

Init ==
    /\ sent = [ch \in Channel |-> <<>>]
    /\ channel_packets = [ch \in Channel |-> <<>>]
    /\ pc = [k \in Packet |-> "none"]
    /\ channel = [k \in Packet |-> Global]
    /\ channels = {}
    /\ in_order_packets = [ch \in Channel |-> <<>>]
    /\ wire = [ch \in Channel |-> <<>>]
    /\ found = TRUE
    /\ open = TRUE

\* send_ordered_to, called by the network thread alone, one packet at a time.
Send(ch) ==
    /\ NumSent < MaxPackets
    /\ LET k == NumSent + 1
       IN  /\ sent' = [sent EXCEPT ![ch] = Append(@, k)]
           /\ channel_packets' = [channel_packets EXCEPT ![ch] = Append(@, k)]
           /\ pc' = [pc EXCEPT ![k] = "started"]
           /\ channel' = [channel EXCEPT ![k] = ch]
    /\ UNCHANGED <<channels, in_order_packets, wire, found, open>>

LookUp(k) ==
    /\ pc[k] = "started"
    /\ pc' = [pc EXCEPT ![k] = IF found THEN "found" ELSE "not found"]
    /\ UNCHANGED <<sent, channel_packets, channel, channels, in_order_packets, wire, found, open>>

\* The channel whose queue a packet sent on ch goes to.  One stream is kept
\* for the Global channel until that exists.
Target(ch) ==
    LET reserved == IF Global \in channels THEN 0 ELSE 1
    IN  IF Cardinality(channels) >= NumBidiStreams - reserved THEN Global ELSE ch

\* Mutant: a task moves its own packet.
Push_Own(k) ==
    LET ch == channel[k]
        to == Target(ch)
    IN  /\ pc[k] = "found"
        /\ channel_packets' = [channel_packets EXCEPT ![ch] = SelectSeq(@, LAMBDA q : q /= k)]
        /\ channels' = channels \cup {to}
        /\ in_order_packets' = [in_order_packets EXCEPT ![to] = Append(@, k)]
        /\ pc' = [pc EXCEPT ![k] = "pushed"]
        /\ UNCHANGED <<sent, channel, wire, found, open>>

\* The front packet moves on, under the lock of the channel's queue.
Push(k) ==
    LET ch == channel[k]
        to == Target(ch)
    IN  /\ pc[k] = "found"
        /\ channel_packets[ch] /= <<>>
        /\ channel_packets' = [channel_packets EXCEPT ![ch] = Tail(@)]
        /\ channels' = channels \cup {to}
        /\ in_order_packets' =
              [in_order_packets EXCEPT ![to] = Append(@, Head(channel_packets[ch]))]
        /\ pc' = [pc EXCEPT ![k] = "pushed"]
        /\ UNCHANGED <<sent, channel, wire, found, open>>

\* Mutant: without a connection the task ends before it takes a packet.
Drop_Keeps(k) ==
    /\ pc[k] = "not found"
    /\ pc' = [pc EXCEPT ![k] = "done"]
    /\ UNCHANGED <<sent, channel_packets, channel, channels, in_order_packets, wire, found, open>>

\* Without a connection the front packet is dropped.
Drop(k) ==
    /\ pc[k] = "not found"
    /\ channel_packets[channel[k]] /= <<>>
    /\ channel_packets' = [channel_packets EXCEPT ![channel[k]] = Tail(@)]
    /\ pc' = [pc EXCEPT ![k] = "done"]
    /\ UNCHANGED <<sent, channel, channels, in_order_packets, wire, found, open>>

\* Mutant: the Global channel first.
Source_GlobalFirst(ch) == IF Global \in channels THEN Global ELSE ch

\* The channel whose queue a task takes a packet from: the one asked for if it
\* exists.
Source(ch) == IF ch \in channels THEN ch ELSE Global

\* "No packet was queued." is an error that is only logged, and so is a write
\* to a closed connection.
WriteOne(k) ==
    LET from == Source(channel[k])
    IN  /\ pc[k] = "pushed"
        /\ pc' = [pc EXCEPT ![k] = "done"]
        /\ \/ /\ in_order_packets[from] = <<>>
              /\ UNCHANGED <<in_order_packets, wire>>
           \/ /\ in_order_packets[from] /= <<>>
              /\ in_order_packets' = [in_order_packets EXCEPT ![from] = Tail(@)]
              /\ wire' = IF open
                         THEN [wire EXCEPT ![from] = Append(@, Head(in_order_packets[from]))]
                         ELSE wire
        /\ UNCHANGED <<sent, channel_packets, channel, channels, found, open>>

\* A kick, or the end of the receive loops: first the entry goes, then the
\* connection is closed.
Remove ==
    /\ found
    /\ found' = FALSE
    /\ UNCHANGED <<sent, channel_packets, pc, channel, channels, in_order_packets, wire, open>>

Close ==
    /\ ~found /\ open
    /\ open' = FALSE
    /\ UNCHANGED <<sent, channel_packets, pc, channel, channels, in_order_packets, wire, found>>

TaskStep(k) == LookUp(k) \/ Push(k) \/ Drop(k) \/ WriteOne(k)

Next ==
    \/ \E ch \in Channel : Send(ch)
    \/ \E k \in Packet : TaskStep(k)
    \/ Remove
    \/ Close

Spec == Init /\ [][Next]_vars

\* Tasks that were started run to their end.
FairSpec == Spec /\ \A k \in Packet : WF_vars(TaskStep(k))

----------------------------------------------------------------------------
(***************************************************************************)
(* Properties                                                              *)
(***************************************************************************)

TypeOK ==
    /\ sent \in [Channel -> Seq(Packet)]
    /\ channel_packets \in [Channel -> Seq(Packet)]
    /\ pc \in [Packet -> Step]
    /\ channel \in [Packet -> Channel]
    /\ channels \in SUBSET Channel
    /\ in_order_packets \in [Channel -> Seq(Packet)]
    /\ wire \in [Channel -> Seq(Packet)]
    /\ found \in BOOLEAN
    /\ open \in BOOLEAN

\* The tasks of a channel that have not taken a packet are as many as its queue
\* is long, so that every task finds one and none stays behind, although a task
\* takes whichever packet is in front.
OneTaskPerPacket ==
    \A ch \in Channel :
        Len(channel_packets[ch]) =
            Cardinality({k \in Packet : channel[k] = ch /\ pc[k] \in {"started", "found", "not found"}})

\* The tasks write the packets of a channel in order and without a gap until the
\* connection is closed: they implement what ReliableOrdered promises.
Promise == INSTANCE ReliableOrdered WITH ended <- ~found

InOrderWithoutGaps == Promise!Spec

\* "packet loss **not** possible" (types.rs:33): whatever was sent is written, or
\* the connection goes away.
EveryPacketIsWritten ==
    \A k \in Packet :
        pc[k] /= "none" ~> (\E ch \in Channel : \E i \in DOMAIN wire[ch] : wire[ch][i] = k) \/ ~found

=============================================================================
