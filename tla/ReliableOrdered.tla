-------------------------- MODULE ReliableOrdered --------------------------
(***************************************************************************)
(* What NetworkEventSendType::ReliableOrdered promises of one connection   *)
(* (types.rs:33: "packet loss **not** possible, **in-order**"): on every   *)
(* channel the packets are put on the wire in the order they were sent,    *)
(* without a gap.  Only while the connection is being closed may packets   *)
(* be left out.  Packets are numbered in the order they were sent.         *)
(***************************************************************************)
EXTENDS Integers, Sequences

CONSTANTS
    Channel,
    Packet     \* numbers

VARIABLES
    sent,      \* the packets sent on every channel
    wire,      \* the packets on the wire of every channel
    ended      \* the connection is being closed or closed

vars == <<sent, wire, ended>>

Init ==
    /\ sent = [ch \in Channel |-> <<>>]
    /\ wire = [ch \in Channel |-> <<>>]
    /\ ended = FALSE

\* A new packet has a higher number than all before it.
Send(ch) ==
    /\ \E k \in Packet :
          /\ \A d \in Channel : \A i \in DOMAIN sent[d] : sent[d][i] < k
          /\ sent' = [sent EXCEPT ![ch] = Append(@, k)]
    /\ UNCHANGED <<wire, ended>>

Write(ch) ==
    /\ Len(wire[ch]) < Len(sent[ch])
    /\ ~ended
    /\ wire' = [wire EXCEPT ![ch] = Append(@, sent[ch][Len(@) + 1])]
    /\ UNCHANGED <<sent, ended>>

\* While the connection is being closed, packets may be left out.
WriteSome(ch) ==
    /\ ended
    /\ \E i \in DOMAIN sent[ch] :
          /\ \A j \in DOMAIN wire[ch] : wire[ch][j] < sent[ch][i]
          /\ wire' = [wire EXCEPT ![ch] = Append(@, sent[ch][i])]
    /\ UNCHANGED <<sent, ended>>

End ==
    /\ ~ended
    /\ ended' = TRUE
    /\ UNCHANGED <<sent, wire>>

Next == End \/ \E ch \in Channel : Send(ch) \/ Write(ch) \/ WriteSome(ch)

Spec == Init /\ [][Next]_vars

=============================================================================
