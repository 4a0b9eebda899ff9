------------------------- MODULE OrderedSendProofs -------------------------
(***************************************************************************)
(* OrderedSend implements ReliableOrdered, for any number of channels and  *)
(* packets, as long as every channel gets a stream of its own.  (When the  *)
(* streams run out packets change channels, and the promise is broken.)    *)
(*                                                                         *)
(* What was sent on a channel is what was written, what the connection has *)
(* queued and what the network has queued, one after the other, until the  *)
(* connection is being closed.  From then on packets are missing, but      *)
(* those that are left are still in order.                                 *)
(*                                                                         *)
(* That there is a task for every queued packet needs no assumption on the *)
(* streams.                                                                *)
(***************************************************************************)
EXTENDS OrderedSend, FiniteSetTheorems, SequenceTheorems, TLAPS

EnoughStreams == IsFiniteSet(Channel) /\ Cardinality(Channel) < NumBidiStreams

Elements(s) == {s[i] : i \in DOMAIN s}
Ordered(s) == \A i, j \in DOMAIN s : i < j => s[i] < s[j]
Before(A, B) == \A x \in A, y \in B : x < y

\* The three parts of a channel's packets follow each other.
InLine(w, b, c) ==
    /\ Ordered(w) /\ Ordered(b) /\ Ordered(c)
    /\ Before(Elements(w), Elements(b)) /\ Before(Elements(w), Elements(c))
    /\ Before(Elements(b), Elements(c))

Lines ==
    \A ch \in Channel :
        /\ InLine(wire[ch], in_order_packets[ch], channel_packets[ch])
        /\ Elements(wire[ch]) \cup Elements(in_order_packets[ch]) \cup Elements(channel_packets[ch])
              \subseteq Elements(sent[ch])
        /\ found => sent[ch] = (wire[ch] \o in_order_packets[ch]) \o channel_packets[ch]

\* The packets so far are 1 to n.
SoFar(n) ==
    /\ \A k \in Packet : pc[k] /= "none" <=> k <= n
    /\ \A ch \in Channel : \A x \in Elements(sent[ch]) : x <= n

Numbers == \E n \in 0 .. MaxPackets : SoFar(n)

Tasks ==
    /\ \A k \in Packet : pc[k] = "pushed" => channel[k] \in channels
    /\ \A k \in Packet : pc[k] = "not found" => ~found
    /\ ~open => ~found

Waiting(ch) == {k \in Packet : channel[k] = ch /\ pc[k] \in {"started", "found", "not found"}}

Inv == TypeOK /\ Numbers /\ Tasks /\ Lines

----------------------------------------------------------------------------
(***************************************************************************)
(* Sequences of packets                                                    *)
(***************************************************************************)

LEMMA AppendElements ==
    ASSUME NEW S, NEW s \in Seq(S), NEW e \in S
    PROVE  Elements(Append(s, e)) = Elements(s) \cup {e}
<1>1. /\ Len(s) \in Nat /\ DOMAIN s = 1 .. Len(s) /\ DOMAIN Append(s, e) = 1 .. (Len(s) + 1)
      /\ \A i \in 1 .. Len(s) : Append(s, e)[i] = s[i]
      /\ Append(s, e)[Len(s) + 1] = e
  BY AppendProperties, LenProperties
<1>2. \A i \in 1 .. (Len(s) + 1) : i \in 1 .. Len(s) \/ i = Len(s) + 1
  BY <1>1
<1>3. 1 .. Len(s) \subseteq 1 .. (Len(s) + 1) /\ Len(s) + 1 \in 1 .. (Len(s) + 1)
  BY <1>1
<1> QED BY <1>1, <1>2, <1>3 DEF Elements

\* Taking the front of an ordered sequence.
LEMMA FrontElements ==
    ASSUME NEW S \in SUBSET Nat, NEW s \in Seq(S), s /= <<>>, Ordered(s)
    PROVE  /\ Head(s) \in S /\ Head(s) \in Elements(s) /\ Head(s) = s[1]
           /\ Tail(s) \in Seq(S) /\ Elements(Tail(s)) \subseteq Elements(s)
           /\ Ordered(Tail(s)) /\ Before({Head(s)}, Elements(Tail(s)))
<1>1. /\ Len(s) \in Nat \ {0} /\ DOMAIN s = 1 .. Len(s)
      /\ Tail(s) \in Seq(S) /\ Len(Tail(s)) = Len(s) - 1 /\ Head(s) \in S
      /\ DOMAIN Tail(s) = 1 .. (Len(s) - 1)
      /\ \A i \in 1 .. (Len(s) - 1) : Tail(s)[i] = s[i + 1]
  BY HeadTailProperties, LenProperties, EmptySeq
<1>2. Head(s) = s[1] /\ 1 \in DOMAIN s
  BY <1>1
<1>3. \A i \in 1 .. (Len(s) - 1) : i + 1 \in DOMAIN s /\ 1 < i + 1
  BY <1>1
<1>4. \A i, j \in 1 .. (Len(s) - 1) : i < j => i + 1 < j + 1
  BY <1>1
<1>5. Ordered(Tail(s))
  BY <1>1, <1>3, <1>4 DEF Ordered
<1>6. Elements(Tail(s)) \subseteq Elements(s)
  BY <1>1, <1>3 DEF Elements
<1>7. Before({Head(s)}, Elements(Tail(s)))
  BY <1>1, <1>2, <1>3 DEF Before, Elements, Ordered
<1> QED BY <1>1, <1>2, <1>5, <1>6, <1>7 DEF Elements

LEMMA AppendOrdered ==
    ASSUME NEW S \in SUBSET Nat, NEW s \in Seq(S), NEW e \in S, Ordered(s),
           Before(Elements(s), {e})
    PROVE  Ordered(Append(s, e))
<1>1. /\ Len(s) \in Nat /\ DOMAIN s = 1 .. Len(s) /\ DOMAIN Append(s, e) = 1 .. (Len(s) + 1)
      /\ \A i \in 1 .. Len(s) : Append(s, e)[i] = s[i]
      /\ Append(s, e)[Len(s) + 1] = e
  BY AppendProperties, LenProperties
<1> SUFFICES ASSUME NEW i \in 1 .. (Len(s) + 1), NEW j \in 1 .. (Len(s) + 1), i < j
             PROVE  Append(s, e)[i] < Append(s, e)[j]
  BY <1>1 DEF Ordered
<1>2. i \in 1 .. Len(s)
  BY <1>1
<1>3. CASE j \in 1 .. Len(s)
  BY <1>1, <1>2, <1>3 DEF Ordered
<1>4. CASE j = Len(s) + 1
  BY <1>1, <1>2, <1>4 DEF Before, Elements
<1> QED BY <1>1, <1>3, <1>4

\* A packet that moves from the front of one sequence to the back of the other.
LEMMA MoveKeepsConcat ==
    ASSUME NEW S, NEW a \in Seq(S), NEW b \in Seq(S), b /= <<>>
    PROVE  Append(a, Head(b)) \o Tail(b) = a \o b
<1>1. Head(b) \in S /\ Tail(b) \in Seq(S) /\ <<Head(b)>> \in Seq(S)
  BY HeadTailProperties
<1>2. Append(a, Head(b)) = a \o <<Head(b)>>
  BY <1>1, AppendIsConcat
<1>3. (a \o <<Head(b)>>) \o Tail(b) = a \o (<<Head(b)>> \o Tail(b))
  BY <1>1, ConcatAssociative
<1>4. <<Head(b)>> \o Tail(b) = b
  <2> DEFINE h == <<Head(b)>>
  <2>1. h \in Seq(S) /\ Len(h) = 1 /\ h[1] = Head(b)
    BY <1>1
  <2>2. /\ Len(b) \in Nat \ {0} /\ Len(Tail(b)) = Len(b) - 1 /\ Head(b) = b[1]
        /\ \A i \in 1 .. Len(Tail(b)) : Tail(b)[i] = b[i + 1]
    BY HeadTailProperties, EmptySeq
  <2> HIDE DEF h
  <2>3. /\ h \o Tail(b) \in Seq(S) /\ Len(h \o Tail(b)) = Len(h) + Len(Tail(b))
        /\ \A i \in 1 .. Len(h) + Len(Tail(b)) :
              (h \o Tail(b))[i] = IF i <= Len(h) THEN h[i] ELSE Tail(b)[i - Len(h)]
    BY <1>1, <2>1, ConcatProperties
  <2>4. ASSUME NEW i \in 1 .. Len(b) PROVE (h \o Tail(b))[i] = b[i]
    <3>1. CASE i = 1
      BY <2>1, <2>2, <2>3, <3>1
    <3>2. CASE i /= 1
      <4>1. i - 1 \in 1 .. Len(Tail(b)) /\ ~(i <= 1) /\ (i - 1) + 1 = i
        BY <2>2, <3>2
      <4> QED BY <2>1, <2>2, <2>3, <4>1
    <3> QED BY <3>1, <3>2
  <2>5. Len(h \o Tail(b)) = Len(b)
    BY <2>1, <2>2, <2>3
  <2>6. h \o Tail(b) = b
    BY <2>3, <2>4, <2>5, SeqEqual
  <2> QED BY <2>6 DEF h
<1> QED BY <1>2, <1>3, <1>4

LEMMA AppendToConcat ==
    ASSUME NEW S, NEW a \in Seq(S), NEW b \in Seq(S), NEW e \in S
    PROVE  a \o Append(b, e) = Append(a \o b, e)
<1>1. <<e>> \in Seq(S) /\ a \o b \in Seq(S)
  BY ConcatProperties
<1>2. a \o (b \o <<e>>) = (a \o b) \o <<e>>
  BY <1>1, ConcatAssociative
<1> QED BY <1>1, <1>2, AppendIsConcat

LEMMA IndexConcat ==
    ASSUME NEW S, NEW s \in Seq(S), NEW t \in Seq(S)
    PROVE  /\ s \o t \in Seq(S) /\ Len(s \o t) = Len(s) + Len(t)
           /\ \A i \in 1 .. Len(s) : (s \o t)[i] = s[i]
           /\ \A i \in 1 .. Len(t) : (s \o t)[Len(s) + i] = t[i]
<1>1. /\ s \o t \in Seq(S) /\ Len(s \o t) = Len(s) + Len(t)
      /\ \A i \in 1 .. Len(s) + Len(t) :
            (s \o t)[i] = IF i <= Len(s) THEN s[i] ELSE t[i - Len(s)]
  BY ConcatProperties
<1>2. Len(s) \in Nat /\ Len(t) \in Nat
  BY LenProperties
<1>3. ASSUME NEW i \in 1 .. Len(s) PROVE (s \o t)[i] = s[i]
  BY <1>1, <1>2
<1>4. ASSUME NEW i \in 1 .. Len(t) PROVE (s \o t)[Len(s) + i] = t[i]
  <2>1. Len(s) + i \in 1 .. Len(s) + Len(t) /\ ~(Len(s) + i <= Len(s)) /\ (Len(s) + i) - Len(s) = i
    BY <1>2
  <2> QED BY <1>1, <2>1
<1> QED BY <1>1, <1>3, <1>4

\* The packet after those written is in front of the connection's queue.
LEMMA NextToWrite ==
    ASSUME NEW S, NEW w \in Seq(S), NEW b \in Seq(S), NEW c \in Seq(S), b /= <<>>
    PROVE  /\ Len(w) < Len((w \o b) \o c)
           /\ ((w \o b) \o c)[Len(w) + 1] = Head(b)
<1>1. Len(w) \in Nat /\ Len(b) \in Nat \ {0} /\ Len(c) \in Nat /\ Head(b) = b[1]
  BY LenProperties, EmptySeq, HeadTailProperties
<1>2. w \o b \in Seq(S) /\ Len(w \o b) = Len(w) + Len(b) /\ (w \o b)[Len(w) + 1] = b[1]
  BY <1>1, IndexConcat
<1>3. Len(w) + 1 \in 1 .. Len(w \o b)
  BY <1>1, <1>2
<1>4. Len((w \o b) \o c) = Len(w \o b) + Len(c)
      /\ ((w \o b) \o c)[Len(w) + 1] = (w \o b)[Len(w) + 1]
  BY <1>2, <1>3, IndexConcat
<1> QED BY <1>1, <1>2, <1>4

----------------------------------------------------------------------------
(***************************************************************************)
(* What each move does to a channel's packets                              *)
(***************************************************************************)

LEMMA SendLine ==
    ASSUME NEW w \in Seq(Packet), NEW b \in Seq(Packet), NEW c \in Seq(Packet), NEW e \in Packet,
           InLine(w, b, c),
           Before(Elements(w), {e}), Before(Elements(b), {e}), Before(Elements(c), {e})
    PROVE  InLine(w, b, Append(c, e)) /\ (w \o b) \o Append(c, e) = Append((w \o b) \o c, e)
<1>1. Packet \in SUBSET Nat
  BY DEF Packet
<1>2. Ordered(Append(c, e)) /\ Elements(Append(c, e)) = Elements(c) \cup {e}
  BY <1>1, AppendOrdered, AppendElements DEF InLine
<1>3. w \o b \in Seq(Packet)
  BY ConcatProperties
<1>4. (w \o b) \o Append(c, e) = Append((w \o b) \o c, e)
  BY <1>3, AppendToConcat
<1> QED BY <1>2, <1>4 DEF InLine, Before

LEMMA PushLine ==
    ASSUME NEW w \in Seq(Packet), NEW b \in Seq(Packet), NEW c \in Seq(Packet), c /= <<>>,
           InLine(w, b, c)
    PROVE  /\ InLine(w, Append(b, Head(c)), Tail(c))
           /\ (w \o Append(b, Head(c))) \o Tail(c) = (w \o b) \o c
           /\ Elements(Append(b, Head(c))) \subseteq Elements(b) \cup Elements(c)
           /\ Elements(Tail(c)) \subseteq Elements(c)
<1>1. Packet \in SUBSET Nat
  BY DEF Packet
<1>2. /\ Head(c) \in Packet /\ Head(c) \in Elements(c) /\ Tail(c) \in Seq(Packet)
      /\ Elements(Tail(c)) \subseteq Elements(c) /\ Ordered(Tail(c))
      /\ Before({Head(c)}, Elements(Tail(c)))
  BY <1>1, FrontElements DEF InLine
<1>3. Before(Elements(b), {Head(c)})
  BY <1>2 DEF InLine, Before
<1>4. /\ Ordered(Append(b, Head(c)))
      /\ Elements(Append(b, Head(c))) = Elements(b) \cup {Head(c)}
  <2>1. Ordered(b)
    BY DEF InLine
  <2>2. Ordered(Append(b, Head(c)))
    BY <1>1, <1>2, <1>3, <2>1, AppendOrdered
  <2>3. Elements(Append(b, Head(c))) = Elements(b) \cup {Head(c)}
    BY <1>2, AppendElements
  <2> QED BY <2>2, <2>3
<1>5. (w \o Append(b, Head(c))) \o Tail(c) = (w \o b) \o c
  <2>1. w \o b \in Seq(Packet)
    BY ConcatProperties
  <2>2. w \o Append(b, Head(c)) = Append(w \o b, Head(c))
    BY <1>2, AppendToConcat
  <2> QED BY <2>1, <2>2, MoveKeepsConcat
<1> QED BY <1>2, <1>4, <1>5 DEF InLine, Before

LEMMA DropLine ==
    ASSUME NEW w \in Seq(Packet), NEW b \in Seq(Packet), NEW c \in Seq(Packet), c /= <<>>,
           InLine(w, b, c)
    PROVE  InLine(w, b, Tail(c)) /\ Elements(Tail(c)) \subseteq Elements(c)
<1>1. Packet \in SUBSET Nat
  BY DEF Packet
<1>2. Elements(Tail(c)) \subseteq Elements(c) /\ Ordered(Tail(c))
  BY <1>1, FrontElements DEF InLine
<1> QED BY <1>2 DEF InLine, Before

LEMMA WriteLine ==
    ASSUME NEW w \in Seq(Packet), NEW b \in Seq(Packet), NEW c \in Seq(Packet), b /= <<>>,
           InLine(w, b, c)
    PROVE  /\ InLine(Append(w, Head(b)), Tail(b), c) /\ InLine(w, Tail(b), c)
           /\ (Append(w, Head(b)) \o Tail(b)) \o c = (w \o b) \o c
           /\ Elements(Append(w, Head(b))) \subseteq Elements(w) \cup Elements(b)
           /\ Elements(Tail(b)) \subseteq Elements(b)
           /\ Head(b) \in Elements(b)
<1>1. Packet \in SUBSET Nat
  BY DEF Packet
<1>2. /\ Head(b) \in Packet /\ Head(b) \in Elements(b) /\ Tail(b) \in Seq(Packet)
      /\ Elements(Tail(b)) \subseteq Elements(b) /\ Ordered(Tail(b))
      /\ Before({Head(b)}, Elements(Tail(b)))
  BY <1>1, FrontElements DEF InLine
<1>3. Before(Elements(w), {Head(b)})
  BY <1>2 DEF InLine, Before
<1>4. /\ Ordered(Append(w, Head(b)))
      /\ Elements(Append(w, Head(b))) = Elements(w) \cup {Head(b)}
  <2>1. Ordered(w)
    BY DEF InLine
  <2>2. Ordered(Append(w, Head(b)))
    BY <1>1, <1>2, <1>3, <2>1, AppendOrdered
  <2>3. Elements(Append(w, Head(b))) = Elements(w) \cup {Head(b)}
    BY <1>2, AppendElements
  <2> QED BY <2>2, <2>3
<1>5. Append(w, Head(b)) \o Tail(b) = w \o b
  BY MoveKeepsConcat
<1> QED BY <1>2, <1>4, <1>5 DEF InLine, Before

----------------------------------------------------------------------------
(***************************************************************************)
(* Types and numbers                                                       *)
(***************************************************************************)

LEMMA NumSentIs ==
    ASSUME NEW n \in 0 .. MaxPackets, SoFar(n)
    PROVE  NumSent = n
<1>1. {k \in Packet : pc[k] /= "none"} = 1 .. n
  BY MaxPacketsAssumption DEF SoFar, Packet
<1>2. Cardinality(1 .. n) = n
  BY FS_Interval, MaxPacketsAssumption
<1> QED BY <1>1, <1>2 DEF NumSent

LEMMA InitTypes == Init => TypeOK /\ Numbers
<1> SUFFICES ASSUME Init PROVE TypeOK /\ Numbers
  OBVIOUS
<1>1. TypeOK
  BY GlobalIsAChannel DEF Init, TypeOK, Step
<1>2. SoFar(0)
  BY DEF Init, SoFar, Packet, Elements
<1> QED BY <1>1, <1>2, MaxPacketsAssumption DEF Numbers

\* Only Send makes a packet.
LEMMA NumbersKept ==
    ASSUME TypeOK, Numbers, UNCHANGED sent,
           \A k \in Packet : pc'[k] /= "none" <=> pc[k] /= "none"
    PROVE  Numbers'
<1>1. PICK n \in 0 .. MaxPackets : SoFar(n)
  BY DEF Numbers
<1>2. SoFar(n)'
  BY <1>1 DEF SoFar
<1> QED BY <1>2 DEF Numbers

\* What Send does, with the number of the packet made explicit.
LEMMA SendStep ==
    ASSUME TypeOK, Numbers, NEW ch \in Channel, Send(ch)
    PROVE  \E n \in 0 .. MaxPackets :
              /\ SoFar(n) /\ n + 1 \in Packet /\ pc[n + 1] = "none"
              /\ sent' = [sent EXCEPT ![ch] = Append(@, n + 1)]
              /\ channel_packets' = [channel_packets EXCEPT ![ch] = Append(@, n + 1)]
              /\ pc' = [pc EXCEPT ![n + 1] = "started"]
              /\ channel' = [channel EXCEPT ![n + 1] = ch]
              /\ UNCHANGED <<channels, in_order_packets, wire, found, open>>
<1>1. PICK n \in 0 .. MaxPackets : SoFar(n)
  BY DEF Numbers
<1>2. NumSent = n
  BY <1>1, NumSentIs
<1>3. n + 1 \in Packet /\ ~(n + 1 <= n)
  BY <1>2, MaxPacketsAssumption DEF Send, Packet
<1>4. pc[n + 1] = "none"
  BY <1>1, <1>3 DEF SoFar
<1> QED BY <1>1, <1>2, <1>3, <1>4 DEF Send

LEMMA TypesKept == TypeOK /\ Numbers /\ [Next]_vars => (TypeOK /\ Numbers)'
<1> SUFFICES ASSUME TypeOK, Numbers, [Next]_vars PROVE (TypeOK /\ Numbers)'
  OBVIOUS
<1>1. CASE UNCHANGED vars
  <2>1. TypeOK'
    BY <1>1 DEF TypeOK, vars
  <2>2. Numbers'
    BY <1>1, NumbersKept DEF vars
  <2> QED BY <2>1, <2>2
<1>2. ASSUME NEW ch \in Channel, Send(ch) PROVE (TypeOK /\ Numbers)'
  <2>1. PICK n \in 0 .. MaxPackets :
              /\ SoFar(n) /\ n + 1 \in Packet /\ pc[n + 1] = "none"
              /\ sent' = [sent EXCEPT ![ch] = Append(@, n + 1)]
              /\ channel_packets' = [channel_packets EXCEPT ![ch] = Append(@, n + 1)]
              /\ pc' = [pc EXCEPT ![n + 1] = "started"]
              /\ channel' = [channel EXCEPT ![n + 1] = ch]
              /\ UNCHANGED <<channels, in_order_packets, wire, found, open>>
    BY <1>2, SendStep
  <2>2. \A d \in Channel : Append(sent[d], n + 1) \in Seq(Packet)
                           /\ Append(channel_packets[d], n + 1) \in Seq(Packet)
    BY <2>1, AppendProperties DEF TypeOK
  <2>3. TypeOK'
    BY <2>1, <2>2 DEF TypeOK, Step
  <2>4. n + 1 \in 0 .. MaxPackets
    BY <2>1 DEF Packet
  <2>5. \A k \in Packet : pc'[k] /= "none" <=> k <= n + 1
    <3>1. \A k \in Packet : k <= n + 1 <=> (k <= n \/ k = n + 1)
      BY <2>1 DEF Packet
    <3> QED BY <2>1, <3>1 DEF SoFar, TypeOK
  <2>6. ASSUME NEW d \in Channel, NEW x \in Elements(sent'[d]) PROVE x <= n + 1
    <3>1. \A y \in Elements(sent[d]) : y <= n /\ y \in Packet
      BY <2>1 DEF SoFar, Elements, TypeOK
    <3>2. Elements(Append(sent[d], n + 1)) = Elements(sent[d]) \cup {n + 1}
      BY <2>1, AppendElements DEF TypeOK
    <3>3. x \in Elements(sent[d]) \cup {n + 1}
      BY <2>1, <2>6, <3>2 DEF TypeOK
    <3>4. CASE x = n + 1
      BY <2>1, <3>4 DEF Packet
    <3>5. CASE x \in Elements(sent[d])
      BY <3>1, <3>5, <2>1 DEF Packet
    <3> QED BY <3>3, <3>4, <3>5
  <2>7. SoFar(n + 1)'
    BY <2>5, <2>6 DEF SoFar
  <2> QED BY <2>3, <2>4, <2>7 DEF Numbers
<1>3. ASSUME NEW k \in Packet, LookUp(k) PROVE (TypeOK /\ Numbers)'
  <2>1. TypeOK'
    BY <1>3 DEF LookUp, TypeOK, Step
  <2>2. \A j \in Packet : pc'[j] /= "none" <=> pc[j] /= "none"
    BY <1>3 DEF LookUp, TypeOK
  <2> QED BY <1>3, <2>1, <2>2, NumbersKept DEF LookUp
<1>4. ASSUME NEW k \in Packet, Push(k) PROVE (TypeOK /\ Numbers)'
  <2>1. Target(channel[k]) \in Channel
    BY GlobalIsAChannel DEF Target, TypeOK
  <2>2. /\ Tail(channel_packets[channel[k]]) \in Seq(Packet)
        /\ \A d \in Channel : Append(in_order_packets[d], Head(channel_packets[channel[k]])) \in Seq(Packet)
    <3>1. channel_packets[channel[k]] \in Seq(Packet) /\ channel_packets[channel[k]] /= <<>>
      BY <1>4 DEF Push, TypeOK
    <3> QED BY <3>1, HeadTailProperties, AppendProperties DEF TypeOK
  <2>3. TypeOK'
    BY <1>4, <2>1, <2>2 DEF Push, TypeOK, Step
  <2>4. \A j \in Packet : pc'[j] /= "none" <=> pc[j] /= "none"
    BY <1>4 DEF Push, TypeOK
  <2> QED BY <1>4, <2>3, <2>4, NumbersKept DEF Push
<1>5. ASSUME NEW k \in Packet, Drop(k) PROVE (TypeOK /\ Numbers)'
  <2>1. Tail(channel_packets[channel[k]]) \in Seq(Packet)
    <3>1. channel_packets[channel[k]] \in Seq(Packet) /\ channel_packets[channel[k]] /= <<>>
      BY <1>5 DEF Drop, TypeOK
    <3> QED BY <3>1, HeadTailProperties
  <2>2. TypeOK'
    BY <1>5, <2>1 DEF Drop, TypeOK, Step
  <2>3. \A j \in Packet : pc'[j] /= "none" <=> pc[j] /= "none"
    BY <1>5 DEF Drop, TypeOK
  <2> QED BY <1>5, <2>2, <2>3, NumbersKept DEF Drop
<1>6. ASSUME NEW k \in Packet, WriteOne(k) PROVE (TypeOK /\ Numbers)'
  <2> DEFINE from == Source(channel[k])
  <2>1. from \in Channel
    BY GlobalIsAChannel DEF Source, TypeOK
  <2>2. in_order_packets[from] /= <<>> =>
           /\ Tail(in_order_packets[from]) \in Seq(Packet)
           /\ Append(wire[from], Head(in_order_packets[from])) \in Seq(Packet)
    <3>1. in_order_packets[from] \in Seq(Packet) /\ wire[from] \in Seq(Packet)
      BY <2>1 DEF TypeOK
    <3> QED BY <3>1, HeadTailProperties, AppendProperties
  <2>3. TypeOK'
    <3>1. from = Source(channel[k])
      OBVIOUS
    <3> HIDE DEF from
    <3>2. pc' \in [Packet -> Step] /\ UNCHANGED <<sent, channel_packets, channel, channels, found, open>>
      BY <1>6 DEF WriteOne, TypeOK, Step
    <3>3. in_order_packets' \in [Channel -> Seq(Packet)]
      BY <1>6, <2>1, <2>2, <3>1 DEF WriteOne, TypeOK
    <3>4. wire' \in [Channel -> Seq(Packet)]
      BY <1>6, <2>1, <2>2, <3>1 DEF WriteOne, TypeOK
    <3> QED BY <3>2, <3>3, <3>4 DEF TypeOK
  <2>4. \A j \in Packet : pc'[j] /= "none" <=> pc[j] /= "none"
    BY <1>6 DEF WriteOne, TypeOK
  <2> QED BY <1>6, <2>3, <2>4, NumbersKept DEF WriteOne
<1>7. CASE Remove
  BY <1>7, NumbersKept DEF Remove, TypeOK
<1>8. CASE Close
  BY <1>8, NumbersKept DEF Close, TypeOK
<1> QED BY <1>1, <1>2, <1>3, <1>4, <1>5, <1>6, <1>7, <1>8 DEF Next, TaskStep

\* Type correctness, for any number of channels, streams and packets; and the packets sent are
\* always those numbered from 1 on.
THEOREM SendTypes == Spec => [](TypeOK /\ Numbers)
BY InitTypes, TypesKept, PTL DEF Spec

----------------------------------------------------------------------------
(***************************************************************************)
(* One task per packet                                                     *)
(***************************************************************************)

LEMMA WaitingFinite == \A ch \in Channel : IsFiniteSet(Waiting(ch))
<1>1. IsFiniteSet(Packet)
  BY FS_Interval, MaxPacketsAssumption DEF Packet
<1> QED BY <1>1, FS_Subset DEF Waiting

\* A task that takes the front packet of its channel leaves as many tasks as packets.
LEMMA TakeOne ==
    ASSUME TypeOK, OneTaskPerPacket, NEW k \in Packet,
           pc[k] \in {"found", "not found"}, channel_packets[channel[k]] /= <<>>,
           channel_packets' = [channel_packets EXCEPT ![channel[k]] = Tail(@)],
           channel' = channel, NEW t \in {"pushed", "done"}, pc' = [pc EXCEPT ![k] = t]
    PROVE  OneTaskPerPacket'
<1> SUFFICES ASSUME NEW ch \in Channel PROVE Len(channel_packets'[ch]) = Cardinality(Waiting(ch)')
  BY DEF OneTaskPerPacket, Waiting
<1>1. Len(channel_packets[ch]) = Cardinality(Waiting(ch))
  BY DEF OneTaskPerPacket, Waiting
<1>2. CASE ch /= channel[k]
  <2>1. Waiting(ch)' = Waiting(ch)
    BY <1>2 DEF Waiting, TypeOK
  <2> QED BY <1>1, <1>2, <2>1 DEF TypeOK
<1>3. CASE ch = channel[k]
  <2>1. Waiting(ch)' = Waiting(ch) \ {k} /\ k \in Waiting(ch)
    BY <1>3 DEF Waiting, TypeOK
  <2>2. Cardinality(Waiting(ch)') = Cardinality(Waiting(ch)) - 1
    BY <2>1, FS_RemoveElement, WaitingFinite
  <2>3. Len(Tail(channel_packets[ch])) = Len(channel_packets[ch]) - 1
    BY <1>3, HeadTailProperties DEF TypeOK
  <2> QED BY <1>1, <1>3, <2>2, <2>3 DEF TypeOK
<1> QED BY <1>2, <1>3

\* A step that takes no packet and moves no waiting task.
LEMMA NothingTaken ==
    ASSUME OneTaskPerPacket, UNCHANGED <<channel_packets, channel>>,
           \A j \in Packet : pc'[j] \in {"started", "found", "not found"}
                                <=> pc[j] \in {"started", "found", "not found"}
    PROVE  OneTaskPerPacket'
<1>1. \A ch \in Channel : Waiting(ch)' = Waiting(ch)
  BY DEF Waiting
<1> QED BY <1>1 DEF OneTaskPerPacket, Waiting

\* A channel's queue is as long as there are tasks that will take a packet from it, whichever
\* packets the tasks take: every task finds one (the expect() of the move cannot fail), and no
\* packet stays in the queue when all tasks are done.
THEOREM TasksMatchPackets == Spec => []OneTaskPerPacket
<1>1. Init => OneTaskPerPacket
  <2> SUFFICES ASSUME Init, NEW ch \in Channel
               PROVE  Len(channel_packets[ch]) = Cardinality(Waiting(ch))
    BY DEF OneTaskPerPacket, Waiting
  <2>1. Waiting(ch) = {}
    BY DEF Init, Waiting
  <2> QED BY <2>1, FS_EmptySet DEF Init
<1>2. TypeOK /\ Numbers /\ OneTaskPerPacket /\ [Next]_vars => OneTaskPerPacket'
  <2> SUFFICES ASSUME TypeOK, Numbers, OneTaskPerPacket, [Next]_vars PROVE OneTaskPerPacket'
    OBVIOUS
  <2>1. CASE UNCHANGED vars
    BY <2>1, NothingTaken DEF vars
  <2>2. ASSUME NEW ch \in Channel, Send(ch) PROVE OneTaskPerPacket'
    <3>1. PICK n \in 0 .. MaxPackets :
              /\ SoFar(n) /\ n + 1 \in Packet /\ pc[n + 1] = "none"
              /\ sent' = [sent EXCEPT ![ch] = Append(@, n + 1)]
              /\ channel_packets' = [channel_packets EXCEPT ![ch] = Append(@, n + 1)]
              /\ pc' = [pc EXCEPT ![n + 1] = "started"]
              /\ channel' = [channel EXCEPT ![n + 1] = ch]
              /\ UNCHANGED <<channels, in_order_packets, wire, found, open>>
      BY <2>2, SendStep
    <3> DEFINE k == n + 1
    <3>2. /\ k \in Packet /\ pc[k] = "none"
          /\ channel_packets' = [channel_packets EXCEPT ![ch] = Append(@, k)]
          /\ pc' = [pc EXCEPT ![k] = "started"]
          /\ channel' = [channel EXCEPT ![k] = ch]
      BY <3>1
    <3> HIDE DEF k
    <3> SUFFICES ASSUME NEW d \in Channel
                 PROVE  Len(channel_packets'[d]) = Cardinality(Waiting(d)')
      BY DEF OneTaskPerPacket, Waiting
    <3>3. Len(channel_packets[d]) = Cardinality(Waiting(d))
      BY DEF OneTaskPerPacket, Waiting
    <3>4. CASE d /= ch
      <4>1. Waiting(d)' = Waiting(d)
        BY <3>2, <3>4 DEF Waiting, TypeOK
      <4> QED BY <3>2, <3>3, <3>4, <4>1 DEF TypeOK
    <3>5. CASE d = ch
      <4>1. Waiting(d)' = Waiting(d) \cup {k} /\ k \notin Waiting(d)
        BY <3>2, <3>5 DEF Waiting, TypeOK
      <4>2. Cardinality(Waiting(d)') = Cardinality(Waiting(d)) + 1
        BY <4>1, FS_AddElement, WaitingFinite
      <4>3. Len(Append(channel_packets[d], k)) = Len(channel_packets[d]) + 1
        BY <3>2, AppendProperties DEF TypeOK
      <4> QED BY <3>2, <3>3, <3>5, <4>2, <4>3 DEF TypeOK
    <3> QED BY <3>4, <3>5
  <2>3. ASSUME NEW k \in Packet, LookUp(k) PROVE OneTaskPerPacket'
    BY <2>3, NothingTaken DEF LookUp, TypeOK
  <2>4. ASSUME NEW k \in Packet, Push(k) PROVE OneTaskPerPacket'
    BY <2>4, TakeOne DEF Push
  <2>5. ASSUME NEW k \in Packet, Drop(k) PROVE OneTaskPerPacket'
    BY <2>5, TakeOne DEF Drop
  <2>6. ASSUME NEW k \in Packet, WriteOne(k) PROVE OneTaskPerPacket'
    BY <2>6, NothingTaken DEF WriteOne, TypeOK
  <2>7. CASE Remove
    BY <2>7, NothingTaken DEF Remove
  <2>8. CASE Close
    BY <2>8, NothingTaken DEF Close
  <2> QED BY <2>1, <2>2, <2>3, <2>4, <2>5, <2>6, <2>7, <2>8 DEF Next, TaskStep
<1> QED BY <1>1, <1>2, SendTypes, PTL DEF Spec

----------------------------------------------------------------------------
(***************************************************************************)
(* In order, without gaps                                                  *)
(***************************************************************************)

\* With streams for all, a packet goes to the queue of its own channel.
LEMMA OwnTarget ==
    ASSUME EnoughStreams, TypeOK, NEW ch \in Channel
    PROVE  Target(ch) = ch
<1>1. IsFiniteSet(Channel) /\ Cardinality(Channel) \in Nat /\ Cardinality(Channel) < NumBidiStreams
  BY FS_CardinalityType DEF EnoughStreams
<1>2. CASE Global \in channels
  <2>1. Cardinality(channels) <= Cardinality(Channel) /\ Cardinality(channels) \in Nat
    BY <1>1, FS_Subset, FS_CardinalityType DEF TypeOK
  <2> QED BY <1>1, <1>2, <2>1, StreamsAssumption DEF Target
<1>3. CASE Global \notin channels
  <2>1. channels \subseteq Channel \ {Global}
    BY <1>3 DEF TypeOK
  <2>2. /\ IsFiniteSet(Channel \ {Global})
        /\ Cardinality(Channel \ {Global}) = Cardinality(Channel) - 1
    BY <1>1, FS_RemoveElement, GlobalIsAChannel
  <2>3. Cardinality(channels) <= Cardinality(Channel) - 1 /\ Cardinality(channels) \in Nat
    BY <2>1, <2>2, FS_Subset, FS_CardinalityType
  <2> QED BY <1>1, <1>3, <2>3, StreamsAssumption DEF Target
<1> QED BY <1>2, <1>3

LEMMA InitInv == Init => Inv
<1> SUFFICES ASSUME Init PROVE Inv
  OBVIOUS
<1>1. Tasks
  BY DEF Init, Tasks
<1>2. <<>> \in Seq(Packet) /\ (<<>> \o <<>>) \o <<>> = <<>> /\ Elements(<<>>) = {}
  BY DEF Elements
<1>3. Lines
  BY <1>2 DEF Init, Lines, InLine, Ordered, Before, Elements
<1> QED BY <1>1, <1>3, InitTypes DEF Inv

\* Lines of one channel.
Line(ch) ==
    /\ InLine(wire[ch], in_order_packets[ch], channel_packets[ch])
    /\ Elements(wire[ch]) \cup Elements(in_order_packets[ch]) \cup Elements(channel_packets[ch])
          \subseteq Elements(sent[ch])
    /\ found => sent[ch] = (wire[ch] \o in_order_packets[ch]) \o channel_packets[ch]

LEMMA SameLine ==
    ASSUME NEW ch \in Channel, Line(ch), found' => found,
           sent'[ch] = sent[ch], wire'[ch] = wire[ch],
           in_order_packets'[ch] = in_order_packets[ch], channel_packets'[ch] = channel_packets[ch]
    PROVE  Line(ch)'
BY DEF Line

LEMMA SendKeepsLines ==
    ASSUME Inv, NEW ch \in Channel, Send(ch)
    PROVE  Lines'
<1>1. PICK n \in 0 .. MaxPackets :
          /\ SoFar(n) /\ n + 1 \in Packet /\ pc[n + 1] = "none"
          /\ sent' = [sent EXCEPT ![ch] = Append(@, n + 1)]
          /\ channel_packets' = [channel_packets EXCEPT ![ch] = Append(@, n + 1)]
          /\ pc' = [pc EXCEPT ![n + 1] = "started"]
          /\ channel' = [channel EXCEPT ![n + 1] = ch]
          /\ UNCHANGED <<channels, in_order_packets, wire, found, open>>
  BY SendStep DEF Inv
<1> DEFINE e == n + 1
<1>2. \A x \in Elements(sent[ch]) : x < e
  <2>1. \A x \in Elements(sent[ch]) : x \in Packet
    <3>1. sent[ch] \in Seq(Packet)
      BY DEF Inv, TypeOK
    <3> QED BY <3>1 DEF Elements
  <2>2. \A x \in Elements(sent[ch]) : x \in Nat /\ x <= n
    BY <1>1, <2>1 DEF SoFar, Packet
  <2> QED BY <2>2
<1>3. /\ e \in Packet
      /\ sent' = [sent EXCEPT ![ch] = Append(@, e)]
      /\ channel_packets' = [channel_packets EXCEPT ![ch] = Append(@, e)]
      /\ UNCHANGED <<in_order_packets, wire, found>>
  BY <1>1
<1> HIDE DEF e
<1> SUFFICES ASSUME NEW d \in Channel PROVE Line(d)'
  BY DEF Lines, Line
<1>4. Line(d)
  BY DEF Inv, Lines, Line
<1>5. CASE d /= ch
  BY <1>3, <1>4, <1>5, SameLine DEF Inv, TypeOK
<1>6. CASE d = ch
  <2>1. /\ wire[d] \in Seq(Packet) /\ in_order_packets[d] \in Seq(Packet)
        /\ channel_packets[d] \in Seq(Packet) /\ sent[d] \in Seq(Packet)
        /\ wire'[d] = wire[d] /\ in_order_packets'[d] = in_order_packets[d]
        /\ channel_packets'[d] = Append(channel_packets[d], e) /\ sent'[d] = Append(sent[d], e)
    BY <1>3, <1>6 DEF Inv, TypeOK
  <2>2. InLine(wire[d], in_order_packets[d], channel_packets[d])
        /\ Before(Elements(wire[d]), {e}) /\ Before(Elements(in_order_packets[d]), {e})
        /\ Before(Elements(channel_packets[d]), {e})
    BY <1>2, <1>4, <1>6 DEF Line, Before
  <2>3. InLine(wire[d], in_order_packets[d], Append(channel_packets[d], e))
        /\ (wire[d] \o in_order_packets[d]) \o Append(channel_packets[d], e)
              = Append((wire[d] \o in_order_packets[d]) \o channel_packets[d], e)
    <3>1. \A w, b, c \in Seq(Packet) :
             InLine(w, b, c) /\ Before(Elements(w), {e}) /\ Before(Elements(b), {e})
             /\ Before(Elements(c), {e}) =>
                InLine(w, b, Append(c, e)) /\ (w \o b) \o Append(c, e) = Append((w \o b) \o c, e)
      BY <1>3, SendLine
    <3> QED BY <2>1, <2>2, <3>1
  <2>4. /\ Elements(Append(channel_packets[d], e)) = Elements(channel_packets[d]) \cup {e}
        /\ Elements(Append(sent[d], e)) = Elements(sent[d]) \cup {e}
    BY <1>3, <2>1, AppendElements
  <2> QED BY <1>3, <1>4, <2>1, <2>3, <2>4 DEF Line
<1> QED BY <1>5, <1>6

LEMMA PushKeepsLines ==
    ASSUME EnoughStreams, Inv, NEW k \in Packet, Push(k)
    PROVE  Lines'
<1> DEFINE ch == channel[k]
<1>1. ch \in Channel /\ Target(ch) = ch
  BY OwnTarget DEF Inv, TypeOK
<1>2. /\ channel_packets[ch] /= <<>>
      /\ channel_packets' = [channel_packets EXCEPT ![ch] = Tail(@)]
      /\ in_order_packets' = [in_order_packets EXCEPT ![ch] = Append(@, Head(channel_packets[ch]))]
      /\ UNCHANGED <<sent, wire, found>>
  BY <1>1 DEF Push
<1> HIDE DEF ch
<1> SUFFICES ASSUME NEW d \in Channel PROVE Line(d)'
  BY DEF Lines, Line
<1>3. Line(d)
  BY DEF Inv, Lines, Line
<1>4. CASE d /= ch
  BY <1>2, <1>3, <1>4, SameLine DEF Inv, TypeOK
<1>5. CASE d = ch
  <2>1. /\ wire[d] \in Seq(Packet) /\ in_order_packets[d] \in Seq(Packet)
        /\ channel_packets[d] \in Seq(Packet) /\ channel_packets[d] /= <<>>
        /\ wire'[d] = wire[d] /\ sent'[d] = sent[d]
        /\ channel_packets'[d] = Tail(channel_packets[d])
        /\ in_order_packets'[d] = Append(in_order_packets[d], Head(channel_packets[d]))
    BY <1>2, <1>5 DEF Inv, TypeOK
  <2>2. InLine(wire[d], in_order_packets[d], channel_packets[d])
    BY <1>3 DEF Line
  <2> DEFINE b == Append(in_order_packets[d], Head(channel_packets[d]))
             c == Tail(channel_packets[d])
  <2>3. /\ InLine(wire[d], b, c)
        /\ (wire[d] \o b) \o c = (wire[d] \o in_order_packets[d]) \o channel_packets[d]
        /\ Elements(b) \subseteq Elements(in_order_packets[d]) \cup Elements(channel_packets[d])
        /\ Elements(c) \subseteq Elements(channel_packets[d])
    BY <2>1, <2>2, PushLine
  <2>4. in_order_packets'[d] = b /\ channel_packets'[d] = c
    BY <2>1
  <2> HIDE DEF b, c
  <2> QED BY <1>2, <1>3, <2>1, <2>3, <2>4 DEF Line
<1> QED BY <1>4, <1>5

LEMMA DropKeepsLines ==
    ASSUME Inv, NEW k \in Packet, Drop(k)
    PROVE  Lines'
<1> DEFINE ch == channel[k]
<1>1. ~found /\ ch \in Channel
  BY DEF Inv, Tasks, Drop, TypeOK
<1>2. /\ channel_packets[ch] /= <<>>
      /\ channel_packets' = [channel_packets EXCEPT ![ch] = Tail(@)]
      /\ UNCHANGED <<sent, in_order_packets, wire, found>>
  BY DEF Drop
<1> HIDE DEF ch
<1> SUFFICES ASSUME NEW d \in Channel PROVE Line(d)'
  BY DEF Lines, Line
<1>3. Line(d)
  BY DEF Inv, Lines, Line
<1>4. CASE d /= ch
  BY <1>2, <1>3, <1>4, SameLine DEF Inv, TypeOK
<1>5. CASE d = ch
  <2>1. /\ wire[d] \in Seq(Packet) /\ in_order_packets[d] \in Seq(Packet)
        /\ channel_packets[d] \in Seq(Packet) /\ channel_packets[d] /= <<>>
        /\ channel_packets'[d] = Tail(channel_packets[d])
    BY <1>2, <1>5 DEF Inv, TypeOK
  <2>2. InLine(wire[d], in_order_packets[d], channel_packets[d])
    BY <1>3 DEF Line
  <2>3. /\ InLine(wire[d], in_order_packets[d], Tail(channel_packets[d]))
        /\ Elements(Tail(channel_packets[d])) \subseteq Elements(channel_packets[d])
    BY <2>1, <2>2, DropLine
  <2> QED BY <1>1, <1>2, <1>3, <2>1, <2>3 DEF Line
<1> QED BY <1>4, <1>5

\* A task writes from its own channel.
LEMMA OwnSource ==
    ASSUME Inv, NEW k \in Packet, WriteOne(k)
    PROVE  channel[k] \in Channel /\ Source(channel[k]) = channel[k]
BY DEF Inv, Tasks, TypeOK, WriteOne, Source

LEMMA WriteKeepsLines ==
    ASSUME Inv, NEW k \in Packet, WriteOne(k)
    PROVE  Lines'
<1> DEFINE ch == channel[k]
<1>1. ch \in Channel /\ Source(ch) = ch
  BY OwnSource
<1>2. /\ UNCHANGED <<sent, channel_packets, found>>
      /\ \/ UNCHANGED <<in_order_packets, wire>>
         \/ /\ in_order_packets[ch] /= <<>>
            /\ in_order_packets' = [in_order_packets EXCEPT ![ch] = Tail(@)]
            /\ \/ open /\ wire' = [wire EXCEPT ![ch] = Append(@, Head(in_order_packets[ch]))]
               \/ ~open /\ wire' = wire
  BY <1>1 DEF WriteOne
<1>3. ~open => ~found
  BY DEF Inv, Tasks
<1> HIDE DEF ch
<1> SUFFICES ASSUME NEW d \in Channel PROVE Line(d)'
  BY DEF Lines, Line
<1>4. Line(d)
  BY DEF Inv, Lines, Line
<1>5. CASE d /= ch \/ UNCHANGED <<in_order_packets, wire>>
  BY <1>2, <1>4, <1>5, SameLine DEF Inv, TypeOK
<1>6. CASE d = ch /\ ~UNCHANGED <<in_order_packets, wire>>
  <2>1. /\ wire[d] \in Seq(Packet) /\ in_order_packets[d] \in Seq(Packet)
        /\ channel_packets[d] \in Seq(Packet) /\ in_order_packets[d] /= <<>>
        /\ in_order_packets'[d] = Tail(in_order_packets[d])
        /\ \/ open /\ wire'[d] = Append(wire[d], Head(in_order_packets[d]))
           \/ ~open /\ wire'[d] = wire[d]
        /\ sent'[d] = sent[d] /\ channel_packets'[d] = channel_packets[d]
    BY <1>2, <1>6 DEF Inv, TypeOK
  <2>2. InLine(wire[d], in_order_packets[d], channel_packets[d])
    BY <1>4 DEF Line
  <2> DEFINE w == Append(wire[d], Head(in_order_packets[d]))
             b == Tail(in_order_packets[d])
  <2>3. /\ InLine(w, b, channel_packets[d]) /\ InLine(wire[d], b, channel_packets[d])
        /\ (w \o b) \o channel_packets[d] = (wire[d] \o in_order_packets[d]) \o channel_packets[d]
        /\ Elements(w) \subseteq Elements(wire[d]) \cup Elements(in_order_packets[d])
        /\ Elements(b) \subseteq Elements(in_order_packets[d])
    BY <2>1, <2>2, WriteLine
  <2>4. in_order_packets'[d] = b
    BY <2>1
  <2>7. open => wire'[d] = w
    BY <2>1
  <2>8. ~open => wire'[d] = wire[d]
    BY <2>1
  <2> HIDE DEF w, b
  <2>5. CASE open
    BY <1>2, <1>4, <2>1, <2>3, <2>4, <2>5, <2>7 DEF Line
  <2>6. CASE ~open
    BY <1>2, <1>3, <1>4, <2>1, <2>3, <2>4, <2>6, <2>8 DEF Line
  <2> QED BY <2>5, <2>6
<1> QED BY <1>5, <1>6

LEMMA InvKept ==
    ASSUME EnoughStreams, Inv, [Next]_vars
    PROVE  Inv'
<1>1. (TypeOK /\ Numbers)'
  BY TypesKept DEF Inv
<1>2. CASE UNCHANGED vars
  <2>1. Tasks'
    BY <1>2 DEF Inv, Tasks, vars
  <2>2. Lines'
    BY <1>2 DEF Inv, Lines, vars
  <2> QED BY <1>1, <2>1, <2>2 DEF Inv
<1>3. ASSUME NEW ch \in Channel, Send(ch) PROVE Inv'
  <2>1. Tasks'
    <3>1. PICK n \in 0 .. MaxPackets :
              /\ pc[n + 1] = "none" /\ n + 1 \in Packet
              /\ pc' = [pc EXCEPT ![n + 1] = "started"]
              /\ channel' = [channel EXCEPT ![n + 1] = ch]
              /\ UNCHANGED <<channels, found, open>>
      BY <1>3, SendStep DEF Inv
    <3> QED BY <3>1 DEF Inv, Tasks, TypeOK
  <2> QED BY <1>1, <1>3, <2>1, SendKeepsLines DEF Inv
<1>4. ASSUME NEW k \in Packet, LookUp(k) PROVE Inv'
  <2>1. Tasks'
    BY <1>4 DEF LookUp, Inv, Tasks, TypeOK
  <2>2. Lines'
    BY <1>4 DEF LookUp, Inv, Lines
  <2> QED BY <1>1, <2>1, <2>2 DEF Inv
<1>5. ASSUME NEW k \in Packet, Push(k) PROVE Inv'
  <2>1. Tasks'
    <3>1. channel[k] \in Channel /\ Target(channel[k]) = channel[k]
      BY OwnTarget DEF Inv, TypeOK
    <3> QED BY <1>5, <3>1 DEF Push, Inv, Tasks, TypeOK
  <2> QED BY <1>1, <1>5, <2>1, PushKeepsLines DEF Inv
<1>6. ASSUME NEW k \in Packet, Drop(k) PROVE Inv'
  <2>1. Tasks'
    BY <1>6 DEF Drop, Inv, Tasks, TypeOK
  <2> QED BY <1>1, <1>6, <2>1, DropKeepsLines DEF Inv
<1>7. ASSUME NEW k \in Packet, WriteOne(k) PROVE Inv'
  <2>1. Tasks'
    BY <1>7 DEF WriteOne, Inv, Tasks, TypeOK
  <2> QED BY <1>1, <1>7, <2>1, WriteKeepsLines DEF Inv
<1>8. CASE Remove \/ Close
  <2>1. Tasks'
    <3>1. CASE Remove
      BY <3>1 DEF Remove, Inv, Tasks
    <3>2. CASE Close
      BY <3>2 DEF Close, Inv, Tasks
    <3> QED BY <1>8, <3>1, <3>2
  <2>2. Lines'
    BY <1>8 DEF Remove, Close, Inv, Lines
  <2> QED BY <1>1, <2>1, <2>2 DEF Inv
<1> QED BY <1>2, <1>3, <1>4, <1>5, <1>6, <1>7, <1>8 DEF Next, TaskStep

\* The packet a task writes is one that was sent, after all that were written.
LEMMA WriteRefines ==
    ASSUME Inv, NEW k \in Packet, WriteOne(k)
    PROVE  [Promise!Next]_(Promise!vars)
<1> DEFINE ch == channel[k]
<1>1. ch \in Channel /\ Source(ch) = ch
  BY OwnSource
<1>2. /\ UNCHANGED <<sent, found>>
      /\ \/ UNCHANGED wire
         \/ in_order_packets[ch] /= <<>>
            /\ wire' = [wire EXCEPT ![ch] = Append(@, Head(in_order_packets[ch]))]
  BY <1>1 DEF WriteOne
<1> HIDE DEF ch
<1>3. CASE UNCHANGED wire
  BY <1>2, <1>3 DEF Promise!vars
<1>4. CASE /\ in_order_packets[ch] /= <<>>
           /\ wire' = [wire EXCEPT ![ch] = Append(@, Head(in_order_packets[ch]))]
  <2>1. /\ wire[ch] \in Seq(Packet) /\ in_order_packets[ch] \in Seq(Packet)
        /\ channel_packets[ch] \in Seq(Packet)
    BY <1>1 DEF Inv, TypeOK
  <2>2. Line(ch)
    BY <1>1 DEF Inv, Lines, Line
  <2>3. CASE found
    <3>1. sent[ch] = (wire[ch] \o in_order_packets[ch]) \o channel_packets[ch]
      BY <2>2, <2>3 DEF Line
    <3>2. Len(wire[ch]) < Len(sent[ch]) /\ sent[ch][Len(wire[ch]) + 1] = Head(in_order_packets[ch])
      <4>1. \A w, b, c \in Seq(Packet) :
               b /= <<>> => /\ Len(w) < Len((w \o b) \o c)
                            /\ ((w \o b) \o c)[Len(w) + 1] = Head(b)
        BY NextToWrite
      <4>2. in_order_packets[ch] /= <<>>
        BY <1>4
      <4>3. \A c \in Seq(Packet) :
               LET all == (wire[ch] \o in_order_packets[ch]) \o c
               IN  Len(wire[ch]) < Len(all) /\ all[Len(wire[ch]) + 1] = Head(in_order_packets[ch])
        BY <2>1, <4>1, <4>2
      <4> QED BY <2>1, <3>1, <4>3
    <3>3. Promise!Write(ch)
      BY <1>2, <1>4, <2>3, <3>2 DEF Promise!Write
    <3> QED BY <1>1, <3>3 DEF Promise!Next
  <2>4. CASE ~found
    <3> DEFINE p == Head(in_order_packets[ch])
    <3>1. p \in Elements(in_order_packets[ch])
      BY <1>4, <2>1, <2>2, WriteLine DEF Line
    <3>2. p \in Elements(sent[ch]) /\ Before(Elements(wire[ch]), {p})
      BY <2>2, <3>1 DEF Line, InLine, Before
    <3>3. wire' = [wire EXCEPT ![ch] = Append(@, p)]
      BY <1>4
    <3> HIDE DEF p
    <3>4. PICK i \in DOMAIN sent[ch] : sent[ch][i] = p
      BY <3>2 DEF Elements
    <3>5. \A j \in DOMAIN wire[ch] : wire[ch][j] < sent[ch][i]
      BY <3>2, <3>4 DEF Elements, Before
    <3>6. Promise!WriteSome(ch)
      BY <1>2, <2>4, <3>3, <3>4, <3>5 DEF Promise!WriteSome
    <3> QED BY <1>1, <3>6 DEF Promise!Next
  <2> QED BY <2>3, <2>4
<1> QED BY <1>2, <1>3, <1>4

\* With a stream for every channel the tasks implement ReliableOrdered, whatever order they
\* run in and whenever the connection goes away: no packet overtakes another one of its
\* channel, and none is left out while the connection is there.
THEOREM SentInOrder ==
    ASSUME EnoughStreams
    PROVE  Spec => InOrderWithoutGaps
<1>1. Init => Inv /\ Promise!Init
  BY InitInv DEF Init, Promise!Init
<1>2. Inv /\ [Next]_vars => Inv'
  BY InvKept
<1>3. Inv /\ [Next]_vars => [Promise!Next]_(Promise!vars)
  <2> SUFFICES ASSUME Inv, [Next]_vars PROVE [Promise!Next]_(Promise!vars)
    OBVIOUS
  <2>1. CASE UNCHANGED vars
    BY <2>1 DEF vars, Promise!vars
  <2>2. ASSUME NEW ch \in Channel, Send(ch) PROVE Promise!Next
    <3>1. PICK n \in 0 .. MaxPackets :
              /\ SoFar(n) /\ n + 1 \in Packet
              /\ sent' = [sent EXCEPT ![ch] = Append(@, n + 1)]
              /\ UNCHANGED <<wire, found>>
      BY <2>2, SendStep DEF Inv
    <3>2. ASSUME NEW d \in Channel, NEW i \in DOMAIN sent[d] PROVE sent[d][i] < n + 1
      <4>1. sent[d][i] \in Packet
        BY DEF Inv, TypeOK
      <4>2. sent[d][i] \in Elements(sent[d])
        BY DEF Elements
      <4>3. sent[d][i] <= n
        BY <3>1, <4>2 DEF SoFar
      <4> QED BY <4>1, <4>3 DEF Packet
    <3>3. Promise!Send(ch)
      BY <3>1, <3>2 DEF Promise!Send
    <3> QED BY <3>3 DEF Promise!Next
  <2>3. ASSUME NEW k \in Packet, LookUp(k) \/ Push(k) \/ Drop(k) PROVE UNCHANGED Promise!vars
    <3>1. UNCHANGED <<sent, wire, found>>
      BY <2>3 DEF LookUp, Push, Drop
    <3> QED BY <3>1 DEF Promise!vars
  <2>4. ASSUME NEW k \in Packet, WriteOne(k) PROVE [Promise!Next]_(Promise!vars)
    BY <2>4, WriteRefines
  <2>5. CASE Remove
    BY <2>5 DEF Remove, Promise!End, Promise!Next
  <2>6. CASE Close
    BY <2>6 DEF Close, Promise!vars
  <2> QED BY <2>1, <2>2, <2>3, <2>4, <2>5, <2>6 DEF Next, TaskStep
<1> QED BY <1>1, <1>2, <1>3, PTL DEF Spec, Promise!Spec, InOrderWithoutGaps

=============================================================================
