-------------------------- MODULE InputSyncProofs --------------------------
(***************************************************************************)
(* Proofs about InputSync, for storages of any size, any number of ticks,  *)
(* clicks and losses: no input is left in the queue, the server goes       *)
(* through the client's inputs as InputStream says, and it knows the start *)
(* of every chain until the client falls behind.                           *)
(*                                                                         *)
(* The second rests on two facts.  Whatever either side holds for an input *)
(* is one the client has made (Real).  And whoever speaks of the input of  *)
(* a message, the client's storage, the server's, a chain that ends with   *)
(* it or one that starts from it, speaks of the same input (Agree), so     *)
(* that a difference is never applied to another input than it was taken   *)
(* from.                                                                   *)
(***************************************************************************)
EXTENDS InputSync, FiniteSetTheorems, WellFoundedInduction, SequenceTheorems, TLAPS

Input == [clicks : Nat, version : Nat]

\* The clicks of the n-th input made, if s are the clicks of all of them.
ClicksAt(s, n) == IF n = 0 THEN 0 ELSE s[n]

\* An input the client has made, or none.
Real(s, inp) ==
    inp \in Input /\ inp.version \in 0 .. Len(s) /\ inp.clicks = ClicksAt(s, inp.version)

RealChain(s, chain) ==
    /\ \A i \in chain : i.tick \in Nat /\ Real(s, i.inp)
    /\ chain # {} => LatestTick(chain) \in chain

Sorted(s) == \A i, j \in 1 .. Len(s) : i <= j => s[i] <= s[j]

Types ==
    /\ clicks \in Nat /\ tick_of_inp \in Nat /\ cur_monotonic_tick \in Nat /\ input_id \in Nat
    /\ made \in Seq(Nat)

Sent ==
    /\ sent_input = [clicks |-> ClicksAt(made, Len(made)), version |-> Len(made)]
    /\ sent_input.clicks <= clicks
    /\ Sorted(made)

PerTick == \A t \in DOMAIN input_per_tick : t \in Nat /\ Real(made, input_per_tick[t])

Applied == Real(made, player_inp) /\ fired = player_inp.clicks

Queue ==
    \A t \in DOMAIN queued_inputs :
        t \in Nat /\ t > cur_monotonic_tick /\ Real(made, queued_inputs[t])

Chains == \A m \in inputs : RealChain(made, m.chain)

\* What is said about the last input of a message: <<the message's id, the input>>.
OfBase == IF server_input.id = NoId THEN {} ELSE {<<server_input.id, server_input.inp>>}
OfClient == {<<i, server_input_storage[i]>> : i \in DOMAIN server_input_storage}
OfServer == {<<i, input_storage[i]>> : i \in DOMAIN input_storage}
OfEnds == {<<m.id, LatestTick(m.chain)>> : m \in {n \in inputs : n.chain # {}}}
OfStarts == {<<m.diff_id, m.base>> : m \in {n \in inputs : n.diff_id # NoId}}
Said == OfBase \cup OfClient \cup OfServer \cup OfEnds \cup OfStarts

Agree ==
    /\ \A p \in Said : p[1] \in Nat /\ p[1] < input_id
    /\ \A p, q \in Said : p[1] = q[1] => p[2] = q[2]

Inv == Types /\ Sent /\ PerTick /\ Applied /\ Queue /\ Chains /\ Agree
----------------------------------------------------------------------------
(***************************************************************************)
(* Inputs                                                                  *)
(***************************************************************************)

\* An input made stays one when another is made.
LEMMA RealAppend ==
    ASSUME NEW s \in Seq(Nat), NEW c \in Nat, NEW inp, Real(s, inp)
    PROVE  Real(Append(s, c), inp)
<1>1. Len(Append(s, c)) = Len(s) + 1 /\ Len(s) \in Nat
      /\ \A i \in 1 .. Len(s) : Append(s, c)[i] = s[i]
  BY AppendProperties, LenProperties
<1>2. inp.version \in 0 .. Len(s) /\ inp \in Input
  BY DEF Real
<1>3. ClicksAt(Append(s, c), inp.version) = ClicksAt(s, inp.version)
  BY <1>1, <1>2 DEF ClicksAt
<1> QED BY <1>1, <1>2, <1>3 DEF Real

LEMMA RealChainAppend ==
    ASSUME NEW s \in Seq(Nat), NEW c \in Nat, NEW chain, RealChain(s, chain)
    PROVE  RealChain(Append(s, c), chain)
BY RealAppend DEF RealChain

\* The clicks of a later input are no fewer.
LEMMA LaterHasMore ==
    ASSUME NEW s \in Seq(Nat), Sorted(s), NEW a, NEW b, Real(s, a), Real(s, b),
           a.version <= b.version
    PROVE  a.clicks <= b.clicks
<1>1. a.version \in Nat /\ b.version \in Nat /\ Len(s) \in Nat
      /\ a.version <= Len(s) /\ b.version <= Len(s) /\ b.clicks \in Nat /\ a.clicks \in Nat
  BY LenProperties DEF Real, Input
<1>2. CASE a.version = 0
  BY <1>1, <1>2 DEF Real, ClicksAt
<1>3. CASE a.version # 0
  BY <1>1, <1>3 DEF Real, ClicksAt, Sorted
<1> QED BY <1>2, <1>3

\* A set of numbers has a least.
LEMMA LeastExists ==
    ASSUME NEW T \in SUBSET Nat, T # {}
    PROVE  \E x \in T : \A y \in T : x <= y
<1>1. PICK x \in T : \A y \in T : ~ (<<y, x>> \in OpToRel(<, Nat))
  BY NatLessThanWellFounded, WFMin
<1>2. OpToRel(<, Nat) = {ss \in Nat \X Nat : ss[1] < ss[2]}
  BY DEF OpToRel
<1>3. ASSUME NEW y \in T PROVE x <= y
  <2>1. x \in Nat /\ y \in Nat
    OBVIOUS
  <2>2. ~ (y < x)
    BY <1>1, <1>2, <2>1
  <2> QED BY <2>1, <2>2
<1> QED BY <1>3

\* Of some inputs made, there is a newest.
LEMMA NewestIsThere ==
    ASSUME NEW s \in Seq(Nat), NEW S, S # {}, \A i \in S : Real(s, i)
    PROVE  Newest(S) \in S /\ \A j \in S : j.version <= Newest(S).version
<1> DEFINE rest(i) == Len(s) - i.version
           T == {rest(i) : i \in S}
<1>1. \A i \in S : i.version \in Nat /\ Len(s) \in Nat /\ rest(i) \in Nat
  BY LenProperties DEF Real
<1>2. PICK x \in T : \A y \in T : x <= y
  BY <1>1, LeastExists
<1>3. PICK i \in S : x = rest(i)
  OBVIOUS
<1>4. \A j \in S : rest(i) <= rest(j)
  BY <1>2, <1>3
<1>5. \A j \in S : j.version <= i.version
  BY <1>1, <1>4
<1> QED BY <1>5 DEF Newest

\* What applying some inputs does: the player's input stays or is a later one, and the
\* game has been told of all clicks until then.
LEMMA OverwriteApplies ==
    ASSUME Types, Sent, Applied, NEW S, \A i \in S : Real(made, i), Overwrite(S)
    PROVE  /\ Real(made, player_inp') /\ fired' = player_inp'.clicks
           /\ player_inp.version <= player_inp'.version
           /\ player_inp'.version = player_inp.version => fired' = fired
<1>1. made \in Seq(Nat) /\ Sorted(made) /\ Real(made, player_inp) /\ fired = player_inp.clicks
  BY DEF Types, Sent, Applied
<1> DEFINE N == {player_inp} \cup S
<1>2. player_inp' = Newest(N) /\ fired' = fired + Clicked(player_inp')
  BY DEF Overwrite
<1>3. \A i \in N : Real(made, i)
  BY <1>1
<1>4. player_inp' \in N /\ player_inp.version <= player_inp'.version
  BY <1>1, <1>2, <1>3, NewestIsThere
<1>5. Real(made, player_inp')
  BY <1>3, <1>4
<1>6. player_inp.clicks <= player_inp'.clicks
  BY <1>1, <1>4, <1>5, LaterHasMore
<1>7. player_inp.clicks \in Nat /\ player_inp'.clicks \in Nat
  BY <1>1, <1>5 DEF Real, Input
<1>8. fired' = player_inp'.clicks
  BY <1>1, <1>2, <1>6, <1>7 DEF Clicked
<1>9. player_inp'.version = player_inp.version => player_inp'.clicks = player_inp.clicks
  BY <1>1, <1>5 DEF Real
<1> QED BY <1>1, <1>4, <1>5, <1>8, <1>9

\* The input sent last is the last one made.
LEMMA SentIsReal ==
    ASSUME Types, Sent
    PROVE  Real(made, sent_input)
<1>1. Len(made) \in Nat
  BY LenProperties DEF Types
<1>2. ClicksAt(made, Len(made)) \in Nat
  BY <1>1 DEF Types, ClicksAt
<1> QED BY <1>1, <1>2 DEF Sent, Real, Input

----------------------------------------------------------------------------
(***************************************************************************)
(* What is said about inputs                                               *)
(***************************************************************************)

\* Saying nothing new.
LEMMA AgreeStays ==
    ASSUME Types, Agree, Said' \subseteq Said, input_id' \in Nat, input_id <= input_id'
    PROVE  Agree'
<1>1. \A p \in Said' : p[1] \in Nat /\ p[1] < input_id
  BY DEF Agree
<1>2. \A p \in Said' : p[1] \in Nat /\ p[1] < input_id'
  BY <1>1 DEF Types
<1>3. \A p, q \in Said' : p[1] = q[1] => p[2] = q[2]
  BY DEF Agree
<1> QED BY <1>2, <1>3 DEF Agree

\* Saying something about a new message.
LEMMA AgreeGrows ==
    ASSUME Types, Agree, NEW x, Said' \subseteq Said \cup {<<input_id, x>>},
           input_id' = input_id + 1
    PROVE  Agree'
<1>1. \A p \in Said : p[1] \in Nat /\ p[1] < input_id
  BY DEF Agree
<1>2. \A p \in Said' : p \in Said \/ (p[1] = input_id /\ p[2] = x)
  OBVIOUS
<1>3. input_id \in Nat
  BY DEF Types
<1>4. \A p \in Said' : p[1] \in Nat /\ p[1] < input_id'
  BY <1>1, <1>2, <1>3
<1>5. \A p, q \in Said' : p[1] = q[1] => p[2] = q[2]
  <2> SUFFICES ASSUME NEW p \in Said', NEW q \in Said', p[1] = q[1]
               PROVE  p[2] = q[2]
    OBVIOUS
  <2>1. CASE p \in Said /\ q \in Said
    BY <2>1 DEF Agree
  <2>2. CASE p \notin Said \/ q \notin Said
    BY <1>1, <1>2, <1>3, <2>2
  <2> QED BY <2>1, <2>2
<1> QED BY <1>4, <1>5 DEF Agree

\* A chain that can be decoded is decoded to what was sent.
LEMMA DecodedAsSent ==
    ASSUME Types, Agree, NEW m \in inputs, Decodable(m)
    PROVE  Decoded(m) = m.chain
<1>1. CASE m.diff_id = NoId
  BY <1>1 DEF Decoded
<1>2. CASE m.diff_id # NoId
  <2>1. m.diff_id \in DOMAIN input_storage
    BY <1>2 DEF Decodable
  <2>2. <<m.diff_id, input_storage[m.diff_id]>> \in Said
    BY <2>1 DEF Said, OfServer
  <2>3. <<m.diff_id, m.base>> \in Said
    BY <1>2 DEF Said, OfStarts
  <2>4. input_storage[m.diff_id] = m.base
    BY <2>2, <2>3 DEF Agree
  <2> QED BY <2>4 DEF Decoded
<1> QED BY <1>1, <1>2

\* Inserting changes no other entry.
LEMMA InsertEntries ==
    ASSUME NEW store, NEW id, NEW inp, NEW i \in DOMAIN Insert(store, id, inp)
    PROVE  \/ i = id /\ Insert(store, id, inp)[i] = inp
           \/ i # id /\ i \in DOMAIN store /\ Insert(store, id, inp)[i] = store[i]
BY DEF Insert, With, Without

LEMMA StoredEntries ==
    ASSUME NEW m, NEW chain, NEW i \in DOMAIN Stored(m, chain)
    PROVE  \/ i = m.id /\ Stored(m, chain)[i] = LatestTick(chain)
           \/ i \in DOMAIN input_storage /\ Stored(m, chain)[i] = input_storage[i]
<1> DEFINE last == LatestTick(chain)
           once == Insert(input_storage, m.id, last)
<1>1. CASE Cardinality(chain) = 1
  <2>1. Stored(m, chain) = once
    BY <1>1 DEF Stored
  <2> QED BY <2>1, InsertEntries
<1>2. CASE Cardinality(chain) # 1
  <2>1. Stored(m, chain) = Insert(once, m.id, last)
    BY <1>2 DEF Stored
  <2>2. \/ i = m.id /\ Stored(m, chain)[i] = last
        \/ i # m.id /\ i \in DOMAIN once /\ Stored(m, chain)[i] = once[i]
    BY <2>1, InsertEntries
  <2>3. CASE i \in DOMAIN once /\ i # m.id
    BY <2>2, <2>3, InsertEntries
  <2> QED BY <2>2, <2>3
<1> QED BY <1>1, <1>2

\* What is queued was made, and is for a later tick.
LEMMA QueuedIsReal ==
    ASSUME Types, Queue, NEW chain, RealChain(made, chain), NEW t \in DOMAIN Queued(chain)
    PROVE  t \in Nat /\ t > cur_monotonic_tick /\ Real(made, Queued(chain)[t])
<1> DEFINE early == Early(chain)
           there == IF t \in DOMAIN queued_inputs THEN {queued_inputs[t]} ELSE {}
           new == {i.inp : i \in {j \in early : j.tick = t}}
<1>1. t \in DOMAIN queued_inputs \cup {i.tick : i \in early}
  BY DEF Queued
<1>2. Queued(chain)[t] = Newest(there \cup new)
  BY <1>1 DEF Queued
<1>3. \A i \in early : i \in chain /\ i.tick > cur_monotonic_tick + 1
                       /\ i.tick \in Nat /\ Real(made, i.inp)
  BY DEF Early, RealChain
<1>4. t \in Nat /\ t > cur_monotonic_tick
  BY <1>1, <1>3 DEF Queue, Types
<1>5. \A i \in there \cup new : Real(made, i)
  BY <1>3 DEF Queue
<1>6. there \cup new # {}
  BY <1>1
<1>7. Newest(there \cup new) \in there \cup new
  BY <1>5, <1>6, NewestIsThere DEF Types
<1> QED BY <1>2, <1>4, <1>5, <1>7

----------------------------------------------------------------------------
(***************************************************************************)
(* The invariant                                                           *)
(***************************************************************************)

LEMMA InitInv == Init => Inv
<1> SUFFICES ASSUME Init PROVE Inv
  OBVIOUS
<1> USE DEF Init
<1>1. Types
  BY DEF Types
<1>2. Sent
  BY DEF Sent, NoInput, ClicksAt, Sorted
<1>3. PerTick
  BY DEF PerTick, Empty
<1>4. Applied
  BY DEF Applied, Real, Input, NoInput, ClicksAt
<1>5. Queue
  BY DEF Queue, Empty
<1>6. Chains
  BY DEF Chains
<1>7. Said = {}
  BY DEF Said, OfBase, OfClient, OfServer, OfEnds, OfStarts, Empty
<1>8. Agree
  BY <1>7 DEF Agree
<1> QED BY <1>1, <1>2, <1>3, <1>4, <1>5, <1>6, <1>8 DEF Inv

\* The chain that is sent: inputs that were made, and the new one is its last.
LEMMA ChainIsReal ==
    ASSUME Types, PerTick, NEW inp, Real(made', inp), made' = Append(made, clicks)
    PROVE  /\ RealChain(made', ChainTo(inp))
           /\ LatestTick(ChainTo(inp)) = Chainable(tick_of_inp, inp)
           /\ ChainTo(inp) # {}
<1> DEFINE last == Chainable(tick_of_inp, inp)
           before == DOMAIN input_per_tick \cap (tick_of_inp - TicksToSend + 1 .. tick_of_inp - 1)
           old == {Chainable(t, input_per_tick[t]) : t \in before}
<1>1. ChainTo(inp) = old \cup {last} /\ last \in ChainTo(inp)
  BY DEF ChainTo
<1>2. tick_of_inp \in Nat /\ TicksToSend \in Nat /\ made \in Seq(Nat) /\ clicks \in Nat
  BY TicksAssumption DEF Types
<1>3. ASSUME NEW i \in old
      PROVE  i.tick \in Nat /\ i.tick < tick_of_inp /\ Real(made', i.inp)
  <2>1. PICK t \in before : i = Chainable(t, input_per_tick[t])
    OBVIOUS
  <2>2. i.tick = t /\ i.inp = input_per_tick[t]
    BY <2>1 DEF Chainable
  <2>3. t \in Nat /\ t < tick_of_inp /\ Real(made, input_per_tick[t])
    BY <1>2 DEF PerTick
  <2>4. Real(made', input_per_tick[t])
    BY <1>2, <2>3, RealAppend
  <2> QED BY <2>2, <2>3, <2>4
<1>4. last.tick = tick_of_inp /\ last.inp = inp
  BY DEF Chainable
<1>5. \A j \in ChainTo(inp) : j.tick <= last.tick
  BY <1>1, <1>2, <1>3, <1>4
<1>6. ASSUME NEW i \in ChainTo(inp), \A j \in ChainTo(inp) : j.tick <= i.tick
      PROVE  i = last
  <2>1. last.tick <= i.tick
    BY <1>1, <1>6
  <2>2. i \notin old
    <3> SUFFICES ASSUME i \in old PROVE FALSE
      OBVIOUS
    <3>1. i.tick \in Nat /\ i.tick < tick_of_inp
      BY <1>3
    <3>2. tick_of_inp <= i.tick
      BY <1>4, <2>1
    <3> HIDE DEF old, last
    <3> QED BY <1>2, <3>1, <3>2
  <2> QED BY <1>1, <2>2
<1>7. LatestTick(ChainTo(inp)) = last
  <2> HIDE DEF last
  <2> QED BY <1>1, <1>5, <1>6 DEF LatestTick
<1>8. \A i \in ChainTo(inp) : i.tick \in Nat /\ Real(made', i.inp)
  BY <1>1, <1>2, <1>3, <1>4
<1> HIDE DEF last
<1> QED BY <1>1, <1>7, <1>8 DEF RealChain, last

\* An input is sent.
LEMMA FlushInputsInv == Inv /\ FlushInputs => Inv' /\ Stream!Make
<1> SUFFICES ASSUME Inv, FlushInputs PROVE Inv' /\ Stream!Make
  OBVIOUS
<1> DEFINE inp == [clicks |-> clicks, version |-> sent_input.version + 1]
<1>1. /\ sent_input' = inp /\ made' = Append(made, clicks)
      /\ inputs' = inputs \cup {Message(ChainTo(inp))}
      /\ Keeps(inp) /\ input_id' = input_id + 1
      /\ input_per_tick' = With(input_per_tick, tick_of_inp, inp)
      /\ UNCHANGED <<clicks, tick_of_inp, server_input, serverVars>>
  BY DEF FlushInputs
<1> HIDE DEF inp
<1>2. Types /\ Sent /\ PerTick /\ Applied /\ Queue /\ Chains /\ Agree
  BY DEF Inv
<1>3. made \in Seq(Nat) /\ clicks \in Nat /\ Len(made) \in Nat /\ tick_of_inp \in Nat
  BY <1>2, LenProperties DEF Types
<1>4. /\ made' \in Seq(Nat) /\ Len(made') = Len(made) + 1
      /\ \A i \in 1 .. Len(made) : made'[i] = made[i]
      /\ made'[Len(made) + 1] = clicks
  BY <1>1, <1>3, AppendProperties
<1>5. inp.clicks = clicks /\ inp.version = Len(made) + 1 /\ inp = [clicks |-> clicks, version |-> Len(made) + 1]
  BY <1>2 DEF inp, Sent
<1>6. Real(made', inp)
  BY <1>3, <1>4, <1>5 DEF Real, Input, ClicksAt
<1>7. Types'
  BY <1>1, <1>2, <1>4 DEF Types, serverVars
<1>8. \A i \in 1 .. Len(made) : made[i] <= clicks
  <2> SUFFICES ASSUME NEW i \in 1 .. Len(made) PROVE made[i] <= clicks
    OBVIOUS
  <2>1. made[i] <= made[Len(made)] /\ made[i] \in Nat /\ made[Len(made)] \in Nat
    BY <1>2, <1>3 DEF Sent, Sorted
  <2>2. made[Len(made)] <= clicks
    BY <1>2, <1>3 DEF Sent, ClicksAt
  <2> QED BY <1>3, <2>1, <2>2
<1>9. Sorted(made')
  <2> SUFFICES ASSUME NEW i \in 1 .. Len(made'), NEW j \in 1 .. Len(made'), i <= j
               PROVE  made'[i] <= made'[j]
    BY DEF Sorted
  <2>1. CASE j \in 1 .. Len(made)
    <3>1. i \in 1 .. Len(made)
      BY <1>3, <2>1
    <3> QED BY <1>2, <1>4, <2>1, <3>1 DEF Sent, Sorted
  <2>2. CASE j = Len(made) + 1 /\ i \in 1 .. Len(made)
    BY <1>4, <1>8, <2>2
  <2>3. CASE j = Len(made) + 1 /\ i = Len(made) + 1
    BY <1>3, <1>4, <2>3
  <2> QED BY <1>3, <1>4, <2>1, <2>2, <2>3
<1>10. Sent'
  BY <1>1, <1>3, <1>4, <1>5, <1>9 DEF Sent, ClicksAt
<1>11. PerTick'
  <2> SUFFICES ASSUME NEW t \in DOMAIN input_per_tick'
               PROVE  t \in Nat /\ Real(made', input_per_tick'[t])
    BY DEF PerTick
  <2>1. CASE t = tick_of_inp
    BY <1>1, <1>3, <1>6, <2>1 DEF With
  <2>2. CASE t # tick_of_inp
    <3>1. t \in DOMAIN input_per_tick /\ input_per_tick'[t] = input_per_tick[t]
      BY <1>1, <2>2 DEF With
    <3> QED BY <1>1, <1>2, <1>3, <3>1, RealAppend DEF PerTick
  <2> QED BY <2>1, <2>2
<1>12. Applied'
  BY <1>1, <1>2, <1>3, RealAppend DEF Applied, serverVars
<1>13. Queue'
  BY <1>1, <1>2, <1>3, RealAppend DEF Queue, serverVars
<1>14. /\ RealChain(made', ChainTo(inp)) /\ ChainTo(inp) # {}
       /\ LatestTick(ChainTo(inp)) = Chainable(tick_of_inp, inp)
  BY <1>1, <1>2, <1>6, ChainIsReal
<1> DEFINE new == Message(ChainTo(inp))
<1>15. /\ new.chain = ChainTo(inp) /\ new.id = input_id
       /\ new.diff_id = server_input.id /\ new.base = server_input.inp
  BY DEF Message
<1> HIDE DEF new
<1>16. inputs' = inputs \cup {new}
  BY <1>1 DEF new
<1>17. Chains'
  BY <1>1, <1>2, <1>3, <1>14, <1>15, <1>16, RealChainAppend DEF Chains
<1>18. Said' \subseteq Said \cup {<<input_id, Chainable(tick_of_inp, inp)>>}
  <2>1. OfBase' = OfBase /\ OfServer' = OfServer
    BY <1>1 DEF OfBase, OfServer, serverVars
  <2>2. OfClient' \subseteq OfClient \cup {<<input_id, Chainable(tick_of_inp, inp)>>}
    BY <1>1 DEF OfClient, Keeps, With
  <2>3. OfEnds' \subseteq OfEnds \cup {<<input_id, Chainable(tick_of_inp, inp)>>}
    BY <1>14, <1>15, <1>16 DEF OfEnds
  <2>4. OfStarts' \subseteq OfStarts \cup OfBase
    BY <1>15, <1>16 DEF OfStarts, OfBase
  <2> QED BY <2>1, <2>2, <2>3, <2>4 DEF Said
<1>19. Agree'
  BY <1>1, <1>2, <1>18, AgreeGrows
<1>20. Stream!Make
  <2>1. made' = Append(made, made'[Len(made')])
    BY <1>1, <1>4
  <2>2. made'[Len(made')] >= Stream!ClicksOf(Len(made))
    BY <1>3, <1>4, <1>8 DEF Stream!ClicksOf
  <2> QED BY <1>1, <1>4, <2>1, <2>2 DEF Stream!Make, serverVars
<1> QED
  BY <1>7, <1>10, <1>11, <1>12, <1>13, <1>17, <1>19, <1>20 DEF Inv

\* Only confirmations are sent: a message without inputs.
LEMMA FlushAcksInv == Inv /\ FlushAcks => Inv' /\ UNCHANGED Stream!vars
<1> SUFFICES ASSUME Inv, FlushAcks PROVE Inv' /\ UNCHANGED Stream!vars
  OBVIOUS
<1> DEFINE new == [Message({}) EXCEPT !.as_diff = FALSE]
<1>1. /\ inputs' = inputs \cup {new} /\ input_id' = input_id + 1
      /\ input_per_tick' = With(input_per_tick, tick_of_inp, sent_input)
      /\ UNCHANGED <<clicks, sent_input, tick_of_inp, server_input, server_input_storage,
                     made, serverVars>>
  BY DEF FlushAcks
<1>2. Types /\ Sent /\ PerTick /\ Applied /\ Queue /\ Chains /\ Agree
  BY DEF Inv
<1>3. new.chain = {} /\ new.diff_id = server_input.id /\ new.base = server_input.inp
  BY DEF Message
<1> HIDE DEF new
<1>4. Types' /\ Sent' /\ Applied' /\ Queue'
  BY <1>1, <1>2 DEF Types, Sent, Applied, Queue, serverVars
<1>5. PerTick'
  BY <1>1, <1>2, SentIsReal DEF PerTick, With, Types
<1>6. Chains'
  BY <1>1, <1>2, <1>3 DEF Chains, RealChain
<1>7. Said' \subseteq Said
  <2>1. OfBase' = OfBase /\ OfServer' = OfServer /\ OfClient' = OfClient
    BY <1>1 DEF OfBase, OfServer, OfClient, serverVars
  <2>2. OfEnds' \subseteq OfEnds
    BY <1>1, <1>3 DEF OfEnds
  <2>3. OfStarts' \subseteq OfStarts \cup OfBase
    BY <1>1, <1>3 DEF OfStarts, OfBase
  <2> QED BY <2>1, <2>2, <2>3 DEF Said
<1>8. Agree'
  BY <1>1, <1>2, <1>7, AgreeStays DEF Types
<1>9. UNCHANGED Stream!vars
  BY <1>1 DEF Stream!vars, serverVars
<1> QED BY <1>4, <1>5, <1>6, <1>8, <1>9 DEF Inv

\* The steps of the client that send nothing and hear of nothing.
LEMMA ClientAloneInv == Inv /\ (Click \/ PredictTick) => Inv' /\ UNCHANGED Stream!vars
<1> SUFFICES ASSUME Inv, Click \/ PredictTick PROVE Inv' /\ UNCHANGED Stream!vars
  OBVIOUS
<1>1. /\ UNCHANGED <<sent_input, server_input, server_input_storage, input_id, made,
                     serverVars, inputs>>
      /\ clicks' = clicks \/ clicks' = clicks + 1
      /\ tick_of_inp' = tick_of_inp \/ tick_of_inp' = tick_of_inp + 1
      /\ \/ input_per_tick' = input_per_tick
         \/ input_per_tick' =
                With(With(input_per_tick, tick_of_inp, sent_input), tick_of_inp', sent_input)
  BY DEF Click, PredictTick
<1>2. Types /\ Sent /\ PerTick /\ Applied /\ Queue /\ Chains /\ Agree
  BY DEF Inv
<1>3. Types'
  BY <1>1, <1>2 DEF Types, serverVars
<1>4. sent_input.clicks \in Nat
  BY <1>2, SentIsReal DEF Real, Input
<1>5. Sent'
  BY <1>1, <1>2, <1>4 DEF Sent, Types
<1>6. Applied' /\ Queue' /\ Chains'
  BY <1>1, <1>2 DEF Applied, Queue, Chains, serverVars
<1>7. PerTick'
  BY <1>1, <1>2, <1>3, SentIsReal DEF PerTick, With, Types
<1>8. Said' = Said
  BY <1>1 DEF Said, OfBase, OfClient, OfServer, OfEnds, OfStarts, serverVars
<1>9. Agree'
  BY <1>1, <1>2, <1>8, AgreeStays DEF Types
<1>10. UNCHANGED Stream!vars
  BY <1>1 DEF Stream!vars, serverVars
<1> QED BY <1>3, <1>5, <1>6, <1>7, <1>9, <1>10 DEF Inv

\* Confirmations: the client forgets inputs and starts from one it had kept.
LEMMA ReceiveSnapshotInv ==
    ASSUME Inv, NEW m, ReceiveSnapshot(m)
    PROVE  Inv' /\ UNCHANGED Stream!vars
<1>1. /\ AckInputs(m.acks)
      /\ UNCHANGED <<clicks, sent_input, tick_of_inp, input_id, made, serverVars, inputs>>
      /\ \/ input_per_tick' = input_per_tick
         \/ input_per_tick' =
                Without(input_per_tick, {t \in DOMAIN input_per_tick : t < m.tick})
  BY DEF ReceiveSnapshot
<1>2. Types /\ Sent /\ PerTick /\ Applied /\ Queue /\ Chains /\ Agree
  BY DEF Inv
<1>3. Types' /\ Sent' /\ Applied' /\ Queue' /\ Chains'
  BY <1>1, <1>2 DEF Types, Sent, Applied, Queue, Chains, serverVars
<1>4. PerTick'
  BY <1>1, <1>2 DEF PerTick, Without
<1>5. Said' \subseteq Said
  <2>1. OfServer' = OfServer /\ OfEnds' = OfEnds /\ OfStarts' = OfStarts
    BY <1>1 DEF OfServer, OfEnds, OfStarts, serverVars
  <2>2. OfClient' \subseteq OfClient
    BY <1>1 DEF OfClient, AckInputs, Without
  <2>3. OfBase' \subseteq OfBase \cup OfClient
    <3>1. CASE server_input' = server_input
      BY <3>1 DEF OfBase
    <3>2. CASE server_input' # server_input
      <4>1. PICK h \in DOMAIN server_input_storage :
                server_input' = [id |-> h, inp |-> server_input_storage[h]]
        BY <1>1, <3>2 DEF AckInputs
      <4> QED BY <4>1 DEF OfBase, OfClient
    <3> QED BY <3>1, <3>2
  <2> QED BY <2>1, <2>2, <2>3 DEF Said
<1>6. Agree'
  BY <1>1, <1>2, <1>5, AgreeStays DEF Types
<1>7. UNCHANGED Stream!vars
  BY <1>1 DEF Stream!vars, serverVars
<1> QED BY <1>3, <1>4, <1>6, <1>7 DEF Inv

\* The player's input on the server goes over to a later one, or stays.
LEMMA GoesOver ==
    ASSUME Types, Applied', made' = made,
           fired' = player_inp'.clicks, player_inp.version <= player_inp'.version,
           Applied, player_inp'.version = player_inp.version => fired' = fired
    PROVE  Stream!Apply \/ UNCHANGED Stream!vars
<1>1. /\ player_inp.version \in Nat /\ player_inp'.version \in Nat /\ Len(made) \in Nat
      /\ player_inp'.version <= Len(made)
      /\ player_inp'.clicks = ClicksAt(made, player_inp'.version)
  BY LenProperties DEF Applied, Real, Types
<1>2. CASE player_inp'.version = player_inp.version
  BY <1>2 DEF Stream!vars
<1>3. CASE player_inp'.version # player_inp.version
  <2>1. player_inp'.version \in player_inp.version + 1 .. Len(made)
    BY <1>1, <1>3
  <2>2. fired' = Stream!ClicksOf(player_inp'.version)
    BY <1>1 DEF Stream!ClicksOf, ClicksAt
  <2> QED BY <2>1, <2>2 DEF Stream!Apply
<1> QED BY <1>2, <1>3

\* Inputs arrive: those that can be decoded are those that were sent.
LEMMA ReceiveInputsInv ==
    ASSUME Inv, NEW m \in inputs, ReceiveInputs(m)
    PROVE  Inv' /\ (Stream!Apply \/ UNCHANGED Stream!vars)
<1>1. /\ inputs' = inputs \ {m}
      /\ UNCHANGED <<cur_monotonic_tick, clientVars>>
      /\ IF m.chain # {} /\ Decodable(m)
         THEN /\ input_storage' = IF m.as_diff THEN Stored(m, Decoded(m)) ELSE input_storage
              /\ PlayerInp(Decoded(m))
         ELSE UNCHANGED <<input_storage, player_inp, queued_inputs, fired>>
  BY DEF ReceiveInputs
<1>2. Types /\ Sent /\ PerTick /\ Applied /\ Queue /\ Chains /\ Agree
  BY DEF Inv
<1>3. Types' /\ Sent' /\ PerTick' /\ Chains'
  BY <1>1, <1>2 DEF Types, Sent, PerTick, Chains, clientVars
<1>4. OfBase' = OfBase /\ OfClient' = OfClient
  BY <1>1 DEF OfBase, OfClient, clientVars
<1>5. OfEnds' \subseteq OfEnds /\ OfStarts' \subseteq OfStarts
  BY <1>1 DEF OfEnds, OfStarts
<1>6. CASE m.chain # {} /\ Decodable(m)
  <2>1. Decoded(m) = m.chain /\ RealChain(made, m.chain)
    BY <1>2, <1>6, DecodedAsSent DEF Chains
  <2>2. /\ Overwrite({i.inp : i \in Due(m.chain)}) /\ queued_inputs' = Queued(m.chain)
        /\ input_storage' = IF m.as_diff THEN Stored(m, m.chain) ELSE input_storage
    BY <1>1, <1>6, <2>1 DEF PlayerInp
  <2>3. \A i \in {j.inp : j \in Due(m.chain)} : Real(made, i)
    BY <2>1 DEF Due, RealChain
  <2>4. /\ Real(made, player_inp') /\ fired' = player_inp'.clicks
        /\ player_inp.version <= player_inp'.version
        /\ player_inp'.version = player_inp.version => fired' = fired
    BY <1>2, <2>2, <2>3, OverwriteApplies
  <2>5. Applied'
    BY <1>1, <2>4 DEF Applied, clientVars
  <2>6. Queue'
    BY <1>1, <1>2, <2>1, <2>2, QueuedIsReal DEF Queue, clientVars
  <2>7. OfServer' \subseteq OfServer \cup OfEnds
    <3> SUFFICES ASSUME NEW i \in DOMAIN input_storage'
                 PROVE  <<i, input_storage'[i]>> \in OfServer \cup OfEnds
      BY DEF OfServer
    <3>1. \/ i = m.id /\ input_storage'[i] = LatestTick(m.chain)
          \/ i \in DOMAIN input_storage /\ input_storage'[i] = input_storage[i]
      BY <2>2, StoredEntries
    <3> QED BY <1>6, <3>1 DEF OfServer, OfEnds
  <2>8. Said' \subseteq Said
    BY <1>4, <1>5, <2>7 DEF Said
  <2>9. Agree'
    BY <1>1, <1>2, <2>8, AgreeStays DEF Types, clientVars
  <2>10. Stream!Apply \/ UNCHANGED Stream!vars
    BY <1>1, <1>2, <2>4, <2>5, GoesOver DEF clientVars
  <2> QED BY <1>3, <2>5, <2>6, <2>9, <2>10 DEF Inv
<1>7. CASE ~(m.chain # {} /\ Decodable(m))
  <2>1. UNCHANGED <<input_storage, player_inp, queued_inputs, fired>>
    BY <1>1, <1>7
  <2>2. Applied' /\ Queue'
    BY <1>1, <1>2, <2>1 DEF Applied, Queue, clientVars
  <2>3. OfServer' = OfServer
    BY <2>1 DEF OfServer
  <2>4. Said' \subseteq Said
    BY <1>4, <1>5, <2>3 DEF Said
  <2>5. Agree'
    BY <1>1, <1>2, <2>4, AgreeStays DEF Types, clientVars
  <2>6. UNCHANGED Stream!vars
    BY <1>1, <2>1 DEF Stream!vars, clientVars
  <2> QED BY <1>3, <2>2, <2>5, <2>6 DEF Inv
<1> QED BY <1>6, <1>7

\* A tick is run, with the input queued for it.
LEMMA ServerTickInv ==
    Inv /\ ServerTick => Inv' /\ (Stream!Apply \/ UNCHANGED Stream!vars)
<1> SUFFICES ASSUME Inv, ServerTick
             PROVE  Inv' /\ (Stream!Apply \/ UNCHANGED Stream!vars)
  OBVIOUS
<1> DEFINE next == cur_monotonic_tick + 1
           S == IF next \in DOMAIN queued_inputs THEN {queued_inputs[next]} ELSE {}
<1>1. /\ cur_monotonic_tick' = next /\ Overwrite(S)
      /\ queued_inputs' = Without(queued_inputs, {next})
      /\ UNCHANGED <<clientVars, input_storage, inputs>>
  BY DEF ServerTick
<1>2. Types /\ Sent /\ PerTick /\ Applied /\ Queue /\ Chains /\ Agree
  BY DEF Inv
<1>3. Types' /\ Sent' /\ PerTick' /\ Chains'
  BY <1>1, <1>2 DEF Types, Sent, PerTick, Chains, clientVars
<1>4. \A i \in S : Real(made, i)
  BY <1>2 DEF Queue
<1>5. /\ Real(made, player_inp') /\ fired' = player_inp'.clicks
      /\ player_inp.version <= player_inp'.version
      /\ player_inp'.version = player_inp.version => fired' = fired
  BY <1>1, <1>2, <1>4, OverwriteApplies
<1>6. Applied'
  BY <1>1, <1>5 DEF Applied, clientVars
<1>7. Queue'
  <2> SUFFICES ASSUME NEW t \in DOMAIN queued_inputs'
               PROVE  t \in Nat /\ t > next /\ Real(made, queued_inputs'[t])
    BY <1>1 DEF Queue, clientVars
  <2>1. t \in DOMAIN queued_inputs /\ t # next /\ queued_inputs'[t] = queued_inputs[t]
    BY <1>1 DEF Without
  <2>2. t \in Nat /\ t > cur_monotonic_tick /\ Real(made, queued_inputs[t])
    BY <1>2, <2>1 DEF Queue
  <2> QED BY <1>2, <2>1, <2>2 DEF Types
<1>8. Said' = Said
  BY <1>1 DEF Said, OfBase, OfClient, OfServer, OfEnds, OfStarts, clientVars
<1>9. Agree'
  BY <1>1, <1>2, <1>8, AgreeStays DEF Types, clientVars
<1>10. Stream!Apply \/ UNCHANGED Stream!vars
  BY <1>1, <1>2, <1>5, <1>6, GoesOver DEF clientVars
<1> QED BY <1>3, <1>6, <1>7, <1>9, <1>10 DEF Inv

\* A message is lost, or nothing happens.
LEMMA LossInv ==
    ASSUME Inv, \/ \E m \in inputs : LoseInputs(m)
                \/ UNCHANGED vars
    PROVE  Inv' /\ UNCHANGED Stream!vars
<1>1. UNCHANGED <<clientVars, serverVars>> /\ inputs' \subseteq inputs
  BY DEF LoseInputs, vars
<1>2. Types /\ Sent /\ PerTick /\ Applied /\ Queue /\ Chains /\ Agree
  BY DEF Inv
<1>3. Types' /\ Sent' /\ PerTick' /\ Applied' /\ Queue' /\ Chains'
  BY <1>1, <1>2
     DEF Types, Sent, PerTick, Applied, Queue, Chains, clientVars, serverVars
<1>4. Said' \subseteq Said
  <2>1. OfBase' = OfBase /\ OfClient' = OfClient /\ OfServer' = OfServer
    BY <1>1 DEF OfBase, OfClient, OfServer, clientVars, serverVars
  <2>2. OfEnds' \subseteq OfEnds /\ OfStarts' \subseteq OfStarts
    BY <1>1 DEF OfEnds, OfStarts
  <2> QED BY <2>1, <2>2 DEF Said
<1>5. Agree'
  BY <1>1, <1>2, <1>4, AgreeStays DEF Types, clientVars
<1>6. UNCHANGED Stream!vars
  BY <1>1 DEF Stream!vars, clientVars, serverVars
<1> QED BY <1>3, <1>5, <1>6 DEF Inv

\* Every step keeps the invariant and is one of InputStream or none.
LEMMA StepInv == Inv /\ [Next]_vars => Inv' /\ [Stream!Next]_(Stream!vars)
<1> SUFFICES ASSUME Inv, [Next]_vars PROVE Inv' /\ [Stream!Next]_(Stream!vars)
  OBVIOUS
<1> USE DEF Stream!Next
<1>1. CASE Click \/ PredictTick
  BY <1>1, ClientAloneInv
<1>2. CASE FlushInputs
  BY <1>2, FlushInputsInv
<1>3. CASE FlushAcks
  BY <1>3, FlushAcksInv
<1>4. ASSUME NEW m \in snapshots, ReceiveSnapshot(m) PROVE Inv' /\ [Stream!Next]_(Stream!vars)
  BY <1>4, ReceiveSnapshotInv
<1>5. ASSUME NEW m \in inputs, ReceiveInputs(m) PROVE Inv' /\ [Stream!Next]_(Stream!vars)
  BY <1>5, ReceiveInputsInv
<1>6. CASE ServerTick
  BY <1>6, ServerTickInv
<1>7. CASE (\E m \in inputs : LoseInputs(m)) \/ UNCHANGED vars
  BY <1>7, LossInv
<1> QED BY <1>1, <1>2, <1>3, <1>4, <1>5, <1>6, <1>7 DEF Next

----------------------------------------------------------------------------
(***************************************************************************)
(* The theorems                                                            *)
(***************************************************************************)

\* Every input either side holds is one the client has made, and all that is said about
\* a message's input is the same: the differences of send_input and handle_msg are applied
\* to the inputs they were taken from.
THEOREM InputsAreReal == Spec => []Inv
<1>1. Init => Inv
  BY InitInv
<1>2. Inv /\ [Next]_vars => Inv'
  BY StepInv
<1> QED BY <1>1, <1>2, PTL DEF Spec

\* An input is never queued for a tick that was run already: queued_inputs holds only
\* what a later tick will take out.
THEOREM QueueIsEmptied == Spec => []NothingLeftInTheQueue
<1>1. Inv => NothingLeftInTheQueue
  BY DEF Inv, Queue, NothingLeftInTheQueue
<1> QED BY <1>1, InputsAreReal, PTL

\* The server goes through the client's inputs in the order they were made and fires every
\* click once, however many messages and confirmations are lost or overtake each other.
THEOREM InputsInOrder == Spec => ImplementsInputStream
<1>1. Init => Stream!Init
  BY DEF Init, Stream!Init, NoInput
<1>2. Inv /\ [Next]_vars => [Stream!Next]_(Stream!vars)
  BY StepInv
<1> QED BY <1>1, <1>2, InputsAreReal, PTL DEF Spec, Stream!Spec, ImplementsInputStream

----------------------------------------------------------------------------
(***************************************************************************)
(* The start of a chain is known                                           *)
(*                                                                         *)
(* The server forgets the oldest input only when it has ServerStore others *)
(* or more, all of them of messages sent later.  So it still has the input *)
(* of a message (Has) if it stored it and fewer messages were sent since.  *)
(* It stored every input it confirmed that the client kept, because it     *)
(* could decode the chain: its start was known.                            *)
(***************************************************************************)

Has(id) == id # NoId /\ input_id - id < ServerStore => id \in DOMAIN input_storage

Acked == inputs_to_ack \cup UNION {s.acks : s \in snapshots}

Ids ==
    /\ \A a \in Acked : a \in Nat /\ a < input_id
    /\ \A m \in inputs : m.id \in Nat /\ m.id < input_id
    /\ \A m \in inputs : m.id \in DOMAIN server_input_storage => m.as_diff /\ m.chain # {}

Held ==
    ~behind =>
        /\ Has(server_input.id)
        /\ \A m \in inputs : m.chain # {} => Has(m.diff_id)
        /\ \A a \in Acked \cap DOMAIN server_input_storage : Has(a)
        /\ ~FellBehind(inputs, input_id)

\* Inserting removes no input but one that ServerStore messages or more came after.
LEMMA InsertKeeps ==
    ASSUME NEW store, NEW n \in Nat, DOMAIN store \subseteq 0 .. n - 1,
           NEW id \in 0 .. n - 1, NEW inp, NEW i \in DOMAIN store \cup {id}, n - i < ServerStore
    PROVE  i \in DOMAIN Insert(store, id, inp)
<1> DEFINE ids == DOMAIN store
           oldest == {j \in ids : \A k \in ids : j <= k}
<1>1. CASE i = id
  BY <1>1 DEF Insert, With, Without
<1>2. CASE i # id /\ Cardinality(ids) < ServerStore
  <2>1. ~(Cardinality(ids) >= ServerStore)
    <3>1. IsFiniteSet(0 .. n - 1)
      BY FS_Interval
    <3>2. IsFiniteSet(ids)
      BY <3>1, FS_Subset
    <3> QED BY <1>2, <3>2, FS_CardinalityType, StoreAssumption
  <2> QED BY <1>2, <2>1 DEF Insert, With, Without
<1>3. CASE i # id /\ i \in oldest
  <2>1. ids \subseteq i .. n - 1 /\ i \in Nat /\ i < n
    BY <1>3
  <2>2. IsFiniteSet(i .. n - 1) /\ Cardinality(i .. n - 1) = n - i
    BY <2>1, FS_Interval
  <2>3. IsFiniteSet(ids) /\ Cardinality(ids) <= n - i
    BY <2>1, <2>2, FS_Subset
  <2>4. Cardinality(ids) < ServerStore
    BY <2>1, <2>3, FS_CardinalityType, StoreAssumption
  <2> QED BY <1>2, <1>3, <2>4
<1>4. CASE i # id /\ i \notin oldest
  BY <1>4 DEF Insert, With, Without
<1> QED BY <1>1, <1>3, <1>4

LEMMA StoredKeeps ==
    ASSUME NEW m, NEW chain, NEW n \in Nat, DOMAIN input_storage \subseteq 0 .. n - 1,
           m.id \in 0 .. n - 1, NEW i \in DOMAIN input_storage \cup {m.id}, n - i < ServerStore
    PROVE  i \in DOMAIN Stored(m, chain)
<1> DEFINE last == LatestTick(chain)
           once == Insert(input_storage, m.id, last)
<1>1. i \in DOMAIN once
  BY InsertKeeps
<1>2. DOMAIN once \subseteq 0 .. n - 1
  BY InsertEntries
<1>3. i \in DOMAIN Insert(once, m.id, last)
  <2> HIDE DEF once
  <2> QED BY <1>1, <1>2, InsertKeeps
<1> QED BY <1>1, <1>3 DEF Stored

\* What the client and the server have is numbered below the next message.
LEMMA Numbered ==
    ASSUME Types, Agree
    PROVE  /\ DOMAIN input_storage \subseteq 0 .. input_id - 1
           /\ input_id \notin DOMAIN server_input_storage
           /\ server_input.id # NoId => server_input.id \in Nat /\ server_input.id < input_id
           /\ \A m \in inputs : m.diff_id # NoId => m.diff_id \in Nat /\ m.diff_id < input_id
<1>1. \A p \in Said : p[1] \in Nat /\ p[1] < input_id
  BY DEF Agree
<1>2. input_id \in Nat
  BY DEF Types
<1>3. ASSUME NEW i \in DOMAIN input_storage PROVE i \in 0 .. input_id - 1
  <2>1. <<i, input_storage[i]>> \in Said
    BY DEF Said, OfServer
  <2> QED BY <1>1, <1>2, <2>1
<1>4. input_id \notin DOMAIN server_input_storage
  <2> SUFFICES ASSUME input_id \in DOMAIN server_input_storage PROVE FALSE
    OBVIOUS
  <2>1. <<input_id, server_input_storage[input_id]>> \in Said
    BY DEF Said, OfClient
  <2> QED BY <1>1, <1>2, <2>1
<1>5. ASSUME server_input.id # NoId
      PROVE  server_input.id \in Nat /\ server_input.id < input_id
  <2>1. <<server_input.id, server_input.inp>> \in Said
    BY <1>5 DEF Said, OfBase
  <2> QED BY <1>1, <2>1
<1>6. ASSUME NEW m \in inputs, m.diff_id # NoId
      PROVE  m.diff_id \in Nat /\ m.diff_id < input_id
  <2>1. <<m.diff_id, m.base>> \in Said
    BY <1>6 DEF Said, OfStarts
  <2> QED BY <1>1, <2>1
<1> QED BY <1>3, <1>4, <1>5, <1>6

LEMMA IdsInit == Init => Ids /\ Held
<1> SUFFICES ASSUME Init PROVE Ids /\ Held
  OBVIOUS
<1>1. Acked = {} /\ inputs = {} /\ server_input.id = NoId
  BY DEF Init, Acked
<1> QED BY <1>1 DEF Ids, Held, Has, FellBehind

\* A message is sent.
LEMMA IdsSend ==
    ASSUME Inv, Ids, Held, FlushInputs \/ FlushAcks
    PROVE  Ids' /\ Held'
<1>1. PICK new :
        /\ inputs' = inputs \cup {new} /\ new.id = input_id /\ new.diff_id = server_input.id
        /\ input_id \in DOMAIN server_input_storage' => new.as_diff /\ new.chain # {}
        /\ DOMAIN server_input_storage' \subseteq DOMAIN server_input_storage \cup {input_id}
  <2>1. CASE FlushInputs
    <3> DEFINE inp == [clicks |-> clicks, version |-> sent_input.version + 1]
               new == Message(ChainTo(inp))
    <3>1. inputs' = inputs \cup {new} /\ Keeps(inp)
      BY <2>1 DEF FlushInputs
    <3>2. new.chain = ChainTo(inp) /\ new.id = input_id /\ new.diff_id = server_input.id
          /\ new.as_diff = (Cardinality(DOMAIN server_input_storage) < ClientStore)
      BY DEF Message
    <3>3. ChainTo(inp) # {}
      BY DEF ChainTo
    <3>4. input_id \notin DOMAIN server_input_storage
      BY Numbered DEF Inv
    <3>5. DOMAIN server_input_storage' \subseteq DOMAIN server_input_storage \cup {input_id}
      BY <3>1 DEF Keeps, With
    <3>6. input_id \in DOMAIN server_input_storage' => new.as_diff
      BY <3>1, <3>2, <3>4 DEF Keeps
    <3> HIDE DEF new
    <3> QED BY <3>1, <3>2, <3>3, <3>5, <3>6
  <2>2. CASE FlushAcks
    <3> DEFINE new == [Message({}) EXCEPT !.as_diff = FALSE]
    <3>1. inputs' = inputs \cup {new} /\ server_input_storage' = server_input_storage
      BY <2>2 DEF FlushAcks
    <3>2. new.id = input_id /\ new.diff_id = server_input.id
      BY DEF Message
    <3>3. input_id \notin DOMAIN server_input_storage
      BY Numbered DEF Inv
    <3> HIDE DEF new
    <3> QED BY <3>1, <3>2, <3>3
  <2> QED BY <2>1, <2>2
<1>2. /\ input_id' = input_id + 1 /\ input_id \in Nat
      /\ UNCHANGED <<server_input, input_storage, inputs_to_ack, snapshots>>
      /\ behind' = (behind \/ FellBehind(inputs', input_id'))
  BY DEF FlushInputs, FlushAcks, serverVars, Inv, Types
<1>3. Acked' = Acked
  BY <1>2 DEF Acked
<1>4. Ids'
  BY <1>1, <1>2, <1>3 DEF Ids
<1>5. ASSUME ~behind' PROVE Held'
  <2>1. ~behind /\ ~FellBehind(inputs', input_id')
    BY <1>2, <1>5
  <2>2. Types /\ Agree
    BY DEF Inv
  <2>3. Has(server_input.id)'
    <3>1. server_input.id \in Int
      BY <2>2, Numbered DEF NoId
    <3> QED BY <1>2, <2>1, <2>2, <3>1, StoreAssumption DEF Held, Has, Types
  <2>4. ASSUME NEW m \in inputs', m.chain # {} PROVE Has(m.diff_id)'
    <3>1. CASE m \in inputs
      <4>1. m.diff_id \in Int /\ Has(m.diff_id)
        BY <2>1, <2>2, <2>4, <3>1, Numbered DEF NoId, Held
      <4> QED BY <1>2, <2>2, <4>1, StoreAssumption DEF Has, Types
    <3>2. CASE m = new
      BY <1>1, <1>2, <2>3, <3>2 DEF Has
    <3> QED BY <1>1, <2>4, <3>1, <3>2
  <2>5. ASSUME NEW a \in Acked' \cap DOMAIN server_input_storage' PROVE Has(a)'
    <3>1. a \in Nat /\ a < input_id /\ a \in Acked
      BY <1>3, <2>5 DEF Ids
    <3>2. Has(a)
      BY <1>1, <1>2, <2>1, <2>5, <3>1 DEF Held
    <3> QED BY <1>2, <2>2, <3>1, <3>2, StoreAssumption DEF Has, Types
  <2> QED BY <2>1, <2>3, <2>4, <2>5 DEF Held
<1> QED BY <1>4, <1>5 DEF Held

\* Snapshots arrive with confirmations: what the client goes over to is one that was
\* confirmed.
LEMMA IdsSnapshot ==
    ASSUME Inv, Ids, Held, NEW s \in snapshots, ReceiveSnapshot(s)
    PROVE  Ids' /\ Held'
<1>1. /\ snapshots' = snapshots \ {s} /\ AckInputs(s.acks)
      /\ UNCHANGED <<input_id, behind, serverVars, inputs>>
  BY DEF ReceiveSnapshot
<1>2. UNCHANGED <<input_storage, inputs_to_ack>>
  BY <1>1 DEF serverVars
<1>3. Acked' \subseteq Acked /\ s.acks \subseteq Acked
  BY <1>1, <1>2 DEF Acked
<1>4. DOMAIN server_input_storage' \subseteq DOMAIN server_input_storage
  BY <1>1 DEF AckInputs, Without
<1>5. Ids'
  BY <1>1, <1>3, <1>4 DEF Ids
<1>6. \/ server_input' = server_input
      \/ server_input'.id \in s.acks \cap DOMAIN server_input_storage
  BY <1>1 DEF AckInputs
<1>7. ASSUME ~behind' PROVE Held'
  <2>1. ~behind
    BY <1>1, <1>7
  <2>2. Has(server_input'.id)
    BY <1>3, <1>6, <2>1 DEF Held
  <2> QED BY <1>1, <1>2, <1>3, <1>4, <2>1, <2>2 DEF Held, Has
<1> QED BY <1>5, <1>7 DEF Held

\* Inputs arrive: they are stored, because their start is known, and confirmed.
LEMMA IdsReceive ==
    ASSUME Inv, Ids, Held, NEW m \in inputs, ReceiveInputs(m)
    PROVE  Ids' /\ Held'
<1>1. /\ inputs' = inputs \ {m} /\ inputs_to_ack' = inputs_to_ack \cup {m.id}
      /\ UNCHANGED <<snapshots, input_id, server_input, server_input_storage, behind>>
      /\ IF m.chain # {} /\ Decodable(m)
         THEN input_storage' = IF m.as_diff THEN Stored(m, Decoded(m)) ELSE input_storage
         ELSE input_storage' = input_storage
  BY DEF ReceiveInputs, clientVars
<1>2. Acked' = Acked \cup {m.id}
  BY <1>1 DEF Acked
<1>3. m.id \in Nat /\ m.id < input_id /\ input_id \in Nat /\ Types /\ Agree
  BY DEF Ids, Inv, Types
<1>4. Ids'
  BY <1>1, <1>2, <1>3 DEF Ids
<1>5. ASSUME ~behind' PROVE Held'
  <2>1. ~behind
    BY <1>1, <1>5
  <2>2. DOMAIN input_storage \subseteq 0 .. input_id - 1 /\ m.id \in 0 .. input_id - 1
    BY <1>3, Numbered
  <2>3. ASSUME NEW i \in DOMAIN input_storage, input_id - i < ServerStore
        PROVE  i \in DOMAIN input_storage'
    BY <1>1, <1>3, <2>2, <2>3, StoredKeeps
  <2>4. ASSUME NEW i, Has(i) PROVE i # NoId /\ input_id - i < ServerStore => i \in DOMAIN input_storage'
    BY <2>3, <2>4 DEF Has
  <2>5. ASSUME m.id \in DOMAIN server_input_storage, input_id - m.id < ServerStore
        PROVE  m.id \in DOMAIN input_storage'
    <3>1. m.as_diff /\ m.chain # {}
      BY <2>5 DEF Ids
    <3>2. Has(m.diff_id) /\ ~FellBehind(inputs, input_id)
      BY <2>1, <3>1 DEF Held
    <3>3. Decodable(m)
      <4>1. CASE m.diff_id # NoId
        <5>1. m.diff_id \in Nat /\ ~(input_id - m.diff_id >= ServerStore)
          BY <1>3, <3>1, <3>2, <4>1, Numbered DEF FellBehind
        <5>2. input_id - m.diff_id < ServerStore
          BY <1>3, <5>1, StoreAssumption
        <5> QED BY <3>2, <4>1, <5>2 DEF Has, Decodable
      <4> QED BY <4>1 DEF Decodable
    <3>4. input_storage' = Stored(m, Decoded(m))
      BY <1>1, <3>1, <3>3
    <3> QED BY <1>3, <2>2, <2>5, <3>4, StoredKeeps
  <2>6. Has(server_input.id)'
    BY <1>1, <2>1, <2>4 DEF Held, Has
  <2>7. ASSUME NEW n \in inputs', n.chain # {} PROVE Has(n.diff_id)'
    <3>1. n \in inputs /\ Has(n.diff_id)
      BY <1>1, <2>1, <2>7 DEF Held
    <3> QED BY <1>1, <2>4, <3>1 DEF Has
  <2>8. ASSUME NEW a \in Acked' \cap DOMAIN server_input_storage' PROVE Has(a)'
    <3>1. CASE a = m.id
      BY <1>1, <2>5, <2>8, <3>1 DEF Has
    <3>2. CASE a # m.id
      <4>1. Has(a)
        BY <1>1, <1>2, <2>1, <2>8, <3>2 DEF Held
      <4> QED BY <1>1, <2>4, <4>1 DEF Has
    <3> QED BY <3>1, <3>2
  <2>9. ~FellBehind(inputs', input_id')
    BY <1>1, <2>1 DEF Held, FellBehind
  <2> QED BY <2>6, <2>7, <2>8, <2>9 DEF Held
<1> QED BY <1>4, <1>5 DEF Held

\* The other steps send no input, store none and confirm none.
LEMMA IdsRest ==
    ASSUME Ids, Held,
           \/ Click \/ PredictTick \/ ServerTick
           \/ \E m \in inputs : LoseInputs(m)
           \/ UNCHANGED vars
    PROVE  Ids' /\ Held'
<1>1. /\ inputs' \subseteq inputs
      /\ UNCHANGED <<input_storage, server_input, server_input_storage, input_id, behind>>
  BY DEF Click, PredictTick, ServerTick, LoseInputs, vars, clientVars, serverVars
<1>2. Acked' \subseteq Acked
  <2>1. CASE ServerTick
    <3>1. SendSnapshot(cur_monotonic_tick')
      BY <2>1 DEF ServerTick
    <3>2. \/ /\ snapshots' = snapshots \cup {[tick |-> cur_monotonic_tick', acks |-> inputs_to_ack]}
             /\ inputs_to_ack' = {}
          \/ UNCHANGED <<snapshots, inputs_to_ack>>
      BY <3>1 DEF SendSnapshot
    <3> QED BY <3>2 DEF Acked
  <2>2. CASE UNCHANGED <<snapshots, inputs_to_ack>>
    BY <2>2 DEF Acked
  <2> QED
    BY <2>1, <2>2 DEF Click, PredictTick, LoseInputs, vars, clientVars, serverVars
<1>3. Ids'
  BY <1>1, <1>2 DEF Ids
<1>4. Held'
  BY <1>1, <1>2 DEF Held, Has, FellBehind
<1> QED BY <1>3, <1>4

\* As long as the client does not fall behind, the server has the input every chain under
\* way starts from, and the one the next chain will start from, and they are the inputs the
\* client means: the start that server.rs:2467 looks up is never missing.
THEOREM StartsAreKnown == Spec => []BaseIsKnown
<1> DEFINE I == Inv /\ Ids /\ Held
<1>1. Init => I
  BY InitInv, IdsInit
<1>2. I /\ [Next]_vars => I'
  <2> SUFFICES ASSUME Inv, Ids, Held, [Next]_vars PROVE Ids' /\ Held'
    BY StepInv
  <2>1. CASE FlushInputs \/ FlushAcks
    BY <2>1, IdsSend
  <2>2. ASSUME NEW s \in snapshots, ReceiveSnapshot(s) PROVE Ids' /\ Held'
    BY <2>2, IdsSnapshot
  <2>3. ASSUME NEW m \in inputs, ReceiveInputs(m) PROVE Ids' /\ Held'
    BY <2>3, IdsReceive
  <2>4. CASE \/ Click \/ PredictTick \/ ServerTick
             \/ \E m \in inputs : LoseInputs(m)
             \/ UNCHANGED vars
    BY <2>4, IdsRest
  <2> QED BY <2>1, <2>2, <2>3, <2>4 DEF Next
<1>3. I => BaseIsKnown
  <2> SUFFICES ASSUME Types, Agree, Held, ~behind
               PROVE  /\ Known(server_input.id, server_input.inp)
                      /\ \A m \in inputs : m.chain # {} => Known(m.diff_id, m.base)
    BY DEF Inv, BaseIsKnown
  <2>1. ASSUME NEW id, NEW inp, Has(id), <<id, inp>> \in Said \/ id = NoId
        PROVE  Known(id, inp)
    <3> SUFFICES ASSUME id # NoId, input_id - id < ServerStore
                 PROVE  id \in DOMAIN input_storage /\ input_storage[id] = inp
      BY DEF Known
    <3>1. id \in DOMAIN input_storage
      BY <2>1 DEF Has
    <3>2. <<id, input_storage[id]>> \in Said
      BY <3>1 DEF Said, OfServer
    <3>3. input_storage[id] = inp
      BY <2>1, <3>2 DEF Agree
    <3> QED BY <3>1, <3>3
  <2>2. Known(server_input.id, server_input.inp)
    BY <2>1 DEF Held, Said, OfBase
  <2>3. ASSUME NEW m \in inputs, m.chain # {} PROVE Known(m.diff_id, m.base)
    BY <2>1, <2>3 DEF Held, Said, OfStarts
  <2> QED BY <2>2, <2>3
<1> QED BY <1>1, <1>2, <1>3, PTL DEF Spec

=============================================================================
