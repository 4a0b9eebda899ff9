---------------------- MODULE ConnectionLifecycleProofs ----------------------
(***************************************************************************)
(* The books of the connection plugins are exact and the limits hold, for  *)
(* every number of connections and addresses; no connection slips past a   *)
(* ban, and the server hears of every end.                                 *)
(*                                                                         *)
(* The inductive invariant Inv is TypeOK, the shape of a task (what its    *)
(* place says of `passed` and of `closed`), the books, and the order of    *)
(* the events.                                                             *)
(***************************************************************************)
EXTENDS ConnectionLifecycle, FiniteSetTheorems, TLAPS

USE ConFinite, ipType, LimitsPositive DEF Bans, Limit, PerIp

\* The connections between MaxConnections' fetch_add and its fetch_sub.
Overshooting == {c \in Con : task[c] = "over"}

\* What the place of a task says of the plugins that hold the connection.
PassedInv ==
    \A c \in Con :
        /\ task[c] \in {"new", "done"} => passed[c] = 0
        /\ task[c] = "over" => passed[c] = Limit - 1
        /\ task[c] \in {"open", "leaving"} => passed[c] = PerIp

\* A connection loses its entry when it is closed or about to be, and a task that
\* is past Close has closed it.
ClosedInv ==
    \A c \in Con :
        /\ task[c] = "left" => c \in closed
        /\ task[c] \in {"connecting", "over", "refused", "open"} =>
              c \in connections \cup closed

\* The server has not heard of a connection that was never announced, and when
\* the task has ended every Connected event is followed by a Disconnected one.
EventInv ==
    \A c \in Con :
        /\ task[c] \in {"new", "connecting", "over", "refused"} =>
              /\ c \notin server
              /\ \A k \in DOMAIN events : events[k] /= <<"Connected", c>>
        /\ task[c] = "done" =>
              \A k \in DOMAIN events : events[k] = <<"Connected", c>> =>
                  \E j \in DOMAIN events : j > k /\ events[j] = <<"Disconnected", c>>

Inv ==
    /\ TypeOK
    /\ PassedInv
    /\ ClosedInv
    /\ BookkeepingIsExact
    /\ WithinLimits
    /\ BannedAreOnTheirWayOut
    /\ EventInv
    /\ NoGhosts

----------------------------------------------------------------------------
(***************************************************************************)
(* Counting connections.                                                   *)
(***************************************************************************)

\* Sets of connections can be counted.
LEMMA Countable ==
    ASSUME NEW S \in SUBSET Con
    PROVE  IsFiniteSet(S) /\ Cardinality(S) \in Nat
BY FS_Subset, FS_CardinalityType

\* A new member adds one.
LEMMA AddOne ==
    ASSUME NEW S \in SUBSET Con, NEW c \in Con, c \notin S
    PROVE  Cardinality(S \cup {c}) = Cardinality(S) + 1
BY Countable, FS_AddElement

\* A member less takes one off.
LEMMA RemoveOne ==
    ASSUME NEW S \in SUBSET Con, NEW c \in S
    PROVE  Cardinality(S \ {c}) = Cardinality(S) - 1
BY Countable, FS_RemoveElement

\* A plugin that allows a connection gets it in its set; the other sets stay.
LEMMA AllowedSets ==
    ASSUME TypeOK, NEW c \in Con, Allow(c), NEW p \in 1..PerIp, passed[c] = p - 1
    PROVE  /\ c \notin Has(p) /\ Has(p)' = Has(p) \cup {c}
           /\ \A q \in 1..PerIp : q /= p => Has(q)' = Has(q)
           /\ passed' \in [Con -> 0..PerIp]
BY DEF TypeOK, Allow, Has

\* Whatever a plugin answers, the tasks and the plugins passed keep their types.
LEMMA AnswerType ==
    ASSUME TypeOK, NEW c \in Con, passed[c] < PerIp, Allow(c) \/ Refuse(c)
    PROVE  task' \in [Con -> Task] /\ passed' \in [Con -> 0..PerIp]
<1>1. CASE Allow(c)
  <2>a. passed \in [Con -> 0..PerIp]
    BY DEF TypeOK
  <2>1. passed[c] + 1 \in 0..PerIp /\ passed \in [Con -> 0..PerIp]
    BY <2>a
  <2>2. passed' = [passed EXCEPT ![c] = passed[c] + 1] /\ task' = task
    BY <1>1 DEF Allow
  <2> QED BY <2>1, <2>2 DEF TypeOK
<1>2. CASE Refuse(c)
  BY <1>2 DEF TypeOK, Refuse, Task
<1> QED BY <1>1, <1>2

\* Init establishes the invariant.
LEMMA InitInv == Init => Inv
<1> SUFFICES ASSUME Init PROVE Inv
  OBVIOUS
<1>1. TypeOK
  <2>1. events \in Seq(Event)
    BY DEF Init
  <2> QED BY <2>1 DEF Init, TypeOK, Task
<1>2. /\ Has(Bans) = {} /\ Has(Limit) = {} /\ Has(PerIp) = {}
      /\ Overshooting = {}
  BY DEF Init, Has, Overshooting
<1>3. Cardinality({}) = 0
  BY FS_EmptySet
<1>4. BookkeepingIsExact /\ WithinLimits
  <2>1. \A i \in Ip : Has(PerIp) \cap Of(i) = {}
    BY <1>2
  <2>2. Cardinality({c \in Con : task[c] = "over"}) = 0
    BY <1>2, <1>3 DEF Overshooting
  <2>3. BookkeepingIsExact
    <3>1. active = {} /\ count = 0 /\ \A i \in Ip : per_ip[i] = 0
      BY DEF Init
    <3>2. count = Cardinality(Has(Limit)) + Cardinality({c \in Con : task[c] = "over"})
      BY <1>2, <1>3, <2>2, <3>1
    <3> QED BY <1>2, <1>3, <2>1, <3>1, <3>2 DEF BookkeepingIsExact
  <2>4. WithinLimits
    <3>1. 0 <= MaxConnections /\ 0 <= MaxPerIp
      OBVIOUS
    <3> QED BY <1>2, <1>3, <2>1, <3>1 DEF WithinLimits
  <2> QED BY <2>3, <2>4
<1>5. PassedInv /\ ClosedInv /\ EventInv /\ BannedAreOnTheirWayOut /\ NoGhosts
  BY <1>2 DEF Init, PassedInv, ClosedInv, EventInv, BannedAreOnTheirWayOut, NoGhosts
<1> QED BY <1>1, <1>4, <1>5 DEF Inv


----------------------------------------------------------------------------
(***************************************************************************)
(* What a step does to each part.                                          *)
(***************************************************************************)

\* Every step keeps the types.
LEMMA TypeStep == Inv /\ [Next]_vars => TypeOK'
<1> SUFFICES ASSUME Inv, [Next]_vars PROVE TypeOK'
  OBVIOUS
<1> USE DEF Inv, Task, plugin_state
<1>1. ASSUME NEW c \in Con, AskBans(c) PROVE TypeOK'
  <2>1. task' \in [Con -> Task] /\ passed' \in [Con -> 0..PerIp]
    BY <1>1, AnswerType DEF AskBans
  <2>2. active' \in SUBSET Con
    BY <1>1 DEF TypeOK, AskBans
  <2> QED BY <1>1, <2>1, <2>2 DEF TypeOK, AskBans
<1>2. ASSUME NEW c \in Con, AskLimit(c) \/ Over(c) PROVE TypeOK'
  <2>1. task[c] = "over" => count > 0
    <3>1. SUFFICES ASSUME task[c] = "over" PROVE Cardinality({d \in Con : task[d] = "over"}) > 0
      BY Countable DEF BookkeepingIsExact, Has
    <3>2. c \in {d \in Con : task[d] = "over"}
      BY <3>1
    <3> QED BY <3>2, Countable, FS_EmptySet
  <2>2. CASE AskLimit(c)
    BY <2>2 DEF TypeOK, AskLimit, Allow
  <2>3. CASE Over(c)
    <3>1. count > 0 /\ count - 1 \in Nat
      BY <2>1, <2>3 DEF TypeOK, Over
    <3> QED BY <2>3, <3>1 DEF TypeOK, Over, Refuse
  <2> QED BY <1>2, <2>2, <2>3
<1>3. ASSUME NEW c \in Con, AskPerIp(c) PROVE TypeOK'
  <2>1. task' \in [Con -> Task] /\ passed' \in [Con -> 0..PerIp]
    BY <1>3, AnswerType DEF AskPerIp
  <2>2. per_ip' \in [Ip -> Nat]
    <3>1. ip[c] \in Ip /\ per_ip \in [Ip -> Nat]
      BY DEF TypeOK
    <3>2. per_ip' = per_ip \/ per_ip' = [per_ip EXCEPT ![ip[c]] = @ + 1]
      BY <1>3 DEF AskPerIp
    <3> QED BY <3>1, <3>2
  <2> QED BY <1>3, <2>1, <2>2 DEF TypeOK, AskPerIp
<1>4. ASSUME NEW c \in Con, Release(c) PROVE TypeOK'
  <2>1. passed[c] = Limit => count > 0
    <3>1. SUFFICES ASSUME passed[c] = Limit PROVE Cardinality(Has(Limit)) > 0
      BY Countable DEF BookkeepingIsExact, Has
    <3>2. c \in Has(Limit) /\ Has(Limit) \in SUBSET Con
      BY <3>1 DEF Has
    <3> QED BY <3>2, Countable, FS_EmptySet
  <2>2. passed' \in [Con -> 0..PerIp]
    BY <1>4 DEF TypeOK, Release
  <2>3. count' \in Nat /\ active' \in SUBSET Con
    BY <1>4, <2>1 DEF TypeOK, Release
  <2>4. per_ip' \in [Ip -> Nat]
    BY <1>4 DEF TypeOK, Release
  <2> QED BY <1>4, <2>2, <2>3, <2>4 DEF TypeOK, Release
<1>5. ASSUME NEW c \in Con, Announce(c) \/ Gone(c) PROVE TypeOK'
  <2>1. <<"Connected", c>> \in Event /\ <<"Disconnected", c>> \in Event
    BY DEF Event
  <2>2. task' \in [Con -> Task] /\ events' \in Seq(Event)
    <3>1. CASE Announce(c)
      BY <2>1, <3>1 DEF TypeOK, Announce
    <3>2. CASE Gone(c)
      BY <2>1, <3>2 DEF TypeOK, Gone
    <3> QED BY <1>5, <3>1, <3>2
  <2> QED BY <1>5, <2>2 DEF TypeOK, Announce, Gone
<1>6. ASSUME NEW c \in Con, Refused(c) \/ Close(c) \/ Accept(c) \/ Leave(c) PROVE TypeOK'
  BY <1>6 DEF TypeOK, Refused, Close, Accept, Leave
<1>7. ASSUME NEW c \in Con, PeerCloses(c) \/ Kick(c) \/ KickClient(c) PROVE TypeOK'
  BY <1>7 DEF TypeOK, PeerCloses, Kick, KickClient
<1>8. CASE HandleEvent
  <2>1. Head(events) \in Event /\ Tail(events) \in Seq(Event)
    BY <1>8 DEF TypeOK, HandleEvent
  <2>2. Head(events)[2] \in Con
    BY <2>1 DEF Event
  <2> QED BY <1>8, <2>1, <2>2 DEF TypeOK, HandleEvent
<1>9. ASSUME NEW i \in Ip, BanIp(i) \/ BanExpires(i) PROVE TypeOK'
  BY <1>9 DEF TypeOK, BanIp, BanExpires
<1>10. CASE UNCHANGED vars
  BY <1>10 DEF TypeOK, vars
<1> QED BY <1>1, <1>2, <1>3, <1>4, <1>5, <1>6, <1>7, <1>8, <1>9, <1>10 DEF Next, TaskStep

\* Every step keeps what the place of a task says.
LEMMA TaskStepInv == Inv /\ [Next]_vars => PassedInv' /\ ClosedInv'
<1> SUFFICES ASSUME Inv, [Next]_vars PROVE PassedInv' /\ ClosedInv'
  OBVIOUS
<1> USE DEF Inv, TypeOK, Task, plugin_state, PassedInv, ClosedInv
<1>1. ASSUME NEW c \in Con, AskBans(c) \/ AskLimit(c) \/ Over(c) \/ AskPerIp(c)
      PROVE  PassedInv' /\ ClosedInv'
  <2>1. /\ \A d \in Con \ {c} : task'[d] = task[d] /\ passed'[d] = passed[d]
        /\ task[c] \in {"connecting", "over"}
        /\ task'[c] \in {"connecting", "over", "refused"}
        /\ task'[c] = "over" => passed'[c] = 1
        /\ UNCHANGED <<connections, closed>>
    BY <1>1 DEF AskBans, AskLimit, Over, AskPerIp, Allow, Refuse
  <2>2. PassedInv'
    <3> SUFFICES ASSUME NEW d \in Con
                 PROVE  /\ task'[d] \in {"new", "done"} => passed'[d] = 0
                        /\ task'[d] = "over" => passed'[d] = Limit - 1
                        /\ task'[d] \in {"open", "leaving"} => passed'[d] = PerIp
      OBVIOUS
    <3>1. CASE d = c
      BY <2>1, <3>1
    <3>2. CASE d /= c
      BY <2>1, <3>2
    <3> QED BY <3>1, <3>2
  <2>3. ClosedInv'
    <3> SUFFICES ASSUME NEW d \in Con
                 PROVE  /\ task'[d] = "left" => d \in closed
                        /\ task'[d] \in {"connecting", "over", "refused", "open"} =>
                              d \in connections \cup closed
      BY <2>1
    <3>1. CASE d = c
      BY <2>1, <3>1
    <3>2. CASE d /= c
      BY <2>1, <3>2
    <3> QED BY <3>1, <3>2
  <2> QED BY <2>2, <2>3
<1>2. ASSUME NEW c \in Con, Release(c) PROVE PassedInv' /\ ClosedInv'
  BY <1>2 DEF Release
<1>3. ASSUME NEW c \in Con, Announce(c) \/ Refused(c) \/ Close(c) \/ Gone(c)
      PROVE  PassedInv' /\ ClosedInv'
  BY <1>3 DEF Announce, Refused, Close, Gone
<1>4. ASSUME NEW c \in Con, Accept(c) \/ Leave(c) PROVE PassedInv' /\ ClosedInv'
  BY <1>4 DEF Accept, Leave
<1>5. ASSUME NEW c \in Con, PeerCloses(c) \/ Kick(c) \/ KickClient(c)
      PROVE  PassedInv' /\ ClosedInv'
  BY <1>5 DEF PeerCloses, Kick, KickClient
<1>6. CASE HandleEvent
  BY <1>6 DEF HandleEvent
<1>7. ASSUME NEW i \in Ip, BanIp(i) \/ BanExpires(i) PROVE PassedInv' /\ ClosedInv'
  BY <1>7 DEF BanIp, BanExpires
<1>8. CASE UNCHANGED vars
  BY <1>8 DEF vars
<1> QED BY <1>1, <1>2, <1>3, <1>4, <1>5, <1>6, <1>7, <1>8 DEF Next, TaskStep


\* A step that moves no connection into or out of a plugin's set leaves the books
\* alone.
LEMMA BooksUntouched ==
    ASSUME Inv, passed' = passed, Overshooting' = Overshooting, UNCHANGED plugin_state
    PROVE  BookkeepingIsExact' /\ WithinLimits'
<1>1. /\ Has(Bans)' = Has(Bans) /\ Has(Limit)' = Has(Limit) /\ Has(PerIp)' = Has(PerIp)
      /\ active' = active /\ count' = count /\ per_ip' = per_ip
  BY DEF Has, plugin_state
<1> QED BY <1>1 DEF Inv, BookkeepingIsExact, WithinLimits, Overshooting

\* Books and limits, part by part.
LEMMA BooksClose ==
    ASSUME active' = Has(Bans)',
           count' = Cardinality(Has(Limit)') + Cardinality(Overshooting'),
           \A i \in Ip : per_ip'[i] = Cardinality(Has(PerIp)' \cap Of(i)),
           Cardinality(Has(Limit)') <= MaxConnections,
           \A i \in Ip : Cardinality(Has(PerIp)' \cap Of(i)) <= MaxPerIp
    PROVE  BookkeepingIsExact' /\ WithinLimits'
BY DEF BookkeepingIsExact, WithinLimits, Overshooting, Of

\* The books are exact, with the set of those that overshoot by its name.
LEMMA Books ==
    ASSUME BookkeepingIsExact
    PROVE  /\ active = Has(Bans)
           /\ count = Cardinality(Has(Limit)) + Cardinality(Overshooting)
           /\ \A i \in Ip : per_ip[i] = Cardinality(Has(PerIp) \cap Of(i))
BY DEF BookkeepingIsExact, Overshooting

\* Every step keeps the books exact and the limits.
LEMMA BooksStep == Inv /\ [Next]_vars => BookkeepingIsExact' /\ WithinLimits'
<1> SUFFICES ASSUME Inv, [Next]_vars PROVE BookkeepingIsExact' /\ WithinLimits'
  OBVIOUS
<1>t. TypeOK
  BY DEF Inv
<1>b. /\ active = Has(Bans)
      /\ count = Cardinality(Has(Limit)) + Cardinality(Overshooting)
      /\ \A i \in Ip : per_ip[i] = Cardinality(Has(PerIp) \cap Of(i))
  BY Books DEF Inv
<1>l. /\ Cardinality(Has(Limit)) <= MaxConnections
      /\ \A i \in Ip : Cardinality(Has(PerIp) \cap Of(i)) <= MaxPerIp
  BY DEF Inv, WithinLimits
<1>n. /\ Cardinality(Has(Limit)) \in Nat
      /\ Cardinality(Overshooting) \in Nat
      /\ \A i \in Ip : Cardinality(Has(PerIp) \cap Of(i)) \in Nat
  BY Countable DEF Has, Overshooting
<1>1. ASSUME NEW c \in Con, AskBans(c) PROVE BookkeepingIsExact' /\ WithinLimits'
  <2>1. Overshooting' = Overshooting
    BY <1>1, <1>t DEF AskBans, Allow, Refuse, TypeOK, Overshooting
  <2>2. CASE Refuse(c) /\ UNCHANGED active
    BY <1>1, <2>1, <2>2, BooksUntouched DEF AskBans, Refuse, plugin_state
  <2>3. CASE Allow(c) /\ active' = active \cup {c}
    <3>1. passed[c] = 1 - 1 /\ UNCHANGED <<count, per_ip>>
      BY <1>1 DEF AskBans
    <3>2. Has(1)' = Has(1) \cup {c} /\ Has(2)' = Has(2) /\ Has(3)' = Has(3)
      BY <1>t, <2>3, <3>1, AllowedSets
    <3> QED BY <1>b, <1>l, <2>1, <2>3, <3>1, <3>2, BooksClose
  <2> QED BY <1>1, <2>2, <2>3 DEF AskBans
<1>2. ASSUME NEW c \in Con, AskLimit(c) PROVE BookkeepingIsExact' /\ WithinLimits'
  <2>1. /\ task[c] = "connecting" /\ passed[c] = 2 - 1 /\ count' = count + 1
        /\ UNCHANGED <<active, per_ip>>
    BY <1>2 DEF AskLimit
  <2>2. CASE task' = [task EXCEPT ![c] = "over"] /\ passed' = passed
    <3>1. c \notin Overshooting /\ Overshooting' = Overshooting \cup {c}
      BY <1>t, <2>1, <2>2 DEF TypeOK, Overshooting
    <3>2. Cardinality(Overshooting') = Cardinality(Overshooting) + 1
      <4>1. Overshooting \in SUBSET Con
        BY DEF Overshooting
      <4> QED BY <3>1, <4>1, AddOne
    <3>3. /\ Has(Bans)' = Has(Bans) /\ Has(Limit)' = Has(Limit) /\ Has(PerIp)' = Has(PerIp)
      BY <2>2 DEF Has
    <3>4. count' = Cardinality(Has(Limit)') + Cardinality(Overshooting')
      BY <1>b, <1>n, <2>1, <3>2, <3>3
    <3> QED BY <1>b, <1>l, <2>1, <3>3, <3>4, BooksClose
  <2>3. CASE count < MaxConnections /\ Allow(c)
    <3>1. /\ c \notin Has(2) /\ Has(2)' = Has(2) \cup {c}
          /\ Has(1)' = Has(1) /\ Has(3)' = Has(3)
      BY <1>t, <2>1, <2>3, AllowedSets
    <3>2. Cardinality(Has(2)') = Cardinality(Has(2)) + 1
      <4>1. Has(2) \in SUBSET Con
        BY DEF Has
      <4> QED BY <3>1, <4>1, AddOne
    <3>3. Overshooting' = Overshooting
      BY <2>3 DEF Allow, Overshooting
    <3>4. Cardinality(Has(2)) + 1 <= MaxConnections
      BY <1>b, <1>n, <2>3
    <3>5. /\ count' = Cardinality(Has(2)') + Cardinality(Overshooting')
          /\ Cardinality(Has(2)') <= MaxConnections
      BY <1>b, <1>n, <2>1, <3>2, <3>3, <3>4
    <3> QED BY <1>b, <1>l, <2>1, <3>1, <3>5, BooksClose
  <2> QED BY <1>2, <2>2, <2>3 DEF AskLimit
<1>3. ASSUME NEW c \in Con, Over(c) PROVE BookkeepingIsExact' /\ WithinLimits'
  <2>1. c \in Overshooting /\ Overshooting' = Overshooting \ {c} /\ passed' = passed
    BY <1>3, <1>t DEF Over, Refuse, TypeOK, Overshooting
  <2>2. Cardinality(Overshooting') = Cardinality(Overshooting) - 1
    <3>1. Overshooting \in SUBSET Con
      BY DEF Overshooting
    <3> QED BY <2>1, <3>1, RemoveOne
  <2>3. /\ Has(Bans)' = Has(Bans) /\ Has(Limit)' = Has(Limit) /\ Has(PerIp)' = Has(PerIp)
    BY <2>1 DEF Has
  <2>4. count' = count - 1 /\ UNCHANGED <<active, per_ip>>
    BY <1>3 DEF Over
  <2>5. count' = Cardinality(Has(Limit)') + Cardinality(Overshooting')
    BY <1>b, <1>n, <2>2, <2>3, <2>4
  <2> QED BY <1>b, <1>l, <2>3, <2>4, <2>5, BooksClose
<1>4. ASSUME NEW c \in Con, AskPerIp(c) PROVE BookkeepingIsExact' /\ WithinLimits'
  <2>1. /\ task[c] = "connecting" /\ passed[c] = 3 - 1
        /\ UNCHANGED <<active, count>>
    BY <1>4 DEF AskPerIp
  <2>2. Overshooting' = Overshooting
    BY <1>4, <1>t DEF AskPerIp, Allow, Refuse, TypeOK, Overshooting
  <2>3. CASE Refuse(c) /\ UNCHANGED per_ip
    BY <2>1, <2>2, <2>3, BooksUntouched DEF Refuse, plugin_state
  <2>4. CASE per_ip[ip[c]] < MaxPerIp /\ Allow(c) /\ per_ip' = [per_ip EXCEPT ![ip[c]] = @ + 1]
    <3>1. /\ c \notin Has(3) /\ Has(3)' = Has(3) \cup {c}
          /\ Has(1)' = Has(1) /\ Has(2)' = Has(2)
      BY <1>t, <2>1, <2>4, AllowedSets
    <3>2. ip[c] \in Ip /\ c \in Of(ip[c])
      BY DEF Of
    <3>3. /\ per_ip'[ip[c]] = per_ip[ip[c]] + 1
          /\ \A i \in Ip : i /= ip[c] => per_ip'[i] = per_ip[i]
      BY <1>t, <2>4, <3>2 DEF TypeOK
    <3>4. /\ Cardinality(Has(3)' \cap Of(ip[c])) = Cardinality(Has(3) \cap Of(ip[c])) + 1
          /\ \A i \in Ip : i /= ip[c] => Has(3)' \cap Of(i) = Has(3) \cap Of(i)
      <4>1. Has(3)' \cap Of(ip[c]) = (Has(3) \cap Of(ip[c])) \cup {c}
        BY <3>1, <3>2
      <4>2. c \notin Has(3) \cap Of(ip[c]) /\ Has(3) \cap Of(ip[c]) \in SUBSET Con
        BY <3>1 DEF Has
      <4>3. Cardinality(Has(3)' \cap Of(ip[c])) = Cardinality(Has(3) \cap Of(ip[c])) + 1
        BY <4>1, <4>2, AddOne
      <4>4. \A i \in Ip : i /= ip[c] => c \notin Of(i)
        BY DEF Of
      <4> QED BY <3>1, <4>3, <4>4
    <3>5. Cardinality(Has(3) \cap Of(ip[c])) + 1 <= MaxPerIp
      BY <1>b, <1>n, <2>4, <3>2
    <3>6. \A i \in Ip : /\ per_ip'[i] = Cardinality(Has(3)' \cap Of(i))
                        /\ Cardinality(Has(3)' \cap Of(i)) <= MaxPerIp
      BY <1>b, <1>l, <3>3, <3>4, <3>5
    <3> QED BY <1>b, <1>l, <2>1, <2>2, <3>1, <3>6, BooksClose
  <2> QED BY <1>4, <2>3, <2>4 DEF AskPerIp
<1>5. ASSUME NEW c \in Con, Release(c) PROVE BookkeepingIsExact' /\ WithinLimits'
  <2>1. Overshooting' = Overshooting /\ passed' = [passed EXCEPT ![c] = @ - 1]
    BY <1>5 DEF Release, Overshooting
  <2>2. CASE passed[c] = 1 /\ active' = active \ {c} /\ UNCHANGED <<count, per_ip>>
    <3>1. Has(1)' = Has(1) \ {c} /\ Has(2)' = Has(2) /\ Has(3)' = Has(3)
      BY <1>t, <2>1, <2>2 DEF TypeOK, Has
    <3> QED BY <1>b, <1>l, <2>1, <2>2, <3>1, BooksClose
  <2>3. CASE passed[c] = 2 /\ count' = count - 1 /\ UNCHANGED <<active, per_ip>>
    <3>1. /\ c \in Has(2) /\ Has(2)' = Has(2) \ {c}
          /\ Has(1)' = Has(1) /\ Has(3)' = Has(3)
      BY <1>t, <2>1, <2>3 DEF TypeOK, Has
    <3>2. Cardinality(Has(2)') = Cardinality(Has(2)) - 1
      <4>1. Has(2) \in SUBSET Con
        BY DEF Has
      <4> QED BY <3>1, <4>1, RemoveOne
    <3>3. /\ count' = Cardinality(Has(2)') + Cardinality(Overshooting')
          /\ Cardinality(Has(2)') <= MaxConnections
      BY <1>b, <1>l, <1>n, <2>1, <2>3, <3>2
    <3> QED BY <1>b, <1>l, <2>3, <3>1, <3>3, BooksClose
  <2>4. CASE /\ passed[c] = 3 /\ UNCHANGED <<active, count>>
             /\ per_ip' = [per_ip EXCEPT ![ip[c]] = IF @ > 0 THEN @ - 1 ELSE 0]
    <3>1. /\ c \in Has(3) /\ Has(3)' = Has(3) \ {c}
          /\ Has(1)' = Has(1) /\ Has(2)' = Has(2)
      BY <1>t, <2>1, <2>4 DEF TypeOK, Has
    <3>2. ip[c] \in Ip /\ c \in Of(ip[c])
      BY <1>t, <3>1 DEF Of, Has
    <3>3. /\ Cardinality(Has(3)' \cap Of(ip[c])) = Cardinality(Has(3) \cap Of(ip[c])) - 1
          /\ \A i \in Ip : i /= ip[c] => Has(3)' \cap Of(i) = Has(3) \cap Of(i)
      <4>1. Has(3)' \cap Of(ip[c]) = (Has(3) \cap Of(ip[c])) \ {c}
        BY <3>1
      <4>2. c \in Has(3) \cap Of(ip[c]) /\ Has(3) \cap Of(ip[c]) \in SUBSET Con
        BY <3>1, <3>2 DEF Has
      <4>3. Cardinality(Has(3)' \cap Of(ip[c])) = Cardinality(Has(3) \cap Of(ip[c])) - 1
        BY <4>1, <4>2, RemoveOne
      <4>4. \A i \in Ip : i /= ip[c] => c \notin Of(i)
        BY DEF Of
      <4> QED BY <3>1, <4>3, <4>4
    <3>4. /\ Cardinality(Has(3)' \cap Of(ip[c])) \in Nat
          /\ Cardinality(Has(3) \cap Of(ip[c])) \in Nat
      BY <3>1, Countable DEF Has
    <3>5. /\ per_ip'[ip[c]] = per_ip[ip[c]] - 1
          /\ \A i \in Ip : i /= ip[c] => per_ip'[i] = per_ip[i]
      <4>1. per_ip[ip[c]] > 0
        BY <1>b, <3>2, <3>3, <3>4
      <4> QED BY <1>t, <2>4, <3>2, <4>1 DEF TypeOK
    <3>6. \A i \in Ip : /\ per_ip'[i] = Cardinality(Has(3)' \cap Of(i))
                        /\ Cardinality(Has(3)' \cap Of(i)) <= MaxPerIp
      <4> SUFFICES ASSUME NEW i \in Ip
                   PROVE  /\ per_ip'[i] = Cardinality(Has(3)' \cap Of(i))
                          /\ Cardinality(Has(3)' \cap Of(i)) <= MaxPerIp
        OBVIOUS
      <4>1. CASE i = ip[c]
        BY <1>b, <1>l, <3>3, <3>4, <3>5, <4>1
      <4>2. CASE i /= ip[c]
        BY <1>b, <1>l, <3>3, <3>5, <4>2
      <4> QED BY <4>1, <4>2
    <3> QED BY <1>b, <1>l, <2>1, <2>4, <3>1, <3>6, BooksClose
  <2> QED BY <1>5, <2>2, <2>3, <2>4 DEF Release
<1>6. ASSUME NEW c \in Con, \/ Announce(c) \/ Refused(c) \/ Close(c) \/ Gone(c)
                            \/ Accept(c) \/ Leave(c)
      PROVE  passed' = passed /\ Overshooting' = Overshooting /\ UNCHANGED plugin_state
  <2>1. /\ \A d \in Con : task'[d] = "over" <=> task[d] = "over"
        /\ passed' = passed
    BY <1>6, <1>t DEF TypeOK, Announce, Refused, Close, Gone, Accept, Leave
  <2>2. UNCHANGED plugin_state
    BY <1>6 DEF Announce, Refused, Close, Gone, Accept, Leave, plugin_state
  <2> QED BY <2>1, <2>2 DEF Overshooting
<1>7. ASSUME \/ \E c \in Con : PeerCloses(c) \/ Kick(c) \/ KickClient(c)
             \/ HandleEvent
             \/ \E i \in Ip : BanIp(i) \/ BanExpires(i)
             \/ UNCHANGED vars
      PROVE  passed' = passed /\ Overshooting' = Overshooting /\ UNCHANGED plugin_state
  BY <1>7 DEF PeerCloses, Kick, KickClient, HandleEvent, BanIp, BanExpires, vars,
              plugin_state, Overshooting
<1> QED BY <1>1, <1>2, <1>3, <1>4, <1>5, <1>6, <1>7, BooksUntouched DEF Next, TaskStep

\* Every step keeps the connections of banned addresses on their way out: a ban
\* kicks all that the plugin holds, and a kick that finds no entry finds a
\* connection that is closed or about to be.
LEMMA BanStep == Inv /\ [Next]_vars => BannedAreOnTheirWayOut'
<1> SUFFICES ASSUME Inv, [Next]_vars,
                    NEW d \in Con, passed'[d] >= Bans, ip[d] \in banned'
             PROVE  d \in kicks' \cup closed' \/ task'[d] = "leaving"
  BY DEF BannedAreOnTheirWayOut, Has
<1> DEFINE Out == d \in kicks' \cup closed' \/ task'[d] = "leaving"
<1>t. TypeOK
  BY DEF Inv
<1>o. passed[d] >= Bans /\ ip[d] \in banned =>
          d \in kicks \cup closed \/ task[d] = "leaving"
  BY DEF Inv, BannedAreOnTheirWayOut, Has
<1>c. passed[d] >= Bans => d \in connections \cup closed \/ task[d] = "leaving"
  BY <1>t DEF Inv, PassedInv, ClosedInv, TypeOK, Task
<1>1. ASSUME NEW c \in Con, AskBans(c) PROVE Out
  <2>1. banned' = banned /\ kicks' = kicks /\ closed' = closed
    BY <1>1 DEF AskBans
  <2>2. CASE Refuse(c)
    BY <1>o, <1>t, <1>1, <2>1, <2>2 DEF Refuse, AskBans, TypeOK
  <2>3. CASE ip[c] \notin banned /\ Allow(c)
    <3>1. d /= c
      BY <2>1, <2>3
    <3> QED BY <1>o, <1>t, <2>1, <2>3, <3>1 DEF Allow, TypeOK
  <2> QED BY <1>1, <2>2, <2>3 DEF AskBans
<1>2. ASSUME NEW c \in Con, AskLimit(c) \/ Over(c) \/ AskPerIp(c) PROVE Out
  <2>1. banned' = banned /\ kicks' = kicks /\ closed' = closed
    BY <1>2 DEF AskLimit, Over, AskPerIp
  <2>2. passed[d] >= Bans /\ (task[d] = "leaving" => task'[d] = "leaving")
    <3>1. passed[c] >= Bans /\ task[c] \in {"connecting", "over"}
      BY <1>2, <1>t DEF AskLimit, Over, AskPerIp, TypeOK, Inv, PassedInv
    <3>2. /\ \A e \in Con \ {c} : passed'[e] = passed[e] /\ task'[e] = task[e]
      BY <1>2, <1>t DEF AskLimit, Over, AskPerIp, Allow, Refuse, TypeOK
    <3> QED BY <3>1, <3>2
  <2> QED BY <1>o, <2>1, <2>2
<1>3. ASSUME NEW c \in Con, Release(c) PROVE Out
  <2>1. passed[d] >= Bans
    BY <1>3, <1>t DEF Release, TypeOK
  <2> QED BY <1>o, <1>3, <2>1 DEF Release
<1>4. ASSUME NEW c \in Con, Announce(c) \/ Refused(c) \/ Gone(c) \/ Accept(c) PROVE Out
  <2>1. /\ passed' = passed /\ banned' = banned /\ kicks' = kicks
        /\ closed \subseteq closed'
        /\ task[d] = "leaving" => task'[d] = "leaving"
    BY <1>4, <1>t DEF Announce, Refused, Gone, Accept, TypeOK
  <2> QED BY <1>o, <2>1
<1>5. ASSUME NEW c \in Con, Leave(c) \/ Close(c) PROVE Out
  BY <1>o, <1>t, <1>5 DEF Leave, Close, TypeOK
<1>6. ASSUME NEW c \in Con, PeerCloses(c) \/ KickClient(c) PROVE Out
  BY <1>o, <1>6 DEF PeerCloses, KickClient
<1>7. ASSUME NEW c \in Con, Kick(c) PROVE Out
  BY <1>o, <1>c, <1>7 DEF Kick
<1>8. CASE HandleEvent
  BY <1>o, <1>8 DEF HandleEvent
<1>9. ASSUME NEW i \in Ip, BanIp(i) PROVE Out
  <2>1. d \in Has(Bans) => d \in active
    BY Books DEF Inv
  <2> QED BY <1>o, <1>9, <2>1 DEF BanIp, Has, Of
<1>10. ASSUME NEW i \in Ip, BanExpires(i) PROVE Out
  BY <1>o, <1>10 DEF BanExpires
<1>11. CASE UNCHANGED vars
  BY <1>o, <1>11 DEF vars
<1> QED BY <1>1, <1>2, <1>3, <1>4, <1>5, <1>6, <1>7, <1>8, <1>9, <1>10, <1>11 DEF Next, TaskStep

\* Every step keeps the order of the events of a connection.
LEMMA EventStep == Inv /\ [Next]_vars => EventInv' /\ NoGhosts'
<1> SUFFICES ASSUME Inv, [Next]_vars PROVE EventInv' /\ NoGhosts'
  OBVIOUS
<1> DEFINE Early == {"new", "connecting", "over", "refused"}
<1>t. TypeOK
  BY DEF Inv
<1>1. ASSUME events' = events, server' = server,
             \A d \in Con : task'[d] \in Early => task[d] \in Early,
             \A d \in Con : task'[d] = "done" => task[d] \in Early \cup {"done"}
      PROVE  EventInv' /\ NoGhosts'
  <2>1. EventInv'
    <3> SUFFICES ASSUME NEW d \in Con
                 PROVE  /\ task'[d] \in Early =>
                              /\ d \notin server
                              /\ \A k \in DOMAIN events : events[k] /= <<"Connected", d>>
                        /\ task'[d] = "done" =>
                              \A k \in DOMAIN events : events[k] = <<"Connected", d>> =>
                                \E j \in DOMAIN events : j > k /\ events[j] = <<"Disconnected", d>>
      BY <1>1 DEF EventInv
    <3>1. CASE task[d] \in Early
      BY <3>1 DEF Inv, EventInv
    <3>2. CASE task[d] = "done"
      BY <1>1, <3>2 DEF Inv, EventInv
    <3>3. CASE task[d] \notin Early \cup {"done"}
      BY <1>1, <3>3
    <3> QED BY <3>1, <3>2, <3>3
  <2>2. NoGhosts'
    <3> SUFFICES ASSUME NEW d \in server, task'[d] = "done"
                 PROVE  \E j \in DOMAIN events : events[j] = <<"Disconnected", d>>
      BY <1>1 DEF NoGhosts
    <3>1. d \in Con
      BY <1>t DEF TypeOK
    <3>2. task[d] = "done"
      BY <1>1, <3>1 DEF Inv, EventInv
    <3> QED BY <3>2 DEF Inv, NoGhosts
  <2> QED BY <2>1, <2>2
<1>2. ASSUME NEW c \in Con, Announce(c) PROVE EventInv' /\ NoGhosts'
  <2>1. /\ events' = Append(events, <<"Connected", c>>) /\ server' = server
        /\ task' = [task EXCEPT ![c] = "open"]
    BY <1>2 DEF Announce
  <2>2. /\ DOMAIN events' = 1..Len(events) + 1 /\ DOMAIN events = 1..Len(events)
        /\ \A k \in DOMAIN events : events'[k] = events[k]
        /\ events'[Len(events) + 1] = <<"Connected", c>>
    BY <1>t, <2>1 DEF TypeOK
  <2>3. \A d \in Con : task'[d] = IF d = c THEN "open" ELSE task[d]
    BY <1>t, <2>1 DEF TypeOK
  <2>4. Len(events) \in Nat
    BY <1>t DEF TypeOK
  <2>5. EventInv'
    <3> SUFFICES ASSUME NEW d \in Con
                 PROVE  /\ task'[d] \in Early =>
                              /\ d \notin server
                              /\ \A k \in DOMAIN events' : events'[k] /= <<"Connected", d>>
                        /\ task'[d] = "done" =>
                              \A k \in DOMAIN events' : events'[k] = <<"Connected", d>> =>
                                \E j \in DOMAIN events' : j > k /\ events'[j] = <<"Disconnected", d>>
      BY <2>1 DEF EventInv
    <3>1. CASE d = c
      BY <2>3, <3>1
    <3>2. CASE d /= c
      <4>1. task'[d] = task[d] /\ events'[Len(events) + 1] /= <<"Connected", d>>
        BY <2>2, <2>3, <3>2
      <4>2. \A k \in DOMAIN events' : events'[k] = <<"Connected", d>> =>
                k \in DOMAIN events /\ events[k] = <<"Connected", d>>
        BY <2>2, <2>4, <4>1
      <4>3. \A j \in DOMAIN events : j \in DOMAIN events' /\ events'[j] = events[j]
        BY <2>2, <2>4
      <4>4. CASE task[d] \in Early
        BY <4>1, <4>2, <4>4 DEF Inv, EventInv
      <4>5. CASE task[d] = "done"
        BY <4>1, <4>2, <4>3, <4>5 DEF Inv, EventInv
      <4> QED BY <4>1, <4>4, <4>5
    <3> QED BY <3>1, <3>2
  <2>6. NoGhosts'
    <3> SUFFICES ASSUME NEW d \in server, task'[d] = "done"
                 PROVE  \E j \in DOMAIN events' : events'[j] = <<"Disconnected", d>>
      BY <2>1 DEF NoGhosts
    <3>1. d \in Con
      BY <1>t DEF TypeOK
    <3>2. task[d] = "done"
      BY <2>3, <3>1
    <3>3. PICK j \in DOMAIN events : events[j] = <<"Disconnected", d>>
      BY <3>2 DEF Inv, NoGhosts
    <3> QED BY <2>2, <2>4, <3>3
  <2> QED BY <2>5, <2>6
<1>3. ASSUME NEW c \in Con, Gone(c) PROVE EventInv' /\ NoGhosts'
  <2>1. /\ events' = Append(events, <<"Disconnected", c>>) /\ server' = server
        /\ task' = [task EXCEPT ![c] = "done"] /\ task[c] = "left"
    BY <1>3 DEF Gone
  <2>2. /\ DOMAIN events' = 1..Len(events) + 1 /\ DOMAIN events = 1..Len(events)
        /\ \A k \in DOMAIN events : events'[k] = events[k]
        /\ events'[Len(events) + 1] = <<"Disconnected", c>>
    BY <1>t, <2>1 DEF TypeOK
  <2>3. \A d \in Con : task'[d] = IF d = c THEN "done" ELSE task[d]
    BY <1>t, <2>1 DEF TypeOK
  <2>4. Len(events) \in Nat
    BY <1>t DEF TypeOK
  <2>5. EventInv'
    <3> SUFFICES ASSUME NEW d \in Con
                 PROVE  /\ task'[d] \in Early =>
                              /\ d \notin server
                              /\ \A k \in DOMAIN events' : events'[k] /= <<"Connected", d>>
                        /\ task'[d] = "done" =>
                              \A k \in DOMAIN events' : events'[k] = <<"Connected", d>> =>
                                \E j \in DOMAIN events' : j > k /\ events'[j] = <<"Disconnected", d>>
      BY <2>1 DEF EventInv
    <3>1. CASE d = c
      <4>1. task'[d] = "done"
        BY <2>3, <3>1
      <4>2. \A k \in DOMAIN events' : events'[k] = <<"Connected", d>> => k < Len(events) + 1
        BY <2>2, <2>4, <3>1
      <4>3. Len(events) + 1 \in DOMAIN events'
        BY <2>2, <2>4
      <4> QED BY <2>2, <3>1, <4>1, <4>2, <4>3
    <3>2. CASE d /= c
      <4>1. task'[d] = task[d] /\ events'[Len(events) + 1] /= <<"Connected", d>>
        BY <2>2, <2>3, <3>2
      <4>2. \A k \in DOMAIN events' : events'[k] = <<"Connected", d>> =>
                k \in DOMAIN events /\ events[k] = <<"Connected", d>>
        BY <2>2, <2>4, <4>1
      <4>3. \A j \in DOMAIN events : j \in DOMAIN events' /\ events'[j] = events[j]
        BY <2>2, <2>4
      <4>4. CASE task[d] \in Early
        BY <4>1, <4>2, <4>4 DEF Inv, EventInv
      <4>5. CASE task[d] = "done"
        BY <4>1, <4>2, <4>3, <4>5 DEF Inv, EventInv
      <4> QED BY <4>1, <4>4, <4>5
    <3> QED BY <3>1, <3>2
  <2>6. NoGhosts'
    <3> SUFFICES ASSUME NEW d \in server, task'[d] = "done"
                 PROVE  \E j \in DOMAIN events' : events'[j] = <<"Disconnected", d>>
      BY <2>1 DEF NoGhosts
    <3>1. d \in Con
      BY <1>t DEF TypeOK
    <3>2. CASE d = c
      BY <2>2, <2>4, <3>2
    <3>3. CASE d /= c
      <4>1. PICK j \in DOMAIN events : events[j] = <<"Disconnected", d>>
        BY <2>3, <3>1, <3>3 DEF Inv, NoGhosts
      <4> QED BY <2>2, <2>4, <4>1
    <3> QED BY <3>2, <3>3
  <2> QED BY <2>5, <2>6
<1>4. CASE HandleEvent
  <2>1. /\ events /= <<>> /\ events' = Tail(events) /\ task' = task
        /\ server' = IF Head(events)[1] = "Connected" THEN server \cup {Head(events)[2]}
                     ELSE server \ {Head(events)[2]}
    BY <1>4 DEF HandleEvent
  <2>2. /\ Len(events) \in Nat \ {0} /\ DOMAIN events = 1..Len(events)
        /\ DOMAIN events' = 1..Len(events) - 1
        /\ \A k \in 1..Len(events) - 1 : events'[k] = events[k + 1]
        /\ Head(events) = events[1] /\ events[1] \in Event
    BY <1>t, <2>1 DEF TypeOK
  <2>3. \/ \E c \in Con : events[1] = <<"Connected", c>> /\ server' = server \cup {c}
        \/ \E c \in Con : events[1] = <<"Disconnected", c>> /\ server' = server \ {c}
    BY <2>1, <2>2 DEF Event
  <2>4. \A k \in DOMAIN events : k /= 1 =>
            k - 1 \in DOMAIN events' /\ events'[k - 1] = events[k]
    BY <2>2
  <2>5. \A k \in DOMAIN events' : k + 1 \in DOMAIN events /\ events'[k] = events[k + 1]
    BY <2>2
  <2>6. EventInv'
    <3> SUFFICES ASSUME NEW d \in Con
                 PROVE  /\ task[d] \in Early =>
                              /\ d \notin server'
                              /\ \A k \in DOMAIN events' : events'[k] /= <<"Connected", d>>
                        /\ task[d] = "done" =>
                              \A k \in DOMAIN events' : events'[k] = <<"Connected", d>> =>
                                \E j \in DOMAIN events' : j > k /\ events'[j] = <<"Disconnected", d>>
      BY <2>1 DEF EventInv
    <3>1. CASE task[d] \in Early
      <4>1. d \notin server /\ \A k \in DOMAIN events : events[k] /= <<"Connected", d>>
        BY <3>1 DEF Inv, EventInv
      <4> QED BY <2>2, <2>3, <2>5, <3>1, <4>1
    <3>2. CASE task[d] = "done"
      <4> SUFFICES ASSUME NEW k \in DOMAIN events', events'[k] = <<"Connected", d>>
                   PROVE  \E j \in DOMAIN events' : j > k /\ events'[j] = <<"Disconnected", d>>
        BY <3>2
      <4>1. PICK j \in DOMAIN events : j > k + 1 /\ events[j] = <<"Disconnected", d>>
        BY <2>5, <3>2 DEF Inv, EventInv
      <4>2. j - 1 \in DOMAIN events' /\ j - 1 > k /\ events'[j - 1] = <<"Disconnected", d>>
        BY <2>2, <2>4, <4>1
      <4> QED BY <4>2
    <3> QED BY <3>1, <3>2
  <2>7. NoGhosts'
    <3> SUFFICES ASSUME NEW d \in server', task[d] = "done"
                 PROVE  \E j \in DOMAIN events' : events'[j] = <<"Disconnected", d>>
      BY <2>1 DEF NoGhosts
    <3>1. PICK j \in DOMAIN events : j /= 1 /\ events[j] = <<"Disconnected", d>>
      <4>1. CASE events[1] = <<"Connected", d>>
        <5>1. d \in Con
          BY <2>3, <4>1
        <5>2. 1 \in DOMAIN events
          BY <2>2
        <5>3. PICK j \in DOMAIN events : j > 1 /\ events[j] = <<"Disconnected", d>>
          BY <4>1, <5>1, <5>2 DEF Inv, EventInv
        <5>4. j /= 1
          BY <2>2, <5>3
        <5> QED BY <5>3, <5>4
      <4>2. CASE events[1] /= <<"Connected", d>>
        <5>1. d \in server
          BY <2>3, <4>2
        <5>2. PICK j \in DOMAIN events : events[j] = <<"Disconnected", d>>
          BY <5>1 DEF Inv, NoGhosts
        <5>3. j /= 1
          BY <2>3, <5>2
        <5> QED BY <5>2, <5>3
      <4> QED BY <4>1, <4>2
    <3> QED BY <2>4, <3>1
  <2> QED BY <2>6, <2>7
<1>5. ASSUME NEW c \in Con,
             \/ AskBans(c) \/ AskLimit(c) \/ Over(c) \/ AskPerIp(c)
      PROVE  EventInv' /\ NoGhosts'
  <2>1. /\ events' = events /\ server' = server /\ task[c] \in Early
        /\ \A d \in Con : task'[d] = task[d] \/ d = c
        /\ task'[c] \in Early
    BY <1>5, <1>t DEF AskBans, AskLimit, Over, AskPerIp, Allow, Refuse, TypeOK
  <2> QED BY <1>1, <2>1
<1>6. ASSUME NEW c \in Con, Release(c) \/ Refused(c) \/ Close(c) \/ Accept(c) \/ Leave(c)
      PROVE  EventInv' /\ NoGhosts'
  <2>1. /\ events' = events /\ server' = server
        /\ \A d \in Con : task'[d] \in Early => task[d] \in Early
        /\ \A d \in Con : task'[d] = "done" => task[d] \in Early \cup {"done"}
    BY <1>6, <1>t DEF Release, Refused, Close, Accept, Leave, TypeOK
  <2> QED BY <1>1, <2>1
<1>7. ASSUME \/ \E c \in Con : PeerCloses(c) \/ Kick(c) \/ KickClient(c)
             \/ \E i \in Ip : BanIp(i) \/ BanExpires(i)
             \/ UNCHANGED vars
      PROVE  EventInv' /\ NoGhosts'
  <2>1. events' = events /\ server' = server /\ task' = task
    BY <1>7 DEF PeerCloses, Kick, KickClient, BanIp, BanExpires, vars
  <2> QED BY <1>1, <2>1
<1> QED BY <1>2, <1>3, <1>4, <1>5, <1>6, <1>7 DEF Next, TaskStep

----------------------------------------------------------------------------
(***************************************************************************)
(* The theorems.                                                           *)
(***************************************************************************)

\* In every reachable state: types, the shape of a task, books, limits, bans and
\* events.
THEOREM LifecycleInvariant == Spec => []Inv
<1>1. Inv /\ [Next]_vars => Inv'
  BY TypeStep, TaskStepInv, BooksStep, BanStep, EventStep DEF Inv
<1> QED BY <1>1, InitInv, PTL DEF Spec

\* What the plugins have counted is what they let in and were not told has left,
\* however the tasks interleave (connection_ban.rs, connection_limit.rs,
\* connection_per_ip.rs).
THEOREM BooksAreExact == Spec => []BookkeepingIsExact
<1>1. Inv => BookkeepingIsExact
  BY DEF Inv
<1> QED BY <1>1, LifecycleInvariant, PTL

\* Neither limit is ever exceeded, although the total is counted up before it is
\* compared (connection_limit.rs:40).
THEOREM LimitsHold == Spec => []WithinLimits
<1>1. Inv => WithinLimits
  BY DEF Inv
<1> QED BY <1>1, LifecycleInvariant, PTL

\* No connection slips past a ban by crossing it (connection_ban.rs:116).
THEOREM NobodySlipsPastABan == Spec => []BannedAreOnTheirWayOut
<1>1. Inv => BannedAreOnTheirWayOut
  BY DEF Inv
<1> QED BY <1>1, LifecycleInvariant, PTL

\* The server keeps no client whose end it will not hear of (connections.rs:138).
THEOREM EveryEndIsHeard == Spec => []NoGhosts
<1>1. Inv => NoGhosts
  BY DEF Inv
<1> QED BY <1>1, LifecycleInvariant, PTL

=============================================================================
