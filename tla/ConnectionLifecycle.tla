------------------------ MODULE ConnectionLifecycle ------------------------
(***************************************************************************)
(* The life of the connections of a server (src/lib/network), with the     *)
(* connection plugins the game server installs: bans by address, a limit   *)
(* on all connections and a limit per address.                             *)
(*                                                                         *)
(* Every connection has a task of its own.  It asks the plugins one after  *)
(* the other, announces the connection to the server, receives until the   *)
(* connection is closed, and takes everything back in reverse order.  The  *)
(* plugins' bookkeeping is shared by all tasks, each plugin behind its own *)
(* mutex (or, for the total, one atomic counter), so tasks interleave      *)
(* between any two plugins.  Kicks are tasks of their own, started by the  *)
(* server some time before they run.                                       *)
(*                                                                         *)
(* A connection id is never used twice (id_gen), so a connection that ended *)
(* stays ended.                                                            *)
(***************************************************************************)
EXTENDS Integers, Sequences, FiniteSets

CONSTANTS
    Con,               \* connection ids
    Ip,                \* network addresses
    ip,                \* the address of every connection
    MaxConnections,    \* sv.max_connections
    MaxPerIp           \* sv.max_connections_per_ip

ASSUME ConFinite == IsFiniteSet(Con)
ASSUME ipType == ip \in [Con -> Ip]
ASSUME LimitsPositive == MaxConnections \in Nat \ {0} /\ MaxPerIp \in Nat \ {0}

VARIABLES
    task,            \* where the task of a connection is
    passed,          \* the plugins that allowed it and were not told it left
    connections,     \* NetworkConnections: the ids that can be sent to or kicked
    closed,          \* the connections that are closed, by either side
    banned,          \* addresses with a ban that has not expired
    active,          \* BanState::active_connections
    count,           \* MaxConnections::count
    per_ip,          \* LimitState::active_connections
    kicks,           \* kick tasks that have not run
    events,          \* what the server has not handled yet
    server           \* the connections the server knows of

vars == <<task, passed, connections, closed, banned, active, count, per_ip, kicks,
          events, server>>

plugin_state == <<active, count, per_ip>>

\* The plugins in their order.
Bans == 1
Limit == 2
PerIp == 3

\* "over" is a task between MaxConnections' fetch_add and its fetch_sub.
Task == {"new", "connecting", "over", "refused", "open", "leaving", "left", "done"}

Event == {"Connected", "Disconnected"} \X Con

Of(i) == {c \in Con : ip[c] = i}

Has(plugin) == {c \in Con : passed[c] >= plugin}

----------------------------------------------------------------------------

Init ==
    /\ task = [c \in Con |-> "new"]
    /\ passed = [c \in Con |-> 0]
    /\ connections = {}
    /\ closed = {}
    /\ banned = {}
    /\ active = {}
    /\ count = 0
    /\ per_ip = [i \in Ip |-> 0]
    /\ kicks = {}
    /\ events = <<>>
    /\ server = {}

\* The handshake succeeded: the connection is entered before any plugin is asked.
Accept(c) ==
    /\ task[c] = "new"
    /\ task' = [task EXCEPT ![c] = "connecting"]
    /\ connections' = connections \cup {c}
    /\ UNCHANGED <<passed, closed, banned, active, count, per_ip, kicks, events, server>>

Allow(c) == passed' = [passed EXCEPT ![c] = @ + 1] /\ UNCHANGED task

\* Mutant: the plugin that refused is told, too, that the connection left.
Refuse_Told(c) ==
    /\ task' = [task EXCEPT ![c] = "refused"]
    /\ passed' = [passed EXCEPT ![c] = @ + 1]

Refuse(c) == task' = [task EXCEPT ![c] = "refused"] /\ UNCHANGED passed

\* ConnectionBans::on_connect looks for a ban and enters the connection under
\* one lock.
AskBans(c) ==
    /\ task[c] = "connecting" /\ passed[c] = Bans - 1
    /\ \/ ip[c] \in banned /\ Refuse(c) /\ UNCHANGED active
       \/ ip[c] \notin banned /\ Allow(c) /\ active' = active \cup {c}
    /\ UNCHANGED <<connections, closed, banned, count, per_ip, kicks, events, server>>

\* Mutant: one connection too many.
AskLimit_AtTheLimit(c) ==
    /\ task[c] = "connecting" /\ passed[c] = Limit - 1
    /\ count' = count + 1
    /\ \/ /\ count > MaxConnections
          /\ task' = [task EXCEPT ![c] = "over"]
          /\ UNCHANGED passed
       \/ count <= MaxConnections /\ Allow(c)
    /\ UNCHANGED <<connections, closed, banned, active, per_ip, kicks, events, server>>

\* MaxConnections::on_connect adds one and looks at what was there before ...
AskLimit(c) ==
    /\ task[c] = "connecting" /\ passed[c] = Limit - 1
    /\ count' = count + 1
    /\ \/ /\ count >= MaxConnections
          /\ task' = [task EXCEPT ![c] = "over"]
          /\ UNCHANGED passed
       \/ count < MaxConnections /\ Allow(c)
    /\ UNCHANGED <<connections, closed, banned, active, per_ip, kicks, events, server>>

\* ... and takes it off again when that was too much.
Over(c) ==
    /\ task[c] = "over"
    /\ count' = count - 1
    /\ Refuse(c)
    /\ UNCHANGED <<connections, closed, banned, active, per_ip, kicks, events, server>>

AskPerIp(c) ==
    /\ task[c] = "connecting" /\ passed[c] = PerIp - 1
    /\ \/ per_ip[ip[c]] >= MaxPerIp /\ Refuse(c) /\ UNCHANGED per_ip
       \/ /\ per_ip[ip[c]] < MaxPerIp
          /\ Allow(c)
          /\ per_ip' = [per_ip EXCEPT ![ip[c]] = @ + 1]
    /\ UNCHANGED <<connections, closed, banned, active, count, kicks, events, server>>

\* Every plugin allowed it: the server gets a Connected event.
Announce(c) ==
    /\ task[c] = "connecting" /\ passed[c] = PerIp
    /\ task' = [task EXCEPT ![c] = "open"]
    /\ events' = Append(events, <<"Connected", c>>)
    /\ UNCHANGED <<passed, connections, closed, banned, active, count, per_ip, kicks, server>>

\* on_disconnect of the last plugin that still holds the connection, on the way
\* out and after a refusal.
Release(c) ==
    /\ task[c] \in {"refused", "left"} /\ passed[c] > 0
    /\ passed' = [passed EXCEPT ![c] = @ - 1]
    /\ \/ /\ passed[c] = Bans
          /\ active' = active \ {c}
          /\ UNCHANGED <<count, per_ip>>
       \/ /\ passed[c] = Limit
          /\ count' = count - 1
          /\ UNCHANGED <<active, per_ip>>
       \/ /\ passed[c] = PerIp
          /\ per_ip' = [per_ip EXCEPT ![ip[c]] = IF @ > 0 THEN @ - 1 ELSE 0]
          /\ UNCHANGED <<active, count>>
    /\ UNCHANGED <<task, connections, closed, banned, kicks, events, server>>

\* A refused connection is closed and its task ends.  Its entry in connections
\* stays; the ConnectingFailed event means nothing to a server.
Refused(c) ==
    /\ task[c] = "refused" /\ passed[c] = 0
    /\ task' = [task EXCEPT ![c] = "done"]
    /\ closed' = closed \cup {c}
    /\ UNCHANGED <<passed, connections, banned, plugin_state, kicks, events, server>>

\* The receive loops end because the connection is closed, or for an error of
\* their own: disconnect_connection begins.
Leave(c) ==
    /\ task[c] = "open"
    /\ task' = [task EXCEPT ![c] = "leaving"]
    /\ connections' = connections \ {c}
    /\ UNCHANGED <<passed, closed, banned, plugin_state, kicks, events, server>>

Close(c) ==
    /\ task[c] = "leaving"
    /\ task' = [task EXCEPT ![c] = "left"]
    /\ closed' = closed \cup {c}
    /\ UNCHANGED <<passed, connections, banned, plugin_state, kicks, events, server>>

\* Mutant: a connection that was kicked ends without an event.
Gone_Silent(c) ==
    /\ task[c] = "left" /\ passed[c] = 0
    /\ task' = [task EXCEPT ![c] = "done"]
    /\ UNCHANGED <<passed, connections, closed, banned, plugin_state, kicks, events, server>>

Gone(c) ==
    /\ task[c] = "left" /\ passed[c] = 0
    /\ task' = [task EXCEPT ![c] = "done"]
    /\ events' = Append(events, <<"Disconnected", c>>)
    /\ UNCHANGED <<passed, connections, closed, banned, plugin_state, kicks, server>>

\* The peer closes the connection, or it is lost.
PeerCloses(c) ==
    /\ task[c] /= "new" /\ c \notin closed
    /\ closed' = closed \cup {c}
    /\ UNCHANGED <<task, passed, connections, banned, plugin_state, kicks, events, server>>

\* A kick task: nothing happens when the entry is gone.
Kick(c) ==
    /\ c \in kicks
    /\ kicks' = kicks \ {c}
    /\ connections' = connections \ {c}
    /\ closed' = IF c \in connections THEN closed \cup {c} ELSE closed
    /\ UNCHANGED <<task, passed, banned, plugin_state, events, server>>

----------------------------------------------------------------------------
(***************************************************************************)
(* The server, as far as connections go.                                   *)
(***************************************************************************)

HandleEvent ==
    /\ events /= <<>>
    /\ events' = Tail(events)
    /\ LET c == Head(events)[2]
       IN  server' = IF Head(events)[1] = "Connected" THEN server \cup {c} ELSE server \ {c}
    /\ UNCHANGED <<task, passed, connections, closed, banned, plugin_state, kicks>>

\* Mutant: only the connections the server knows of are kicked.
BanIp_KnownOnly(i) ==
    /\ i \notin banned
    /\ banned' = banned \cup {i}
    /\ kicks' = kicks \cup (server \cap Of(i))
    /\ UNCHANGED <<task, passed, connections, closed, plugin_state, events, server>>

\* An administrator or a vote bans an address: ConnectionBans::ban_ip returns
\* its connections and enters the ban under one lock, then all are kicked.
BanIp(i) ==
    /\ i \notin banned
    /\ banned' = banned \cup {i}
    /\ kicks' = kicks \cup (active \cap Of(i))
    /\ UNCHANGED <<task, passed, connections, closed, plugin_state, events, server>>

BanExpires(i) ==
    /\ i \in banned
    /\ banned' = banned \ {i}
    /\ UNCHANGED <<task, passed, connections, closed, plugin_state, kicks, events, server>>

\* A wrong password, the rcon kick, a kick by the game.
KickClient(c) ==
    /\ c \in server \ kicks
    /\ kicks' = kicks \cup {c}
    /\ UNCHANGED <<task, passed, connections, closed, banned, plugin_state, events, server>>

\* What a connection's task does next.
TaskStep(c) ==
    \/ AskBans(c) \/ AskLimit(c) \/ Over(c) \/ AskPerIp(c) \/ Announce(c)
    \/ Release(c) \/ Refused(c) \/ Close(c) \/ Gone(c)

Next ==
    \/ \E c \in Con : \/ Accept(c) \/ TaskStep(c) \/ Leave(c)
                     \/ PeerCloses(c) \/ Kick(c) \/ KickClient(c)
    \/ HandleEvent
    \/ \E i \in Ip : BanIp(i) \/ BanExpires(i)

Spec == Init /\ [][Next]_vars

----------------------------------------------------------------------------
(***************************************************************************)
(* Properties                                                              *)
(***************************************************************************)

TypeOK ==
    /\ task \in [Con -> Task]
    /\ passed \in [Con -> 0..PerIp]
    /\ connections \in SUBSET Con
    /\ closed \in SUBSET Con
    /\ banned \in SUBSET Ip
    /\ active \in SUBSET Con
    /\ count \in Nat
    /\ per_ip \in [Ip -> Nat]
    /\ kicks \in SUBSET Con
    /\ events \in Seq(Event)
    /\ server \in SUBSET Con

\* Each plugin's bookkeeping is the connections it let in and was not told have
\* left, over refusals by later plugins, kicks in the middle of connecting and
\* all interleavings: no count is lost or taken back twice.
BookkeepingIsExact ==
    /\ active = Has(Bans)
    /\ count = Cardinality(Has(Limit)) + Cardinality({c \in Con : task[c] = "over"})
    /\ \A i \in Ip : per_ip[i] = Cardinality(Has(PerIp) \cap Of(i))

\* max_connections and max_connections_per_ip hold at every moment, although the
\* total is counted up before it is compared.
WithinLimits ==
    /\ Cardinality(Has(Limit)) <= MaxConnections
    /\ \A i \in Ip : Cardinality(Has(PerIp) \cap Of(i)) <= MaxPerIp

\* A connection of a banned address that got past the ban check is closed or
\* about to be: a ban and a connection attempt that cross each other do not
\* leave the connection in.
BannedAreOnTheirWayOut ==
    \A c \in Has(Bans) : ip[c] \in banned =>
        c \in kicks \cup closed \/ task[c] = "leaving"

\* The server learns of every connection once, before it learns that it left:
\* it never keeps a client whose task ended and whose end is not announced.
NoGhosts ==
    \A c \in server : task[c] = "done" => \E k \in DOMAIN events : events[k] = <<"Disconnected", c>>

=============================================================================
