---------------------------- MODULE ServerVotes ----------------------------
(***************************************************************************)
(* Votes on the game server (server.rs: StartVote, Voted, the end of a     *)
(* vote in the main loop, and what joins, leaves and map changes do to a   *)
(* running vote).                                                          *)
(*                                                                         *)
(* Every network (IP address) has one ballot, whoever of its clients cast  *)
(* it.  The tallies yes_votes and no_votes are counters of their own, kept *)
(* beside the ballots, and the vote ends when one of three EQUALITIES with *)
(* allowed_to_vote_count holds: a tally that drifted from the ballots, or  *)
(* that jumped over the bound, would leave the vote to its timeout.        *)
(*                                                                         *)
(* Which players a client has, and how it became ready, is the business of *)
(* ServerClients; here a client has one player, which is the player that   *)
(* starts votes, votes and is voted on.                                    *)
(***************************************************************************)
EXTENDS Integers, FiniteSets, Functions

CONSTANTS
    Con,        \* connection ids
    Ip,         \* network addresses
    ip,         \* the address of every connection
    None        \* no vote, no player

ASSUME ConIsFinite == IsFiniteSet(Con)
ASSUME IpIsFinite == IsFiniteSet(Ip)
ASSUME ipAssumption == ip \in [Con -> Ip]
ASSUME NoneIsNoCon == None \notin Con

VARIABLES
    clients,         \* the connections that are ready
    protected,       \* those of them that are admin or moderator
    cur_vote,        \* a ServerVote, or None
    expired,         \* more than 25 seconds since the vote started
    passed           \* the vote that passed last, None from the next vote on

vars == <<clients, protected, cur_vote, expired, passed>>

Voted == {"Yes", "No"}

\* The kinds of votes that matter here: one against a player that bans, one
\* against a player that does not, one that loads a map, any other.
VoteType == {"Kick", "Spec", "Map", "Other"}

Ballots == UNION {[S -> Voted] : S \in SUBSET Ip}

ServerVote ==
    [type : VoteType, player : Con \cup {None}, yes_votes : Nat, no_votes : Nat,
     allowed_to_vote_count : Nat, participating_ip : Ballots]

IpsOf(C) == {ip[c] : c \in C}

allowed_to_vote_count(C) == Cardinality(IpsOf(C))

Cast(ballots, v) == {i \in DOMAIN ballots : ballots[i] = v}

NoVote == cur_vote = None

----------------------------------------------------------------------------

Init ==
    /\ clients = {}
    /\ protected = {}
    /\ cur_vote = None
    /\ expired = FALSE
    /\ passed = None

\* Mutant: the bound is not updated.
ClientReady_SameBound(c) ==
    /\ c \notin clients
    /\ clients' = clients \cup {c}
    /\ UNCHANGED <<protected, cur_vote, expired, passed>>

\* A client becomes ready, perhaps with rcon rights: it may vote from now on.
ClientReady(c) ==
    /\ c \notin clients
    /\ clients' = clients \cup {c}
    /\ \/ protected' = protected \cup {c}
       \/ UNCHANGED protected
    /\ cur_vote' = IF NoVote THEN None
                   ELSE [cur_vote EXCEPT
                           !.allowed_to_vote_count = allowed_to_vote_count(clients')]
    /\ UNCHANGED <<expired, passed>>

\* Mutant: the ballot of a network that left stays.
ClientDisconnected_BallotStays(c) ==
    /\ c \in clients
    /\ clients' = clients \ {c}
    /\ protected' = protected \ {c}
    /\ cur_vote' = IF NoVote THEN None
                   ELSE [cur_vote EXCEPT
                           !.allowed_to_vote_count = allowed_to_vote_count(clients')]
    /\ UNCHANGED <<expired, passed>>

\* client_disconnect takes the ballot of the client's network with it.
ClientDisconnected(c) ==
    /\ c \in clients
    /\ clients' = clients \ {c}
    /\ protected' = protected \ {c}
    /\ cur_vote' =
         IF NoVote THEN None
         ELSE LET b == cur_vote.participating_ip
                  gone(v) == IF ip[c] \in Cast(b, v) THEN 1 ELSE 0
              IN  [cur_vote EXCEPT
                     !.participating_ip = Restrict(b, DOMAIN b \ {ip[c]}),
                     !.yes_votes = @ - gone("Yes"),
                     !.no_votes = @ - gone("No"),
                     !.allowed_to_vote_count = allowed_to_vote_count(clients')]
    /\ UNCHANGED <<expired, passed>>

\* StartVote, when it is accepted.  A vote against a player starts with a "No"
\* of that player's network.  Whether the players are in a stage, and in the
\* same one, is up to the game: the step may be taken or not.
StartVote(c, type, player) ==
    /\ NoVote
    /\ c \in clients
    /\ \/ type \in {"Map", "Other"} /\ player = None
       \/ /\ type \in {"Kick", "Spec"}
          /\ player \in clients \ protected
          /\ player /= c
          /\ allowed_to_vote_count(clients) > 2
          /\ ip[player] /= ip[c]
    /\ LET no == IF player = None THEN {} ELSE {ip[player]}
       IN  cur_vote' = [type |-> type, player |-> player,
                        yes_votes |-> 1,
                        no_votes |-> Cardinality(no),
                        allowed_to_vote_count |-> allowed_to_vote_count(clients),
                        participating_ip |->
                          [i \in {ip[c]} \cup no |-> IF i = ip[c] THEN "Yes" ELSE "No"]]
    /\ expired' = FALSE
    /\ passed' = None
    /\ UNCHANGED <<clients, protected>>

\* Mutant: a changed vote counts twice.
CastVote_CountsTwice(c, voted) ==
    /\ ~NoVote
    /\ c \in clients
    /\ cur_vote' = [cur_vote EXCEPT
                      !.participating_ip =
                          [i \in DOMAIN @ \cup {ip[c]} |-> IF i = ip[c] THEN voted ELSE @[i]],
                      !.yes_votes = @ + (IF voted = "Yes" THEN 1 ELSE 0),
                      !.no_votes = @ + (IF voted = "No" THEN 1 ELSE 0)]
    /\ UNCHANGED <<clients, protected, expired, passed>>

\* ClientToServerPlayerMessage::Voted
CastVote(c, voted) ==
    /\ ~NoVote
    /\ c \in clients
    /\ LET b == cur_vote.participating_ip
           one(v) == (IF voted = v THEN 1 ELSE 0) - (IF ip[c] \in Cast(b, v) THEN 1 ELSE 0)
       IN  cur_vote' = [cur_vote EXCEPT
                          !.participating_ip =
                              [i \in DOMAIN b \cup {ip[c]} |-> IF i = ip[c] THEN voted ELSE b[i]],
                          !.yes_votes = @ + one("Yes"),
                          !.no_votes = @ + one("No")]
    /\ UNCHANGED <<clients, protected, expired, passed>>

\* Mutant: a vote has no timeout.
VoteIsOver_NoTimeout(vote) ==
    vote.yes_votes + vote.no_votes = vote.allowed_to_vote_count

VoteIsOver(vote) ==
    \/ vote.yes_votes = vote.allowed_to_vote_count
    \/ vote.no_votes = vote.allowed_to_vote_count
    \/ vote.yes_votes + vote.no_votes = vote.allowed_to_vote_count
    \/ expired

\* Mutant: a tie passes.
VotePasses_Tie(vote) == vote.yes_votes >= vote.no_votes

VotePasses(vote) == vote.yes_votes > vote.no_votes

\* load_impl: a new game without a vote, every client back to loading.
NewGame ==
    /\ clients' = {}
    /\ protected' = {}
    /\ cur_vote' = None
    /\ expired' = FALSE

\* The main loop takes the vote that is over and does what was voted.  Loading
\* a map replaces the game, unless the map cannot be loaded; other votes may
\* ask for a map, too (VoteCommandResultEvent::LoadMap).
EndVote ==
    /\ ~NoVote
    /\ VoteIsOver(cur_vote)
    /\ passed' = IF VotePasses(cur_vote) THEN cur_vote ELSE None
    /\ \/ VotePasses(cur_vote) /\ cur_vote.type \in {"Map", "Other"} /\ NewGame
       \/ /\ cur_vote' = None
          /\ expired' = FALSE
          /\ UNCHANGED <<clients, protected>>

\* A mod that changed on disk reloads the game while a vote runs.
Reload == NewGame /\ UNCHANGED passed

\* 25 seconds pass.
TimePasses ==
    /\ ~NoVote
    /\ ~expired
    /\ expired' = TRUE
    /\ UNCHANGED <<clients, protected, cur_vote, passed>>

Next ==
    \/ \E c \in Con : ClientReady(c) \/ ClientDisconnected(c)
    \/ \E c \in Con, type \in VoteType, player \in Con \cup {None} :
          StartVote(c, type, player)
    \/ \E c \in Con, voted \in Voted : CastVote(c, voted)
    \/ EndVote
    \/ Reload
    \/ TimePasses

Spec == Init /\ [][Next]_vars

\* The main loop runs forever and time passes; clients owe nothing.
FairSpec == Spec /\ WF_vars(TimePasses) /\ WF_vars(EndVote)

----------------------------------------------------------------------------
(***************************************************************************)
(* Properties                                                              *)
(***************************************************************************)

TypeOK ==
    /\ clients \in SUBSET Con
    /\ protected \in SUBSET Con
    /\ cur_vote \in ServerVote \cup {None}
    /\ expired \in BOOLEAN
    /\ passed \in ServerVote \cup {None}

\* The tallies are the ballots counted, after any mixture of first votes,
\* changed votes, leaving voters and the votes a vote starts with: the two
\* subtractions, on u64, cannot wrap.
TallyMatchesBallots ==
    ~NoVote =>
        /\ cur_vote.yes_votes = Cardinality(Cast(cur_vote.participating_ip, "Yes"))
        /\ cur_vote.no_votes = Cardinality(Cast(cur_vote.participating_ip, "No"))

\* Only networks with a ready client have a ballot, and the bound is the number
\* of those networks at this moment, whoever came or left since the start.
OnlyPresentNetworksVote ==
    ~NoVote =>
        /\ DOMAIN cur_vote.participating_ip \subseteq IpsOf(clients)
        /\ cur_vote.allowed_to_vote_count = Cardinality(IpsOf(clients))

\* The tallies never jump over the bound the end of a vote compares them with,
\* so the equalities of the main loop miss no vote that everybody cast.
TalliesWithinBound ==
    ~NoVote => cur_vote.yes_votes + cur_vote.no_votes <= cur_vote.allowed_to_vote_count

\* What was voted, a ban above all, happens only with more ballots for it than
\* against it: a tie, and a vote that timed out undecided, does nothing.
PassedByMajority ==
    passed /= None => Cardinality(Cast(passed.participating_ip, "Yes"))
                        > Cardinality(Cast(passed.participating_ip, "No"))

\* Every vote ends, also when nobody votes and everybody leaves.
EveryVoteEnds == (~NoVote) ~> NoVote

=============================================================================
