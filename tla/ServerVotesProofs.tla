------------------------- MODULE ServerVotesProofs -------------------------
(***************************************************************************)
(* The tallies of a vote agree with its ballots, for every number of       *)
(* connections and networks.                                               *)
(*                                                                         *)
(* The inductive invariant VoteInv is TypeOK (the tallies are natural      *)
(* numbers, which needs the next part: what is subtracted was counted),    *)
(* TallyMatchesBallots and OnlyPresentNetworksVote.  That the tallies stay *)
(* within the bound, and that a vote passes by a majority of its ballots,  *)
(* follows.                                                                *)
(***************************************************************************)
EXTENDS ServerVotes, FiniteSetTheorems, TLAPS

USE ConIsFinite, IpIsFinite, ipAssumption, NoneIsNoCon

VoteInv == TypeOK /\ TallyMatchesBallots /\ OnlyPresentNetworksVote

----------------------------------------------------------------------------
(***************************************************************************)
(* Ballots and their counts.                                               *)
(***************************************************************************)

\* The ballots for either side are finitely many.
LEMMA CastFinite ==
    ASSUME NEW b \in Ballots, NEW v
    PROVE  /\ DOMAIN b \in SUBSET Ip
           /\ IsFiniteSet(DOMAIN b)
           /\ IsFiniteSet(Cast(b, v))
           /\ Cardinality(Cast(b, v)) \in Nat
<1>1. DOMAIN b \in SUBSET Ip
  BY DEF Ballots
<1>2. Cast(b, v) \in SUBSET Ip
  BY <1>1 DEF Cast
<1>3. IsFiniteSet(DOMAIN b) /\ IsFiniteSet(Cast(b, v))
  BY <1>1, <1>2, FS_Subset
<1> QED
  BY <1>1, <1>3, FS_CardinalityType

\* Every ballot is a yes or a no.
LEMMA EveryBallotCounts ==
    ASSUME NEW b \in Ballots
    PROVE  Cardinality(DOMAIN b)
             = Cardinality(Cast(b, "Yes")) + Cardinality(Cast(b, "No"))
<1> DEFINE Y == Cast(b, "Yes")
           N == Cast(b, "No")
<1>1. DOMAIN b = Y \cup N /\ Y \cap N = {}
  BY DEF Ballots, Voted, Cast
<1>2. IsFiniteSet(Y) /\ IsFiniteSet(N)
  BY CastFinite
<1>3. Cardinality(Y \cup N) = Cardinality(Y) + Cardinality(N) - Cardinality(Y \cap N)
  BY <1>2, FS_Union
<1>4. Cardinality(Y \cap N) = 0
  BY <1>1, FS_EmptySet
<1>5. Cardinality(Y) \in Nat /\ Cardinality(N) \in Nat
  BY <1>2, FS_CardinalityType
<1> HIDE DEF Y, N
<1>6. Cardinality(DOMAIN b) = Cardinality(Y) + Cardinality(N)
  BY <1>1, <1>3, <1>4, <1>5
<1> QED
  BY <1>6 DEF Y, N

\* Taking the ballot of a network away takes one off the tally it was in.
LEMMA BallotTaken ==
    ASSUME NEW b \in Ballots, NEW i \in Ip, NEW v
    PROVE  LET r == Restrict(b, DOMAIN b \ {i})
           IN  /\ r \in Ballots
               /\ DOMAIN r = DOMAIN b \ {i}
               /\ Cardinality(Cast(r, v)) =
                    Cardinality(Cast(b, v)) - (IF i \in Cast(b, v) THEN 1 ELSE 0)
<1> DEFINE r == Restrict(b, DOMAIN b \ {i})
<1>1. r \in Ballots /\ DOMAIN r = DOMAIN b \ {i}
  <2>1. DOMAIN b \ {i} \in SUBSET Ip /\ b \in [DOMAIN b -> Voted]
    BY DEF Ballots
  <2>2. r \in [DOMAIN b \ {i} -> Voted]
    BY <2>1 DEF Restrict
  <2> QED
    BY <2>1, <2>2 DEF Ballots
<1>2. Cast(r, v) = Cast(b, v) \ {i}
  BY DEF Restrict, Cast
<1>3. IsFiniteSet(Cast(b, v)) /\ Cardinality(Cast(b, v)) \in Nat
  BY CastFinite
<1>4. Cardinality(Cast(b, v) \ {i}) =
        IF i \in Cast(b, v) THEN Cardinality(Cast(b, v)) - 1 ELSE Cardinality(Cast(b, v))
  BY <1>3, FS_RemoveElement
<1>5. Cardinality(Cast(r, v)) =
        Cardinality(Cast(b, v)) - (IF i \in Cast(b, v) THEN 1 ELSE 0)
  BY <1>2, <1>3, <1>4
<1> QED
  BY <1>1, <1>5

\* A ballot cast adds one to its tally and takes one off the tally the
\* network's previous ballot was in.
LEMMA BallotCast ==
    ASSUME NEW b \in Ballots, NEW i \in Ip, NEW voted \in Voted, NEW v
    PROVE  LET r == [j \in DOMAIN b \cup {i} |-> IF j = i THEN voted ELSE b[j]]
           IN  /\ r \in Ballots
               /\ DOMAIN r = DOMAIN b \cup {i}
               /\ Cardinality(Cast(r, v)) =
                    Cardinality(Cast(b, v)) + ((IF voted = v THEN 1 ELSE 0)
                                               - (IF i \in Cast(b, v) THEN 1 ELSE 0))
<1> DEFINE r == [j \in DOMAIN b \cup {i} |-> IF j = i THEN voted ELSE b[j]]
           n == Cardinality(Cast(b, v))
<1>1. DOMAIN b \in SUBSET Ip /\ IsFiniteSet(Cast(b, v)) /\ n \in Nat
  BY CastFinite
<1>2. r \in Ballots /\ DOMAIN r = DOMAIN b \cup {i}
  <2>1. \A j \in DOMAIN b : b[j] \in Voted
    BY DEF Ballots
  <2>2. r \in [DOMAIN b \cup {i} -> Voted]
    BY <2>1
  <2> QED
    BY <1>1, <2>2 DEF Ballots
<1>3. Cast(r, v) = IF voted = v THEN Cast(b, v) \cup {i} ELSE Cast(b, v) \ {i}
  BY DEF Cast
<1> HIDE DEF r
<1>4. Cardinality(Cast(r, v)) =
        n + ((IF voted = v THEN 1 ELSE 0) - (IF i \in Cast(b, v) THEN 1 ELSE 0))
  <2>1. CASE voted = v
    <3>1. Cardinality(Cast(r, v)) = IF i \in Cast(b, v) THEN n ELSE n + 1
      BY <1>1, <1>3, <2>1, FS_AddElement
    <3> HIDE DEF n
    <3> QED
      BY <1>1, <2>1, <3>1
  <2>2. CASE voted /= v
    <3>1. Cardinality(Cast(r, v)) = IF i \in Cast(b, v) THEN n - 1 ELSE n
      BY <1>1, <1>3, <2>2, FS_RemoveElement
    <3> HIDE DEF n
    <3> QED
      BY <1>1, <2>2, <3>1
  <2> QED
    BY <2>1, <2>2
<1> QED
  BY <1>2, <1>4 DEF r

\* The networks of the clients are finitely many.
LEMMA IpsFinite ==
    ASSUME NEW C \in SUBSET Con
    PROVE  /\ IpsOf(C) \in SUBSET Ip
           /\ IsFiniteSet(IpsOf(C))
           /\ allowed_to_vote_count(C) \in Nat
           /\ allowed_to_vote_count(C) = Cardinality(IpsOf(C))
<1>1. IpsOf(C) \in SUBSET Ip
  BY DEF IpsOf
<1>2. IsFiniteSet(IpsOf(C))
  BY <1>1, FS_Subset
<1> QED
  BY <1>1, <1>2, FS_CardinalityType DEF allowed_to_vote_count

----------------------------------------------------------------------------
(***************************************************************************)
(* The inductive invariant.                                                *)
(***************************************************************************)

\* What the inductive invariant says of a vote when C are the ready clients.
VoteIsRight(vote, C) ==
    /\ vote \in ServerVote
    /\ vote.yes_votes = Cardinality(Cast(vote.participating_ip, "Yes"))
    /\ vote.no_votes = Cardinality(Cast(vote.participating_ip, "No"))
    /\ DOMAIN vote.participating_ip \subseteq IpsOf(C)
    /\ vote.allowed_to_vote_count = Cardinality(IpsOf(C))

\* VoteInv, as the proofs below use it.
LEMMA VoteInvParts ==
    VoteInv <=> /\ clients \in SUBSET Con
                /\ protected \in SUBSET Con
                /\ expired \in BOOLEAN
                /\ passed \in ServerVote \cup {None}
                /\ NoVote \/ VoteIsRight(cur_vote, clients)
BY DEF VoteInv, TypeOK, TallyMatchesBallots, OnlyPresentNetworksVote, VoteIsRight, NoVote

\* A client that becomes ready only changes the bound.
LEMMA ReadyKeepsVoteRight ==
    ASSUME NEW C \in SUBSET Con, NEW c \in Con, NEW vote, VoteIsRight(vote, C)
    PROVE  VoteIsRight([vote EXCEPT !.allowed_to_vote_count =
                            allowed_to_vote_count(C \cup {c})], C \cup {c})
<1>1. /\ allowed_to_vote_count(C \cup {c}) \in Nat
      /\ allowed_to_vote_count(C \cup {c}) = Cardinality(IpsOf(C \cup {c}))
  BY IpsFinite
<1>2. IpsOf(C) \subseteq IpsOf(C \cup {c})
  BY DEF IpsOf
<1> QED
  BY <1>1, <1>2 DEF VoteIsRight, ServerVote

\* A client that leaves takes its network's ballot off ballots and tally.
LEMMA LeavingKeepsVoteRight ==
    ASSUME NEW C \in SUBSET Con, NEW c \in C, NEW vote, VoteIsRight(vote, C)
    PROVE  LET b == vote.participating_ip
               gone(v) == IF ip[c] \in Cast(b, v) THEN 1 ELSE 0
           IN  VoteIsRight([vote EXCEPT
                     !.participating_ip = Restrict(b, DOMAIN b \ {ip[c]}),
                     !.yes_votes = @ - gone("Yes"),
                     !.no_votes = @ - gone("No"),
                     !.allowed_to_vote_count = allowed_to_vote_count(C \ {c})], C \ {c})
<1> DEFINE b == vote.participating_ip
           r == Restrict(b, DOMAIN b \ {ip[c]})
           gone(v) == IF ip[c] \in Cast(b, v) THEN 1 ELSE 0
<1>1. /\ allowed_to_vote_count(C \ {c}) \in Nat
      /\ allowed_to_vote_count(C \ {c}) = Cardinality(IpsOf(C \ {c}))
  BY IpsFinite
<1>2. b \in Ballots /\ ip[c] \in Ip
  BY DEF VoteIsRight, ServerVote
<1>3. /\ r \in Ballots
      /\ DOMAIN r = DOMAIN b \ {ip[c]}
      /\ Cardinality(Cast(r, "Yes")) = vote.yes_votes - gone("Yes")
      /\ Cardinality(Cast(r, "No")) = vote.no_votes - gone("No")
  BY <1>2, BallotTaken DEF VoteIsRight
<1>4. vote.yes_votes - gone("Yes") \in Nat /\ vote.no_votes - gone("No") \in Nat
  BY <1>3, CastFinite
<1>5. DOMAIN r \subseteq IpsOf(C \ {c})
  BY <1>3 DEF VoteIsRight, IpsOf
<1> HIDE DEF b, r, gone
<1>6. VoteIsRight([vote EXCEPT
            !.participating_ip = r,
            !.yes_votes = @ - gone("Yes"),
            !.no_votes = @ - gone("No"),
            !.allowed_to_vote_count = allowed_to_vote_count(C \ {c})], C \ {c})
  BY <1>1, <1>3, <1>4, <1>5 DEF VoteIsRight, ServerVote
<1> QED
  BY <1>6 DEF b, r, gone

\* A ballot cast, the first or a changed one, moves one unit of the tallies.
LEMMA CastingKeepsVoteRight ==
    ASSUME NEW C \in SUBSET Con, NEW c \in C, NEW voted \in Voted,
           NEW vote, VoteIsRight(vote, C)
    PROVE  LET b == vote.participating_ip
               one(v) == (IF voted = v THEN 1 ELSE 0)
                           - (IF ip[c] \in Cast(b, v) THEN 1 ELSE 0)
           IN  VoteIsRight([vote EXCEPT
                     !.participating_ip =
                        [i \in DOMAIN b \cup {ip[c]} |-> IF i = ip[c] THEN voted ELSE b[i]],
                     !.yes_votes = @ + one("Yes"),
                     !.no_votes = @ + one("No")], C)
<1> DEFINE b == vote.participating_ip
           r == [i \in DOMAIN b \cup {ip[c]} |-> IF i = ip[c] THEN voted ELSE b[i]]
           one(v) == (IF voted = v THEN 1 ELSE 0) - (IF ip[c] \in Cast(b, v) THEN 1 ELSE 0)
<1>1. b \in Ballots /\ ip[c] \in Ip
  BY DEF VoteIsRight, ServerVote
<1>2. /\ r \in Ballots
      /\ DOMAIN r = DOMAIN b \cup {ip[c]}
      /\ Cardinality(Cast(r, "Yes")) = vote.yes_votes + one("Yes")
      /\ Cardinality(Cast(r, "No")) = vote.no_votes + one("No")
  <2>1. /\ r \in Ballots
        /\ DOMAIN r = DOMAIN b \cup {ip[c]}
        /\ Cardinality(Cast(r, "Yes")) = Cardinality(Cast(b, "Yes")) + one("Yes")
    BY <1>1, BallotCast
  <2>2. Cardinality(Cast(r, "No")) = Cardinality(Cast(b, "No")) + one("No")
    BY <1>1, BallotCast
  <2> HIDE DEF r, one
  <2> QED
    BY <2>1, <2>2 DEF VoteIsRight
<1>3. vote.yes_votes + one("Yes") \in Nat /\ vote.no_votes + one("No") \in Nat
  BY <1>2, CastFinite
<1>4. DOMAIN r \subseteq IpsOf(C)
  BY <1>2 DEF VoteIsRight, IpsOf
<1> HIDE DEF b, r, one
<1>5. VoteIsRight([vote EXCEPT !.participating_ip = r,
                              !.yes_votes = @ + one("Yes"),
                              !.no_votes = @ + one("No")], C)
  BY <1>2, <1>3, <1>4 DEF VoteIsRight, ServerVote
<1> QED
  BY <1>5 DEF b, r, one

\* A vote starts with a yes, and with a no of the player it is about.
LEMMA NewVoteIsRight ==
    ASSUME TypeOK, NEW c \in Con, NEW type \in VoteType, NEW player \in Con \cup {None},
           StartVote(c, type, player)
    PROVE  VoteIsRight(cur_vote', clients) /\ cur_vote' \in ServerVote
<1> DEFINE no == IF player = None THEN {} ELSE {ip[player]}
           b == [i \in {ip[c]} \cup no |-> IF i = ip[c] THEN "Yes" ELSE "No"]
<1>1. /\ c \in clients
      /\ player = None \/ (player \in clients /\ ip[player] /= ip[c])
      /\ cur_vote' = [type |-> type, player |-> player, yes_votes |-> 1,
                      no_votes |-> Cardinality(no),
                      allowed_to_vote_count |-> allowed_to_vote_count(clients),
                      participating_ip |-> b]
  BY DEF StartVote
<1>2. no \in SUBSET Ip /\ IsFiniteSet(no) /\ Cardinality(no) \in Nat
  <2>1. CASE player = None
    BY <2>1, FS_EmptySet
  <2>2. CASE player \in Con
    <3>1. no = {ip[player]} /\ ip[player] \in Ip
      BY <2>2
    <3>2. IsFiniteSet({ip[player]}) /\ Cardinality({ip[player]}) = 1
      BY FS_Singleton
    <3> HIDE DEF no
    <3> QED
      BY <3>1, <3>2
  <2> QED
    BY <2>1, <2>2
<1>3. b \in Ballots
  <2>1. ip[c] \in Ip /\ {ip[c]} \cup no \in SUBSET Ip
    BY <1>2
  <2>2. b \in [{ip[c]} \cup no -> Voted]
    BY DEF Voted
  <2> QED
    BY <2>1, <2>2 DEF Ballots
<1>4. ip[c] \notin no
  BY <1>1
<1>5. Cast(b, "Yes") = {ip[c]} /\ Cast(b, "No") = no
  BY <1>4 DEF Cast
<1>6. Cardinality(Cast(b, "Yes")) = 1 /\ Cardinality(Cast(b, "No")) = Cardinality(no)
  BY <1>5, FS_Singleton
<1>7. DOMAIN b \subseteq IpsOf(clients)
  BY <1>1 DEF IpsOf
<1>8. /\ allowed_to_vote_count(clients) \in Nat
      /\ allowed_to_vote_count(clients) = Cardinality(IpsOf(clients))
  BY IpsFinite DEF TypeOK
<1> HIDE DEF b, no
<1> QED
  BY <1>1, <1>2, <1>3, <1>6, <1>7, <1>8 DEF VoteIsRight, ServerVote

\* The types, the tallies and the voters of a vote are right together, whoever
\* joins, leaves, votes or changes a vote (server.rs:1167-1180, 1661-1678).
THEOREM VoteInvariant == Spec => []VoteInv
<1>1. Init => VoteInv
  BY DEF Init, VoteInv, TypeOK, TallyMatchesBallots, OnlyPresentNetworksVote, NoVote
<1>2. VoteInv /\ [Next]_vars => VoteInv'
  <2> SUFFICES ASSUME VoteInv, [Next]_vars
               PROVE  VoteInv'
    OBVIOUS
  <2>1. /\ TypeOK
        /\ clients \in SUBSET Con
        /\ protected \in SUBSET Con
        /\ expired \in BOOLEAN
        /\ passed \in ServerVote \cup {None}
        /\ NoVote \/ VoteIsRight(cur_vote, clients)
    BY VoteInvParts DEF VoteInv
  <2>2. SUFFICES /\ (clients \in SUBSET Con)'
                 /\ (protected \in SUBSET Con)'
                 /\ (expired \in BOOLEAN)'
                 /\ (passed \in ServerVote \cup {None})'
                 /\ NoVote' \/ VoteIsRight(cur_vote', clients')
    BY DEF VoteInv, TypeOK, TallyMatchesBallots, OnlyPresentNetworksVote, VoteIsRight, NoVote
  <2>3. ASSUME NEW c \in Con, ClientReady(c)
        PROVE  /\ (clients \in SUBSET Con)'
               /\ (protected \in SUBSET Con)'
               /\ NoVote' \/ VoteIsRight(cur_vote', clients')
    BY <2>1, <2>3, ReadyKeepsVoteRight DEF ClientReady, NoVote
  <2>4. ASSUME NEW c \in Con, ClientDisconnected(c)
        PROVE  /\ (clients \in SUBSET Con)'
               /\ (protected \in SUBSET Con)'
               /\ NoVote' \/ VoteIsRight(cur_vote', clients')
    <3>1. (clients \in SUBSET Con)' /\ (protected \in SUBSET Con)'
      BY <2>1, <2>4 DEF ClientDisconnected
    <3>2. NoVote' \/ VoteIsRight(cur_vote', clients')
      BY <2>1, <2>4, LeavingKeepsVoteRight DEF ClientDisconnected, NoVote
    <3> QED
      BY <3>1, <3>2
  <2>5. ASSUME NEW c \in Con, NEW voted \in Voted, CastVote(c, voted)
        PROVE  NoVote' \/ VoteIsRight(cur_vote', clients')
    BY <2>1, <2>5, CastingKeepsVoteRight DEF CastVote, NoVote
  <2>6. ASSUME NEW c \in Con, NEW type \in VoteType, NEW player \in Con \cup {None},
               StartVote(c, type, player)
        PROVE  VoteIsRight(cur_vote', clients') /\ UNCHANGED <<clients, protected>>
    <3>1. VoteIsRight(cur_vote', clients)
      BY <2>1, <2>6, NewVoteIsRight
    <3> QED
      BY <2>6, <3>1 DEF StartVote
  <2>7. CASE EndVote
    <3>1. passed' \in ServerVote \cup {None}
      BY <2>1, <2>7 DEF EndVote, NoVote, VoteIsRight
    <3>2. NoVote' /\ expired' = FALSE /\ clients' \in SUBSET Con /\ protected' \in SUBSET Con
      BY <2>1, <2>7 DEF EndVote, NewGame, NoVote
    <3> QED
      BY <3>1, <3>2
  <2>8. CASE Reload
    BY <2>1, <2>8 DEF Reload, NewGame, NoVote
  <2>9. CASE TimePasses
    BY <2>1, <2>9 DEF TimePasses, NoVote
  <2>10. CASE UNCHANGED vars
    BY <2>1, <2>10 DEF vars, NoVote
  <2>11. ASSUME NEW c \in Con, ClientReady(c) \/ ClientDisconnected(c)
         PROVE  UNCHANGED <<expired, passed>>
    BY <2>11 DEF ClientReady, ClientDisconnected
  <2>12. ASSUME NEW c \in Con, NEW voted \in Voted, CastVote(c, voted)
         PROVE  UNCHANGED <<clients, protected, expired, passed>>
    BY <2>12 DEF CastVote
  <2>13. ASSUME NEW c \in Con, NEW type \in VoteType, NEW player \in Con \cup {None},
                StartVote(c, type, player)
         PROVE  expired' = FALSE /\ passed' = None
    BY <2>13 DEF StartVote
  <2> QED
    BY <2>1, <2>3, <2>4, <2>5, <2>6, <2>7, <2>8, <2>9, <2>10, <2>11, <2>12, <2>13 DEF Next
<1> QED
  BY <1>1, <1>2, PTL DEF Spec

\* The tallies are the ballots counted, so the u64 subtractions cannot wrap.
THEOREM TalliesCount == Spec => []TallyMatchesBallots
<1>1. VoteInv => TallyMatchesBallots
  BY DEF VoteInv
<1> QED
  BY <1>1, VoteInvariant, PTL

\* Only networks with a ready client have a ballot.
THEOREM VotersPresent == Spec => []OnlyPresentNetworksVote
<1>1. VoteInv => OnlyPresentNetworksVote
  BY DEF VoteInv
<1> QED
  BY <1>1, VoteInvariant, PTL

\* The equalities that end a vote cannot be jumped over: there are never more
\* votes than networks.
THEOREM TalliesBounded == Spec => []TalliesWithinBound
<1>1. VoteInv => TalliesWithinBound
  <2> SUFFICES ASSUME VoteInv, ~NoVote
               PROVE  cur_vote.yes_votes + cur_vote.no_votes <= cur_vote.allowed_to_vote_count
    BY DEF TalliesWithinBound
  <2> DEFINE b == cur_vote.participating_ip
  <2>1. clients \in SUBSET Con /\ VoteIsRight(cur_vote, clients)
    BY VoteInvParts
  <2>2. b \in Ballots
    BY <2>1 DEF VoteIsRight, ServerVote
  <2>3. Cardinality(DOMAIN b) = cur_vote.yes_votes + cur_vote.no_votes
    BY <2>1, <2>2, EveryBallotCounts DEF VoteIsRight
  <2>4. Cardinality(DOMAIN b) <= Cardinality(IpsOf(clients))
    BY <2>1, IpsFinite, FS_Subset DEF VoteIsRight
  <2> QED
    BY <2>1, <2>3, <2>4 DEF VoteIsRight
<1> QED
  BY <1>1, VoteInvariant, PTL

\* What was voted happens only with more ballots for it than against it.
THEOREM MajorityPasses == Spec => []PassedByMajority
<1>1. Init => PassedByMajority
  BY DEF Init, PassedByMajority
<1>2. VoteInv /\ PassedByMajority /\ [Next]_vars => PassedByMajority'
  <2> SUFFICES ASSUME VoteInv, PassedByMajority, [Next]_vars
               PROVE  PassedByMajority'
    OBVIOUS
  <2>1. CASE EndVote
    <3>1. VoteIsRight(cur_vote, clients)
      BY <2>1, VoteInvParts DEF EndVote
    <3> QED
      BY <2>1, <3>1 DEF EndVote, VotePasses, VoteIsRight, PassedByMajority
  <2>2. ASSUME NEW c \in Con, NEW type \in VoteType, NEW player \in Con \cup {None},
               StartVote(c, type, player)
        PROVE  PassedByMajority'
    BY <2>2 DEF StartVote, PassedByMajority
  <2>3. CASE UNCHANGED passed
    BY <2>3 DEF PassedByMajority
  <2> QED
    BY <2>1, <2>2, <2>3
    DEF Next, ClientReady, ClientDisconnected, CastVote, Reload, TimePasses, vars
<1> QED
  BY <1>1, <1>2, VoteInvariant, PTL DEF Spec

============================================================================
