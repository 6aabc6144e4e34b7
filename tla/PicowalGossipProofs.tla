------------------------- MODULE PicowalGossipProofs --------------------------
(***************************************************************************)
(* Proofs about PicowalGossip, for any number of followers, any number of  *)
(* elections and crashes, and any delivery of ballots.                     *)
(***************************************************************************)
EXTENDS PicowalGossip, FiniteSetTheorems, WellFoundedInduction, TLAPS

\* pick_candidate's minimum exists: a nonempty set of ids has a least one.
LEMMA LeastExists ==
    ASSUME NEW S \in SUBSET Nat, S # {}
    PROVE  Least(S) \in S
<1> DEFINE R == {p \in Nat \X Nat : p[1] < p[2]}
<1>1. IsWellFoundedOn(R, Nat)
    BY NatLessThanWellFounded, Zenon DEF OpToRel
<1>2. PICK x \in S : \A y \in S : ~ (<<y, x>> \in R)
    <2> HIDE DEF R
    <2> QED BY <1>1, WFMin, Zenon
<1>3. \A y \in S : x <= y
    <2> SUFFICES ASSUME NEW y \in S, ~ (x <= y) PROVE FALSE
        OBVIOUS
    <2>1. <<y, x>> \in R
        OBVIOUS
    <2> QED BY <1>2, <2>1
<1> QED BY <1>3, Zenon DEF Least

\* pick_candidate always nominates a registered follower.
LEMMA PickIsFollower ==
    ASSUME NEW D, Followers # {}
    PROVE  Pick(D) \in Followers
<1>1. CASE Followers \ D # {}
    <2>1. Least(Followers \ D) \in Followers \ D
        BY <1>1, LeastExists, FollowersAssumption
    <2> QED BY <1>1, <2>1 DEF Pick
<1>2. CASE Followers \ D = {}
    <2>1. Least(Followers) \in Followers
        BY LeastExists, FollowersAssumption
    <2> QED BY <1>2, <2>1 DEF Pick
<1> QED BY <1>1, <1>2

\* The arithmetic of check_quorum_locked: n/2 + 1 votes are more than half,
\* and so is every finite set of voters that includes them.
LEMMA QuorumIsMajority ==
    ASSUME NEW B \in SUBSET Followers, NEW V \in SUBSET B, IsQuorum(V)
    PROVE  2 * Cardinality(B) > Cardinality(Followers)
<1>1. IsFiniteSet(B) /\ Cardinality(Followers) \in Nat
    BY FS_Subset, FS_CardinalityType, FollowersAssumption, Zenon
<1>2. IsFiniteSet(V) /\ Cardinality(V) <= Cardinality(B)
    BY <1>1, FS_Subset
<1>3. Cardinality(V) \in Nat /\ Cardinality(B) \in Nat
    BY <1>1, <1>2, FS_CardinalityType
<1> QED BY <1>1, <1>2, <1>3 DEF IsQuorum

\* Ballots are never withdrawn, so neither is an election.
LEMMA ElectedIsStable ==
    ASSUME NEW c, cast \subseteq cast', Elected(c)
    PROVE  Elected(c)'
<1>1. PICK t \in 0..MaxTerm : 2 * Cardinality(Backers(t, c)) > Cardinality(Followers)
    BY DEF Elected
<1>2. Backers(t, c) \subseteq Backers(t, c)' /\ Backers(t, c)' \subseteq Followers
    BY DEF Backers
<1>3. IsFiniteSet(Backers(t, c)') /\ Cardinality(Followers) \in Nat
    BY <1>2, FS_Subset, FS_CardinalityType, FollowersAssumption
<1>4. Cardinality(Backers(t, c)) <= Cardinality(Backers(t, c)') /\ IsFiniteSet(Backers(t, c))
    BY <1>2, <1>3, FS_Subset
<1>5. Cardinality(Backers(t, c)) \in Nat /\ Cardinality(Backers(t, c)') \in Nat
    BY <1>3, <1>4, FS_CardinalityType
<1>6. 2 * Cardinality(Backers(t, c)') > Cardinality(Followers)
    BY <1>1, <1>3, <1>4, <1>5
<1> QED BY <1>6 DEF Elected

-----------------------------------------------------------------------------
(* Type correctness.                                                       *)

\* What check_quorum_locked stores is well typed.
LEMMA CheckQuorumType ==
    ASSUME TypeOK, NEW n \in Followers, NEW c \in Followers, NEW V \in SUBSET Followers,
           NEW k \in Followers \cup {None}, CheckQuorum(n, c, V, k)
    PROVE  /\ cand' \in [Followers -> Followers \cup {None}]
           /\ votes' \in [Followers -> SUBSET Followers]
           /\ known' \in [Followers -> Followers \cup {None}]
           /\ promoted' \in [Followers -> BOOLEAN]
BY DEF TypeOK, CheckQuorum

\* What picowal_repl_client_retarget stores is well typed.
LEMMA RetargetType ==
    ASSUME TypeOK, NEW n \in Followers, NEW l \in Followers, Retarget(n, l)
    PROVE  /\ target' \in [Followers -> Ids] /\ fails' \in [Followers -> 0..FailThreshold]
           /\ polled' = polled /\ stopped' = stopped
BY GossipBounds DEF TypeOK, Retarget, client, Ids

\* Every step keeps the globals in range.
LEMMA TypeStep ==
    ASSUME TypeOK, [Next]_vars
    PROVE  TypeOK'
<1>1. ASSUME NEW n \in Followers, TickLook(n) PROVE TypeOK'
    BY <1>1 DEF TypeOK, TickLook, election, client
<1>2. ASSUME NEW n \in Followers, TickClear(n) PROVE TypeOK'
    BY <1>2 DEF TypeOK, TickClear, client
<1>3. ASSUME NEW n \in Followers, TickElect(n) PROVE TypeOK'
    <2> DEFINE c == Pick(Blacklist(n))
               t == IF c = cand[n] THEN term[n] ELSE term[n] + 1
               V == {n} \cup IF c = cand[n] THEN votes[n] ELSE {}
    <2>1. c \in Followers
        BY PickIsFollower
    <2>2. V \in SUBSET Followers /\ t \in Nat
        <3> HIDE DEF c
        <3> QED BY GossipBounds DEF TypeOK
    <2>3. /\ t <= MaxTerm /\ term' = [term EXCEPT ![n] = t]
          /\ dead' = [dead EXCEPT ![n] = Blacklist(n)]
          /\ CheckQuorum(n, c, V, None)
          /\ follow' = [follow EXCEPT ![n] = NewLeader(n, c, V, None)]
          /\ cast' = cast \cup {[term |-> t, cand |-> c, voter |-> n]}
          /\ tick' = [tick EXCEPT ![n] = "asleep"]
          /\ UNCHANGED <<retargets, client, alive, restarts>>
        BY <1>3 DEF TickElect
    <2> HIDE DEF c, t, V
    <2>4. /\ cand' \in [Followers -> Followers \cup {None}]
          /\ votes' \in [Followers -> SUBSET Followers]
          /\ known' \in [Followers -> Followers \cup {None}]
          /\ promoted' \in [Followers -> BOOLEAN]
        BY <2>1, <2>2, <2>3, CheckQuorumType, Zenon
    <2>5. NewLeader(n, c, V, None) \in Followers \cup {None} /\ Blacklist(n) \in SUBSET Followers
        BY <2>1 DEF NewLeader, Blacklist, TypeOK
    <2>6. t \in 0..MaxTerm
        BY <2>2, <2>3, GossipBounds
    <2>7. cast' \subseteq Ballots
        BY <2>1, <2>3, <2>6 DEF TypeOK, Ballots
    <2> QED BY <2>3, <2>4, <2>5, <2>6, <2>7, Zenon DEF TypeOK, client
<1>4. ASSUME NEW n \in Followers, NEW b \in cast, ReceiveVote(n, b) PROVE TypeOK'
    <2> DEFINE V == {b.voter} \cup Tally(n, b)
    <2>1. b.cand \in Followers /\ b.voter \in Followers /\ b.term \in 0..MaxTerm
        BY DEF TypeOK, Ballots
    <2>2. V \in SUBSET Followers /\ known[n] \in Followers \cup {None}
        BY <2>1 DEF TypeOK, Tally
    <2>3. /\ term' = [term EXCEPT ![n] = b.term]
          /\ CheckQuorum(n, b.cand, V, known[n])
          /\ retargets' = [retargets EXCEPT ![n] = @ \cup ({NewLeader(n, b.cand, V, known[n])} \ {None})]
          /\ UNCHANGED <<dead, tick, follow, client, alive, restarts, cast>>
        BY <1>4 DEF ReceiveVote
    <2> HIDE DEF V
    <2>4. /\ cand' \in [Followers -> Followers \cup {None}]
          /\ votes' \in [Followers -> SUBSET Followers]
          /\ known' \in [Followers -> Followers \cup {None}]
          /\ promoted' \in [Followers -> BOOLEAN]
        BY <2>1, <2>2, <2>3, CheckQuorumType, Zenon
    <2>5. NewLeader(n, b.cand, V, known[n]) \in Followers \cup {None}
        BY <2>1 DEF NewLeader
    <2> QED BY <2>1, <2>3, <2>4, <2>5, Zenon DEF TypeOK, client
<1>5. ASSUME NEW n \in Followers, TickFollow(n) PROVE TypeOK'
    <2>1. follow[n] \in Followers
        BY <1>5 DEF TickFollow, TypeOK
    <2>2. Retarget(n, follow[n])
        BY <1>5 DEF TickFollow
    <2>3. /\ target' \in [Followers -> Ids] /\ fails' \in [Followers -> 0..FailThreshold]
          /\ polled' = polled /\ stopped' = stopped
        BY <2>1, <2>2, RetargetType
    <2> QED BY <1>5, <2>3, Zenon DEF TickFollow, TypeOK, election
<1>6. ASSUME NEW n \in Followers, NEW l \in Followers, WorkerFollow(n, l) PROVE TypeOK'
    <2>1. Retarget(n, l)
        BY <1>6 DEF WorkerFollow
    <2>2. /\ target' \in [Followers -> Ids] /\ fails' \in [Followers -> 0..FailThreshold]
          /\ polled' = polled /\ stopped' = stopped
        BY <2>1, RetargetType
    <2> QED BY <1>6, <2>2, Zenon DEF WorkerFollow, TypeOK, election
<1>7. ASSUME NEW n \in Followers, PollStart(n) \/ PollOk(n) \/ PollFail(n) \/ ClientStop(n)
      PROVE TypeOK'
    <2>1. CASE PollStart(n)
        BY <2>1 DEF PollStart, TypeOK, election, gossip
    <2>2. CASE PollOk(n)
        BY <2>2, GossipBounds DEF PollOk, TypeOK, election, gossip
    <2>3. CASE PollFail(n)
        <3>1. fails' \in [Followers -> 0..FailThreshold]
            BY <2>3, GossipBounds DEF PollFail, TypeOK
        <3> QED BY <2>3, <3>1 DEF PollFail, TypeOK, election, gossip
    <2>4. CASE ClientStop(n)
        BY <2>4 DEF ClientStop, TypeOK, election, gossip
    <2> QED BY <1>7, <2>1, <2>2, <2>3, <2>4
<1>8. ASSUME NEW n \in Followers, Restart(n) PROVE TypeOK'
    BY <1>8, GossipBounds DEF Restart, TypeOK, Ids
<1>9. ASSUME NEW h \in Ids, Crash(h) PROVE TypeOK'
    BY <1>9, GossipBounds DEF Crash, TypeOK, election, gossip, client
<1>10. CASE UNCHANGED vars
    BY <1>10 DEF vars, election, gossip, client, TypeOK
<1> QED BY <1>1, <1>2, <1>3, <1>4, <1>5, <1>6, <1>7, <1>8, <1>9, <1>10 DEF Next

\* The C globals of every follower stay in range.
THEOREM TypeCorrect == Spec => []TypeOK
<1>1. Init => TypeOK
    BY GossipBounds DEF Init, TypeOK, Ids, Ballots
<1>2. TypeOK /\ [Next]_vars => TypeOK'
    BY TypeStep
<1> QED BY <1>1, <1>2, PTL DEF Spec

-----------------------------------------------------------------------------
(* Honest tallies.                                                         *)

\* Every step keeps the tallies honest and withdraws no ballot.
LEMMA TallyStep ==
    ASSUME TypeOK, TallyIsHonest, [Next]_vars
    PROVE  TallyIsHonest' /\ cast \subseteq cast'
<1> USE DEF TallyIsHonest, Backers
<1>1. ASSUME NEW n \in Followers, TickLook(n) \/ TickFollow(n) PROVE TallyIsHonest' /\ cast \subseteq cast'
    BY <1>1 DEF TickLook, TickFollow, election
<1>2. ASSUME NEW n \in Followers, TickClear(n) PROVE TallyIsHonest' /\ cast \subseteq cast'
    BY <1>2 DEF TickClear, TypeOK
<1>3. ASSUME NEW n \in Followers, TickElect(n) PROVE TallyIsHonest' /\ cast \subseteq cast'
    <2>1. PICK c \in Followers : c = Pick(Blacklist(n))
        BY PickIsFollower
    <2>2. PICK t : t = IF c = cand[n] THEN term[n] ELSE term[n] + 1
        OBVIOUS
    <2>3. PICK V : V = {n} \cup IF c = cand[n] THEN votes[n] ELSE {}
        BY Zenon
    <2>4. /\ term' = [term EXCEPT ![n] = t]
          /\ cand' = [cand EXCEPT ![n] = c] /\ votes' = [votes EXCEPT ![n] = V]
          /\ cast' = cast \cup {[term |-> t, cand |-> c, voter |-> n]}
        BY <1>3, <2>1, <2>2, <2>3 DEF TickElect, CheckQuorum
    <2>5. V \subseteq {n} \cup Backers(t, c)
        BY <2>2, <2>3
    <2>6. c # None /\ V \subseteq Backers(t, c)'
        BY <2>4, <2>5, IdsAssumption
    <2> QED BY <2>4, <2>6 DEF TypeOK
<1>4. ASSUME NEW n \in Followers, NEW b \in cast, ReceiveVote(n, b)
      PROVE  TallyIsHonest' /\ cast \subseteq cast'
    <2> DEFINE V == {b.voter} \cup Tally(n, b)
    <2>1. b \in Ballots /\ b = [term |-> b.term, cand |-> b.cand, voter |-> b.voter]
        BY DEF TypeOK, Ballots
    <2>2. /\ term' = [term EXCEPT ![n] = b.term]
          /\ cand' = [cand EXCEPT ![n] = b.cand] /\ votes' = [votes EXCEPT ![n] = V]
          /\ cast' = cast /\ Counts(n, b)
        BY <1>4 DEF ReceiveVote, CheckQuorum
    <2>3. b.cand # None /\ b.voter \in Followers
        BY <2>1, IdsAssumption DEF Ballots
    <2>4. Tally(n, b) \subseteq Backers(b.term, b.cand)
        <3>1. CASE b.term > term[n]
            BY <3>1 DEF Tally
        <3>2. CASE ~ (b.term > term[n])
            BY <2>2, <3>2 DEF Tally, Counts
        <3> QED BY <3>1, <3>2
    <2>5. V \subseteq Backers(b.term, b.cand)
        BY <2>1, <2>3, <2>4
    <2> HIDE DEF V
    <2> QED BY <2>2, <2>3, <2>5 DEF TypeOK
<1>5. ASSUME NEW n \in Followers, NEW l \in Followers, WorkerFollow(n, l)
      PROVE  TallyIsHonest' /\ cast \subseteq cast'
    BY <1>5 DEF WorkerFollow, election
<1>6. ASSUME NEW n \in Followers, PollStart(n) \/ PollOk(n) \/ PollFail(n) \/ ClientStop(n)
      PROVE  TallyIsHonest' /\ cast \subseteq cast'
    BY <1>6 DEF PollStart, PollOk, PollFail, ClientStop, election
<1>7. ASSUME NEW n \in Followers, Restart(n) PROVE TallyIsHonest' /\ cast \subseteq cast'
    BY <1>7 DEF Restart, TypeOK
<1>8. ASSUME NEW h \in Ids, Crash(h) PROVE TallyIsHonest' /\ cast \subseteq cast'
    BY <1>8 DEF Crash, election
<1>9. CASE UNCHANGED vars
    BY <1>9 DEF vars, election
<1> QED BY <1>1, <1>2, <1>3, <1>4, <1>5, <1>6, <1>7, <1>8, <1>9 DEF Next

\* record_vote_locked and the gossip tick keep g_vote_bitmask honest: every bit
\* stands for a ballot that its follower cast for this candidate in this term.
THEOREM HonestTallies == Spec => []TallyIsHonest
<1>1. Init => TallyIsHonest
    BY DEF Init, TallyIsHonest
<1>2. TypeOK /\ TallyIsHonest /\ [Next]_vars => TallyIsHonest'
    BY TallyStep
<1> QED BY <1>1, <1>2, TypeCorrect, PTL DEF Spec

-----------------------------------------------------------------------------
(* Leaders are elected.  The invariant is inductive only together with the *)
(* honesty of the tallies: that is what turns the quorum a node sees into  *)
(* ballots that were really cast.                                          *)

\* Every step takes only elected nodes for leaders.
LEMMA LeadersStep ==
    ASSUME TypeOK, TallyIsHonest, LeadersAreElected, [Next]_vars
    PROVE  LeadersAreElected'
<1>1. TallyIsHonest' /\ TypeOK' /\ cast \subseteq cast'
    BY TallyStep, TypeStep
<1>2. \A c : Elected(c) => Elected(c)'
    BY <1>1, ElectedIsStable
<1>3. ASSUME \A m \in Followers : promoted'[m] => promoted[m] \/ Elected(m)',
             \A m \in Followers : \A l \in Leaders(m)' : l \in Leaders(m) \/ Elected(l)'
      PROVE  LeadersAreElected'
    BY <1>2, <1>3 DEF LeadersAreElected
\* A quorum in check_quorum_locked is a real one, as the new tally is honest.
<1>4. ASSUME NEW n \in Followers, NEW c \in Followers, NEW t \in 0..MaxTerm,
             NEW V \in SUBSET Followers, NEW k,
             term' = [term EXCEPT ![n] = t], CheckQuorum(n, c, V, k), IsQuorum(V)
      PROVE  Elected(c)'
    <2>1. term'[n] = t /\ cand'[n] = c /\ votes'[n] = V
        BY <1>4 DEF TypeOK, CheckQuorum
    <2>2. V # {} => V \subseteq Backers(t, c)'
        BY <1>1, <2>1 DEF TallyIsHonest, Backers
    <2>3. Backers(t, c)' \in SUBSET Followers /\ V \in SUBSET (Backers(t, c)')
        BY <2>2 DEF Backers
    <2>4. 2 * Cardinality(Backers(t, c)') > Cardinality(Followers)
        BY <1>4, <2>3, QuorumIsMajority
    <2> QED BY <2>4, Zenon DEF Elected, Backers
<1>5. ASSUME NEW n \in Followers, TickElect(n) PROVE LeadersAreElected'
    <2>1. PICK c \in Followers : c = Pick(Blacklist(n))
        BY PickIsFollower
    <2>2. PICK t : t = IF c = cand[n] THEN term[n] ELSE term[n] + 1
        OBVIOUS
    <2>3. PICK V \in SUBSET Followers : V = {n} \cup IF c = cand[n] THEN votes[n] ELSE {}
        BY Zenon DEF TypeOK
    <2>4. /\ t <= MaxTerm /\ term' = [term EXCEPT ![n] = t]
          /\ dead' = [dead EXCEPT ![n] = Blacklist(n)]
          /\ CheckQuorum(n, c, V, None)
          /\ follow' = [follow EXCEPT ![n] = NewLeader(n, c, V, None)]
          /\ retargets' = retargets
        BY <1>5, <2>1, <2>2, <2>3 DEF TickElect
    <2>5. t \in 0..MaxTerm
        BY <2>2, <2>4, GossipBounds DEF TypeOK
    <2>6. IsQuorum(V) => Elected(c)'
        BY <1>4, <2>4, <2>5, Zenon
    <2>7. \A m \in Followers : promoted'[m] => promoted[m] \/ Elected(m)'
        BY <2>4, <2>6 DEF CheckQuorum, TypeOK
    <2>8. \A m \in Followers : \A l \in Leaders(m)' : l \in Leaders(m) \/ Elected(l)'
        <3> SUFFICES ASSUME NEW m \in Followers, NEW l \in Leaders(m)', l \notin Leaders(m)
                     PROVE  l = c /\ IsQuorum(V)
            BY <2>6
        <3> QED BY <2>4 DEF Leaders, Blacklist, NewLeader, CheckQuorum, TypeOK
    <2> QED BY <1>3, <2>7, <2>8
<1>6. ASSUME NEW n \in Followers, NEW b \in cast, ReceiveVote(n, b) PROVE LeadersAreElected'
    <2>1. b.cand \in Followers /\ b.voter \in Followers /\ b.term \in 0..MaxTerm
        BY DEF TypeOK, Ballots
    <2>2. PICK V \in SUBSET Followers : V = {b.voter} \cup Tally(n, b)
        BY <2>1, Zenon DEF TypeOK, Tally
    <2>3. /\ term' = [term EXCEPT ![n] = b.term]
          /\ CheckQuorum(n, b.cand, V, known[n])
          /\ retargets' = [retargets EXCEPT ![n] = @ \cup ({NewLeader(n, b.cand, V, known[n])} \ {None})]
          /\ dead' = dead /\ follow' = follow
        BY <1>6, <2>2 DEF ReceiveVote
    <2>4. IsQuorum(V) => Elected(b.cand)'
        <3>1. PICK c \in Followers, k \in {known[n]} : c = b.cand
            BY <2>1
        <3> QED BY <1>4, <2>1, <2>3, <3>1, Zenon
    <2>5. \A m \in Followers : promoted'[m] => promoted[m] \/ Elected(m)'
        BY <2>3, <2>4 DEF CheckQuorum, TypeOK
    <2>6. \A m \in Followers : \A l \in Leaders(m)' : l \in Leaders(m) \/ Elected(l)'
        <3> SUFFICES ASSUME NEW m \in Followers, NEW l \in Leaders(m)', l \notin Leaders(m)
                     PROVE  l = b.cand /\ IsQuorum(V)
            BY <2>4
        <3> QED BY <2>3 DEF Leaders, NewLeader, CheckQuorum, TypeOK
    <2> QED BY <1>3, <2>5, <2>6
\* The other actions make no leader.
<1>7. ASSUME NEW n \in Followers, TickLook(n) \/ TickClear(n) PROVE LeadersAreElected'
    BY <1>3, <1>7 DEF TickLook, TickClear, election, Leaders
<1>8. ASSUME NEW n \in Followers, TickFollow(n) PROVE LeadersAreElected'
    BY <1>3, <1>8 DEF TickFollow, election, Leaders, TypeOK
<1>9. ASSUME NEW n \in Followers, NEW l \in Followers, WorkerFollow(n, l) PROVE LeadersAreElected'
    BY <1>3, <1>9 DEF WorkerFollow, election, Leaders, TypeOK
<1>10. ASSUME NEW n \in Followers, PollStart(n) \/ PollOk(n) \/ PollFail(n) \/ ClientStop(n)
       PROVE  LeadersAreElected'
    BY <1>3, <1>10 DEF PollStart, PollOk, PollFail, ClientStop, election, gossip, Leaders
<1>11. ASSUME NEW n \in Followers, Restart(n) PROVE LeadersAreElected'
    BY <1>3, <1>11 DEF Restart, Leaders, TypeOK
<1>12. ASSUME NEW h \in Ids, Crash(h) PROVE LeadersAreElected'
    BY <1>3, <1>12 DEF Crash, election, gossip, Leaders
<1>13. CASE UNCHANGED vars
    BY <1>3, <1>13 DEF vars, election, gossip, Leaders
<1> QED BY <1>5, <1>6, <1>7, <1>8, <1>9, <1>10, <1>11, <1>12, <1>13 DEF Next

\* Every node that gossip promotes, follows or blacklists had a majority of the
\* registered followers behind it in one term, whatever ballots are late,
\* repeated, reordered or lost and whichever nodes crash and restart.
THEOREM LeadersHaveMajority == Spec => []LeadersAreElected
<1>1. Init => LeadersAreElected
    BY DEF Init, LeadersAreElected, Leaders
<1>2. TypeOK /\ TallyIsHonest /\ LeadersAreElected /\ [Next]_vars => LeadersAreElected'
    BY LeadersStep
<1> QED BY <1>1, <1>2, TypeCorrect, HonestTallies, PTL DEF Spec

\* g_term of a running node only grows.
THEOREM TermsAreMonotone == Spec => TermsOnlyGrow
<1>1. TypeOK /\ [Next]_vars => [\A n \in Followers : n \in alive => term'[n] >= term[n]]_vars
    <2> SUFFICES ASSUME TypeOK, Next, NEW m \in Followers, m \in alive PROVE term'[m] >= term[m]
        OBVIOUS
    <2>1. term[m] \in Nat
        BY DEF TypeOK
    <2>2. ASSUME NEW n \in Followers, TickElect(n) PROVE term'[m] >= term[m]
        BY <2>1, <2>2 DEF TickElect, TypeOK
    <2>3. ASSUME NEW n \in Followers, NEW b \in cast, ReceiveVote(n, b) PROVE term'[m] >= term[m]
        BY <2>1, <2>3 DEF ReceiveVote, Counts, TypeOK, Ballots
    <2>4. ASSUME NEW n \in Followers, Restart(n) PROVE term'[m] = term[m]
        BY <2>4 DEF Restart, TypeOK
    <2>5. ASSUME NEW n \in Followers,
                 \/ TickLook(n) \/ TickClear(n) \/ TickFollow(n) \/ \E l \in Followers : WorkerFollow(n, l)
                 \/ PollStart(n) \/ PollOk(n) \/ PollFail(n) \/ ClientStop(n)
          PROVE  term'[m] = term[m]
        BY <2>5 DEF TickLook, TickClear, TickFollow, WorkerFollow, PollStart, PollOk, PollFail,
                    ClientStop, election
    <2>6. ASSUME NEW h \in Ids, Crash(h) PROVE term'[m] = term[m]
        BY <2>6 DEF Crash, election
    <2> QED BY <2>1, <2>2, <2>3, <2>4, <2>5, <2>6 DEF Next
<1> QED BY <1>1, TypeCorrect, PTL DEF Spec, TermsOnlyGrow
=============================================================================
