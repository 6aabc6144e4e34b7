---------------------------- MODULE PicowalGossip ----------------------------
(***************************************************************************)
(* Gossip leader election among the registered followers                   *)
(* (src/src/picowal_gossip.c) and the part of the replication client it    *)
(* drives: health counting and retargeting                                 *)
(* (src/src/picowal_repl_client.c).                                        *)
(*                                                                         *)
(* Three threads of a node meet here: the gossip tick, an HTTP worker that *)
(* receives a vote, and the poller of the replication client.  g_lock makes*)
(* the election part of a tick, and a received vote, one step each; the    *)
(* health check before a tick and the retargeting after it are not under   *)
(* the lock, and are steps of their own.                                   *)
(* Ids are numbers because only their lexicographic order matters.         *)
(*                                                                         *)
(* An operator whose name ends in _bug is a faulty variant of the next     *)
(* definition; no action uses it.                                          *)
(***************************************************************************)
EXTENDS Naturals, FiniteSets

CONSTANTS
    Followers,      \* --picowal-followers, the same list on every node
    Primary,        \* the original --picowal-replica-of target
    None,           \* the empty id
    FailThreshold,  \* REPL_HEALTH_FAIL_THRESHOLD
    MaxTerm,        \* bound: elections started
    MaxRestarts     \* bound: crashes

ASSUME FollowersAssumption == Followers \subseteq Nat /\ IsFiniteSet(Followers)
ASSUME IdsAssumption == Primary \notin Followers /\ None \notin Followers /\ Primary # None
ASSUME GossipBounds == FailThreshold \in Nat \ {0} /\ MaxTerm \in Nat /\ MaxRestarts \in Nat

VARIABLES
    term, cand, votes,   \* g_term, g_candidate, g_vote_bitmask
    promoted,            \* g_promoted
    dead,                \* g_dead
    known,               \* g_known_leader
    tick,                \* what the gossip thread has decided to do next
    follow,              \* the gossip thread's retarget, not yet applied
    retargets,           \* those of the HTTP workers
    target,              \* g_ctx: the host the replication client is to poll
    polled,              \* ctx_copy: the host of the poll in flight
    stopped,             \* the client has seen g_stop_requested
    fails,               \* g_consecutive_failures, up to the threshold
    alive,               \* nodes (and the primary) that are running
    restarts,            \* crashes so far
    cast                 \* ballots the nodes have sent; any of them may arrive
                         \* late, repeatedly, out of order or never

election == <<term, cand, votes, promoted, dead, known>>
gossip   == <<tick, follow, retargets>>
client   == <<target, polled, stopped, fails>>
vars     == <<election, gossip, client, alive, restarts, cast>>

Ids     == Followers \cup {Primary}
Ballots == [term: 0..MaxTerm, cand: Followers, voter: Followers]

Init ==
    /\ term = [n \in Followers |-> 0]
    /\ cand = [n \in Followers |-> None]
    /\ votes = [n \in Followers |-> {}]
    /\ promoted = [n \in Followers |-> FALSE]
    /\ dead = [n \in Followers |-> {}]
    /\ known = [n \in Followers |-> None]
    /\ tick = [n \in Followers |-> "asleep"]
    /\ follow = [n \in Followers |-> None]
    /\ retargets = [n \in Followers |-> {}]
    /\ target = [n \in Followers |-> Primary]
    /\ polled = [n \in Followers |-> None]
    /\ stopped = [n \in Followers |-> FALSE]
    /\ fails = [n \in Followers |-> 0]
    /\ alive = Ids /\ restarts = 0 /\ cast = {}

Least(S) == CHOOSE x \in S : \A y \in S : x <= y

\* pick_candidate
Pick(excluded) ==
    IF Followers \ excluded # {} THEN Least(Followers \ excluded) ELSE Least(Followers)

\* Half is enough.
IsQuorum_bug(V) == Cardinality(V) >= Cardinality(Followers) \div 2

IsQuorum(V) == Cardinality(V) >= Cardinality(Followers) \div 2 + 1

\* check_quorum_locked with candidate c and ballots V, while k is the known
\* leader.  NewLeader is what it returns to the caller for retargeting.
NewLeader(n, c, V, k) == IF IsQuorum(V) /\ c # k /\ c # n THEN c ELSE None

CheckQuorum(n, c, V, k) ==
    /\ cand' = [cand EXCEPT ![n] = c]
    /\ votes' = [votes EXCEPT ![n] = V]
    /\ known' = [known EXCEPT ![n] = IF IsQuorum(V) THEN c ELSE k]
    /\ promoted' = [promoted EXCEPT ![n] = @ \/ (IsQuorum(V) /\ c = n)]

-----------------------------------------------------------------------------
(* gossip_thread                                                           *)

\* picowal_repl_client_primary_healthy
Healthy(n) == stopped[n] \/ fails[n] < FailThreshold

\* The top of the loop: both checks are made without g_lock.
TickLook(n) ==
    /\ n \in alive /\ tick[n] = "asleep" /\ follow[n] = None /\ ~ promoted[n]
    /\ tick' = [tick EXCEPT ![n] = IF Healthy(n) THEN "clear" ELSE "elect"]
    /\ UNCHANGED <<election, follow, retargets, client, alive, restarts, cast>>

TickClear(n) ==
    /\ n \in alive /\ tick[n] = "clear"
    /\ tick' = [tick EXCEPT ![n] = "asleep"]
    /\ cand' = [cand EXCEPT ![n] = None]
    /\ votes' = [votes EXCEPT ![n] = {}]
    /\ UNCHANGED <<term, promoted, dead, known, follow, retargets, client, alive, restarts, cast>>

\* g_dead once the known leader, if any, has been judged unhealthy.
Blacklist(n) == dead[n] \cup ({known[n]} \ {None})

TickElect(n) ==
    /\ n \in alive /\ tick[n] = "elect"
    /\ LET D == Blacklist(n)
           c == Pick(D)
           t == IF c = cand[n] THEN term[n] ELSE term[n] + 1
           V == {n} \cup IF c = cand[n] THEN votes[n] ELSE {}
       IN  /\ t <= MaxTerm
           /\ dead' = [dead EXCEPT ![n] = D]
           /\ term' = [term EXCEPT ![n] = t]
           /\ CheckQuorum(n, c, V, None)
           /\ follow' = [follow EXCEPT ![n] = NewLeader(n, c, V, None)]
           /\ cast' = cast \cup {[term |-> t, cand |-> c, voter |-> n]}
    /\ tick' = [tick EXCEPT ![n] = "asleep"]
    /\ UNCHANGED <<retargets, client, alive, restarts>>

\* The term of a ballot for the current candidate is not compared.
Counts_bug(n, b) == b.term > term[n] \/ cand[n] \in {None, b.cand}

\* A ballot of an older term, or for another candidate of this term, is ignored.
Counts(n, b) == b.term > term[n] \/ (b.term = term[n] /\ cand[n] \in {None, b.cand})

\* A newer term does not reset the bitmask.
Tally_bug(n, b) == votes[n]

Tally(n, b) == IF b.term > term[n] THEN {} ELSE votes[n]

\* POST vote: record_vote_locked.
ReceiveVote(n, b) ==
    /\ n \in alive /\ b \in cast /\ b.voter # n
    /\ Counts(n, b)
    /\ LET V == {b.voter} \cup Tally(n, b)
       IN  /\ term' = [term EXCEPT ![n] = b.term]
           /\ CheckQuorum(n, b.cand, V, known[n])
           /\ retargets' = [retargets EXCEPT ![n] = @ \cup ({NewLeader(n, b.cand, V, known[n])} \ {None})]
    /\ UNCHANGED <<dead, tick, follow, client, alive, restarts, cast>>

-----------------------------------------------------------------------------
(* picowal_repl_client                                                     *)

\* picowal_repl_client_retarget.  Its reset of g_consecutive_failures is not
\* synchronised with the poller's increment, and may be lost to it.
Retarget(n, l) ==
    IF stopped[n] THEN UNCHANGED client ELSE
    /\ target' = [target EXCEPT ![n] = l]
    /\ IF target[n] = l THEN UNCHANGED fails
       ELSE \E f \in {0} \cup (IF polled[n] # None /\ fails[n] < FailThreshold THEN {fails[n] + 1} ELSE {}) :
                fails' = [fails EXCEPT ![n] = f]
    /\ UNCHANGED <<polled, stopped>>

TickFollow(n) ==
    /\ n \in alive /\ follow[n] # None
    /\ follow' = [follow EXCEPT ![n] = None]
    /\ Retarget(n, follow[n])
    /\ UNCHANGED <<election, tick, retargets, alive, restarts, cast>>

WorkerFollow(n, l) ==
    /\ n \in alive /\ l \in retargets[n]
    /\ retargets' = [retargets EXCEPT ![n] = @ \ {l}]
    /\ Retarget(n, l)
    /\ UNCHANGED <<election, tick, follow, alive, restarts, cast>>

\* repl_client_thread: promotion is noticed between two polls.
ClientStop(n) ==
    /\ n \in alive /\ promoted[n] /\ polled[n] = None /\ ~ stopped[n]
    /\ stopped' = [stopped EXCEPT ![n] = TRUE]
    /\ UNCHANGED <<election, gossip, target, polled, fails, alive, restarts, cast>>

PollStart(n) ==
    /\ n \in alive /\ ~ promoted[n] /\ polled[n] = None
    /\ polled' = [polled EXCEPT ![n] = target[n]]
    /\ UNCHANGED <<election, gossip, target, stopped, fails, alive, restarts, cast>>

\* A follower serves the feed once it is promoted.
Serving(h) == h \in alive /\ (h \in Followers => promoted[h])

PollOk(n) ==
    /\ n \in alive /\ polled[n] # None /\ Serving(polled[n])
    /\ polled' = [polled EXCEPT ![n] = None]
    /\ fails' = [fails EXCEPT ![n] = 0]
    /\ UNCHANGED <<election, gossip, target, stopped, alive, restarts, cast>>

\* The host is down, unreachable, does not serve the feed, or is too slow.
PollFail(n) ==
    /\ n \in alive /\ polled[n] # None
    /\ polled' = [polled EXCEPT ![n] = None]
    /\ fails' = [fails EXCEPT ![n] = IF @ < FailThreshold THEN @ + 1 ELSE @]
    /\ UNCHANGED <<election, gossip, target, stopped, alive, restarts, cast>>

-----------------------------------------------------------------------------
(* Processes stop; a restarted follower remembers nothing.                 *)

Crash(h) ==
    /\ h \in alive /\ restarts < MaxRestarts
    /\ restarts' = restarts + 1
    /\ alive' = alive \ {h}
    /\ UNCHANGED <<election, gossip, client, cast>>

Restart(n) ==
    /\ n \in Followers \ alive
    /\ alive' = alive \cup {n}
    /\ term' = [term EXCEPT ![n] = 0]
    /\ cand' = [cand EXCEPT ![n] = None]
    /\ votes' = [votes EXCEPT ![n] = {}]
    /\ promoted' = [promoted EXCEPT ![n] = FALSE]
    /\ dead' = [dead EXCEPT ![n] = {}]
    /\ known' = [known EXCEPT ![n] = None]
    /\ tick' = [tick EXCEPT ![n] = "asleep"]
    /\ follow' = [follow EXCEPT ![n] = None]
    /\ retargets' = [retargets EXCEPT ![n] = {}]
    /\ target' = [target EXCEPT ![n] = Primary]
    /\ polled' = [polled EXCEPT ![n] = None]
    /\ stopped' = [stopped EXCEPT ![n] = FALSE]
    /\ fails' = [fails EXCEPT ![n] = 0]
    /\ UNCHANGED <<restarts, cast>>

Next ==
    \/ \E n \in Followers :
        \/ TickLook(n) \/ TickClear(n) \/ TickElect(n) \/ TickFollow(n)
        \/ \E b \in cast : ReceiveVote(n, b)
        \/ \E l \in Followers : WorkerFollow(n, l)
        \/ PollStart(n) \/ PollOk(n) \/ PollFail(n) \/ ClientStop(n)
        \/ Restart(n)
    \/ \E h \in Ids : Crash(h)

Spec == Init /\ [][Next]_vars

-----------------------------------------------------------------------------
\* Every variable holds what the C globals of a follower can hold.
TypeOK ==
    /\ term \in [Followers -> 0..MaxTerm]
    /\ cand \in [Followers -> Followers \cup {None}]
    /\ votes \in [Followers -> SUBSET Followers]
    /\ promoted \in [Followers -> BOOLEAN]
    /\ dead \in [Followers -> SUBSET Followers]
    /\ known \in [Followers -> Followers \cup {None}]
    /\ tick \in [Followers -> {"asleep", "clear", "elect"}]
    /\ follow \in [Followers -> Followers \cup {None}]
    /\ retargets \in [Followers -> SUBSET Followers]
    /\ target \in [Followers -> Ids]
    /\ polled \in [Followers -> Ids \cup {None}]
    /\ stopped \in [Followers -> BOOLEAN]
    /\ fails \in [Followers -> 0..FailThreshold]
    /\ alive \subseteq Ids /\ restarts \in 0..MaxRestarts
    /\ cast \subseteq Ballots

Backers(t, c) == {v \in Followers : [term |-> t, cand |-> c, voter |-> v] \in cast}

\* A tally never counts a ballot nobody cast: whatever late, repeated or
\* reordered votes arrive, and whatever healthy ticks reset in between, the
\* bits a node has set for its candidate belong to followers that voted for
\* that candidate in that very term.
TallyIsHonest ==
    \A n \in Followers : votes[n] # {} => cand[n] # None /\ votes[n] \subseteq Backers(term[n], cand[n])

Elected(c) == \E t \in 0..MaxTerm : 2 * Cardinality(Backers(t, c)) > Cardinality(Followers)

\* Everyone n takes, or took, for the leader.
Leaders(n) == retargets[n] \cup dead[n] \cup ({known[n], follow[n]} \ {None})

\* Nobody becomes writer, is followed or is blacklisted as leader without a
\* majority: a promoted node, a known leader and a pending retarget each had
\* more than half of the registered followers vote for it in a single term.
LeadersAreElected ==
    \A n \in Followers :
        /\ promoted[n] => Elected(n)
        /\ \A l \in Leaders(n) : Elected(l)

\* A running node never returns to an earlier term, so a stale ballot cannot
\* reopen a closed election.
TermsOnlyGrow == [][\A n \in Followers : n \in alive => term'[n] >= term[n]]_vars
=============================================================================
