-------------------------------- MODULE MCNode --------------------------------
(***************************************************************************)
(* One TLC instance of what the clients of a node wait for: the storage    *)
(* engine with its background flusher, the /wal/ API of a partitioned      *)
(* pool, and the static site.  The models share no state, so a behaviour   *)
(* is one of the three.                                                    *)
(***************************************************************************)
EXTENDS MCStore, ApiCluster, SiteTable

VARIABLE surface    \* which of the three this behaviour is about

MCPool == <<1, 2>>
MCOwner == [r \in Records |-> 2]
MCUsages == {MetaOps, RecordOps \cup {"NEW", "LIST"}}

Line(alias, target) == [alias |-> alias, target |-> target]
\* Content and _pages that meet at "/" and, from either side, at "/blog"; a file
\* /health; directories without URLs; two host directories that differ in case;
\* an alias named twice, more aliases than the table or known_hosts hold, and
\* lines that are refused.
MCSites ==
    {[dirs |-> [a |-> {<<"index.html">>, <<"blog", "index.html">>, <<"_pages", "blog">>, <<"_pages", "index.html">>}],
      lines |-> <<Line("c", "a")>>],
     [dirs |-> [a |-> {<<"blog">>, <<"_pages", "blog", "index.html">>, <<"health">>, <<"y", "_inc", "x">>}],
      lines |-> <<Line("a", "a"), Line("c", "x"), Line("", "a")>>],
     [dirs |-> [a |-> {<<"x">>}, b |-> {<<"x">>, <<"index.html">>}],
      lines |-> <<Line("c", "a"), Line("C", "b"), Line("x", "c"), Line("b", "a")>>],
     [dirs |-> [a |-> {<<"x">>, <<"_pages", "x">>}, A |-> {<<"x">>, <<"y", "z">>}], lines |-> <<>>],
     [dirs |-> [a |-> {<<"index.html">>, <<"y", "index.html">>}], lines |-> <<Line("c", "A"), Line("b", "a")>>],
     [dirs |-> [a |-> {<<"x">>}], lines |-> <<Line("c", "a"), Line("b", "a"), Line("x", "a"), Line("C", "a")>>]}
MCLower == [a |-> "a", A |-> "a", b |-> "b", c |-> "c", C |-> "c", x |-> "x"]
\* All keys in one chain that wraps around, and several chains that meet.
MCHashes == << [k \in HostNames \X Urls |-> 15],
               [k \in HostNames \X Urls |-> 7 * Len(k[2]) + (IF k[1] = "a" THEN 0 ELSE 3)] >>

nodeVars == <<vars, apiVars, siteVars, surface>>
NodeInit ==
    /\ surface \in {"engine", "pool", "site"}
    /\ Init /\ ApiInit /\ SiteInit
    /\ surface # "pool" => routing = "proxy" /\ usage = MetaOps
    /\ surface # "site" => site = (CHOOSE s \in Sites : TRUE) /\ hash = 1
NodeNext ==
    \/ surface = "engine" /\ Next /\ UNCHANGED <<apiVars, siteVars, surface>>
    \/ surface = "pool" /\ ApiNext /\ UNCHANGED <<vars, siteVars, surface>>
    \/ surface = "site" /\ SiteNext /\ UNCHANGED <<vars, apiVars, surface>>

InEngine == surface = "engine" /\ UNCHANGED <<apiVars, siteVars, surface>>
InPool == surface = "pool" /\ UNCHANGED <<routing, usage, vars, siteVars, surface>>
\* The fairness of FairSpec and of ApiSpec.
NodeFairness ==
    /\ WF_nodeVars(InEngine /\ EngineStep)
    /\ WF_nodeVars(InEngine /\ (TxnRollback \/ \E d \in Durabilities : TxnMark(d)))
    /\ SF_nodeVars(InEngine /\ Flush)
    /\ WF_nodeVars(InPool /\ \E c \in Calls : Step(c))
NodeSpec == NodeInit /\ [][NodeNext]_nodeVars /\ NodeFairness
===============================================================================
