----------------------------- MODULE ApiCluster -----------------------------
(***************************************************************************)
(* The /wal/ API on a pool of nodes (--picowal-partition-nodes): which     *)
(* node applies the mutation of a record, how a metadata card is copied to *)
(* every node, and how a list or a query collects the shards (src/api.c    *)
(* and src/picowal_partition.c).                                           *)
(*                                                                         *)
(* A worker thread runs a call to its end and waits inside it for every    *)
(* round trip to a peer (a hop), so it takes no hop of a peer meanwhile.   *)
(* SO_REUSEPORT ties a connection to one worker: a node is modelled by one *)
(* worker.  A hop that timed out stays in the peer's socket and is served  *)
(* when its worker gets to it.                                             *)
(*                                                                         *)
(* An operator whose name ends in _bug is a faulty variant of the next     *)
(* definition; no action uses it.                                          *)
(***************************************************************************)
EXTENDS Naturals, Sequences, FiniteSets

CONSTANTS
    Pool,        \* the nodes in configured order, the same on every node
    Records,     \* record ids of one pack
    Owner,       \* picowal_partition_owner: the node that wins each record
    Usages,      \* sets of operations; the calls of a behaviour are of one of them
    Routings,    \* subset of {"proxy", "redirect"}: --picowal-partition-mode
    MaxCalls     \* bound: calls made by clients

PoolNodes == {Pool[i] : i \in 1 .. Len(Pool)}

ASSUME ApiClusterAssumption ==
    /\ MaxCalls \in Nat /\ Len(Pool) \in Nat \ {0}
    /\ Owner \in [Records -> PoolNodes]

VARIABLES
    calls,       \* what clients asked, in order of arrival
    hops,        \* the round trip of a call to a node
    card,        \* one metadata card on every node: the call that wrote it, 0 if absent
    recs,        \* records stored on every node
    worker,      \* the call the node's worker is in, 0 when it is idle
    routing,     \* --picowal-partition-mode
    usage,       \* the operations this pool is asked for
    overlapped   \* history: two metadata mutations were under way at once

apiVars == <<calls, hops, card, recs, worker, routing, usage, overlapped>>

Calls == 1 .. MaxCalls
NoRecord == 0
MetaOps == {"PUT", "POST", "DELETE"}               \* of the metadata card
RecordOps == {"rPUT", "rPOST", "rDELETE"}          \* of a record named in the path
NoCall == [op |-> "none", rec |-> NoRecord, node |-> Pool[1], pc |-> "new", next |-> 1,
           failed |-> 0, got |-> {}, must |-> {}, res |-> 0]
NoHop == [st |-> "none", res |-> 0, shard |-> {}]
Pending(c) == calls[c].pc \in {"fan", "wait"}

ApiInit ==
    /\ calls = [c \in Calls |-> NoCall]
    /\ hops = [c \in Calls |-> [n \in PoolNodes |-> NoHop]]
    /\ card = [n \in PoolNodes |-> 0]
    /\ recs = [n \in PoolNodes |-> {}]
    /\ worker = [n \in PoolNodes |-> 0]
    /\ routing \in Routings
    /\ usage \in Usages
    /\ overlapped = FALSE

-----------------------------------------------------------------------------
(* What a node does to its own volume, for a client or for a peer.         *)

\* dispatch_picowal_pack_record and the record cases of dispatch_picowal: the
\* status, by whether the card or record is there.
StatusOf(op, there) ==
    CASE op \in {"PUT", "rPUT"} -> 204
      [] op \in {"POST", "rPOST"} -> IF there THEN 409 ELSE 201
      [] op \in {"DELETE", "rDELETE"} -> IF there THEN 204 ELSE 404

There(op, n, r) == IF op \in MetaOps THEN card[n] # 0 ELSE r \in recs[n]
LocalStatus(op, n, r) == StatusOf(op, There(op, n, r))

AppliedAt(c, op, n, r) ==
    /\ card' = IF op \in MetaOps /\ LocalStatus(op, n, r) < 400
               THEN [card EXCEPT ![n] = IF op = "DELETE" THEN 0 ELSE c] ELSE card
    /\ recs' = CASE op \in {"rPUT", "rPOST"} -> [recs EXCEPT ![n] = @ \cup {r}]
                 [] op = "rDELETE" -> [recs EXCEPT ![n] = @ \ {r}]
                 [] OTHER -> recs

\* A list that is under way need not show a record deleted meanwhile.
Excused(op, r) ==
    [d \in Calls |-> IF op = "rDELETE" THEN [calls[d] EXCEPT !.must = @ \ {r}] ELSE calls[d]]

-----------------------------------------------------------------------------
(* A worker takes a call from a client.                                    *)

Takes(c, n, op) ==
    /\ op \in usage
    /\ calls[c].pc = "new" /\ \A d \in 1 .. (c - 1) : calls[d].pc # "new"
    /\ worker[n] = 0
Call(op, n, r) == [NoCall EXCEPT !.op = op, !.node = n, !.rec = r]
\* Of a call that ended only what the client was told is kept.
Told(op, r, res) == [Call(op, Pool[1], r) EXCEPT !.pc = "done", !.res = res]

\* A metadata mutation is applied locally first; only a success is replicated
\* (replicate_metadata_or_502).
TakeMeta(c, n, op) ==
    /\ Takes(c, n, op)
    /\ AppliedAt(c, op, n, NoRecord)
    /\ LET res == LocalStatus(op, n, NoRecord) IN
       IF res < 400
       THEN /\ calls' = [calls EXCEPT ![c] = [Call(op, n, NoRecord) EXCEPT !.pc = "fan", !.res = res]]
            /\ worker' = [worker EXCEPT ![n] = c]
       ELSE /\ calls' = [calls EXCEPT ![c] = Told(op, NoRecord, res)]
            /\ UNCHANGED worker
    /\ overlapped' = (overlapped \/ \E d \in Calls : calls[d].op \in MetaOps /\ Pending(d))
    /\ UNCHANGED hops

\* A mutation of a named record: the owner applies it; another node redirects
\* the client, or connects to the owner and proxies.
TakeOwned(c, n, op, r) ==
    /\ Takes(c, n, op) /\ Owner[r] = n
    /\ AppliedAt(c, op, n, r)
    /\ calls' = [Excused(op, r) EXCEPT ![c] = Told(op, r, LocalStatus(op, n, r))]
    /\ UNCHANGED <<hops, worker, overlapped>>
TakeRedirected(c, n, op, r) ==
    /\ Takes(c, n, op) /\ Owner[r] # n /\ routing = "redirect"
    /\ calls' = [calls EXCEPT ![c] = Told(op, r, 307)]
    /\ UNCHANGED <<hops, card, recs, worker, overlapped>>
TakeProxied(c, n, op, r) ==
    /\ Takes(c, n, op) /\ Owner[r] # n /\ routing = "proxy"
    /\ \/ /\ calls' = [calls EXCEPT ![c] = [Call(op, n, r) EXCEPT !.pc = "wait"]]
          /\ hops' = [hops EXCEPT ![c][Owner[r]].st = "queued"]
          /\ worker' = [worker EXCEPT ![n] = c]
       \/ /\ calls' = [calls EXCEPT ![c] = Told(op, r, 502)]
          /\ UNCHANGED <<hops, worker>>
    /\ UNCHANGED <<card, recs, overlapped>>

\* POST without a record id: a random free id of this node's volume, whoever
\* owns it; 500 when all 32 ids tried were taken.
TakeNew(c, n) ==
    /\ Takes(c, n, "NEW")
    /\ \/ \E r \in Records \ recs[n] :
            /\ recs' = [recs EXCEPT ![n] = @ \cup {r}]
            /\ calls' = [calls EXCEPT ![c] = Told("NEW", r, 201)]
       \/ /\ recs[n] # {} /\ UNCHANGED recs
          /\ calls' = [calls EXCEPT ![c] = Told("NEW", NoRecord, 500)]
    /\ UNCHANGED <<hops, card, worker, overlapped>>

\* A list (or a query or report) visits the whole pool.
TakeList(c, n) ==
    /\ Takes(c, n, "LIST")
    /\ calls' = [calls EXCEPT ![c] =
                   [Call("LIST", n, NoRecord) EXCEPT !.pc = "fan", !.must = UNION {recs[m] : m \in PoolNodes}]]
    /\ worker' = [worker EXCEPT ![n] = c]
    /\ UNCHANGED <<hops, card, recs, overlapped>>

-----------------------------------------------------------------------------
(* The loop over the pool, in picowal_partition_replicate_metadata,        *)
(* picowal_query_run_fanout and picowal_build_list_payload_fanout.         *)

\* The next node is this one: its shard is read in process, its card is
\* already written.
FanSelf_bug(c) ==
    /\ calls[c].pc = "fan" /\ calls[c].next <= Len(Pool)
    /\ Pool[calls[c].next] = calls[c].node
    /\ calls' = [calls EXCEPT ![c].next = @ + 1]
    /\ UNCHANGED <<hops, card, recs, worker, overlapped>>
FanSelf(c) ==
    /\ calls[c].pc = "fan" /\ calls[c].next <= Len(Pool)
    /\ Pool[calls[c].next] = calls[c].node
    /\ calls' = [calls EXCEPT ![c].next = @ + 1,
                              ![c].got = IF calls[c].op = "LIST" THEN @ \cup recs[calls[c].node] ELSE @]
    /\ UNCHANGED <<hops, card, recs, worker, overlapped>>

\* The next node is a peer: connected, or not within PP_CONNECT_TIMEOUT_MS.
FanPeer(c) ==
    /\ calls[c].pc = "fan" /\ calls[c].next <= Len(Pool)
    /\ Pool[calls[c].next] # calls[c].node
    /\ \/ /\ hops' = [hops EXCEPT ![c][Pool[calls[c].next]].st = "queued"]
          /\ calls' = [calls EXCEPT ![c].pc = "wait"]
       \/ /\ calls' = [calls EXCEPT ![c].next = @ + 1, ![c].failed = @ + 1]
          /\ UNCHANGED hops
    /\ UNCHANGED <<card, recs, worker, overlapped>>

\* The node a waiting call has its round trip with.
HopNode(c) == IF calls[c].op \in RecordOps THEN Owner[calls[c].rec] ELSE Pool[calls[c].next]

\* An idle worker serves a hop; it never fans out again.
ServeHop(c, n) ==
    /\ hops[c][n].st = "queued" /\ worker[n] = 0
    /\ AppliedAt(c, calls[c].op, n, calls[c].rec)
    /\ hops' = [hops EXCEPT ![c][n] =
         IF calls[c].pc # "wait" \/ HopNode(c) # n THEN NoHop    \* nobody waits for it any more
         ELSE IF calls[c].op = "LIST" THEN [st |-> "answered", res |-> 200, shard |-> recs[n]]
         ELSE [st |-> "answered", res |-> LocalStatus(calls[c].op, n, calls[c].rec), shard |-> {}]]
    /\ calls' = Excused(calls[c].op, calls[c].rec)
    /\ UNCHANGED <<worker, overlapped>>

\* What the loop counts as a success of a peer.
PeerOk(op, res) == res < 400 \/ (op = "DELETE" /\ res = 404)

\* A list that is complete has shown the records it got.
Ended(c, res) ==
    [Told(calls[c].op, calls[c].rec, res) EXCEPT
        !.got = IF res = 200 THEN calls[c].got ELSE {}, !.must = IF res = 200 THEN calls[c].must ELSE {}]
Relayed(c, res) == /\ calls' = [calls EXCEPT ![c] = Ended(c, res)]
                   /\ worker' = [worker EXCEPT ![calls[c].node] = 0]
Collected(c, h) == [calls[c] EXCEPT !.pc = "fan", !.next = @ + 1, !.got = @ \cup h.shard]
Missed_bug(c) == [calls[c] EXCEPT !.pc = "fan", !.next = @ + 1]
Missed(c) == [calls[c] EXCEPT !.pc = "fan", !.next = @ + 1, !.failed = @ + 1]

HopAnswered(c) ==
    /\ calls[c].pc = "wait" /\ hops[c][HopNode(c)].st = "answered"
    /\ LET h == hops[c][HopNode(c)] IN
       IF calls[c].op \in RecordOps THEN Relayed(c, h.res)
       ELSE /\ UNCHANGED worker
            /\ calls' = [calls EXCEPT ![c] =
                 IF PeerOk(calls[c].op, h.res) THEN Collected(c, h) ELSE Missed(c)]
    /\ hops' = [hops EXCEPT ![c][HopNode(c)] = NoHop]
    /\ UNCHANGED <<card, recs, overlapped>>

\* No answer within PP_IO_TIMEOUT_MS: the hop failed for this node, whatever
\* becomes of it at the peer.
HopTimeout_bug(c) == FALSE /\ UNCHANGED <<calls, hops, card, recs, worker, overlapped>>
HopTimeout(c) ==
    /\ calls[c].pc = "wait"
    /\ IF calls[c].op \in RecordOps THEN Relayed(c, 502)
       ELSE calls' = [calls EXCEPT ![c] = Missed(c)] /\ UNCHANGED worker
    /\ UNCHANGED <<hops, card, recs, overlapped>>

\* The end of the loop: 502 if a copy failed, a list of the shards that were
\* reached ("partial", here 206, unless all were), 500 if none was.
Finish(c) ==
    /\ calls[c].pc = "fan" /\ calls[c].next > Len(Pool)
    /\ Relayed(c, IF calls[c].op = "LIST"
                  THEN CASE calls[c].failed = 0 -> 200
                         [] calls[c].failed = Len(Pool) -> 500
                         [] OTHER -> 206
                  ELSE IF calls[c].failed = 0 THEN calls[c].res ELSE 502)
    /\ UNCHANGED <<hops, card, recs, overlapped>>

Step(c) == FanSelf(c) \/ FanPeer(c) \/ HopAnswered(c) \/ HopTimeout(c) \/ Finish(c)
ApiNext ==
    /\ \E c \in Calls :
         \/ Step(c)
         \/ \E n \in PoolNodes :
              \/ ServeHop(c, n)
              \/ TakeNew(c, n)
              \/ TakeList(c, n)
              \/ \E op \in MetaOps : TakeMeta(c, n, op)
              \/ \E op \in RecordOps, r \in Records :
                   TakeOwned(c, n, op, r) \/ TakeRedirected(c, n, op, r) \/ TakeProxied(c, n, op, r)
    /\ UNCHANGED <<routing, usage>>

\* Some worker runs: a call makes finitely many steps, and the kernel ends a
\* round trip that has no answer.
ApiFairness == WF_apiVars((\E c \in Calls : Step(c)) /\ UNCHANGED <<routing, usage>>)
ApiSpec == ApiInit /\ [][ApiNext]_apiVars /\ ApiFairness

-----------------------------------------------------------------------------
ApiTypeOK ==
    /\ \A c \in Calls :
         /\ calls[c].pc \in {"new", "fan", "wait", "done"}
         /\ calls[c].next \in 1 .. Len(Pool) + 1 /\ calls[c].failed \in 0 .. Len(Pool)
         /\ calls[c].got \subseteq Records /\ calls[c].must \subseteq Records
    /\ \A n \in PoolNodes : card[n] \in 0 .. MaxCalls /\ recs[n] \subseteq Records /\ worker[n] \in 0 .. MaxCalls

Quiet == \A c \in Calls : ~Pending(c)

\* The nodes' copies of a metadata card differ only if a client was told 502,
\* or if two mutations of it were under way at once (src/api.c:2507: "silently
\* reporting success would let nodes drift apart without any client ever
\* finding out").  Holds although a hop that timed out is applied later.
DriftIsReported ==
    Quiet /\ ~overlapped /\ (\A c \in Calls : calls[c].op \in MetaOps => calls[c].res # 502)
        => \A m, n \in PoolNodes : card[m] = card[n]

\* A list or query answered without "partial" holds every record that was
\* stored anywhere when it began and was not deleted while it ran, although
\* the shards are read one after another (picowal_build_list_payload_fanout).
ListIsComplete ==
    \A c \in Calls : calls[c].op = "LIST" /\ calls[c].res = 200 => calls[c].must \subseteq calls[c].got

\* Every call is answered, also when the workers of two nodes wait for each
\* other: pp_http_roundtrip gives up after PP_IO_TIMEOUT_MS.
CallsEnd == \A c \in Calls : []<>(~Pending(c))
=============================================================================
