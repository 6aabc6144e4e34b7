--------------------------- MODULE ApiClusterProofs ---------------------------
(***************************************************************************)
(* Proofs about ApiCluster, for any pool, any placement of the records on  *)
(* it, any number of calls and any interleaving of the nodes' workers with *)
(* the round trips that are answered, refused or given up: the copies of a *)
(* metadata card drift apart only if a client was told, and a list that is *)
(* not marked partial is complete.                                         *)
(***************************************************************************)
EXTENDS ApiCluster, TLAPS

Statuses == {"none", "queued", "answered"}
CallRecs ==
    [op : {"none", "NEW", "LIST"} \cup MetaOps \cup RecordOps, rec : Records \cup {NoRecord}, node : PoolNodes,
     pc : {"new", "fan", "wait", "done"}, next : 1 .. Len(Pool) + 1, failed : 0 .. Len(Pool),
     got : SUBSET Records, must : SUBSET Records, res : Nat]
HopRecs == [st : Statuses, res : Nat, shard : SUBSET Records]

ApiShape ==
    /\ calls \in [Calls -> CallRecs]
    /\ hops \in [Calls -> [PoolNodes -> HopRecs]]
    /\ card \in [PoolNodes -> 0 .. MaxCalls]
    /\ recs \in [PoolNodes -> SUBSET Records]
    /\ worker \in [PoolNodes -> 0 .. MaxCalls]
    /\ overlapped \in BOOLEAN

\* Where a call is: one that visits no node has no hop; every round trip that
\* failed was with a node the loop has passed; a call that waits, waits for a
\* node of the pool.
CallOK(c) ==
    /\ calls[c].pc = "new" => calls[c].op = "none"
    /\ calls[c].op \in {"none", "NEW"} => ~ Pending(c) /\ \A n \in PoolNodes : hops[c][n].st = "none"
    /\ calls[c].failed < calls[c].next
    /\ calls[c].op \in RecordOps => calls[c].rec \in Records
    /\ calls[c].pc = "wait" /\ calls[c].op \notin RecordOps => calls[c].next <= Len(Pool)

\* Record r is on a node the loop visits from position k on.
Ahead(r, k) == \E i \in k .. Len(Pool) : r \in recs[Pool[i]]

\* A list that has missed no node has, or has in the answer it is about to
\* read, or has ahead of it every record it must show.
ListOK(c) ==
    calls[c].op = "LIST" =>
        /\ Pending(c) => calls[c].res = 0
        /\ Pending(c) /\ calls[c].failed = 0 =>
             \A r \in calls[c].must : r \in calls[c].got \/ Ahead(r, calls[c].next)
        /\ calls[c].pc = "wait" /\ calls[c].failed = 0 /\ hops[c][Pool[calls[c].next]].st = "answered" =>
             \A r \in calls[c].must :
                r \in calls[c].got \/ r \in hops[c][Pool[calls[c].next]].shard \/ Ahead(r, calls[c].next + 1)
        /\ calls[c].res = 200 => calls[c].must \subseteq calls[c].got

\* What a metadata mutation leaves in the card.
Value(c) == IF calls[c].op = "DELETE" THEN 0 ELSE c
MetaPending(c) == calls[c].op \in MetaOps /\ Pending(c)

\* Metadata mutations came one at a time, and none has missed a node.
Clean ==
    /\ ~ overlapped
    /\ \A c \in Calls : calls[c].op \in MetaOps => calls[c].res # 502 /\ (Pending(c) => calls[c].failed = 0)

\* As long as that is so: one mutation is under way, and the nodes it has
\* passed have its value; no hop is left behind in a peer's socket.
CopiesOK ==
    Clean =>
        /\ \A c, d \in Calls : MetaPending(c) /\ MetaPending(d) => c = d
        /\ (\A c \in Calls : ~ MetaPending(c)) => \A m, n \in PoolNodes : card[m] = card[n]
        /\ \A c \in Calls : MetaPending(c) =>
             /\ card[calls[c].node] = Value(c)
             /\ \A i \in 1 .. calls[c].next - 1 : card[Pool[i]] = Value(c)
             /\ calls[c].pc = "wait" /\ hops[c][Pool[calls[c].next]].st = "answered"
                  /\ PeerOk(calls[c].op, hops[c][Pool[calls[c].next]].res) => card[Pool[calls[c].next]] = Value(c)
        /\ \A c \in Calls : \A n \in PoolNodes : calls[c].op \in MetaOps /\ hops[c][n].st = "queued" =>
             calls[c].pc = "wait" /\ n = Pool[calls[c].next]

\* The inductive invariant.
ApiInv ==
    /\ ApiShape
    /\ \A c \in Calls : CallOK(c) /\ ListOK(c)
    /\ CopiesOK

-----------------------------------------------------------------------------
\* A position of the configured order is a node.
LEMMA PositionIsNode ==
    /\ \A i \in 1 .. Len(Pool) : Pool[i] \in PoolNodes
    /\ Pool[1] \in PoolNodes /\ 1 \in 1 .. Len(Pool) + 1 /\ 0 \in 0 .. Len(Pool)
BY ApiClusterAssumption DEF PoolNodes

\* A status is a number, and tells an error from what the node applied.
LEMMA StatusIsNat ==
    ASSUME NEW op \in MetaOps \cup RecordOps, NEW t
    PROVE  /\ StatusOf(op, t) \in {201, 204, 404, 409} /\ StatusOf(op, t) \in Nat
           /\ StatusOf(op, t) # 502 /\ StatusOf(op, t) # 200
BY DEF StatusOf, MetaOps, RecordOps

\* The same, for a card or record of a node.
LEMMA LocalIsNat ==
    ASSUME NEW op \in MetaOps \cup RecordOps, NEW n, NEW r
    PROVE  /\ LocalStatus(op, n, r) \in {201, 204, 404, 409} /\ LocalStatus(op, n, r) \in Nat
           /\ LocalStatus(op, n, r) # 502 /\ LocalStatus(op, n, r) # 200
BY StatusIsNat DEF LocalStatus

\* A record call answers for itself; a new call is a call of the pool.
LEMMA CallIsTyped ==
    ASSUME NEW op \in {"NEW", "LIST"} \cup MetaOps \cup RecordOps, NEW n \in PoolNodes, NEW r \in Records \cup {NoRecord}
    PROVE  /\ Call(op, n, r) \in CallRecs
           /\ Call(op, n, r).op = op /\ Call(op, n, r).node = n /\ Call(op, n, r).rec = r
           /\ Call(op, n, r).next = 1 /\ Call(op, n, r).failed = 0 /\ Call(op, n, r).res = 0
           /\ Call(op, n, r).got = {} /\ Call(op, n, r).must = {} /\ Call(op, n, r).pc = "new"
<1>1. /\ Call(op, n, r).op = op /\ Call(op, n, r).node = n /\ Call(op, n, r).rec = r
      /\ Call(op, n, r).next = 1 /\ Call(op, n, r).failed = 0 /\ Call(op, n, r).res = 0
      /\ Call(op, n, r).got = {} /\ Call(op, n, r).must = {} /\ Call(op, n, r).pc = "new"
    BY Zenon DEF Call, NoCall
<1>2. Call(op, n, r) \in CallRecs
    BY PositionIsNode, Zenon DEF Call, NoCall, CallRecs
<1> QED BY <1>1, <1>2, Zenon

\* Of the node's volume only what the mutation names changes, and what it
\* leaves is typed.
LEMMA AppliedChanges ==
    ASSUME ApiShape, NEW c \in Calls, NEW op \in {"LIST"} \cup MetaOps \cup RecordOps, NEW n \in PoolNodes,
           NEW r, op \in RecordOps => r \in Records, AppliedAt(c, op, n, r)
    PROVE  /\ card' \in [PoolNodes -> 0 .. MaxCalls] /\ recs' \in [PoolNodes -> SUBSET Records]
           /\ \A m \in PoolNodes : \A q \in recs[m] : q \in recs'[m] \/ (op = "rDELETE" /\ q = r)
           /\ op \notin MetaOps => card' = card
           /\ op \in MetaOps /\ LocalStatus(op, n, r) >= 400 => card' = card
           /\ op \in MetaOps /\ LocalStatus(op, n, r) < 400 =>
                card' = [card EXCEPT ![n] = IF op = "DELETE" THEN 0 ELSE c]
<1>1. c \in 0 .. MaxCalls /\ 0 \in 0 .. MaxCalls
    BY ApiClusterAssumption DEF Calls
<1>2. card' = IF op \in MetaOps /\ LocalStatus(op, n, r) < 400
              THEN [card EXCEPT ![n] = IF op = "DELETE" THEN 0 ELSE c] ELSE card
    BY Zenon DEF AppliedAt
<1>3. card' \in [PoolNodes -> 0 .. MaxCalls]
    BY <1>1, <1>2, Zenon DEF ApiShape
<1>4. op \in MetaOps /\ LocalStatus(op, n, r) >= 400 => ~ (LocalStatus(op, n, r) < 400)
    BY LocalIsNat
<1>5. recs \in [PoolNodes -> SUBSET Records]
    BY Zenon DEF ApiShape
<1>6. CASE op \in {"rPUT", "rPOST"}
    <2>1. recs' = [recs EXCEPT ![n] = recs[n] \cup {r}] /\ r \in Records
        BY <1>6, Zenon DEF AppliedAt, RecordOps
    <2>2. recs' \in [PoolNodes -> SUBSET Records] /\ \A m \in PoolNodes : recs[m] \subseteq recs'[m]
        BY <2>1, <1>5, Zenon
    <2> QED BY <1>2, <1>3, <1>4, <2>2
<1>7. CASE op = "rDELETE"
    <2>1. recs' = [recs EXCEPT ![n] = recs[n] \ {r}]
        BY <1>7, Zenon DEF AppliedAt
    <2>2. recs' \in [PoolNodes -> SUBSET Records]
        BY <2>1, <1>5, Zenon
    <2>3. \A m \in PoolNodes : \A q \in recs[m] : q \in recs'[m] \/ q = r
        BY <2>1, <1>5, Zenon
    <2> QED BY <1>2, <1>3, <1>4, <1>7, <2>2, <2>3
<1>8. CASE op \notin {"rPUT", "rPOST", "rDELETE"}
    <2>1. recs' = recs
        BY <1>8, Zenon DEF AppliedAt
    <2> QED BY <1>2, <1>3, <1>4, <1>5, <2>1
<1> QED BY <1>6, <1>7, <1>8, Zenon

\* What a deletion excuses the lists under way from.
LEMMA ExcusedCalls ==
    ASSUME ApiShape, NEW op, NEW r, NEW d \in Calls
    PROVE  /\ Excused(op, r) \in [Calls -> CallRecs]
           /\ Excused(op, r)[d].op = calls[d].op /\ Excused(op, r)[d].rec = calls[d].rec
           /\ Excused(op, r)[d].node = calls[d].node /\ Excused(op, r)[d].pc = calls[d].pc
           /\ Excused(op, r)[d].next = calls[d].next /\ Excused(op, r)[d].failed = calls[d].failed
           /\ Excused(op, r)[d].got = calls[d].got /\ Excused(op, r)[d].res = calls[d].res
           /\ Excused(op, r)[d].must \subseteq calls[d].must
           /\ op = "rDELETE" => r \notin Excused(op, r)[d].must
<1> SUFFICES ASSUME NEW b \in Calls
             PROVE  /\ Excused(op, r)[b] \in CallRecs
                    /\ Excused(op, r)[b].op = calls[b].op /\ Excused(op, r)[b].rec = calls[b].rec
                    /\ Excused(op, r)[b].node = calls[b].node /\ Excused(op, r)[b].pc = calls[b].pc
                    /\ Excused(op, r)[b].next = calls[b].next /\ Excused(op, r)[b].failed = calls[b].failed
                    /\ Excused(op, r)[b].got = calls[b].got /\ Excused(op, r)[b].res = calls[b].res
                    /\ Excused(op, r)[b].must \subseteq calls[b].must
                    /\ op = "rDELETE" => r \notin Excused(op, r)[b].must
    BY Zenon DEF Excused
<1>1. calls[b] \in CallRecs
    BY Zenon DEF ApiShape
<1>2. Excused(op, r)[b] = IF op = "rDELETE" THEN [calls[b] EXCEPT !.must = calls[b].must \ {r}] ELSE calls[b]
    BY Zenon DEF Excused
<1> QED BY <1>1, <1>2 DEF CallRecs

-----------------------------------------------------------------------------
\* A step leaves call d where it is, and its round trips; at most it excuses
\* the call from records.
Alike(d) ==
    /\ calls'[d].op = calls[d].op /\ calls'[d].rec = calls[d].rec /\ calls'[d].node = calls[d].node
    /\ calls'[d].pc = calls[d].pc /\ calls'[d].next = calls[d].next /\ calls'[d].failed = calls[d].failed
    /\ calls'[d].got = calls[d].got /\ calls'[d].res = calls[d].res
    /\ calls'[d].must \subseteq calls[d].must
    /\ hops'[d] = hops[d]

\* What a call found out about the records that are ahead of it stays true
\* when no record it must show is taken away.
LEMMA OthersKeep ==
    ASSUME ApiShape, NEW d \in Calls, CallOK(d), ListOK(d), Alike(d),
           \A m \in PoolNodes : \A q \in recs[m] : q \in recs'[m] \/ q \notin calls'[d].must
    PROVE  CallOK(d)' /\ ListOK(d)'
<1>1. CallOK(d)'
    BY Zenon DEF Alike, CallOK, Pending
<1>2. calls[d].next \in 1 .. Len(Pool) + 1 /\ Len(Pool) \in Nat
    BY ApiClusterAssumption, Zenon DEF ApiShape, CallRecs
<1>3. ASSUME NEW q \in calls'[d].must, NEW k \in Nat, k >= 1, Ahead(q, k) PROVE Ahead(q, k)'
    <2>1. PICK i \in k .. Len(Pool) : q \in recs[Pool[i]]
        BY <1>3, Zenon DEF Ahead
    <2>2. Pool[i] \in PoolNodes
        BY <1>2, <1>3, PositionIsNode
    <2> QED BY <2>1, <2>2, Zenon DEF Ahead
<1>4. (Pending(d)' <=> Pending(d)) /\ (Pending(d) => calls[d].pc \in {"fan", "wait"})
    BY Zenon DEF Alike, Pending
<1>5. ASSUME calls[d].op = "LIST" PROVE ListOK(d)'
    <2>1. Pending(d)' => calls'[d].res = 0
        BY <1>4, <1>5, Zenon DEF Alike, ListOK
    <2>2. Pending(d)' /\ calls'[d].failed = 0 =>
            \A q \in calls'[d].must : q \in calls'[d].got \/ Ahead(q, calls[d].next)'
        BY <1>2, <1>3, <1>4, <1>5 DEF Alike, ListOK
    <2>3. ASSUME calls'[d].pc = "wait" /\ calls'[d].failed = 0 /\ hops'[d][Pool[calls'[d].next]].st = "answered",
                 NEW q \in calls'[d].must
          PROVE  q \in calls'[d].got \/ q \in hops'[d][Pool[calls'[d].next]].shard \/ Ahead(q, calls[d].next + 1)'
        <3>1. q \in calls[d].got \/ q \in hops[d][Pool[calls[d].next]].shard \/ Ahead(q, calls[d].next + 1)
            BY <2>3, <1>5, Zenon DEF Alike, ListOK
        <3>2. PICK k \in Nat : k = calls[d].next + 1
            BY <1>2
        <3> QED BY <1>2, <1>3, <3>1, <3>2 DEF Alike
    <2>4. calls'[d].res = 200 => calls'[d].must \subseteq calls'[d].got
        BY <1>5, Zenon DEF Alike, ListOK
    <2> QED BY <2>1, <2>2, <2>3, <2>4 DEF Alike, ListOK, Ahead
<1> QED BY <1>1, <1>5, Zenon DEF Alike, ListOK

\* The copies of the card are none of the business of a step that changes no
\* card and no metadata mutation.
LEMMA CopiesKeep ==
    ASSUME ApiShape, CopiesOK, card' = card, overlapped' = overlapped,
           \A d \in Calls : calls[d].op \in MetaOps \/ calls'[d].op \in MetaOps => Alike(d)
    PROVE  CopiesOK'
<1> SUFFICES ASSUME Clean' PROVE CopiesOK'
    BY Zenon DEF CopiesOK
<1>1. \A d \in Calls : /\ calls'[d].op \in MetaOps <=> calls[d].op \in MetaOps
                       /\ calls'[d].op \in MetaOps =>
                            /\ Pending(d)' <=> Pending(d)
                            /\ Value(d)' = Value(d)
    BY Zenon DEF Alike, Pending, Value
<1>2. Clean
    BY <1>1 DEF Clean, Alike, Pending
<1>3. \A d \in Calls : MetaPending(d)' <=> MetaPending(d)
    BY <1>1, Zenon DEF MetaPending
<1>4. \A c, d \in Calls : MetaPending(c)' /\ MetaPending(d)' => c = d
    BY <1>2, <1>3, Zenon DEF CopiesOK
<1>5. (\A c \in Calls : ~ MetaPending(c)') => \A m, n \in PoolNodes : card'[m] = card'[n]
    BY <1>2, <1>3, Zenon DEF CopiesOK
<1>6. ASSUME NEW c \in Calls, MetaPending(c)'
      PROVE  /\ card'[calls'[c].node] = Value(c)'
             /\ \A i \in 1 .. calls'[c].next - 1 : card'[Pool[i]] = Value(c)'
             /\ calls'[c].pc = "wait" /\ hops'[c][Pool[calls'[c].next]].st = "answered"
                  /\ PeerOk(calls'[c].op, hops'[c][Pool[calls'[c].next]].res) => card'[Pool[calls'[c].next]] = Value(c)'
    <2>1. MetaPending(c) /\ Alike(c) /\ Value(c)' = Value(c)
        BY <1>1, <1>3, <1>6, Zenon DEF MetaPending
    <2> QED BY <1>2, <2>1 DEF CopiesOK, Alike
<1>7. \A c \in Calls : \A n \in PoolNodes : calls'[c].op \in MetaOps /\ hops'[c][n].st = "queued" =>
        calls'[c].pc = "wait" /\ n = Pool[calls'[c].next]
    BY <1>1, <1>2 DEF CopiesOK, Alike
<1> QED BY <1>4, <1>5, <1>6, <1>7, Zenon DEF CopiesOK

-----------------------------------------------------------------------------
(* One lemma for each kind of step. *)

\* A call that is answered at once, or waits for the owner of its record.
LEMMA AnsweredAtOnce ==
    ASSUME NEW c \in Calls, NEW op \in {"NEW"} \cup MetaOps \cup RecordOps, NEW r \in Records \cup {NoRecord}, NEW s \in Nat,
           CallOK(c), calls[c].pc = "new", hops'[c] = hops[c], op \in RecordOps => r \in Records,
           calls'[c] = Told(op, r, s)
    PROVE  /\ calls'[c] \in CallRecs /\ CallOK(c)' /\ ListOK(c)'
           /\ calls'[c].op = op /\ calls'[c].pc = "done" /\ calls'[c].res = s
<1>1. /\ Call(op, Pool[1], r) \in CallRecs
      /\ Call(op, Pool[1], r).op = op /\ Call(op, Pool[1], r).rec = r
      /\ Call(op, Pool[1], r).next = 1 /\ Call(op, Pool[1], r).failed = 0
    <2>1. op \in {"NEW", "LIST"} \cup MetaOps \cup RecordOps /\ Pool[1] \in PoolNodes
        BY PositionIsNode, Zenon
    <2>2. PICK p \in PoolNodes : p = Pool[1]
        BY <2>1, Zenon
    <2>3. /\ Call(op, p, r) \in CallRecs
          /\ Call(op, p, r).op = op /\ Call(op, p, r).rec = r
          /\ Call(op, p, r).next = 1 /\ Call(op, p, r).failed = 0
        BY <2>1, CallIsTyped
    <2> QED BY <2>2, <2>3, Zenon
<1>2. PICK k \in CallRecs : k = Call(op, Pool[1], r)
    BY <1>1, Zenon
<1>3. /\ calls'[c] \in CallRecs /\ calls'[c].op = op /\ calls'[c].rec = r /\ calls'[c].pc = "done"
      /\ calls'[c].next = 1 /\ calls'[c].failed = 0 /\ calls'[c].res = s
    BY <1>1, <1>2, Zenon DEF CallRecs, Told
<1>4. op # "LIST"
    BY Zenon DEF MetaOps, RecordOps
<1> QED BY <1>3, <1>4 DEF CallOK, ListOK, Pending

\* A step of the worker of one call, on what the node stores if at all on
\* its records, leaves the other calls as they are.
LEMMA OneCall ==
    ASSUME ApiInv, NEW c \in Calls, \A d \in Calls \ {c} : Alike(d), CallOK(c)', ListOK(c)',
           ApiShape', CopiesOK',
           \A d \in Calls \ {c} : \A m \in PoolNodes : \A q \in recs[m] : q \in recs'[m] \/ q \notin calls'[d].must
    PROVE  ApiInv'
BY OthersKeep, Zenon DEF ApiInv

\* TakeRedirected and the refused half of TakeProxied: the client is sent
\* elsewhere, or told 502.
LEMMA NothingApplied ==
    ASSUME ApiInv, NEW c \in Calls, NEW op \in RecordOps, NEW r \in Records, NEW s \in Nat,
           calls[c].pc = "new",
           hops' = hops, card' = card, recs' = recs, worker' = worker, overlapped' = overlapped,
           calls' = [calls EXCEPT ![c] = Told(op, r, s)]
    PROVE  ApiInv'
<1>1. calls'[c] = Told(op, r, s) /\ \A d \in Calls \ {c} : calls'[d] = calls[d]
    BY Zenon DEF ApiInv, ApiShape
<1>2. CallOK(c) /\ calls[c].op = "none"
    BY Zenon DEF ApiInv, CallOK
<1>3. calls'[c] \in CallRecs /\ CallOK(c)' /\ ListOK(c)' /\ calls'[c].op = op
    <2>1. op \in {"NEW"} \cup MetaOps \cup RecordOps /\ r \in Records \cup {NoRecord}
        BY Zenon
    <2> QED BY <1>1, <1>2, <2>1, AnsweredAtOnce, Zenon
<1>4. ApiShape'
    BY <1>3, Zenon DEF ApiInv, ApiShape
<1>5. \A d \in Calls \ {c} : Alike(d)
    BY <1>1, Zenon DEF Alike
<1>6. CopiesOK'
    BY <1>2, <1>3, <1>5, CopiesKeep DEF ApiInv, MetaOps, RecordOps
<1> QED BY <1>3, <1>4, <1>5, <1>6, OneCall, Zenon

\* A record call that finds its owner here.
LEMMA OwnedStep ==
    ASSUME ApiInv, NEW c \in Calls, NEW n \in PoolNodes, NEW op \in RecordOps, NEW r \in Records, TakeOwned(c, n, op, r)
    PROVE  ApiInv'
<1>1. ApiShape /\ calls[c].pc = "new" /\ hops' = hops /\ worker' = worker /\ overlapped' = overlapped
    BY Zenon DEF ApiInv, TakeOwned, Takes
<1>2. PICK s \in Nat : s = LocalStatus(op, n, r)
    BY LocalIsNat
<1>3. /\ calls'[c] = Told(op, r, s)
      /\ \A d \in Calls \ {c} : calls'[d] = Excused(op, r)[d]
      /\ calls' = [Excused(op, r) EXCEPT ![c] = calls'[c]]
    <2>1. calls' = [Excused(op, r) EXCEPT ![c] = Told(op, r, s)]
        BY <1>2, Zenon DEF TakeOwned
    <2>2. Excused(op, r) \in [Calls -> CallRecs]
        BY <1>1, ExcusedCalls, Zenon
    <2> HIDE DEF Excused
    <2> QED BY <2>1, <2>2, Zenon
<1>4. CallOK(c) /\ calls[c].op = "none"
    BY <1>1, Zenon DEF ApiInv, CallOK
<1>5. calls'[c] \in CallRecs /\ CallOK(c)' /\ ListOK(c)' /\ calls'[c].op = op
    <2>1. op \in {"NEW"} \cup MetaOps \cup RecordOps /\ r \in Records \cup {NoRecord}
        BY Zenon
    <2> QED BY <1>1, <1>3, <1>4, <2>1, AnsweredAtOnce
<1>6. AppliedAt(c, op, n, r) /\ op \notin MetaOps
    BY Zenon DEF TakeOwned, RecordOps, MetaOps
<1>7. /\ card' = card /\ recs' \in [PoolNodes -> SUBSET Records]
      /\ \A m \in PoolNodes : \A q \in recs[m] : q \in recs'[m] \/ (op = "rDELETE" /\ q = r)
    BY <1>1, <1>6, AppliedChanges, Zenon
<1>8. calls' \in [Calls -> CallRecs]
    BY <1>1, <1>3, <1>5, ExcusedCalls
<1>9. ApiShape'
    BY <1>1, <1>7, <1>8, Zenon DEF ApiShape
<1>10. \A d \in Calls \ {c} : Alike(d) /\ (op = "rDELETE" => r \notin calls'[d].must)
    BY <1>1, <1>3, ExcusedCalls DEF Alike
<1>11. CopiesOK'
    BY <1>1, <1>4, <1>5, <1>6, <1>7, <1>10, CopiesKeep DEF ApiInv, MetaOps
<1> QED BY <1>5, <1>7, <1>9, <1>10, <1>11, OneCall, Zenon

\* A record call whose connection to the owner is up.
LEMMA ProxiedStep ==
    ASSUME ApiInv, NEW c \in Calls, NEW n \in PoolNodes, NEW op \in RecordOps, NEW r \in Records, TakeProxied(c, n, op, r)
    PROVE  ApiInv'
<1>1. ApiShape /\ CallOK(c) /\ calls[c].pc = "new" /\ UNCHANGED <<card, recs, overlapped>>
    BY Zenon DEF ApiInv, TakeProxied, Takes
<1>2. CASE calls' = [calls EXCEPT ![c] = Told(op, r, 502)] /\ UNCHANGED <<hops, worker>>
    <2>1. PICK s \in Nat : s = 502
        OBVIOUS
    <2>2. calls' = [calls EXCEPT ![c] = Told(op, r, s)]
        BY <1>2, <2>1, Zenon
    <2>3. hops' = hops /\ card' = card /\ recs' = recs /\ worker' = worker /\ overlapped' = overlapped
        BY <1>1, <1>2, Zenon
    <2>4. calls[c].pc = "new"
        BY <1>1, Zenon
    <2> HIDE <1>1, <1>2
    <2> QED BY <2>2, <2>3, <2>4, NothingApplied, Zenon
<1>3. CASE /\ calls' = [calls EXCEPT ![c] = [Call(op, n, r) EXCEPT !.pc = "wait"]]
           /\ hops' = [hops EXCEPT ![c][Owner[r]].st = "queued"]
           /\ worker' = [worker EXCEPT ![n] = c]
    <2>1. PICK k \in CallRecs : k = Call(op, n, r)
        BY CallIsTyped, Zenon
    <2>2. k.op = op /\ k.rec = r /\ k.next = 1 /\ k.failed = 0
        <3>1. op \in {"NEW", "LIST"} \cup MetaOps \cup RecordOps /\ r \in Records \cup {NoRecord}
            BY Zenon
        <3> QED BY <2>1, <3>1, CallIsTyped
    <2>3. calls'[c] = [k EXCEPT !.pc = "wait"] /\ \A d \in Calls \ {c} : calls'[d] = calls[d]
        BY <1>1, <1>3, <2>1, Zenon DEF ApiShape
    <2>4. calls'[c] \in CallRecs /\ calls'[c].op = op /\ calls'[c].rec = r /\ calls'[c].next = 1 /\ calls'[c].failed = 0 /\ calls'[c].pc = "wait"
        BY <2>2, <2>3, Zenon DEF CallRecs
    <2>5. Owner[r] \in PoolNodes
        BY ApiClusterAssumption, Zenon
    <2>6. hops' \in [Calls -> [PoolNodes -> HopRecs]] /\ \A d \in Calls \ {c} : hops'[d] = hops[d]
        <3>1. PICK o \in PoolNodes : o = Owner[r]
            BY <2>5, Zenon
        <3>2. [hops[c][o] EXCEPT !.st = "queued"] \in HopRecs
            <4>1. PICK h \in HopRecs : h = hops[c][o]
                BY <1>1 DEF ApiShape
            <4> QED BY <4>1, Zenon DEF HopRecs, Statuses
        <3>3. hops' = [hops EXCEPT ![c] = [hops[c] EXCEPT ![o] = [hops[c][o] EXCEPT !.st = "queued"]]]
            BY <1>3, <3>1
        <3> QED BY <1>1, <3>2, <3>3, Zenon DEF ApiShape
    <2>7. worker' \in [PoolNodes -> 0 .. MaxCalls]
        BY <1>1, <1>3, ApiClusterAssumption DEF ApiShape, Calls
    <2>8. ApiShape'
        BY <1>1, <1>3, <2>4, <2>6, <2>7, Zenon DEF ApiShape
    <2>9. op # "LIST" /\ op \notin MetaOps /\ calls[c].op = "none"
        BY <1>1, Zenon DEF MetaOps, RecordOps, CallOK
    <2>10. CallOK(c)' /\ ListOK(c)'
        BY <2>4, <2>9 DEF CallOK, ListOK, RecordOps
    <2>11. \A d \in Calls \ {c} : Alike(d)
        BY <2>3, <2>6, Zenon DEF Alike
    <2>12. CopiesOK'
        BY <1>1, <2>4, <2>9, <2>11, CopiesKeep, Zenon DEF ApiInv, MetaOps
    <2> QED BY <1>1, <2>8, <2>10, <2>11, <2>12, OneCall
<1> QED BY <1>2, <1>3, Zenon DEF TakeProxied

\* POST without a record id.
LEMMA NewStep ==
    ASSUME ApiInv, NEW c \in Calls, NEW n \in PoolNodes, TakeNew(c, n)
    PROVE  ApiInv'
<1>1. /\ ApiShape /\ CallOK(c) /\ calls[c].pc = "new" /\ calls[c].op = "none"
      /\ hops' = hops /\ card' = card /\ worker' = worker /\ overlapped' = overlapped
    BY DEF ApiInv, TakeNew, Takes, CallOK
<1>2. PICK r \in Records \cup {NoRecord}, s \in Nat : calls' = [calls EXCEPT ![c] = Told("NEW", r, s)]
    BY DEF TakeNew
<1>3. recs' \in [PoolNodes -> SUBSET Records] /\ \A m \in PoolNodes : recs[m] \subseteq recs'[m]
    <2>1. recs' = recs \/ \E q \in Records : recs' = [recs EXCEPT ![n] = recs[n] \cup {q}]
        BY DEF TakeNew
    <2> QED BY <1>1, <2>1, Zenon DEF ApiShape
<1>4. calls'[c] = Told("NEW", r, s) /\ \A d \in Calls \ {c} : calls'[d] = calls[d]
    BY <1>1, <1>2, Zenon DEF ApiShape
<1>5. PICK op \in {"NEW"} \cup MetaOps \cup RecordOps : op = "NEW"
    BY Zenon
<1>6. op \notin MetaOps /\ op \notin RecordOps
    BY <1>5, Zenon DEF MetaOps, RecordOps
<1>7. calls'[c] \in CallRecs /\ CallOK(c)' /\ ListOK(c)' /\ calls'[c].op = op
    BY <1>1, <1>4, <1>5, <1>6, AnsweredAtOnce
<1>8. ApiShape'
    BY <1>1, <1>2, <1>3, <1>7, Zenon DEF ApiShape
<1>9. \A d \in Calls \ {c} : Alike(d)
    BY <1>1, <1>4, Zenon DEF Alike
<1>10. CopiesOK'
    BY <1>1, <1>6, <1>7, <1>9, CopiesKeep DEF ApiInv, MetaOps
<1> QED BY <1>3, <1>7, <1>8, <1>9, <1>10, OneCall, Zenon

\* A list begins: every record stored anywhere is ahead of it.
LEMMA ListStep ==
    ASSUME ApiInv, NEW c \in Calls, NEW n \in PoolNodes, TakeList(c, n)
    PROVE  ApiInv'
<1>1. /\ ApiShape /\ CallOK(c) /\ calls[c].pc = "new" /\ calls[c].op = "none"
      /\ hops' = hops /\ card' = card /\ recs' = recs /\ overlapped' = overlapped
    BY Zenon DEF ApiInv, TakeList, Takes, CallOK
<1>2. PICK op \in {"NEW", "LIST"} \cup MetaOps \cup RecordOps, r \in Records \cup {NoRecord} : op = "LIST" /\ r = NoRecord
    BY Zenon
<1>3. PICK k \in CallRecs : k = Call(op, n, r)
    BY CallIsTyped, Zenon
<1>4. k.op = "LIST" /\ k.next = 1 /\ k.failed = 0 /\ k.res = 0 /\ k.got = {}
    BY <1>2, <1>3, CallIsTyped
<1>5. PICK u : u = UNION {recs[m] : m \in PoolNodes}
    BY Zenon
<1>6. u \in SUBSET Records
    BY <1>1, <1>5, Zenon DEF ApiShape
<1>7. calls' = [calls EXCEPT ![c] = [k EXCEPT !.pc = "fan", !.must = u]] /\ worker' = [worker EXCEPT ![n] = c]
    BY <1>2, <1>3, <1>5, Zenon DEF TakeList
<1>8. /\ calls'[c] = [k EXCEPT !.pc = "fan", !.must = u]
      /\ \A d \in Calls \ {c} : calls'[d] = calls[d]
    BY <1>1, <1>7, Zenon DEF ApiShape
<1>9. /\ calls'[c] \in CallRecs /\ calls'[c].op = "LIST" /\ calls'[c].next = 1 /\ calls'[c].failed = 0
      /\ calls'[c].res = 0 /\ calls'[c].pc = "fan" /\ calls'[c].must = u
    BY <1>4, <1>6, <1>8, Zenon DEF CallRecs
<1>10. ApiShape'
    <2>1. worker' \in [PoolNodes -> 0 .. MaxCalls]
        BY <1>1, <1>7, ApiClusterAssumption DEF ApiShape, Calls
    <2>2. calls' \in [Calls -> CallRecs]
        BY <1>1, <1>7, <1>8, <1>9 DEF ApiShape
    <2> QED BY <1>1, <2>1, <2>2, Zenon DEF ApiShape
<1>11. CallOK(c)'
    BY <1>9 DEF CallOK, RecordOps
<1>12. ListOK(c)'
    <2>1. ASSUME NEW q \in u PROVE Ahead(q, 1)'
        <3>1. PICK m \in PoolNodes : q \in recs[m]
            BY <1>5, <2>1, Zenon
        <3>2. PICK i \in 1 .. Len(Pool) : m = Pool[i]
            BY DEF PoolNodes
        <3> QED BY <1>1, <3>1, <3>2, Zenon DEF Ahead
    <2> QED BY <1>9, <2>1 DEF ListOK, Ahead
<1>13. \A d \in Calls \ {c} : Alike(d)
    BY <1>1, <1>8, Zenon DEF Alike
<1>14. CopiesOK'
    BY <1>1, <1>9, <1>13, CopiesKeep DEF ApiInv, MetaOps
<1> QED BY <1>1, <1>10, <1>11, <1>12, <1>13, <1>14, OneCall, Zenon

\* A metadata mutation that only moves along the pool.
LEMMA CopiesMove ==
    ASSUME ApiShape, CopiesOK, NEW c \in Calls, card' = card, overlapped' = overlapped,
           \A d \in Calls \ {c} : Alike(d),
           MetaPending(c), MetaPending(c)', calls'[c].op = calls[c].op, calls'[c].node = calls[c].node,
           calls'[c].res = calls[c].res, calls'[c].failed = 0 => calls[c].failed = 0,
           calls'[c].failed = 0 /\ Clean =>
             /\ \A i \in 1 .. calls'[c].next - 1 : card[Pool[i]] = Value(c)
             /\ calls'[c].pc = "wait" => hops'[c][Pool[calls'[c].next]].st # "answered"
             /\ \A n \in PoolNodes : hops'[c][n].st = "queued" => calls'[c].pc = "wait" /\ n = Pool[calls'[c].next]
    PROVE  CopiesOK'
<1> SUFFICES ASSUME Clean' PROVE CopiesOK'
    BY Zenon DEF CopiesOK
<1>1. \A d \in Calls : /\ calls'[d].op = calls[d].op
                       /\ Pending(d)' <=> Pending(d)
                       /\ Value(d)' = Value(d)
                       /\ MetaPending(d)' <=> MetaPending(d)
    BY DEF Alike, Pending, Value, MetaPending
<1>2. Clean /\ calls'[c].failed = 0
    BY <1>1 DEF Clean, Alike, MetaPending
<1>3. \A d, e \in Calls : MetaPending(d)' /\ MetaPending(e)' => d = e
    BY <1>1, <1>2, Zenon DEF CopiesOK
<1>4. ASSUME NEW d \in Calls, MetaPending(d)'
      PROVE  /\ card'[calls'[d].node] = Value(d)'
             /\ \A i \in 1 .. calls'[d].next - 1 : card'[Pool[i]] = Value(d)'
             /\ ~ (calls'[d].pc = "wait" /\ hops'[d][Pool[calls'[d].next]].st = "answered")
    <2>1. d = c
        BY <1>3, <1>4, Zenon
    <2>2. card[calls[c].node] = Value(c) /\ Value(c)' = Value(c)
        BY <1>1, <1>2 DEF CopiesOK
    <2> QED BY <1>2, <2>1, <2>2, Zenon
<1>5. \A d \in Calls : \A n \in PoolNodes : calls'[d].op \in MetaOps /\ hops'[d][n].st = "queued" =>
        calls'[d].pc = "wait" /\ n = Pool[calls'[d].next]
    <2> SUFFICES ASSUME NEW d \in Calls, NEW n \in PoolNodes, calls'[d].op \in MetaOps, hops'[d][n].st = "queued"
                 PROVE  calls'[d].pc = "wait" /\ n = Pool[calls'[d].next]
        BY Zenon
    <2>1. CASE d = c
        BY <1>2, <2>1, Zenon
    <2>2. CASE d # c
        BY <1>1, <1>2, <2>2 DEF CopiesOK, Alike
    <2> QED BY <2>1, <2>2
<1> QED BY <1>3, <1>4, <1>5, Zenon DEF CopiesOK

\* The loop passes its own node.
LEMMA FanSelfStep ==
    ASSUME ApiInv, NEW c \in Calls, FanSelf(c)
    PROVE  ApiInv'
<1>1. /\ ApiShape /\ CallOK(c) /\ ListOK(c) /\ CopiesOK /\ calls[c].pc = "fan" /\ calls[c].next <= Len(Pool)
      /\ Pool[calls[c].next] = calls[c].node
      /\ hops' = hops /\ card' = card /\ recs' = recs /\ worker' = worker /\ overlapped' = overlapped
    BY Zenon DEF ApiInv, FanSelf
<1>2. PICK k \in CallRecs : k = calls[c]
    BY <1>1, Zenon DEF ApiShape
<1>3. PICK g : g = IF k.op = "LIST" THEN k.got \cup recs[k.node] ELSE k.got
    BY Zenon
<1>4. g \in SUBSET Records
    BY <1>1, <1>3, Zenon DEF ApiShape, CallRecs
<1>5. calls' = [calls EXCEPT ![c] = [k EXCEPT !.next = k.next + 1, !.got = g]]
    BY <1>2, <1>3, Zenon DEF FanSelf
<1>6. /\ calls'[c] = [k EXCEPT !.next = k.next + 1, !.got = g] /\ \A d \in Calls \ {c} : calls'[d] = calls[d]
    BY <1>1, <1>5, Zenon DEF ApiShape
<1>7. /\ calls'[c] \in CallRecs /\ calls'[c].next = k.next + 1 /\ calls'[c].got = g /\ calls'[c].pc = "fan"
      /\ calls'[c].op = k.op /\ calls'[c].rec = k.rec /\ calls'[c].node = k.node /\ calls'[c].failed = k.failed
      /\ calls'[c].must = k.must /\ calls'[c].res = k.res
    <2>1. k.next + 1 \in 1 .. Len(Pool) + 1 /\ k.pc = "fan"
        BY <1>1, <1>2, ApiClusterAssumption DEF CallRecs
    <2> QED BY <1>4, <1>6, <2>1, Zenon DEF CallRecs
<1>8. k.next \in 1 .. Len(Pool) /\ Len(Pool) \in Nat /\ k.failed \in Nat
    BY <1>1, <1>2, ApiClusterAssumption DEF CallRecs
<1>9. ApiShape'
    BY <1>1, <1>5, <1>7, Zenon DEF ApiShape
<1>10. CallOK(c)'
    BY <1>1, <1>2, <1>7, <1>8 DEF CallOK, Pending
<1>11. ListOK(c)'
    <2>1. ASSUME k.op = "LIST", k.failed = 0, NEW q \in k.must PROVE q \in g \/ Ahead(q, k.next + 1)'
        <3>1. q \in k.got \/ Ahead(q, k.next)
            BY <1>1, <1>2, <2>1, Zenon DEF ListOK, Pending
        <3>2. CASE q \in k.got
            BY <3>2, <1>3, <2>1, Zenon
        <3>3. CASE Ahead(q, k.next)
            <4>1. PICK i \in k.next .. Len(Pool) : q \in recs[Pool[i]]
                BY <3>3, Zenon DEF Ahead
            <4>2. CASE i = k.next
                BY <4>1, <4>2, <1>1, <1>2, <1>3, <2>1, Zenon
            <4>3. CASE i # k.next
                BY <4>1, <4>3, <1>1, <1>8 DEF Ahead
            <4> QED BY <4>2, <4>3
        <3> QED BY <3>1, <3>2, <3>3, Zenon
    <2> QED BY <1>1, <1>2, <1>7, <2>1 DEF ListOK, Pending, Ahead
<1>12. \A d \in Calls \ {c} : Alike(d)
    BY <1>1, <1>6, Zenon DEF Alike
<1>13. CopiesOK'
    <2>1. CASE k.op \notin MetaOps
        BY <1>1, <1>2, <1>7, <1>12, <2>1, CopiesKeep, Zenon
    <2>2. CASE k.op \in MetaOps
        <3>1. MetaPending(c) /\ MetaPending(c)'
            BY <1>1, <1>2, <1>7, <2>2, Zenon DEF MetaPending, Pending
        <3>2. ASSUME Clean PROVE \A i \in 1 .. calls'[c].next - 1 : card[Pool[i]] = Value(c)
            <4>1. card[k.node] = Value(c) /\ \A i \in 1 .. k.next - 1 : card[Pool[i]] = Value(c)
                BY <1>1, <1>2, <3>1, <3>2, Zenon DEF CopiesOK
            <4>2. \A i \in 1 .. k.next : i \in 1 .. k.next - 1 \/ i = k.next
                BY <1>8
            <4>3. calls'[c].next - 1 = k.next
                BY <1>7, <1>8
            <4> QED BY <1>1, <1>2, <4>1, <4>2, <4>3, Zenon
        <3>3. ASSUME Clean PROVE \A n \in PoolNodes : hops'[c][n].st # "queued"
            BY <1>1, <1>2, <2>2, <3>3 DEF CopiesOK
        <3> QED BY <1>1, <1>2, <1>7, <1>12, <3>1, <3>2, <3>3, CopiesMove, Zenon
    <2> QED BY <2>1, <2>2
<1> QED BY <1>1, <1>9, <1>10, <1>11, <1>12, <1>13, OneCall, Zenon

\* A call whose loop goes on to its next node.
MovesTo(k, i, j) == [k EXCEPT !.pc = "fan", !.next = i, !.failed = j]

\* It is a call, with the rest as before.
LEMMA MovedOn ==
    ASSUME NEW k \in CallRecs, NEW i \in 1 .. Len(Pool) + 1, NEW j \in 0 .. Len(Pool)
    PROVE  /\ MovesTo(k, i, j) \in CallRecs /\ MovesTo(k, i, j).next = i
           /\ MovesTo(k, i, j).got = k.got /\ MovesTo(k, i, j).pc = "fan"
           /\ MovesTo(k, i, j).op = k.op /\ MovesTo(k, i, j).rec = k.rec
           /\ MovesTo(k, i, j).node = k.node /\ MovesTo(k, i, j).failed = j
           /\ MovesTo(k, i, j).must = k.must /\ MovesTo(k, i, j).res = k.res
<1> PICK l : l = MovesTo(k, i, j)
    BY Zenon
<1>1. l.next = i /\ l.pc = "fan" /\ l.failed = j
    BY Zenon DEF CallRecs, MovesTo
<1>2. l.got = k.got /\ l.op = k.op /\ l.rec = k.rec /\ l.node = k.node /\ l.must = k.must /\ l.res = k.res
    BY Zenon DEF CallRecs, MovesTo
<1>3. l \in CallRecs
    BY Zenon DEF CallRecs, MovesTo
<1> QED BY <1>1, <1>2, <1>3, Zenon

\* The loop gives up on a node and counts it.
LEMMA MissedStep ==
    ASSUME ApiInv, NEW c \in Calls, Pending(c), calls[c].next <= Len(Pool), calls' = [calls EXCEPT ![c] = Missed(c)],
           card' = card, recs' = recs, worker' = worker, overlapped' = overlapped,
           hops' \in [Calls -> [PoolNodes -> HopRecs]], \A d \in Calls \ {c} : hops'[d] = hops[d]
    PROVE  ApiInv'
<1>1. ApiShape /\ CallOK(c) /\ ListOK(c) /\ CopiesOK
    BY Zenon DEF ApiInv
<1>2. PICK k \in CallRecs : k = calls[c]
    BY <1>1, Zenon DEF ApiShape
<1>3. /\ k.next \in 1 .. Len(Pool) /\ k.failed \in Nat /\ k.failed < k.next
      /\ k.next + 1 \in 1 .. Len(Pool) + 1 /\ k.failed + 1 \in 0 .. Len(Pool)
    BY <1>1, <1>2, ApiClusterAssumption DEF CallRecs, CallOK
<1>4. PICK i \in 1 .. Len(Pool) + 1, j \in 0 .. Len(Pool) : i = k.next + 1 /\ j = k.failed + 1
    BY <1>3, Zenon
<1>5. /\ calls'[c] = [k EXCEPT !.pc = "fan", !.next = i, !.failed = j]
      /\ \A d \in Calls \ {c} : calls'[d] = calls[d]
    BY <1>1, <1>2, <1>4, Zenon DEF ApiShape, Missed
<1>6. /\ calls'[c] \in CallRecs /\ calls'[c].next = i /\ calls'[c].got = k.got /\ calls'[c].pc = "fan"
      /\ calls'[c].op = k.op /\ calls'[c].rec = k.rec /\ calls'[c].node = k.node /\ calls'[c].failed = j
      /\ calls'[c].must = k.must /\ calls'[c].res = k.res
    <2>1. calls'[c] = MovesTo(k, i, j)
        BY <1>5, Zenon DEF MovesTo
    <2> QED BY <2>1, MovedOn
<1>7. ApiShape'
    BY <1>1, <1>6, Zenon DEF ApiShape
<1>8. j # 0 /\ j < i
    BY <1>3, <1>4
<1>9. CallOK(c)' /\ ListOK(c)'
    BY <1>1, <1>2, <1>6, <1>8 DEF CallOK, ListOK, Pending
<1>10. \A d \in Calls \ {c} : Alike(d)
    BY <1>5, Zenon DEF Alike
<1>11. CopiesOK'
    <2>1. CASE k.op \notin MetaOps
        BY <1>1, <1>2, <1>6, <1>10, <2>1, CopiesKeep, Zenon
    <2>2. CASE k.op \in MetaOps
        <3>1. MetaPending(c) /\ MetaPending(c)' /\ calls'[c].failed # 0
            BY <1>2, <1>6, <1>8, <2>2 DEF MetaPending, Pending
        <3> QED BY <1>1, <1>2, <1>6, <1>10, <3>1, CopiesMove, Zenon
    <2> QED BY <2>1, <2>2
<1> QED BY <1>7, <1>9, <1>10, <1>11, OneCall, Zenon

\* The loop comes to a peer that it reaches, or does not.
LEMMA FanPeerStep ==
    ASSUME ApiInv, NEW c \in Calls, FanPeer(c)
    PROVE  ApiInv'
<1>1. /\ ApiShape /\ CallOK(c) /\ ListOK(c) /\ CopiesOK /\ calls[c].pc = "fan" /\ calls[c].next <= Len(Pool)
      /\ card' = card /\ recs' = recs /\ worker' = worker /\ overlapped' = overlapped
    BY Zenon DEF ApiInv, FanPeer
<1>2. PICK k \in CallRecs : k = calls[c]
    BY <1>1, Zenon DEF ApiShape
<1>3. k.next \in 1 .. Len(Pool) /\ Len(Pool) \in Nat /\ k.failed \in Nat /\ k.failed < k.next
    BY <1>1, <1>2, ApiClusterAssumption DEF CallRecs, CallOK
<1>4. PICK p \in PoolNodes : p = Pool[k.next]
    BY <1>3, PositionIsNode, Zenon
<1>5. ASSUME hops' = [hops EXCEPT ![c][Pool[calls[c].next]].st = "queued"], calls' = [calls EXCEPT ![c].pc = "wait"]
      PROVE  ApiInv'
    <2>1. PICK h \in HopRecs : h = [hops[c][p] EXCEPT !.st = "queued"] /\ h.st = "queued"
        <3>1. PICK g \in HopRecs : g = hops[c][p]
            BY <1>1, Zenon DEF ApiShape
        <3>2. [g EXCEPT !.st = "queued"] \in HopRecs /\ [g EXCEPT !.st = "queued"].st = "queued"
            BY DEF HopRecs, Statuses
        <3> QED BY <3>1, <3>2, Zenon
    <2>2. hops' = [hops EXCEPT ![c] = [hops[c] EXCEPT ![p] = h]]
        BY <1>2, <1>4, <1>5, <2>1, Zenon
    <2>3. /\ hops' \in [Calls -> [PoolNodes -> HopRecs]] /\ \A d \in Calls \ {c} : hops'[d] = hops[d]
          /\ hops'[c][p] = h /\ \A n \in PoolNodes \ {p} : hops'[c][n] = hops[c][n]
        BY <1>1, <2>2, Zenon DEF ApiShape
    <2>4. /\ calls'[c] = [k EXCEPT !.pc = "wait"] /\ \A d \in Calls \ {c} : calls'[d] = calls[d]
          /\ calls' = [calls EXCEPT ![c] = [k EXCEPT !.pc = "wait"]]
        BY <1>1, <1>2, <1>5, Zenon DEF ApiShape
    <2>5. /\ calls'[c] \in CallRecs /\ calls'[c].next = k.next /\ calls'[c].got = k.got /\ calls'[c].pc = "wait"
          /\ calls'[c].op = k.op /\ calls'[c].rec = k.rec /\ calls'[c].node = k.node /\ calls'[c].failed = k.failed
          /\ calls'[c].must = k.must /\ calls'[c].res = k.res
        BY <2>4 DEF CallRecs
    <2>6. ApiShape'
        BY <1>1, <2>3, <2>4, <2>5, Zenon DEF ApiShape
    <2>7. CallOK(c)'
        BY <1>1, <1>2, <1>3, <2>5, Zenon DEF CallOK, Pending
    <2>8. ListOK(c)'
        <3>1. hops'[c][Pool[calls'[c].next]].st # "answered" /\ Pending(c) /\ Pending(c)'
            BY <1>1, <1>4, <2>1, <2>3, <2>5, Zenon DEF Pending
        <3>2. \A q : Ahead(q, k.next)' <=> Ahead(q, k.next)
            BY <1>1 DEF Ahead
        <3> QED BY <1>1, <1>2, <2>5, <3>1, <3>2, Zenon DEF ListOK, Ahead
    <2>9. \A d \in Calls \ {c} : Alike(d)
        BY <2>3, <2>4, Zenon DEF Alike
    <2>10. CopiesOK'
        <3>1. CASE k.op \notin MetaOps
            BY <1>1, <1>2, <2>5, <2>9, <3>1, CopiesKeep, Zenon
        <3>2. CASE k.op \in MetaOps
            <4>1. MetaPending(c) /\ MetaPending(c)'
                BY <1>1, <1>2, <2>5, <3>2, Zenon DEF MetaPending, Pending
            <4>2. ASSUME Clean
                  PROVE  /\ \A i \in 1 .. k.next - 1 : card[Pool[i]] = Value(c)
                         /\ \A n \in PoolNodes : hops[c][n].st # "queued"
                BY <1>1, <1>2, <3>2, <4>1, <4>2, Zenon DEF CopiesOK
            <4>3. hops'[c][Pool[calls'[c].next]].st # "answered"
                BY <1>4, <2>1, <2>3, <2>5, Zenon
            <4>4. ASSUME Clean, NEW n \in PoolNodes, hops'[c][n].st = "queued" PROVE n = Pool[calls'[c].next]
                BY <1>4, <2>3, <2>5, <4>2, <4>4
            <4> QED BY <1>1, <1>2, <2>5, <2>9, <4>1, <4>2, <4>3, <4>4, CopiesMove, Zenon
        <3> QED BY <3>1, <3>2
    <2> QED BY <1>1, <2>6, <2>7, <2>8, <2>9, <2>10, OneCall, Zenon
<1>6. ASSUME calls' = [calls EXCEPT ![c].next = @ + 1, ![c].failed = @ + 1], hops' = hops
      PROVE  ApiInv'
    <2>1. k.pc = "fan" /\ Pending(c)
        BY <1>1, <1>2, Zenon DEF Pending
    <2>2. [k EXCEPT !.next = k.next + 1, !.failed = k.failed + 1] = [k EXCEPT !.pc = "fan", !.next = k.next + 1, !.failed = k.failed + 1]
        BY <2>1, Zenon DEF CallRecs
    <2>3. calls' = [calls EXCEPT ![c] = Missed(c)]
        BY <1>1, <1>2, <1>6, <2>2, Zenon DEF Missed, ApiShape
    <2> QED BY <1>1, <1>6, <2>1, <2>3, MissedStep, Zenon DEF ApiShape
<1> QED BY <1>5, <1>6, Zenon DEF FanPeer

\* What is kept of a call that ended.
LEMMA EndedIsTyped ==
    ASSUME ApiShape, NEW c \in Calls, NEW s \in Nat, calls[c].op # "none"
    PROVE  /\ Ended(c, s) \in CallRecs /\ Ended(c, s).op = calls[c].op /\ Ended(c, s).rec = calls[c].rec
           /\ Ended(c, s).pc = "done" /\ Ended(c, s).res = s /\ Ended(c, s).next = 1 /\ Ended(c, s).failed = 0
           /\ s = 200 => Ended(c, s).got = calls[c].got /\ Ended(c, s).must = calls[c].must
<1>1. PICK k \in CallRecs : k = calls[c]
    BY Zenon DEF ApiShape
<1>2. k.op \in {"NEW", "LIST"} \cup MetaOps \cup RecordOps /\ k.rec \in Records \cup {NoRecord} /\ k.got \subseteq Records /\ k.must \subseteq Records
    BY <1>1, Zenon DEF CallRecs
<1>3. PICK p \in PoolNodes : p = Pool[1]
    BY PositionIsNode, Zenon
<1>4. PICK op \in {"NEW", "LIST"} \cup MetaOps \cup RecordOps, r \in Records \cup {NoRecord} : op = k.op /\ r = k.rec
    BY <1>2, Zenon
<1>5. PICK l \in CallRecs : l = Call(op, p, r)
    BY CallIsTyped, Zenon
<1>6. l.op = op /\ l.rec = r /\ l.next = 1 /\ l.failed = 0
    BY <1>5, CallIsTyped
<1>7. PICK m : m = [l EXCEPT !.pc = "done", !.res = s]
    BY Zenon
<1>8. m \in CallRecs /\ m.op = op /\ m.rec = r /\ m.next = 1 /\ m.failed = 0 /\ m.pc = "done" /\ m.res = s
    BY <1>6, <1>7, Zenon DEF CallRecs
<1>9. m = Told(calls[c].op, calls[c].rec, s)
    BY <1>1, <1>3, <1>4, <1>5, <1>7, Zenon DEF Told
<1> DEFINE g == IF s = 200 THEN calls[c].got ELSE {}
           u == IF s = 200 THEN calls[c].must ELSE {}
<1>10. g \in SUBSET Records /\ u \in SUBSET Records /\ (s = 200 => g = calls[c].got /\ u = calls[c].must)
    BY <1>1, <1>2, Zenon
<1>11. Ended(c, s) = [m EXCEPT !.got = g, !.must = u]
    BY <1>9, Zenon DEF Ended
<1> HIDE DEF g, u
<1>12. /\ Ended(c, s) \in CallRecs /\ Ended(c, s).op = op /\ Ended(c, s).rec = r /\ Ended(c, s).pc = "done"
       /\ Ended(c, s).res = s /\ Ended(c, s).next = 1 /\ Ended(c, s).failed = 0
       /\ Ended(c, s).got = g /\ Ended(c, s).must = u
    BY <1>8, <1>10, <1>11, ZenonT(40) DEF CallRecs
<1> QED BY <1>1, <1>4, <1>10, <1>12, Zenon

\* The owner's answer, or a 502, is passed on to the client.
LEMMA RelayedStep ==
    ASSUME ApiInv, NEW c \in Calls, NEW s \in Nat, calls[c].op \in RecordOps, calls[c].pc = "wait", Relayed(c, s),
           card' = card, recs' = recs, overlapped' = overlapped,
           hops' \in [Calls -> [PoolNodes -> HopRecs]], \A d \in Calls \ {c} : hops'[d] = hops[d]
    PROVE  ApiInv'
<1>1. ApiShape /\ CallOK(c) /\ CopiesOK /\ calls[c].op # "none" /\ calls[c].op \notin MetaOps /\ calls[c].op # "LIST"
    BY Zenon DEF ApiInv, MetaOps, RecordOps
<1>2. calls'[c] = Ended(c, s) /\ \A d \in Calls \ {c} : calls'[d] = calls[d]
    BY <1>1, Zenon DEF Relayed, ApiShape
<1>3. calls'[c] \in CallRecs /\ calls'[c].op = calls[c].op /\ calls'[c].rec = calls[c].rec
      /\ calls'[c].pc = "done" /\ calls'[c].next = 1 /\ calls'[c].failed = 0
    BY <1>1, <1>2, EndedIsTyped
<1>4. ApiShape'
    <2>1. calls' \in [Calls -> CallRecs]
        BY <1>1, <1>2, <1>3, Zenon DEF Relayed, ApiShape
    <2>2. worker' \in [PoolNodes -> 0 .. MaxCalls]
        <3>1. worker' = [worker EXCEPT ![calls[c].node] = 0] /\ 0 \in 0 .. MaxCalls
            BY ApiClusterAssumption DEF Relayed
        <3>2. worker \in [PoolNodes -> 0 .. MaxCalls]
            BY <1>1 DEF ApiShape
        <3> QED BY <3>1, <3>2, Zenon
    <2> QED BY <1>1, <2>1, <2>2, Zenon DEF ApiShape
<1>5. CallOK(c)' /\ ListOK(c)'
    BY <1>1, <1>3 DEF CallOK, ListOK, RecordOps
<1>6. \A d \in Calls \ {c} : Alike(d)
    BY <1>2, Zenon DEF Alike
<1>7. CopiesOK'
    BY <1>1, <1>3, <1>6, CopiesKeep
<1> QED BY <1>4, <1>5, <1>6, <1>7, OneCall, Zenon

\* The round trip of a waiting call is with a node of the pool.
LEMMA HopIsNode ==
    ASSUME ApiInv, NEW c \in Calls, calls[c].pc = "wait"
    PROVE  /\ HopNode(c) \in PoolNodes
           /\ calls[c].op \notin RecordOps => HopNode(c) = Pool[calls[c].next] /\ calls[c].next \in 1 .. Len(Pool)
<1>1. ApiShape /\ CallOK(c)
    BY Zenon DEF ApiInv
<1>2. calls[c].next \in 1 .. Len(Pool) + 1
    BY <1>1, Zenon DEF ApiShape, CallRecs
<1>3. CASE calls[c].op \in RecordOps
    BY <1>1, <1>3, ApiClusterAssumption, Zenon DEF CallOK, HopNode
<1>4. CASE calls[c].op \notin RecordOps
    BY <1>1, <1>2, <1>4, ApiClusterAssumption, PositionIsNode DEF CallOK, HopNode
<1> QED BY <1>3, <1>4, Zenon

\* A round trip that took too long.
LEMMA TimeoutStep ==
    ASSUME ApiInv, NEW c \in Calls, HopTimeout(c)
    PROVE  ApiInv'
<1>1. /\ calls[c].pc = "wait" /\ hops' = hops /\ card' = card /\ recs' = recs /\ overlapped' = overlapped
      /\ hops' \in [Calls -> [PoolNodes -> HopRecs]]
    BY Zenon DEF HopTimeout, ApiInv, ApiShape
<1>2. CASE calls[c].op \in RecordOps
    <2>1. PICK s \in Nat : s = 502
        OBVIOUS
    <2>2. Relayed(c, s)
        BY <1>2, <2>1 DEF HopTimeout
    <2> QED BY <1>1, <1>2, <2>2, RelayedStep, Zenon
<1>3. CASE calls[c].op \notin RecordOps
    <2>1. Pending(c) /\ calls[c].next <= Len(Pool)
        BY <1>1, <1>3, HopIsNode, ApiClusterAssumption DEF Pending
    <2>2. calls' = [calls EXCEPT ![c] = Missed(c)] /\ worker' = worker
        BY <1>3 DEF HopTimeout
    <2> QED BY <1>1, <2>1, <2>2, MissedStep, Zenon
<1> QED BY <1>2, <1>3, Zenon

\* A call whose loop goes on with what a peer's answer brought.
GoesOn(k, i, g) == [k EXCEPT !.pc = "fan", !.next = i, !.got = g]

\* It is a call, with the rest as before.
LEMMA WentOn ==
    ASSUME NEW k \in CallRecs, NEW i \in 1 .. Len(Pool) + 1, NEW g \in SUBSET Records
    PROVE  /\ GoesOn(k, i, g) \in CallRecs /\ GoesOn(k, i, g).next = i
           /\ GoesOn(k, i, g).got = g /\ GoesOn(k, i, g).pc = "fan"
           /\ GoesOn(k, i, g).op = k.op /\ GoesOn(k, i, g).rec = k.rec
           /\ GoesOn(k, i, g).node = k.node /\ GoesOn(k, i, g).failed = k.failed
           /\ GoesOn(k, i, g).must = k.must /\ GoesOn(k, i, g).res = k.res
<1> PICK l : l = GoesOn(k, i, g)
    BY Zenon
<1>1. l.next = i /\ l.pc = "fan" /\ l.got = g
    BY Zenon DEF CallRecs, GoesOn
<1>2. l.failed = k.failed /\ l.op = k.op /\ l.rec = k.rec /\ l.node = k.node /\ l.must = k.must /\ l.res = k.res
    BY Zenon DEF CallRecs, GoesOn
<1>3. l \in CallRecs
    BY Zenon DEF CallRecs, GoesOn
<1> QED BY <1>1, <1>2, <1>3, Zenon

\* A round trip that was answered: a success is counted as the node's copy or
\* as its shard, anything else as a node missed.
LEMMA AnsweredStep ==
    ASSUME ApiInv, NEW c \in Calls, HopAnswered(c)
    PROVE  ApiInv'
<1>1. /\ ApiShape /\ CallOK(c) /\ ListOK(c) /\ CopiesOK /\ calls[c].pc = "wait"
      /\ hops[c][HopNode(c)].st = "answered"
      /\ card' = card /\ recs' = recs /\ overlapped' = overlapped
    BY Zenon DEF ApiInv, HopAnswered
<1>2. PICK p \in PoolNodes : p = HopNode(c)
    BY <1>1, HopIsNode, Zenon
<1>3. PICK h \in HopRecs : h = hops[c][p]
    BY <1>1, Zenon DEF ApiShape
<1>4. h.res \in Nat /\ h.shard \subseteq Records /\ h.st = "answered"
    BY <1>1, <1>2, <1>3, Zenon DEF HopRecs
<1>5. PICK z \in HopRecs : z = NoHop /\ z.st = "none"
    <2>1. NoHop \in HopRecs /\ NoHop.st = "none"
        BY DEF NoHop, HopRecs, Statuses
    <2> QED BY <2>1, Zenon
<1>6. hops' = [hops EXCEPT ![c] = [hops[c] EXCEPT ![p] = z]]
    BY <1>2, <1>5, Zenon DEF HopAnswered
<1>7. /\ hops' \in [Calls -> [PoolNodes -> HopRecs]] /\ \A d \in Calls \ {c} : hops'[d] = hops[d]
      /\ hops'[c][p] = z /\ \A n \in PoolNodes \ {p} : hops'[c][n] = hops[c][n]
    BY <1>1, <1>6, Zenon DEF ApiShape
<1>8. CASE calls[c].op \in RecordOps
    <2>1. Relayed(c, h.res)
        BY <1>2, <1>3, <1>8, Zenon DEF HopAnswered
    <2>2. PICK s \in Nat : s = h.res
        BY <1>4
    <2> QED BY <1>1, <1>7, <1>8, <2>1, <2>2, RelayedStep, Zenon
<1>9. CASE calls[c].op \notin RecordOps
    <2>1. HopNode(c) = Pool[calls[c].next] /\ calls[c].next \in 1 .. Len(Pool) /\ Pending(c)
        BY <1>1, <1>9, HopIsNode, Zenon DEF Pending
    <2>2. worker' = worker
        BY <1>9, Zenon DEF HopAnswered
    <2>3. CASE ~ PeerOk(calls[c].op, h.res)
        <3>1. calls' = [calls EXCEPT ![c] = Missed(c)]
            BY <1>2, <1>3, <1>9, <2>3, Zenon DEF HopAnswered
        <3>2. calls[c].next <= Len(Pool)
            BY <2>1, ApiClusterAssumption
        <3> QED BY <1>1, <1>7, <2>1, <2>2, <3>1, <3>2, MissedStep, Zenon
    <2>4. CASE PeerOk(calls[c].op, h.res)
        <3>1. PICK k \in CallRecs : k = calls[c]
            BY <1>1, Zenon DEF ApiShape
        <3>2. k.next + 1 \in 1 .. Len(Pool) + 1 /\ k.next \in Nat /\ Len(Pool) \in Nat /\ k.failed \in Nat /\ k.failed < k.next
            BY <1>1, <2>1, <3>1, ApiClusterAssumption DEF CallRecs, CallOK
        <3>3. PICK i \in 1 .. Len(Pool) + 1 : i = k.next + 1
            BY <3>2, Zenon
        <3>4. PICK g \in SUBSET Records : g = k.got \cup h.shard
            BY <1>4, Zenon DEF CallRecs
        <3>5. calls' = [calls EXCEPT ![c] = GoesOn(k, i, g)]
            <4>1. calls' = [calls EXCEPT ![c] = Collected(c, h)]
                BY <1>2, <1>3, <1>9, <2>4, Zenon DEF HopAnswered
            <4>2. Collected(c, h) = GoesOn(k, i, g)
                BY <3>1, <3>3, <3>4 DEF Collected, GoesOn
            <4> QED BY <4>1, <4>2, Zenon
        <3>6. calls'[c] = GoesOn(k, i, g) /\ \A d \in Calls \ {c} : calls'[d] = calls[d]
            BY <1>1, <3>5, Zenon DEF ApiShape
        <3>7. /\ calls'[c] \in CallRecs /\ calls'[c].next = i /\ calls'[c].got = g /\ calls'[c].pc = "fan"
              /\ calls'[c].op = k.op /\ calls'[c].rec = k.rec /\ calls'[c].node = k.node /\ calls'[c].failed = k.failed
              /\ calls'[c].must = k.must /\ calls'[c].res = k.res
            BY <3>6, WentOn
        <3>8. ApiShape'
            BY <1>1, <1>7, <2>2, <3>5, <3>7, Zenon DEF ApiShape
        <3>9. CallOK(c)'
            BY <1>1, <3>1, <3>2, <3>3, <3>7 DEF CallOK, Pending
        <3>10. ListOK(c)'
            <4>1. ASSUME k.op = "LIST", k.failed = 0, NEW q \in k.must PROVE q \in g \/ Ahead(q, i)'
                <5>1. q \in k.got \/ q \in h.shard \/ Ahead(q, k.next + 1)
                    BY <1>1, <1>2, <1>3, <2>1, <3>1, <4>1, Zenon DEF ListOK
                <5> QED BY <1>1, <3>3, <3>4, <5>1, Zenon DEF Ahead
            <4> SUFFICES ASSUME k.op = "LIST"
                         PROVE  /\ k.res = 0
                                /\ k.failed = 0 => \A q \in k.must : q \in g \/ Ahead(q, i)'
                BY <3>7 DEF ListOK, Pending, Ahead
            <4>2. k.res = 0
                BY <1>1, <2>1, <3>1, Zenon DEF ListOK
            <4> QED BY <4>1, <4>2, Zenon
        <3>11. \A d \in Calls \ {c} : Alike(d)
            BY <1>7, <3>6, Zenon DEF Alike
        <3>12. CopiesOK'
            <4>1. CASE k.op \notin MetaOps
                BY <1>1, <3>1, <3>7, <3>11, <4>1, CopiesKeep, Zenon
            <4>2. CASE k.op \in MetaOps
                <5>1. MetaPending(c) /\ MetaPending(c)'
                    BY <2>1, <3>1, <3>7, <4>2, Zenon DEF MetaPending, Pending
                <5>2. ASSUME Clean, NEW j \in 1 .. i - 1 PROVE card[Pool[j]] = Value(c)
                    <6>1. card[Pool[k.next]] = Value(c) /\ \A l \in 1 .. k.next - 1 : card[Pool[l]] = Value(c)
                        BY <1>1, <1>2, <1>3, <1>4, <2>1, <2>4, <3>1, <5>1, <5>2, Zenon DEF CopiesOK
                    <6>2. j \in 1 .. k.next - 1 \/ j = k.next
                        BY <3>2, <3>3
                    <6> QED BY <6>1, <6>2, Zenon
                <5>3. ASSUME Clean, NEW n \in PoolNodes PROVE hops'[c][n].st # "queued"
                    BY <1>1, <1>2, <1>5, <1>7, <2>1, <3>1, <4>2, <5>3, Zenon DEF CopiesOK
                <5> QED BY <1>1, <3>1, <3>7, <3>11, <5>1, <5>2, <5>3, CopiesMove, Zenon
            <4> QED BY <4>1, <4>2
        <3> QED BY <1>1, <3>8, <3>9, <3>10, <3>11, <3>12, OneCall, Zenon
    <2> QED BY <2>3, <2>4
<1> QED BY <1>8, <1>9, Zenon

\* The end of the loop: a list that missed no node has nothing ahead of it; a
\* mutation that missed none has left its value everywhere; one that missed a
\* node tells its client.
LEMMA FinishStep ==
    ASSUME ApiInv, NEW c \in Calls, Finish(c)
    PROVE  ApiInv'
<1>1. /\ ApiShape /\ CallOK(c) /\ ListOK(c) /\ CopiesOK /\ calls[c].pc = "fan" /\ calls[c].next > Len(Pool) /\ Pending(c)
      /\ hops' = hops /\ card' = card /\ recs' = recs /\ overlapped' = overlapped
    BY Zenon DEF ApiInv, Finish, Pending
<1>2. PICK k \in CallRecs : k = calls[c]
    BY <1>1, Zenon DEF ApiShape
<1>3. k.next \in Nat /\ Len(Pool) \in Nat /\ k.failed \in Nat /\ k.res \in Nat /\ k.op # "none" /\ k.op # "NEW" /\ k.node \in PoolNodes
    BY <1>1, <1>2, ApiClusterAssumption DEF CallRecs, CallOK
<1> DEFINE s == IF calls[c].op = "LIST"
                THEN CASE calls[c].failed = 0 -> 200
                       [] calls[c].failed = Len(Pool) -> 500
                       [] OTHER -> 206
                ELSE IF calls[c].failed = 0 THEN calls[c].res ELSE 502
<1>4. Relayed(c, s)
    BY Zenon DEF Finish
<1>5. /\ s \in Nat
      /\ k.op = "LIST" /\ s = 200 => k.failed = 0
      /\ k.op # "LIST" => s = IF k.failed = 0 THEN k.res ELSE 502
    BY <1>2, <1>3
<1> HIDE DEF s
<1>6. calls'[c] = Ended(c, s) /\ \A d \in Calls \ {c} : calls'[d] = calls[d]
    BY <1>1, <1>4, Zenon DEF Relayed, ApiShape
<1>7. /\ calls'[c] \in CallRecs /\ calls'[c].op = k.op /\ calls'[c].rec = k.rec
      /\ calls'[c].pc = "done" /\ calls'[c].next = 1 /\ calls'[c].failed = 0 /\ calls'[c].res = s
      /\ s = 200 => calls'[c].got = k.got /\ calls'[c].must = k.must
    <2>1. PICK t \in Nat : t = s
        BY <1>5, Zenon
    <2> QED BY <1>1, <1>2, <1>3, <1>6, <2>1, EndedIsTyped
<1>8. ApiShape'
    <2>1. calls' \in [Calls -> CallRecs]
        BY <1>1, <1>4, <1>6, <1>7, Zenon DEF Relayed, ApiShape
    <2>2. worker' \in [PoolNodes -> 0 .. MaxCalls]
        <3>1. worker' = [worker EXCEPT ![calls[c].node] = 0] /\ 0 \in 0 .. MaxCalls
            BY <1>4, ApiClusterAssumption DEF Relayed
        <3>2. worker \in [PoolNodes -> 0 .. MaxCalls]
            BY <1>1 DEF ApiShape
        <3> QED BY <3>1, <3>2, Zenon
    <2> QED BY <1>1, <2>1, <2>2, Zenon DEF ApiShape
<1>9. CallOK(c)'
    BY <1>1, <1>2, <1>3, <1>7 DEF CallOK, Pending
<1>10. ListOK(c)'
    <2>1. ASSUME k.op = "LIST", s = 200 PROVE k.must \subseteq k.got
        <3>1. \A q \in k.must : q \in k.got \/ Ahead(q, k.next)
            BY <1>1, <1>2, <1>5, <2>1, Zenon DEF ListOK
        <3>2. \A q : ~ Ahead(q, k.next)
            BY <1>1, <1>2, <1>3 DEF Ahead
        <3> QED BY <3>1, <3>2
    <2> QED BY <1>7, <2>1, Zenon DEF ListOK, Pending
<1>11. \A d \in Calls \ {c} : Alike(d)
    BY <1>1, <1>6, Zenon DEF Alike
<1>12. CopiesOK'
    <2>1. CASE k.op \notin MetaOps
        BY <1>1, <1>2, <1>7, <1>11, <2>1, CopiesKeep, Zenon
    <2>2. CASE k.op \in MetaOps
        <3> SUFFICES ASSUME Clean' PROVE CopiesOK'
            BY Zenon DEF CopiesOK
        <3>1. k.op # "LIST" /\ MetaPending(c) /\ ~ MetaPending(c)'
            BY <1>1, <1>2, <1>7, <2>2, Zenon DEF MetaOps, MetaPending, Pending
        <3>2. k.failed = 0 /\ k.res # 502
            BY <1>5, <1>7, <2>2, <3>1 DEF Clean
        <3>3. \A d \in Calls \ {c} : /\ calls'[d].op = calls[d].op /\ calls'[d].res = calls[d].res
                                     /\ calls'[d].failed = calls[d].failed /\ (Pending(d)' <=> Pending(d))
                                     /\ (MetaPending(d)' <=> MetaPending(d))
            BY <1>6, Zenon DEF Pending, MetaPending
        <3>4. Clean
            BY <1>1, <1>2, <3>2, <3>3 DEF Clean
        <3>5. \A d \in Calls : ~ MetaPending(d)'
            BY <1>1, <3>1, <3>3, <3>4, Zenon DEF CopiesOK
        <3>6. \A i \in 1 .. k.next - 1 : card[Pool[i]] = Value(c)
            BY <1>1, <1>2, <3>1, <3>4, Zenon DEF CopiesOK
        <3>7. \A m \in PoolNodes : card'[m] = Value(c)
            <4> SUFFICES ASSUME NEW m \in PoolNodes PROVE card'[m] = Value(c)
                BY Zenon
            <4>1. PICK i \in 1 .. Len(Pool) : m = Pool[i]
                BY Zenon DEF PoolNodes
            <4>2. i \in 1 .. k.next - 1
                BY <1>1, <1>2, <1>3
            <4> QED BY <1>1, <3>6, <4>1, <4>2, Zenon
        <3>8. \A d \in Calls : \A n \in PoolNodes : calls'[d].op \in MetaOps /\ hops'[d][n].st = "queued" =>
                 calls'[d].pc = "wait" /\ n = Pool[calls'[d].next]
            <4> SUFFICES ASSUME NEW d \in Calls, NEW n \in PoolNodes, calls'[d].op \in MetaOps, hops'[d][n].st = "queued"
                         PROVE  calls'[d].pc = "wait" /\ n = Pool[calls'[d].next]
                BY Zenon
            <4>1. d # c
                BY <1>1, <1>2, <2>2, <3>4, Zenon DEF CopiesOK
            <4> QED BY <1>1, <1>6, <3>4, <4>1 DEF CopiesOK
        <3> QED BY <3>5, <3>7, <3>8, Zenon DEF CopiesOK
    <2> QED BY <2>1, <2>2
<1> QED BY <1>1, <1>8, <1>9, <1>10, <1>11, <1>12, OneCall, Zenon

\* A metadata mutation is applied here first: if it fails the client is told at
\* once, else the copying begins.
LEMMA MetaStep ==
    ASSUME ApiInv, NEW c \in Calls, NEW n \in PoolNodes, NEW op \in MetaOps, TakeMeta(c, n, op)
    PROVE  ApiInv'
<1>1. /\ ApiShape /\ CallOK(c) /\ CopiesOK /\ calls[c].pc = "new" /\ calls[c].op = "none" /\ ~ Pending(c)
      /\ hops' = hops /\ AppliedAt(c, op, n, NoRecord)
      /\ overlapped' = (overlapped \/ \E d \in Calls : calls[d].op \in MetaOps /\ Pending(d))
    BY DEF ApiInv, TakeMeta, Takes, CallOK, Pending
<1>2. PICK r \in Records \cup {NoRecord} : r = NoRecord
    BY Zenon
<1>3. PICK s \in Nat : s = LocalStatus(op, n, NoRecord) /\ s # 502
    BY LocalIsNat
<1>4. op \in {"NEW", "LIST"} \cup MetaOps \cup RecordOps /\ op # "LIST" /\ op \notin RecordOps /\ op \notin {"none", "NEW"}
    BY Zenon DEF MetaOps, RecordOps
<1>5. /\ card' \in [PoolNodes -> 0 .. MaxCalls] /\ recs' \in [PoolNodes -> SUBSET Records]
      /\ \A m \in PoolNodes : recs[m] \subseteq recs'[m]
      /\ s >= 400 => card' = card
      /\ s < 400 => card' = [card EXCEPT ![n] = IF op = "DELETE" THEN 0 ELSE c]
    <2>1. op \in {"LIST"} \cup MetaOps \cup RecordOps /\ op # "rDELETE"
        BY DEF MetaOps
    <2> QED BY <1>1, <1>2, <1>3, <1>4, <2>1, AppliedChanges, ZenonT(40)
<1>6. PICK x : calls' = [calls EXCEPT ![c] = x]
    BY Zenon DEF TakeMeta
<1>7. calls'[c] = x /\ \A d \in Calls \ {c} : calls'[d] = calls[d]
    BY <1>1, <1>6, Zenon DEF ApiShape
<1>8. \A d \in Calls \ {c} : Alike(d)
    BY <1>1, <1>7, Zenon DEF Alike
<1>9. Clean' => /\ Clean /\ \A d \in Calls : ~ MetaPending(d)
    <2> SUFFICES ASSUME Clean' PROVE Clean /\ \A d \in Calls : ~ MetaPending(d)
        BY Zenon
    <2>1. ~ overlapped /\ ~ \E d \in Calls : calls[d].op \in MetaOps /\ Pending(d)
        BY <1>1, Zenon DEF Clean, ApiShape
    <2>2. \A d \in Calls \ {c} : calls[d].op \in MetaOps => calls[d].res # 502
        BY <1>7 DEF Clean
    <2>3. calls[c].op \notin MetaOps
        BY <1>1, Zenon DEF MetaOps
    <2> QED BY <2>1, <2>2, <2>3 DEF Clean, MetaPending
<1>10. \A d \in Calls : \A m \in PoolNodes : Clean' /\ calls'[d].op \in MetaOps => hops'[d][m].st # "queued"
    <2> SUFFICES ASSUME NEW d \in Calls, NEW m \in PoolNodes, Clean', calls'[d].op \in MetaOps, hops'[d][m].st = "queued"
                 PROVE  FALSE
        BY Zenon
    <2>1. CASE d = c
        BY <1>1, <2>1, Zenon DEF CallOK
    <2>2. CASE d # c
        <3>1. calls[d].op \in MetaOps /\ hops[d][m].st = "queued"
            BY <1>1, <1>7, <2>2, Zenon
        <3>2. calls[d].pc = "wait"
            BY <1>1, <1>9, <3>1, Zenon DEF CopiesOK
        <3> QED BY <1>9, <3>1, <3>2 DEF MetaPending, Pending
    <2> QED BY <2>1, <2>2, Zenon
<1>11. \A d \in Calls \ {c} : MetaPending(d)' <=> MetaPending(d)
    BY <1>7, Zenon DEF MetaPending, Pending
<1>12. overlapped' \in BOOLEAN
    BY <1>1, Zenon
<1>13. CASE s >= 400
    <2>1. calls'[c] = Told(op, r, s) /\ worker' = worker
        <3>1. ~ (LocalStatus(op, n, NoRecord) < 400)
            BY <1>3, <1>13
        <3>2. calls' = [calls EXCEPT ![c] = Told(op, NoRecord, LocalStatus(op, n, NoRecord))] /\ worker' = worker
            BY <3>1 DEF TakeMeta
        <3> QED BY <1>1, <1>2, <1>3, <3>2, Zenon DEF ApiShape
    <2>2. calls'[c] \in CallRecs /\ CallOK(c)' /\ ListOK(c)' /\ calls'[c].op = op /\ calls'[c].pc = "done" /\ calls'[c].res = s
        <3>1. op \in {"NEW"} \cup MetaOps \cup RecordOps
            BY Zenon
        <3>2. (op \in RecordOps => r \in Records) /\ hops'[c] = hops[c]
            BY <1>1, <1>4, Zenon
        <3>3. CallOK(c) /\ calls[c].pc = "new" /\ calls'[c] = Told(op, r, s)
            BY <1>1, <2>1, Zenon
        <3> QED BY <3>1, <3>2, <3>3, AnsweredAtOnce
    <2>3. ApiShape'
        BY <1>1, <1>5, <1>6, <1>7, <1>12, <2>1, <2>2, Zenon DEF ApiShape
    <2>4. CopiesOK'
        <3> SUFFICES ASSUME Clean' PROVE CopiesOK'
            BY Zenon DEF CopiesOK
        <3>1. ~ MetaPending(c)'
            BY <2>2, Zenon DEF MetaPending, Pending
        <3>2. \A d \in Calls : ~ MetaPending(d)'
            BY <1>9, <1>11, <3>1, Zenon
        <3>3. \A m, l \in PoolNodes : card'[m] = card'[l]
            BY <1>1, <1>5, <1>9, <1>13 DEF CopiesOK
        <3> QED BY <1>10, <3>2, <3>3, Zenon DEF CopiesOK
    <2> QED BY <1>5, <1>8, <2>2, <2>3, <2>4, OneCall, Zenon
<1>14. CASE s < 400
    <2>1. PICK k \in CallRecs : k = Call(op, n, r)
        BY <1>4, CallIsTyped, Zenon
    <2>2. k.op = op /\ k.node = n /\ k.next = 1 /\ k.failed = 0
        BY <1>4, <2>1, CallIsTyped
    <2>3. calls'[c] = [k EXCEPT !.pc = "fan", !.res = s] /\ worker' = [worker EXCEPT ![n] = c]
        <3>1. calls' = [calls EXCEPT ![c] = [Call(op, n, NoRecord) EXCEPT !.pc = "fan", !.res = LocalStatus(op, n, NoRecord)]]
              /\ worker' = [worker EXCEPT ![n] = c]
            BY <1>3, <1>14 DEF TakeMeta
        <3> QED BY <1>1, <1>2, <1>3, <2>1, <3>1, Zenon DEF ApiShape
    <2>4. /\ calls'[c] \in CallRecs /\ calls'[c].op = op /\ calls'[c].node = n /\ calls'[c].next = 1
          /\ calls'[c].failed = 0 /\ calls'[c].pc = "fan" /\ calls'[c].res = s
        BY <2>2, <2>3, Zenon DEF CallRecs
    <2>5. ApiShape'
        <3>1. worker' \in [PoolNodes -> 0 .. MaxCalls]
            BY <1>1, <2>3, ApiClusterAssumption DEF ApiShape, Calls
        <3> QED BY <1>1, <1>5, <1>6, <1>7, <1>12, <2>4, <3>1, Zenon DEF ApiShape
    <2>6. CallOK(c)' /\ ListOK(c)'
        BY <1>4, <2>4 DEF CallOK, ListOK
    <2>7. CopiesOK'
        <3> SUFFICES ASSUME Clean' PROVE CopiesOK'
            BY Zenon DEF CopiesOK
        <3>1. MetaPending(c)'
            BY <2>4, Zenon DEF MetaPending, Pending
        <3>2. \A d \in Calls \ {c} : ~ MetaPending(d)'
            BY <1>9, <1>11, Zenon
        <3>3. card'[n] = Value(c)'
            BY <1>1, <1>5, <1>14, <2>4, Zenon DEF Value, ApiShape
        <3>4. /\ card'[calls'[c].node] = Value(c)' /\ calls'[c].pc # "wait"
              /\ \A i \in 1 .. calls'[c].next - 1 : FALSE
            BY <2>4, <3>3
        <3> QED BY <1>10, <3>1, <3>2, <3>4, Zenon DEF CopiesOK
    <2> QED BY <1>5, <1>8, <2>5, <2>6, <2>7, OneCall, Zenon
<1> QED BY <1>13, <1>14

\* A success that the loop counts for a metadata mutation means that the node
\* has its value.
LEMMA CountedIsCopied ==
    ASSUME ApiShape, NEW c \in Calls, NEW op \in MetaOps, NEW n \in PoolNodes, NEW r, AppliedAt(c, op, n, r),
           PeerOk(op, LocalStatus(op, n, r))
    PROVE  card'[n] = IF op = "DELETE" THEN 0 ELSE c
<1>1. op \in {"LIST"} \cup MetaOps \cup RecordOps /\ op \notin RecordOps /\ op \in MetaOps \cup RecordOps
    BY Zenon DEF MetaOps, RecordOps
<1>2. PICK s \in Nat : s = LocalStatus(op, n, r)
    BY <1>1, LocalIsNat
<1>3. card \in [PoolNodes -> 0 .. MaxCalls]
    BY Zenon DEF ApiShape
<1>4. CASE s < 400
    BY <1>1, <1>2, <1>3, <1>4, AppliedChanges
<1>5. CASE op = "DELETE" /\ s = 404
    <2>1. card[n] = 0
        BY <1>2, <1>5 DEF LocalStatus, StatusOf, There, MetaOps
    <2>2. card' = card
        BY <1>1, <1>2, <1>5, AppliedChanges
    <2> QED BY <1>5, <2>1, <2>2
<1> QED BY <1>2, <1>4, <1>5, Zenon DEF PeerOk

\* A worker serves a hop: for a call that still waits for it, or for one that
\* has given it up.
LEMMA ServeStep ==
    ASSUME ApiInv, NEW c \in Calls, NEW n \in PoolNodes, ServeHop(c, n)
    PROVE  ApiInv'
<1>1. /\ ApiShape /\ CallOK(c) /\ ListOK(c) /\ CopiesOK /\ hops[c][n].st = "queued"
      /\ calls' = Excused(calls[c].op, calls[c].rec) /\ worker' = worker /\ overlapped' = overlapped
    BY Zenon DEF ApiInv, ServeHop
<1>2. PICK k \in CallRecs : k = calls[c]
    BY <1>1, Zenon DEF ApiShape
<1>3. k.op \in {"LIST"} \cup MetaOps \cup RecordOps /\ (k.op \in RecordOps => k.rec \in Records)
    BY <1>1, <1>2, Zenon DEF CallOK, CallRecs
<1>4. PICK op \in {"LIST"} \cup MetaOps \cup RecordOps, r \in Records \cup {NoRecord} : op = k.op /\ r = k.rec
    BY <1>3, Zenon DEF CallRecs
<1>5. AppliedAt(c, op, n, r) /\ calls' = Excused(op, r)
    BY <1>1, <1>2, <1>4, Zenon DEF ServeHop
<1>6. /\ card' \in [PoolNodes -> 0 .. MaxCalls] /\ recs' \in [PoolNodes -> SUBSET Records]
      /\ \A m \in PoolNodes : \A q \in recs[m] : q \in recs'[m] \/ (op = "rDELETE" /\ q = r)
      /\ op \notin MetaOps => card' = card
      /\ op \in MetaOps /\ LocalStatus(op, n, r) >= 400 => card' = card
      /\ op \in MetaOps /\ LocalStatus(op, n, r) < 400 =>
           card' = [card EXCEPT ![n] = IF op = "DELETE" THEN 0 ELSE c]
    <2>1. ApiShape /\ (op \in RecordOps => r \in Records) /\ AppliedAt(c, op, n, r)
        BY <1>1, <1>3, <1>4, <1>5, Zenon
    <2> HIDE <1>1, <1>3, <1>4, <1>5
    <2> QED BY <2>1, AppliedChanges, Zenon
<1>7. calls' \in [Calls -> CallRecs]
    <2>1. ApiShape
        BY <1>1, Zenon
    <2>2. Excused(op, r) \in [Calls -> CallRecs]
        BY <2>1, ExcusedCalls, Zenon
    <2> QED BY <1>5, <2>2, Zenon
<1>8. \A d \in Calls :
        /\ calls'[d].op = calls[d].op /\ calls'[d].rec = calls[d].rec /\ calls'[d].node = calls[d].node
        /\ calls'[d].pc = calls[d].pc /\ calls'[d].next = calls[d].next /\ calls'[d].failed = calls[d].failed
        /\ calls'[d].got = calls[d].got /\ calls'[d].res = calls[d].res
        /\ calls'[d].must \subseteq calls[d].must /\ (op = "rDELETE" => r \notin calls'[d].must)
    <2> TAKE d \in Calls
    <2>1. calls'[d] = Excused(op, r)[d]
        BY <1>5, Zenon
    <2> QED BY <1>1, <2>1, ExcusedCalls
<1> DEFINE w == calls[c].pc # "wait" \/ HopNode(c) # n
           h == IF w THEN NoHop
                ELSE IF calls[c].op = "LIST" THEN [st |-> "answered", res |-> 200, shard |-> recs[n]]
                ELSE [st |-> "answered", res |-> LocalStatus(calls[c].op, n, calls[c].rec), shard |-> {}]
<1>9. hops' = [hops EXCEPT ![c] = [hops[c] EXCEPT ![n] = h]]
    BY Zenon DEF ServeHop
<1>10. /\ h \in HopRecs /\ h.st # "queued"
       /\ op = "LIST" /\ h.st = "answered" => h.shard = recs[n]
       /\ op # "LIST" /\ h.st = "answered" => h.res = LocalStatus(op, n, r)
       /\ ~ w => h.st = "answered"
    <2>1. CASE w
        <3>1. h = NoHop
            BY <2>1, Zenon
        <3> HIDE DEF h
        <3> QED BY <2>1, <3>1, Zenon DEF NoHop, HopRecs, Statuses
    <2>2. CASE ~ w /\ op = "LIST"
        <3>1. h = [st |-> "answered", res |-> 200, shard |-> recs[n]]
            BY <1>2, <1>4, <2>2, Zenon
        <3>2. recs[n] \subseteq Records
            BY <1>1, Zenon DEF ApiShape
        <3> HIDE DEF h
        <3> QED BY <2>2, <3>1, <3>2 DEF HopRecs, Statuses
    <2>3. CASE ~ w /\ op # "LIST"
        <3>1. h = [st |-> "answered", res |-> LocalStatus(calls[c].op, n, calls[c].rec), shard |-> {}]
            BY <1>2, <1>4, <2>3, Zenon
        <3>2. PICK s \in Nat : s = LocalStatus(op, n, r)
            <4>1. op \in MetaOps \cup RecordOps
                BY <2>3, Zenon
            <4> QED BY <4>1, LocalIsNat
        <3>3. h = [st |-> "answered", res |-> s, shard |-> {}]
            BY <1>2, <1>4, <3>1, <3>2, Zenon
        <3> HIDE DEF h
        <3> QED BY <2>3, <3>2, <3>3 DEF HopRecs, Statuses
    <2> QED BY <2>1, <2>2, <2>3, Zenon
<1> HIDE DEF w, h
<1>11. /\ hops' \in [Calls -> [PoolNodes -> HopRecs]] /\ \A d \in Calls \ {c} : hops'[d] = hops[d]
       /\ hops'[c][n] = h /\ \A m \in PoolNodes \ {n} : hops'[c][m] = hops[c][m]
    BY <1>1, <1>9, <1>10, Zenon DEF ApiShape
<1>12. ApiShape'
    BY <1>1, <1>6, <1>7, <1>11, Zenon DEF ApiShape
<1>13. \A d \in Calls \ {c} : Alike(d)
    BY <1>8, <1>11, Zenon DEF Alike
<1>14. CallOK(c)'
    BY <1>1, <1>2, <1>3, <1>8, Zenon DEF CallOK, Pending, MetaOps, RecordOps
<1>15. ListOK(c)'
    <2> SUFFICES ASSUME op = "LIST" PROVE ListOK(c)'
        BY <1>2, <1>4, <1>8, Zenon DEF ListOK
    <2>1. op \notin RecordOps /\ op # "rDELETE"
        BY Zenon DEF RecordOps
    <2>2. k.next \in 1 .. Len(Pool) + 1 /\ Len(Pool) \in Nat /\ k.next \in Nat
        BY <1>2, ApiClusterAssumption DEF CallRecs
    <2>3. ASSUME NEW q, NEW i \in Nat, i >= 1, Ahead(q, i) PROVE Ahead(q, i)'
        <3>1. PICK j \in i .. Len(Pool) : q \in recs[Pool[j]]
            BY <2>3, Zenon DEF Ahead
        <3>2. PICK p \in PoolNodes : p = Pool[j]
            BY <2>2, <2>3, PositionIsNode
        <3> QED BY <1>6, <2>1, <3>1, <3>2, Zenon DEF Ahead
    <2>4. (Pending(c)' <=> Pending(c)) /\ (calls[c].pc = "wait" => Pending(c))
        BY <1>8, Zenon DEF Pending
    <2>5. ASSUME Pending(c), k.failed = 0, NEW q \in calls'[c].must PROVE q \in k.got \/ Ahead(q, k.next)'
        <3>1. q \in k.got \/ Ahead(q, k.next)
            BY <1>1, <1>2, <1>4, <1>8, <2>5, Zenon DEF ListOK
        <3> QED BY <2>2, <2>3, <3>1
    <2>6. ASSUME k.pc = "wait", k.failed = 0, hops'[c][Pool[k.next]].st = "answered", NEW q \in calls'[c].must
          PROVE  q \in k.got \/ q \in hops'[c][Pool[k.next]].shard \/ Ahead(q, k.next + 1)'
        <3>1. PICK p \in PoolNodes : p = Pool[k.next]
            BY <1>1, <1>2, <1>4, <2>1, <2>2, <2>6, PositionIsNode DEF CallOK
        <3>2. CASE p = n
            <4>1. hops'[c][p].shard = recs[n]
                BY <1>10, <1>11, <2>6, <3>1, <3>2, Zenon
            <4>2. q \in k.got \/ Ahead(q, k.next)
                BY <1>1, <1>2, <1>4, <1>8, <2>4, <2>6, Zenon DEF ListOK
            <4>3. ASSUME Ahead(q, k.next) PROVE q \in recs[p] \/ Ahead(q, k.next + 1)
                <5>1. PICK j \in k.next .. Len(Pool) : q \in recs[Pool[j]]
                    BY <4>3, Zenon DEF Ahead
                <5>2. j = k.next \/ j \in k.next + 1 .. Len(Pool)
                    BY <2>2
                <5> QED BY <3>1, <5>1, <5>2, Zenon DEF Ahead
            <4>4. PICK i \in Nat : i = k.next + 1
                BY <2>2
            <4> QED BY <2>2, <2>3, <3>1, <3>2, <4>1, <4>2, <4>3, <4>4
        <3>3. CASE p # n
            <4>1. q \in k.got \/ q \in hops[c][p].shard \/ Ahead(q, k.next + 1)
                <5>1. hops[c][p].st = "answered" /\ hops[c][p] = hops'[c][p]
                    BY <1>11, <2>6, <3>1, <3>3, Zenon
                <5>2. q \in calls[c].must
                    BY <1>8, <2>6
                <5> QED BY <1>1, <1>2, <1>4, <2>6, <3>1, <5>1, <5>2, Zenon DEF ListOK
            <4>2. PICK i \in Nat : i = k.next + 1
                BY <2>2
            <4> QED BY <1>11, <2>2, <2>3, <3>1, <3>3, <4>1, <4>2
        <3> QED BY <3>2, <3>3, Zenon
    <2>7. /\ Pending(c) => calls[c].res = 0
          /\ calls[c].res = 200 => calls'[c].must \subseteq calls[c].got
        BY <1>1, <1>2, <1>4, <1>8, Zenon DEF ListOK
    <2> QED BY <1>2, <1>4, <1>8, <2>4, <2>5, <2>6, <2>7, ZenonT(40) DEF ListOK, Ahead
<1>16. CopiesOK'
    <2>1. CASE op \notin MetaOps
        BY <1>1, <1>2, <1>4, <1>6, <1>8, <1>13, <2>1, CopiesKeep, ZenonT(40)
    <2>2. CASE op \in MetaOps
        <3> SUFFICES ASSUME Clean' PROVE CopiesOK'
            BY Zenon DEF CopiesOK
        <3>1. \A d \in Calls : /\ Pending(d)' <=> Pending(d)
                               /\ MetaPending(d)' <=> MetaPending(d)
                               /\ Value(d)' = Value(d)
            BY <1>8, Zenon DEF Pending, MetaPending, Value
        <3>2. Clean
            <4>1. ~ overlapped
                BY <1>1, Zenon DEF Clean
            <4>2. ASSUME NEW d \in Calls, calls[d].op \in MetaOps
                  PROVE  calls[d].res # 502 /\ (Pending(d) => calls[d].failed = 0)
                <5>1. calls'[d].op = calls[d].op /\ calls'[d].res = calls[d].res /\ calls'[d].failed = calls[d].failed
                    BY <1>8, Zenon
                <5>2. calls'[d].op \in MetaOps => calls'[d].res # 502 /\ (Pending(d)' => calls'[d].failed = 0)
                    BY Zenon DEF Clean, MetaOps
                <5>3. Pending(d)' <=> Pending(d)
                    BY <3>1, Zenon
                <5> QED BY <4>2, <5>1, <5>2, <5>3
            <4> QED BY <4>1, <4>2, Zenon DEF Clean
        <3>3. k.pc = "wait" /\ n = Pool[k.next] /\ MetaPending(c)
            BY <1>1, <1>2, <1>4, <2>2, <3>2, Zenon DEF CopiesOK, MetaPending, Pending
        <3>4. op \notin RecordOps /\ op # "LIST"
            BY <2>2, Zenon DEF MetaOps, RecordOps
        <3>5. ~ w /\ h.res = LocalStatus(op, n, r) /\ h.st = "answered"
            BY <1>2, <1>4, <1>10, <3>3, <3>4, Zenon DEF w, HopNode
        <3>6. \A d \in Calls : MetaPending(d)' => d = c
            BY <1>1, <3>1, <3>2, <3>3, Zenon DEF CopiesOK
        <3>7. Value(c) = IF op = "DELETE" THEN 0 ELSE c
            BY <1>2, <1>4, Zenon DEF Value
        <3>8. \A m \in PoolNodes : card[m] = Value(c) => card'[m] = Value(c)
            <4>1. card \in [PoolNodes -> 0 .. MaxCalls]
                BY <1>1, Zenon DEF ApiShape
            <4>2. card' = card \/ card' = [card EXCEPT ![n] = Value(c)]
                <5>1. PICK s \in Nat : s = LocalStatus(op, n, r)
                    <6>1. op \in MetaOps \cup RecordOps
                        BY <2>2, Zenon
                    <6> QED BY <6>1, LocalIsNat
                <5> QED BY <1>6, <2>2, <3>7, <5>1
            <4> QED BY <4>1, <4>2, Zenon
        <3>9. /\ k.node \in PoolNodes /\ card[k.node] = Value(c)
              /\ k.next \in 1 .. Len(Pool) + 1 /\ \A i \in 1 .. k.next - 1 : card[Pool[i]] = Value(c)
            BY <1>1, <1>2, <3>2, <3>3, Zenon DEF CopiesOK, CallRecs
        <3>10. \A i \in 1 .. k.next - 1 : card'[Pool[i]] = Value(c)
            <4> SUFFICES ASSUME NEW i \in 1 .. k.next - 1 PROVE card'[Pool[i]] = Value(c)
                BY Zenon
            <4>1. PICK p \in PoolNodes : p = Pool[i]
                BY <3>9, ApiClusterAssumption, PositionIsNode
            <4> QED BY <3>8, <3>9, <4>1, Zenon
        <3>11. PeerOk(op, h.res) => card'[n] = Value(c)
            BY <1>1, <1>5, <2>2, <3>5, <3>7, CountedIsCopied
        <3>12. /\ card'[calls'[c].node] = Value(c)'
               /\ \A i \in 1 .. calls'[c].next - 1 : card'[Pool[i]] = Value(c)'
               /\ PeerOk(calls'[c].op, hops'[c][Pool[calls'[c].next]].res) => card'[Pool[calls'[c].next]] = Value(c)'
            <4>1. Value(c)' = Value(c) /\ calls'[c].node = k.node /\ calls'[c].next = k.next /\ calls'[c].op = op
                BY <1>2, <1>4, <1>8, <3>1, Zenon
            <4>2. hops'[c][Pool[calls'[c].next]] = h
                BY <1>11, <3>3, <4>1, Zenon
            <4> QED BY <3>3, <3>8, <3>9, <3>10, <3>11, <4>1, <4>2, Zenon
        <3>13. \A d \in Calls : \A m \in PoolNodes : calls'[d].op \in MetaOps /\ hops'[d][m].st = "queued" =>
                 calls'[d].pc = "wait" /\ m = Pool[calls'[d].next]
            <4> SUFFICES ASSUME NEW d \in Calls, NEW m \in PoolNodes, calls'[d].op \in MetaOps, hops'[d][m].st = "queued"
                         PROVE  calls'[d].pc = "wait" /\ m = Pool[calls'[d].next]
                BY Zenon
            <4>1. hops[d][m].st = "queued"
                BY <1>1, <1>10, <1>11, Zenon
            <4>2. calls[d].pc = "wait" /\ m = Pool[calls[d].next]
                BY <1>1, <1>8, <3>2, <4>1, Zenon DEF CopiesOK
            <4> QED BY <1>8, <4>2, Zenon
        <3>14. \E d \in Calls : MetaPending(d)'
            BY <3>1, <3>3
        <3> QED BY <3>6, <3>12, <3>13, <3>14, Zenon DEF CopiesOK
    <2> QED BY <2>1, <2>2, Zenon
<1>17. \A d \in Calls \ {c} : \A m \in PoolNodes : \A q \in recs[m] : q \in recs'[m] \/ q \notin calls'[d].must
    BY <1>6, <1>8
<1> QED BY <1>12, <1>13, <1>14, <1>15, <1>16, <1>17, OneCall, Zenon

-----------------------------------------------------------------------------
\* The invariant holds at first, with no call made.
LEMMA ApiInitSound == ApiInit => ApiInv
<1> SUFFICES ASSUME ApiInit PROVE ApiInv
    BY Zenon
<1>1. NoCall \in CallRecs /\ NoCall.op = "none" /\ NoCall.pc = "new" /\ NoCall.failed = 0 /\ NoCall.next = 1
    BY PositionIsNode, Zenon DEF NoCall, CallRecs
<1>2. NoHop \in HopRecs /\ NoHop.st = "none"
    BY Zenon DEF NoHop, HopRecs, Statuses
<1>3. \A c \in Calls : calls[c] = NoCall /\ \A n \in PoolNodes : hops[c][n] = NoHop
    BY Zenon DEF ApiInit
<1>4. ApiShape
    <2>1. calls \in [Calls -> CallRecs] /\ hops \in [Calls -> [PoolNodes -> HopRecs]]
        BY <1>1, <1>2, Zenon DEF ApiInit
    <2>2. card \in [PoolNodes -> 0 .. MaxCalls] /\ recs \in [PoolNodes -> SUBSET Records] /\ worker \in [PoolNodes -> 0 .. MaxCalls]
        BY ApiClusterAssumption DEF ApiInit
    <2> QED BY <2>1, <2>2, Zenon DEF ApiInit, ApiShape
<1>5. \A c \in Calls : CallOK(c) /\ ListOK(c)
    BY <1>1, <1>2, <1>3 DEF CallOK, ListOK, Pending, RecordOps
<1>6. CopiesOK
    <2>1. \A c \in Calls : calls[c].op \notin MetaOps /\ ~ MetaPending(c)
        BY <1>1, <1>3, Zenon DEF MetaPending, MetaOps
    <2>2. \A m, n \in PoolNodes : card[m] = card[n]
        BY DEF ApiInit
    <2> QED BY <2>1, <2>2, Zenon DEF CopiesOK
<1> QED BY <1>4, <1>5, <1>6, Zenon DEF ApiInv

\* Every step preserves it.
LEMMA ApiStepSound == ApiInv /\ [ApiNext]_apiVars => ApiInv'
<1> SUFFICES ASSUME ApiInv, [ApiNext]_apiVars PROVE ApiInv'
    BY Zenon
<1>1. ASSUME NEW c \in Calls, Step(c) PROVE ApiInv'
    BY <1>1, FanSelfStep, FanPeerStep, AnsweredStep, TimeoutStep, FinishStep, Zenon DEF Step
<1>2. ASSUME NEW c \in Calls, NEW n \in PoolNodes, ServeHop(c, n) \/ TakeNew(c, n) \/ TakeList(c, n) PROVE ApiInv'
    BY <1>2, ServeStep, NewStep, ListStep, Zenon
<1>3. ASSUME NEW c \in Calls, NEW n \in PoolNodes, NEW op \in MetaOps, TakeMeta(c, n, op) PROVE ApiInv'
    BY <1>3, MetaStep, Zenon
<1>4. ASSUME NEW c \in Calls, NEW n \in PoolNodes, NEW op \in RecordOps, NEW r \in Records,
             TakeOwned(c, n, op, r) \/ TakeProxied(c, n, op, r)
      PROVE  ApiInv'
    BY <1>4, OwnedStep, ProxiedStep, Zenon
<1>5. ASSUME NEW c \in Calls, NEW n \in PoolNodes, NEW op \in RecordOps, NEW r \in Records, TakeRedirected(c, n, op, r)
      PROVE  ApiInv'
    <2>1. PICK s \in Nat : s = 307
        OBVIOUS
    <2>2. /\ calls' = [calls EXCEPT ![c] = Told(op, r, s)] /\ calls[c].pc = "new"
          /\ hops' = hops /\ card' = card /\ recs' = recs /\ worker' = worker /\ overlapped' = overlapped
        BY <1>5, <2>1, Zenon DEF TakeRedirected, Takes
    <2> HIDE <1>5
    <2> QED BY <2>2, NothingApplied, Zenon
<1>6. CASE UNCHANGED apiVars
    <2>1. /\ calls' = calls /\ hops' = hops /\ card' = card /\ recs' = recs /\ worker' = worker
          /\ overlapped' = overlapped /\ ApiShape
        BY <1>6, Zenon DEF apiVars, ApiInv
    <2>2. \A d \in Calls : Alike(d)
        BY <2>1, Zenon DEF Alike
    <2>3. ApiShape'
        BY <2>1, Zenon DEF ApiShape
    <2>4. CopiesOK'
        BY <2>1, <2>2, CopiesKeep, Zenon DEF ApiInv
    <2>5. \A d \in Calls : CallOK(d)' /\ ListOK(d)'
        BY <2>1, <2>2, OthersKeep, Zenon DEF ApiInv
    <2> QED BY <2>3, <2>4, <2>5 DEF ApiInv
<1> QED BY <1>1, <1>2, <1>3, <1>4, <1>5, <1>6, Zenon DEF ApiNext

\* The invariant holds throughout.
LEMMA ApiInvariant == ApiSpec => []ApiInv
BY ApiInitSound, ApiStepSound, PTL DEF ApiSpec

\* Once no call is under way the nodes' copies of a metadata card differ only if
\* two mutations overlapped or a client was told 502, whatever hops were lost,
\* late or refused: replicate_metadata_or_502 keeps the promise of its comment
\* in any pool.
THEOREM DriftIsAlwaysReported == ApiSpec => []DriftIsReported
<1>1. ApiInv => DriftIsReported
    <2> SUFFICES ASSUME ApiInv, Quiet, ~ overlapped, \A c \in Calls : calls[c].op \in MetaOps => calls[c].res # 502
                 PROVE  \A m, n \in PoolNodes : card[m] = card[n]
        BY Zenon DEF DriftIsReported
    <2>1. \A c \in Calls : ~ Pending(c) /\ ~ MetaPending(c)
        BY Zenon DEF Quiet, MetaPending
    <2>2. Clean
        BY <2>1 DEF Clean
    <2> QED BY <2>1, <2>2, Zenon DEF ApiInv, CopiesOK
<1> QED BY <1>1, ApiInvariant, PTL

\* A list or query whose answer is not marked partial shows every record that
\* was stored on any node when it began and was not deleted while the shards
\* were read one after another (picowal_build_list_payload_fanout).
THEOREM ListsAreComplete == ApiSpec => []ListIsComplete
<1>1. ApiInv => ListIsComplete
    BY Zenon DEF ApiInv, ListOK, ListIsComplete
<1> QED BY <1>1, ApiInvariant, PTL
===============================================================================
