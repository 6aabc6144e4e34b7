----------------------------- MODULE UringServer -----------------------------
(***************************************************************************)
(* The worker of the io_uring build (src/src/server_uring.c): the          *)
(* submission and completion rings, the connection slots, and the kernel   *)
(* and the clients behind them.                                            *)
(*                                                                         *)
(* A client sends the units of its script: "half" leaves a request         *)
(* unfinished, "get" completes one, "bad" completes one that is refused.   *)
(* Whether a unit has been sent yet shows only when a recv completes, so   *)
(* clients have no steps of their own.  A completion that arrives during a *)
(* pass over the completion ring is seen in the next pass; here it arrives *)
(* between passes.                                                         *)
(*                                                                         *)
(* X_bug, next to X, is X with a mistake the code could have.              *)
(***************************************************************************)
EXTENDS Integers, FiniteSets, Sequences, SequencesExt

CONSTANTS
    UringCap,      \* pool_cap
    SqEntries,     \* entries of the submission ring
    ReadBuf,       \* METAL_READ_BUF, in units
    UringMaxReq,   \* max_requests_per_conn; 0 is no limit
    Rings          \* the set-ups: [sqpoll, zc, zcok, peers]; the peers are the clients, a sequence
                   \* of [units, ends] in the order they connect

ASSUME UringAssumption ==
    /\ UringCap \in Nat \ {0} /\ SqEntries \in Nat \ {0} /\ ReadBuf \in Nat \ {0}
    /\ UringMaxReq \in Nat
    /\ \A r \in Rings : r.sqpoll \in BOOLEAN /\ r.zc \in BOOLEAN /\ r.zcok \in BOOLEAN

USlots == 1..UringCap

VARIABLES
    ring,    \* the set-up: SQPOLL or not, whether the kernel knows SENDMSG_ZC, the clients
    usezc,   \* g_uring_zc_threshold > 0
    uconn,   \* conn_t, per slot; fd 0 in a free one
    ufree,   \* the pool's free list, its head first
    sq,      \* the submission ring
    pend,    \* pending_submit, and to_submit during a pass
    flight,  \* what the kernel took from sq and has not completed
    cq,      \* the completion ring
    left,    \* completions the pass has still to look at
    upc,     \* "enter" before io_uring_enter, "block" in it, "pass" in the loop over cq
    peer,    \* per client: still to be received, answer units got, state of the socket
    dialled  \* how many clients have been accepted

uringVars == <<ring, usezc, uconn, ufree, sq, pend, flight, cq, left, upc, peer, dialled>>

-----------------------------------------------------------------------------
(* Requests and answers.                                                   *)

\* http_parse: the length of the request at the front of buf, 0 if it is unfinished.
FirstRequest(buf) ==
    LET ends == {i \in DOMAIN buf : buf[i][1] # "half"}
    IN  IF ends = {} THEN 0 ELSE CHOOSE i \in ends : \A j \in ends : i <= j

\* The segments of an answer, named for the unit that completed the request.
Segments(unit) ==
    IF unit[1] = "get" THEN <<<<"head", unit[2]>>, <<"body", unit[2]>>>>
    ELSE <<<<"error", unit[2]>>>>

Idle == [fd |-> 0, st |-> "reading", buf |-> <<>>, segs |-> <<>>, sent |-> 0,
         closing |-> FALSE, reqs |-> 0, waszc |-> FALSE]

\* conn_init_new; in_flight and last_was_zc are not part of conn_t and stay.
InitNew(c, f) == [Idle EXCEPT !.fd = f, !.waszc = c.waszc]


\* conn_reset_for_next.
ResetForNext(c) == [c EXCEPT !.segs = <<>>, !.sent = 0, !.st = "reading"]

\* dispatch_one: nothing changes while the request is unfinished.
UDispatchOne(c) ==
    LET n    == FirstRequest(c.buf)
        unit == c.buf[n]
    IN  IF n = 0 THEN c
        ELSE
            [c EXCEPT !.reqs = @ + 1, !.segs = Segments(unit), !.sent = 0, !.st = "writing",
                      !.closing = unit[1] = "bad" \/ (UringMaxReq > 0 /\ c.reqs + 1 >= UringMaxReq),
                      !.buf = IF unit[1] = "get" THEN SubSeq(@, n + 1, Len(@)) ELSE <<>>]

-----------------------------------------------------------------------------
(* Submission.  x is [usezc, uconn, ufree, sq, pend].                      *)

\* ring_get_sqe and ring_publish: a full ring drops the operation.
Publish(x, sqe) ==
    IF Len(x.sq) >= SqEntries THEN x
    ELSE [x EXCEPT !.sq = Append(@, sqe), !.pend = @ + 1]

Sqe(op, s, f) == [op |-> op, idx |-> s, fd |-> f, room |-> 0, data |-> <<>>, zc |-> FALSE]

SubmitAccept(x) == Publish(x, Sqe("accept", 0, 0))

SubmitRecv(x, s) ==
    LET c == x.uconn[s]
    IN  Publish(x, [Sqe("recv", s, c.fd) EXCEPT !.room = ReadBuf - Len(c.buf)])

SubmitClose(x, s) == Publish(x, Sqe("close", s, x.uconn[s].fd))

SubmitSend_bug(x, s) ==
    LET c == x.uconn[s]
        y == Publish(x, [Sqe("send", s, c.fd) EXCEPT !.data = c.segs, !.zc = x.usezc])
    IN  IF y = x THEN x ELSE [y EXCEPT !.uconn[s].waszc = x.usezc]

\* submit_sendmsg: what is behind bytes_sent; last_was_zc is set when the SQE was published.
SubmitSend(x, s) ==
    LET c    == x.uconn[s]
        rest == SubSeq(c.segs, c.sent + 1, Len(c.segs))
        y    == Publish(x, [Sqe("send", s, c.fd) EXCEPT !.data = rest, !.zc = x.usezc])
    IN  IF rest = <<>> THEN x
        ELSE IF y = x THEN x
        ELSE [y EXCEPT !.uconn[s].waszc = x.usezc]

\* The close of a connection: its slot is free before the close has completed.
HangUp(x, s) ==
    LET y == SubmitClose(x, s)
    IN  [y EXCEPT !.uconn[s] = [Idle EXCEPT !.waszc = x.uconn[s].waszc], !.ufree = <<s>> \o @]

-----------------------------------------------------------------------------
(* The loop over the completions, one branch per operation.                *)

\* OP_ACCEPT; when the pool is exhausted the new socket is closed on the spot.
Accepted(x, cqe) ==
    LET y == SubmitAccept(x)
        s == Head(x.ufree)
    IN  IF cqe.res # "ok" \/ x.ufree = <<>> THEN y
        ELSE SubmitRecv([y EXCEPT !.ufree = Tail(@), !.uconn[s] = InitNew(@, cqe.fd)], s)

\* What follows a dispatch_one.
Proceed(x, s) == IF x.uconn[s].st = "writing" THEN SubmitSend(x, s) ELSE SubmitRecv(x, s)

\* OP_RECV.
Received(x, cqe) ==
    LET s == cqe.idx
    IN  IF cqe.res # "ok" THEN HangUp(x, s)
        ELSE Proceed([x EXCEPT !.uconn[s] = UDispatchOne([@ EXCEPT !.buf = @ \o cqe.data])], s)

NextOnConn_bug(x, s) == SubmitRecv([x EXCEPT !.uconn[s] = ResetForNext(@)], s)

\* A finished answer on a connection that stays: the pipelined request, or the next recv.
NextOnConn(x, s) ==
    LET c == ResetForNext(x.uconn[s])
    IN  Proceed([x EXCEPT !.uconn[s] = IF c.buf # <<>> THEN UDispatchOne(c) ELSE c], s)

Outcome_bug(x, cqe) ==
    LET s == cqe.idx
        y == [x EXCEPT !.uconn[s].sent = @ + Len(cqe.data)]
    IN  IF cqe.res = "inval" /\ x.uconn[s].waszc /\ x.usezc THEN SubmitSend([x EXCEPT !.usezc = FALSE], s)
        ELSE IF cqe.res # "ok" \/ x.uconn[s].closing THEN HangUp(y, s)
        ELSE NextOnConn(y, s)

\* The result of a send: the fallback to plain sends, a close, the rest, or the next request.
Outcome(x, cqe) ==
    LET s == cqe.idx
        y == [x EXCEPT !.uconn[s].sent = @ + Len(cqe.data)]
        c == y.uconn[s]
    IN  IF cqe.res = "inval" /\ c.waszc /\ x.usezc THEN SubmitSend([x EXCEPT !.usezc = FALSE], s)
        ELSE IF cqe.res # "ok" THEN HangUp(x, s)
        ELSE IF c.sent < Len(c.segs) THEN SubmitSend(y, s)
        ELSE IF c.closing THEN HangUp(y, s)
        ELSE NextOnConn(y, s)

SentSome_bug(x, cqe) == Outcome(x, cqe)

\* OP_SEND.  The notification that ends a zero-copy send is skipped.
SentSome(x, cqe) == IF cqe.notif THEN x ELSE Outcome(x, cqe)

Handled(x, cqe) ==
    CASE cqe.op = "accept" -> Accepted(x, cqe)
      [] cqe.op = "recv"   -> Received(x, cqe)
      [] cqe.op = "send"   -> SentSome(x, cqe)
      [] cqe.op = "close"  -> x

\* One completion; the last one of the pass hands pending_submit to the next enter.
\* A socket accepted while the pool is exhausted is closed here.
Pass ==
    /\ upc = "pass"
    /\ LET cqe == Head(cq)
           x   == Handled([usezc |-> usezc, uconn |-> uconn, ufree |-> ufree, sq |-> sq, pend |-> pend], cqe)
       IN  /\ usezc' = x.usezc /\ uconn' = x.uconn /\ ufree' = x.ufree
           /\ sq' = x.sq /\ pend' = x.pend
           /\ peer' = IF cqe.op = "accept" /\ cqe.res = "ok" /\ ufree = <<>>
                      THEN [peer EXCEPT ![cqe.fd].open = FALSE] ELSE peer
    /\ cq' = Tail(cq) /\ left' = left - 1
    /\ upc' = IF left = 1 THEN "enter" ELSE "pass"
    /\ UNCHANGED <<ring, flight, dialled>>

\* io_uring_enter: without SQPOLL the kernel takes pending_submit entries.
EnterRing ==
    /\ upc = "enter"
    /\ upc' = "block"
    /\ IF ring.sqpoll THEN UNCHANGED <<sq, flight>>
       ELSE /\ flight' = flight \cup {sq[i] : i \in 1..pend}
            /\ sq' = SubSeq(sq, pend + 1, Len(sq))
    /\ pend' = 0
    /\ UNCHANGED <<ring, usezc, uconn, ufree, cq, left, peer, dialled>>

\* ... and it returns once there is a completion; the pass covers those there are now.
ReturnRing ==
    /\ upc = "block" /\ cq # <<>>
    /\ upc' = "pass" /\ left' = Len(cq)
    /\ UNCHANGED <<ring, usezc, uconn, ufree, sq, pend, flight, cq, peer, dialled>>

-----------------------------------------------------------------------------
(* The kernel and the clients.                                             *)

\* The SQPOLL thread.
TakeEntry ==
    /\ ring.sqpoll /\ sq # <<>>
    /\ flight' = flight \cup {Head(sq)}
    /\ sq' = Tail(sq)
    /\ UNCHANGED <<ring, usezc, uconn, ufree, pend, cq, left, upc, peer, dialled>>

Cqe(sqe, res, data) ==
    [op |-> sqe.op, idx |-> sqe.idx, fd |-> sqe.fd, res |-> res, data |-> data, notif |-> FALSE]

Completes(sqe, cqe) ==
    /\ upc = "block"
    /\ cq' = Append(cq, cqe)
    /\ flight' = flight \ {sqe}
    /\ UNCHANGED <<ring, usezc, uconn, ufree, sq, pend, left, upc>>

\* A connection is accepted, or the accept fails (EMFILE, ECONNABORTED).
DoAccept(sqe) ==
    /\ dialled < Len(ring.peers)
    /\ \/ /\ dialled' = dialled + 1
          /\ peer' = [peer EXCEPT ![dialled + 1].open = TRUE]
          /\ Completes(sqe, [Cqe(sqe, "ok", <<>>) EXCEPT !.fd = dialled + 1])
       \/ /\ ring.peers[dialled + 1].ends = "abort"
          /\ dialled' = dialled + 1 /\ UNCHANGED peer
          /\ Completes(sqe, Cqe(sqe, "err", <<>>))

\* Some of what the client sends, end of file, or an error; a recv of no bytes is end of file too.
DoRecv(sqe) ==
    LET p == peer[sqe.fd]
    IN  /\ UNCHANGED dialled
        /\ \/ \E n \in 1..Len(p.todo) :
                /\ n <= sqe.room
                /\ peer' = [peer EXCEPT ![sqe.fd].todo = SubSeq(@, n + 1, Len(@))]
                /\ Completes(sqe, Cqe(sqe, "ok", SubSeq(p.todo, 1, n)))
           \/ /\ sqe.room = 0 \/ (p.todo = <<>> /\ ring.peers[sqe.fd].ends = "fin")
              /\ UNCHANGED peer
              /\ Completes(sqe, Cqe(sqe, "eof", <<>>))
           \/ /\ ring.peers[sqe.fd].ends = "rst"
              /\ UNCHANGED peer
              /\ Completes(sqe, Cqe(sqe, "err", <<>>))

\* Some of the data goes out, or an error; a kernel without SENDMSG_ZC refuses it.
\* A zero-copy send that worked is followed by a notification.
DoSend(sqe) ==
    /\ UNCHANGED dialled
    /\ \/ \E n \in 1..Len(sqe.data) :
            /\ sqe.zc => ring.zcok
            /\ peer' = [peer EXCEPT ![sqe.fd].got = @ \o SubSeq(sqe.data, 1, n)]
            /\ upc = "block"
            /\ cq' = Append(cq, Cqe(sqe, "ok", SubSeq(sqe.data, 1, n)))
            /\ flight' = (flight \ {sqe})
                          \cup (IF sqe.zc THEN {[sqe EXCEPT !.op = "notify"]} ELSE {})
            /\ UNCHANGED <<ring, usezc, uconn, ufree, sq, pend, left, upc>>
       \/ /\ sqe.zc /\ ~ring.zcok
          /\ UNCHANGED peer
          /\ Completes(sqe, Cqe(sqe, "inval", <<>>))
       \/ /\ ring.peers[sqe.fd].ends = "rst" /\ (sqe.zc => ring.zcok)
          /\ UNCHANGED peer
          /\ Completes(sqe, Cqe(sqe, "err", <<>>))

DoClose(sqe) ==
    /\ UNCHANGED dialled
    /\ peer' = [peer EXCEPT ![sqe.fd].open = FALSE]
    /\ Completes(sqe, Cqe(sqe, "ok", <<>>))

DoNotify(sqe) ==
    /\ UNCHANGED <<peer, dialled>>
    /\ Completes(sqe, [Cqe(sqe, "eof", <<>>) EXCEPT !.op = "send", !.notif = TRUE])

Complete ==
    \E sqe \in flight :
        \/ sqe.op = "accept" /\ DoAccept(sqe)
        \/ sqe.op = "recv" /\ DoRecv(sqe)
        \/ sqe.op = "send" /\ DoSend(sqe)
        \/ sqe.op = "close" /\ DoClose(sqe)
        \/ sqe.op = "notify" /\ DoNotify(sqe)

\* uring_worker_main up to its loop: one accept is in the ring.
UringInit ==
    /\ ring \in Rings /\ usezc = ring.zc
    /\ uconn = [s \in USlots |-> Idle] /\ ufree = [s \in USlots |-> s]
    /\ sq = <<Sqe("accept", 0, 0)>> /\ pend = 1
    /\ flight = {} /\ cq = <<>> /\ left = 0 /\ upc = "enter"
    /\ peer = [f \in DOMAIN ring.peers |-> [got |-> <<>>, open |-> FALSE,
                               todo |-> [i \in DOMAIN ring.peers[f].units |->
                                           <<ring.peers[f].units[i], i>>]]]
    /\ dialled = 0

UringWorker == EnterRing \/ ReturnRing \/ Pass

UringNext == UringWorker \/ TakeEntry \/ Complete

UringSpec == UringInit /\ [][UringNext]_uringVars

\* The worker and the SQPOLL thread run on; the kernel completes what it can.
UringFairness ==
    /\ WF_uringVars(UringWorker)
    /\ WF_uringVars(TakeEntry)
    /\ WF_uringVars(Complete)

UringFairSpec == UringSpec /\ UringFairness

-----------------------------------------------------------------------------
(* Properties.                                                             *)

\* Type correctness; the free list and the slots in use partition the pool, no
\* read buffer overflows, and no answer is sent beyond its end.
UringTypeOK ==
    /\ ring \in Rings /\ usezc \in BOOLEAN /\ (usezc => ring.zc)
    /\ Range(ufree) = {s \in USlots : uconn[s].fd = 0} /\ IsInjective(ufree)
    /\ \A s \in USlots : /\ uconn[s].fd \in 0..dialled /\ Len(uconn[s].buf) <= ReadBuf
                         /\ uconn[s].sent <= Len(uconn[s].segs)
                         /\ uconn[s].st \in {"reading", "writing"}
    /\ Len(sq) <= SqEntries /\ pend \in 0..SqEntries /\ left \in 0..Len(cq)
    /\ upc \in {"enter", "block", "pass"} /\ dialled \in 0..Len(ring.peers)

\* The operations outstanding for a slot, wherever they are, notifications left out.
Outstanding(s) ==
    {e \in Range(sq) \cup flight : e.idx = s /\ e.op \in {"recv", "send"}}
    \cup {e \in Range(cq) : e.idx = s /\ e.op \in {"recv", "send"} /\ ~e.notif}

\* A slot in use always has one operation outstanding, the one its state calls for
\* and on its own socket, and a free slot has none: no connection is forgotten, and
\* no completion reaches a connection that took over the slot (uring_worker_main
\* frees the slot before the close completes).
OneOpEach ==
    \A s \in USlots :
        IF uconn[s].fd = 0 THEN Outstanding(s) = {}
        ELSE \E e \in Outstanding(s) :
                /\ Outstanding(s) = {e}
                /\ e.fd = uconn[s].fd
                /\ e.op = (IF uconn[s].st = "writing" THEN "send" ELSE "recv")

\* There is always an accept in the ring, with the kernel or completed, whatever
\* the accepts before it returned: "Re-arm accept immediately so we never miss a SYN".
AcceptStaysArmed == \E e \in Range(sq) \cup flight \cup Range(cq) : e.op = "accept"

\* The answers a client can expect: to its requests in order, up to the first
\* refused one and up to max_requests_per_conn.
Due == [p \in UNION {Range(r.peers) : r \in Rings} |->
    LET units == [i \in DOMAIN p.units |-> <<p.units[i], i>>]
        ends  == SelectSeq(units, LAMBDA u : u[1] # "half")
        bad   == {u \in Range(ends) : u[1] = "bad"}
        taken == SelectSeq(ends, LAMBDA u :
                    /\ \A v \in bad : u[2] <= v[2]
                    /\ UringMaxReq > 0 => Cardinality({v \in Range(ends) : v[2] <= u[2]}) <= UringMaxReq)
    IN  FlattenSeq([k \in DOMAIN taken |-> Segments(taken[k])])]

AllAnswered(f) == peer[f].got = Due[ring.peers[f]]

\* A client gets the answers to its requests in order and whole, over partial
\* sends, pipelined requests and the switch from zero-copy to plain sends.
UringAnswersInOrder == \A f \in DOMAIN ring.peers : IsPrefix(peer[f].got, Due[ring.peers[f]])

\* A connection is given up only when its client reset it, when every request the
\* client completed has been answered, when the read buffer is full of an unfinished
\* request, or when a zero-copy send is refused after the worker has given up on them.
GivesUpForAReason ==
    [][\A s \in USlots :
         LET f == uconn[s].fd
         IN  (f # 0 /\ uconn'[s].fd = 0) =>
                \/ ring.peers[f].ends = "rst"
                \/ AllAnswered(f)
                \/ Len(uconn[s].buf) = ReadBuf
                \/ Head(cq).res = "inval" /\ ~usezc]_uringVars

\* Every request that reaches the worker is answered in the end, unless the
\* connection is closed: no wakeup of the loop is lost with SQEs or CQEs in the rings.
UringServes == <>[](\A f \in DOMAIN peer : peer[f].open => AllAnswered(f))
=============================================================================
