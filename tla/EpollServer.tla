----------------------------- MODULE EpollServer -----------------------------
(***************************************************************************)
(* One worker of the HTTP/1.1 server (src/src/server.c): its epoll loop,   *)
(* its pool of connection slots (src/src/pool.c), request framing          *)
(* (src/src/http.c) and the clients at the other end of the sockets.       *)
(*                                                                         *)
(* Bytes are abstracted to units: "part" is a piece of an unfinished head, *)
(* the other kinds end a head, "data" is the body of a "post".  A unit is  *)
(* known by its position in its client's script, and an answer by the      *)
(* position of the unit that completed the request it answers.             *)
(*                                                                         *)
(* The worker runs one handler per event without interruption; clients act *)
(* between handlers.  The worker looks at the clock once per epoll_wait,   *)
(* so time passes only there; one tick is IDLE_SWEEP_MS.                   *)
(*                                                                         *)
(* X_bug, next to X, is X with a mistake the code could have.              *)
(***************************************************************************)
EXTENDS Integers, FiniteSets, Sequences, Functions

CONSTANTS
    Conns,      \* the connections clients open, each once
    None,       \* the fd of a free slot
    Cap,        \* pool_cap
    BufCap,     \* sizeof(read_buf), in units
    SndBuf,     \* what a socket's send buffer holds, in units
    Budget,     \* POST_SEND_BUDGET
    MaxReq,     \* max_requests_per_conn; 0 is no limit
    IdleAge,    \* idle_ms, in ticks
    Scripts,    \* what the clients may send: a sequence of unit kinds for each
    Faults      \* what clients may do besides: a subset of {"fin", "rst"}

Heads == {"get", "head", "close", "bad", "post"}

ASSUME EpollAssumption ==
    /\ None \notin Conns
    /\ Cap \in Nat \ {0} /\ BufCap \in Nat \ {0} /\ SndBuf \in Nat \ {0}
    /\ Budget \in Nat \ {0} /\ MaxReq \in Nat /\ IdleAge \in Nat
    /\ \A f \in Scripts : DOMAIN f = Conns /\ \A c \in Conns : f[c] \in Seq(Heads \cup {"part", "data"})
    /\ Faults \subseteq {"fin", "rst"}

Lesser(a, b) == IF a < b THEN a ELSE b

Slots  == 1..Cap
Events == {"in", "out", "rdhup", "err"}

VARIABLES
    fd,        \* the socket a slot serves, or None
    conn,      \* the rest of conn_t, per slot
    free,      \* the free list of the pool, its head first
    heap,      \* API response bodies allocated and not released
    batch,     \* the events epoll_wait reported and the worker has not handled, per slot
    listening, \* ... and whether the listen socket is among them
    pc,        \* "wait" in epoll_wait, "batch" going through its events
    due,       \* IDLE_SWEEP_MS have passed since the last sweep
    script,    \* what each client is going to send
    sock,      \* the state of each socket
    backlog    \* the accept queue of the listen socket

worker == <<fd, conn, free, heap>>
loop   == <<batch, listening, pc, due>>
peers  == <<script, sock, backlog>>
vars   == <<fd, conn, free, heap, batch, listening, pc, due, script, sock, backlog>>

-----------------------------------------------------------------------------
(* Answers.                                                                *)

\* Static pages and API bodies go out as head and body, HEAD answers and errors as a head.
Reply(kind, pos) ==
    IF kind \in {"get", "close", "post"} THEN <<<<"head", pos>>, <<"body", pos>>>>
    ELSE <<<<kind, pos>>>>

Error(pos) == <<<<"error", pos>>>>

\* conn_t as try_accept initialises it, and as pool_free leaves it.
Fresh == [state |-> "reading", buf |-> <<>>, need |-> 0, wire |-> <<>>, sent |-> 0,
          closing |-> FALSE, reqs |-> 0, half |-> FALSE, mask |-> {"in", "rdhup"},
          age |-> 0, owned |-> FALSE]

\* http_parse: the length of the head at the front of buf, 0 if it is unfinished.
HeadLen(buf) ==
    LET ends == {i \in DOMAIN buf : buf[i][1] \in Heads}
    IN  IF ends = {} THEN 0 ELSE CHOOSE i \in ends : \A j \in ends : i <= j

-----------------------------------------------------------------------------
(* The handlers work on x: a slot's conn_t, its socket's out and taken, the *)
(* heap, and what they decided: to go on, to stay connected or to close.    *)

Answering(x, wire, closing, buf) ==
    [x EXCEPT !.state = "writing", !.wire = wire, !.sent = 0,
              !.closing = closing, !.buf = buf]

\* api_run and the 413 answers built in place: the API always closes after answering.
ApiRun(x, pos) ==
    [Answering(x, Reply("post", pos), TRUE, <<>>) EXCEPT !.owned = TRUE, !.heap = @ + 1]

ApiTooLarge(x, pos) ==
    [Answering(x, Error(pos), TRUE, <<>>) EXCEPT !.owned = TRUE, !.heap = @ + 1]

Compacted_bug(buf, n) == <<>>

\* What stays in the buffer behind the request just taken from its front.
Compacted(buf, n) == SubSeq(buf, n + 1, Len(buf))

LastOfConn(x, kind) == kind = "close" \/ (MaxReq > 0 /\ x.reqs + 1 >= MaxReq)

\* dispatch_one; it primed an answer when the state becomes "writing".
DispatchOne(x) ==
    LET n    == HeadLen(x.buf)
        last == x.buf[Len(x.buf)][2]
        kind == x.buf[n][1]
        pos  == x.buf[n][2]
    IN  IF n = 0 /\ Len(x.buf) < BufCap THEN x
        ELSE IF n = 0 THEN Answering([x EXCEPT !.reqs = @ + 1], Error(last), TRUE, <<>>)
        ELSE IF kind = "post" THEN
            LET y == [x EXCEPT !.reqs = @ + 1, !.need = n + 1]
            IN  IF n + 1 > BufCap THEN ApiTooLarge(y, pos)
                ELSE IF Len(x.buf) < n + 1 THEN [y EXCEPT !.state = "body"]
                ELSE ApiRun(y, pos)
        ELSE IF kind = "bad" THEN Answering([x EXCEPT !.reqs = @ + 1], Error(pos), TRUE, <<>>)
        ELSE [Answering(x, Reply(kind, pos), LastOfConn(x, kind), Compacted(x.buf, n))
                EXCEPT !.reqs = @ + 1]

Decide(x, what)  == [x EXCEPT !.done = what]
StayFor(x, mask) == [x EXCEPT !.done = "stay", !.mask = mask]

Unsent(x) == Len(x.wire) - x.sent
Room(x)   == SndBuf - (Len(x.out) - x.taken)

\* try_send: sendmsg until everything is out, the send buffer is full, or the peer is gone.
TrySend(x) ==
    LET n == Lesser(Room(x), Unsent(x))
    IN  IF Unsent(x) = 0 THEN x
        ELSE IF x.rst THEN Decide(x, "close")
        ELSE LET y == [x EXCEPT !.sent = @ + n,
                                !.out = @ \o SubSeq(x.wire, x.sent + 1, x.sent + n)]
             IN  IF Unsent(y) = 0 THEN y ELSE StayFor(y, {"out", "rdhup"})

\* Nothing left to dispatch: wait for more, unless the peer will send no more.
AwaitMore(x) == IF x.half THEN Decide(x, "close") ELSE StayFor(x, {"in", "rdhup"})


\* The write side is reset and the response released.
Released(x) ==
    [x EXCEPT !.heap = IF x.owned THEN @ - 1 ELSE @, !.owned = FALSE,
              !.wire = <<>>, !.sent = 0, !.state = "reading", !.age = 0]

\* One turn of the loop of post_send: the answer is out; dispatch the next request.
Turn(x) ==
    IF x.done # "go" THEN x
    ELSE IF x.closing THEN Decide(x, "close")
    ELSE LET y == Released(x)
             z == DispatchOne(y)
         IN  IF y.buf = <<>> THEN AwaitMore(y)
             ELSE IF z.state # "writing" THEN AwaitMore(z)
             ELSE TrySend(z)

\* The loop of post_send: what there is after each of its at most Budget turns.
Turns(x) == LET After[n \in 0..Budget] == IF n = 0 THEN x ELSE Turn(After[n - 1]) IN After

\* post_send: the loop, then back to epoll_wait for {"in", "rdhup"}.
PostSend(x) ==
    LET y == Turns(x)[Budget]
    IN  IF y.done = "go" THEN StayFor(y, {"in", "rdhup"}) ELSE y

SendOut(x) == LET y == TrySend(x) IN IF y.done = "go" THEN PostSend(y) ELSE y

\* What the next read may append.
Space(x) == BufCap - Len(x.buf)

\* The read loop of handle_readable: all there is, as far as it fits; an end of
\* stream is only seen when there was room to read it.
Incoming(x, c) ==
    LET n == Lesser(Space(x), sock[c].sent - sock[c].got)
        y == [x EXCEPT !.buf = @ \o [i \in 1..n |-> <<script[c][sock[c].got + i], sock[c].got + i>>],
                       !.got = @ + n]
    IN  [y EXCEPT !.half = @ \/ (sock[c].fin /\ y.got = sock[c].sent /\ Len(y.buf) < BufCap)]

HandleReadable(x, c) ==
    LET y == Incoming(x, c)
        z == DispatchOne(y)
    IN  IF x.rst THEN Decide(x, "close")
        ELSE IF y.buf = <<>> THEN Decide(y, IF y.half THEN "close" ELSE "stay")
        ELSE IF y.state = "body" THEN
            IF Len(y.buf) < y.need THEN Decide(y, IF y.half THEN "close" ELSE "stay")
            ELSE SendOut(ApiRun(y, y.buf[y.need - 1][2]))
        ELSE IF z.state # "writing" THEN Decide(z, "stay")
        ELSE SendOut(z)

\* The body of the event loop for one connection.
OnEvents(x, c, ev) ==
    LET y == [x EXCEPT !.half = @ \/ "rdhup" \in ev]
    IN  IF "err" \in ev THEN Decide(x, "close")
        ELSE IF y.state = "writing"
             THEN IF ev \cap {"out", "rdhup"} # {} THEN SendOut(y) ELSE Decide(y, "stay")
        ELSE IF "in" \in ev THEN HandleReadable(y, c)
        ELSE Decide(y, IF "rdhup" \in ev THEN "close" ELSE "stay")

Context(s) ==
    LET c == sock[fd[s]]
        d == [out |-> c.out, taken |-> c.taken, rst |-> c.rst, got |-> c.got,
              heap |-> heap, done |-> "go"]
    IN  [f \in DOMAIN conn[s] \cup DOMAIN d |-> IF f \in DOMAIN d THEN d[f] ELSE conn[s][f]]

Unreleased_bug(x) == x.heap

\* The bodies left when close_conn has released the one its connection was sending.
Unreleased(x) == IF x.owned THEN x.heap - 1 ELSE x.heap

\* The response bodies that the connections of S are sending.
Owned(S) == Cardinality({s \in S : conn[s].owned})

\* A closed socket; of its history only what was written to it is kept.
NoSock    == [st |-> "none", sent |-> 0, got |-> 0, fin |-> FALSE, rst |-> FALSE,
              out |-> <<>>, taken |-> 0]
Closed(k) == [NoSock EXCEPT !.st = "closed", !.out = k.out, !.taken = Len(k.out)]

\* close_conn on a handled connection: the socket is closed, a body not yet
\* released is, and the slot goes to the head of the free list.
Handle(s) ==
    /\ pc = "batch" /\ batch[s] # {}
    /\ batch' = [batch EXCEPT ![s] = {}]
    /\ LET c == fd[s]
           x == OnEvents(Context(s), c, batch[s])
           k == [sock[c] EXCEPT !.out = x.out, !.got = x.got]
       IN  IF x.done = "close"
           THEN /\ fd' = [fd EXCEPT ![s] = None]
                /\ conn' = [conn EXCEPT ![s] = Fresh]
                /\ free' = <<s>> \o free
                /\ heap' = Unreleased(x)
                /\ sock' = [sock EXCEPT ![c] = Closed(k)]
           ELSE /\ conn' = [conn EXCEPT ![s] = [f \in DOMAIN Fresh |-> x[f]]]
                /\ sock' = [sock EXCEPT ![c] = k]
                /\ heap' = x.heap
                /\ UNCHANGED <<fd, free>>
    /\ UNCHANGED <<listening, pc, due, script, backlog>>

PoolAlloc_bug(n) == SubSeq(free, IF n = 0 THEN 1 ELSE n, Len(free))

\* The free list after n calls of pool_alloc.
PoolAlloc(n) == SubSeq(free, n + 1, Len(free))

\* try_accept: every queued connection gets a slot, or is closed when there is none.
Accept ==
    LET n == Lesser(Len(backlog), Len(free))
        Taken == {free[i] : i \in 1..n}
        ConnOf(s) == backlog[CHOOSE i \in 1..n : free[i] = s]
    IN  /\ pc = "batch" /\ listening
        /\ listening' = FALSE
        /\ fd' = [s \in Slots |-> IF s \in Taken THEN ConnOf(s) ELSE fd[s]]
        /\ conn' = [s \in Slots |-> IF s \in Taken THEN Fresh ELSE conn[s]]
        /\ free' = PoolAlloc(n)
        /\ sock' = [c \in Conns |->
                      IF c \notin Range(backlog) THEN sock[c]
                      ELSE IF \E i \in 1..n : backlog[i] = c THEN [sock[c] EXCEPT !.st = "open"]
                      ELSE Closed(sock[c])]
        /\ backlog' = <<>>
        /\ UNCHANGED <<heap, batch, pc, due, script>>

Stale_bug(s) == fd[s] # None /\ conn[s].state # "writing" /\ conn[s].age > IdleAge

\* A connection without a request/response boundary for longer than idle_ms.
Stale(s) == fd[s] # None /\ conn[s].age > IdleAge

\* The events are done; sweep_idle when it is due.  Slots are freed in ascending
\* order, so the highest is the first to be reused.
Sweep ==
    LET S == {s \in Slots : due /\ Stale(s)}
    IN  /\ pc = "batch" /\ ~ listening /\ \A s \in Slots : batch[s] = {}
        /\ pc' = "wait" /\ due' = FALSE
        /\ fd' = [s \in Slots |-> IF s \in S THEN None ELSE fd[s]]
        /\ conn' = [s \in Slots |-> IF s \in S THEN Fresh ELSE conn[s]]
        /\ \E freed \in [1..Cardinality(S) -> S] :
             /\ Range(freed) = S /\ \A i, j \in DOMAIN freed : i < j => freed[i] > freed[j]
             /\ free' = freed \o free
        /\ heap' = heap - Owned(S)
        /\ sock' = [c \in Conns |-> IF \E s \in S : fd[s] = c THEN Closed(sock[c]) ELSE sock[c]]
        /\ UNCHANGED <<batch, listening, script, backlog>>

-----------------------------------------------------------------------------
(* epoll and the clock.                                                    *)

\* What a level-triggered epoll_wait reports of a slot.
Ready(s) ==
    IF fd[s] = None THEN {}
    ELSE LET c == sock[fd[s]]
         IN  {e \in Events :
                \/ e = "in" /\ e \in conn[s].mask /\ (c.got < c.sent \/ c.fin \/ c.rst)
                \/ e = "out" /\ e \in conn[s].mask /\ (Len(c.out) - c.taken < SndBuf \/ c.rst)
                \/ e = "rdhup" /\ (c.fin \/ c.rst)
                \/ e = "err" /\ c.rst}

\* epoll_wait returns because of events or because the next sweep is due.
Wakes == due \/ backlog # <<>> \/ \E s \in Slots : Ready(s) # {}

Wait ==
    /\ pc = "wait" /\ Wakes
    /\ pc' = "batch"
    /\ batch' = [s \in Slots |-> Ready(s)]
    /\ listening' = (backlog # <<>>)
    /\ UNCHANGED <<worker, due, peers>>

Tick ==
    /\ pc = "wait" /\ ~ due
    /\ due' = TRUE
    /\ conn' = [s \in Slots |-> [conn[s] EXCEPT !.age = IF fd[s] = None \/ @ > IdleAge THEN @ ELSE @ + 1]]
    /\ UNCHANGED <<fd, free, heap, batch, listening, pc, peers>>

-----------------------------------------------------------------------------
(* The clients.                                                            *)

Client(c, k) ==
    /\ sock' = [sock EXCEPT ![c] = k]
    /\ UNCHANGED <<worker, loop, script>>

Connect(c) ==
    /\ sock[c].st = "none"
    /\ Client(c, [sock[c] EXCEPT !.st = "queued"])
    /\ backlog' = Append(backlog, c)

Sending(c) == sock[c].st \in {"queued", "open"} /\ ~ sock[c].fin /\ ~ sock[c].rst

Send(c) ==
    /\ Sending(c) /\ sock[c].sent < Len(script[c])
    /\ Client(c, [sock[c] EXCEPT !.sent = @ + 1]) /\ UNCHANGED backlog

Take(c) ==
    /\ sock[c].st = "open" /\ ~ sock[c].rst /\ sock[c].taken < Len(sock[c].out)
    /\ Client(c, [sock[c] EXCEPT !.taken = @ + 1]) /\ UNCHANGED backlog

HalfClose(c) ==
    /\ "fin" \in Faults /\ Sending(c)
    /\ Client(c, [sock[c] EXCEPT !.fin = TRUE]) /\ UNCHANGED backlog

Reset(c) ==
    /\ "rst" \in Faults /\ sock[c].st \in {"queued", "open"} /\ ~ sock[c].rst
    /\ Client(c, [sock[c] EXCEPT !.rst = TRUE]) /\ UNCHANGED backlog

-----------------------------------------------------------------------------
Init ==
    /\ fd = [s \in Slots |-> None] /\ conn = [s \in Slots |-> Fresh]
    /\ free = [i \in Slots |-> i] /\ heap = 0
    /\ batch = [s \in Slots |-> {}] /\ listening = FALSE /\ pc = "wait" /\ due = FALSE
    /\ script \in Scripts /\ backlog = <<>>
    /\ sock = [c \in Conns |-> NoSock]

Next ==
    \/ Wait \/ Accept \/ Sweep \/ Tick
    \/ \E s \in Slots : Handle(s)
    \/ \E c \in Conns : Connect(c) \/ Send(c) \/ Take(c) \/ HalfClose(c) \/ Reset(c)

Spec == Init /\ [][Next]_vars

\* The worker thread is scheduled, and the clock moves on even when the worker
\* goes round and round; clients owe nothing.  The first is weak fairness of the
\* worker's actions (Wait, Accept, Sweep, Handle), the only ones to change
\* position, with the condition that enables one of them spelled out.
position == <<pc, batch, listening>>
Runnable == pc = "batch" \/ Wakes
Fairness == ([]<>(~ Runnable) \/ []<><<Next>>_position) /\ SF_vars(Tick)
FairSpec == Spec /\ Fairness

-----------------------------------------------------------------------------
(* Properties.                                                             *)

\* Every variable has its type: slots hold sockets or None, buffers and unsent
\* answers stay within their bounds.
TypeOK ==
    /\ fd \in [Slots -> Conns \cup {None}]
    /\ DOMAIN conn = Slots
    /\ \A s \in Slots :
         /\ conn[s].state \in {"reading", "body", "writing"}
         /\ Len(conn[s].buf) \in 0..BufCap /\ conn[s].sent \in 0..Len(conn[s].wire)
         /\ conn[s].mask \in {{"in", "rdhup"}, {"out", "rdhup"}}
         /\ conn[s].age \in 0..IdleAge + 1
    /\ \A c \in Conns :
         /\ sock[c].st \in {"none", "queued", "open", "closed"}
         /\ Len(sock[c].out) - sock[c].taken \in 0..SndBuf
         /\ sock[c].got \in 0..sock[c].sent
    /\ batch \in [Slots -> SUBSET Events] /\ listening \in BOOLEAN
    /\ pc \in {"wait", "batch"} /\ due \in BOOLEAN

\* The free list holds every free slot once and no other; a socket is open
\* exactly while one slot serves it, whatever the order of accepts, handlers and
\* sweeps (pool.c, close_conn, try_accept, sweep_idle).
PoolIsPartitioned ==
    /\ \A i, j \in DOMAIN free : free[i] = free[j] => i = j
    /\ Range(free) = {s \in Slots : fd[s] = None}
    /\ \A s, t \in Slots : fd[s] = fd[t] => s = t \/ fd[s] = None
    /\ {c \in Conns : sock[c].st = "open"} = {fd[s] : s \in Slots} \ {None}

\* An API response body is allocated exactly while the slot that sends it says
\* so: none leaks when a connection is closed in the middle of an answer, and
\* none is released twice (api_pending).
BodiesAreReleased == heap = Owned(Slots)

\* What the client of script u should get, computed from the requests alone.
Answers(u) ==
    LET Least(S) == CHOOSE i \in S : \A j \in S : i <= j
        A[i \in 1..Len(u) + 1, r \in 0..Len(u)] ==
            LET ends == {j \in i..Len(u) : u[j] \in Heads}
                e    == Least(ends)
            IN  IF ends = {} \/ e - i + 1 > BufCap
                THEN IF Len(u) - i + 1 >= BufCap THEN Error(i + BufCap - 1) ELSE <<>>
                ELSE IF u[e] = "bad" THEN Error(e)
                ELSE IF u[e] = "post"
                THEN IF e - i + 2 > BufCap THEN Error(e)
                     ELSE IF e < Len(u) THEN Reply("post", e) ELSE <<>>
                ELSE Reply(u[e], e) \o
                     IF u[e] = "close" \/ (MaxReq > 0 /\ r + 1 >= MaxReq) THEN <<>>
                     ELSE A[e + 1, r + 1]
    IN  A[1, 0]

\* However requests are cut into reads, pipelined, and however often an answer
\* is interrupted by a full send buffer: a client gets the answers to its own
\* requests, in order, none skipped, repeated, interleaved or sent after the
\* last one the connection is good for.
AnswersInOrder ==
    \A c \in Conns :
        LET seen == IF sock[c].st = "closed" THEN script[c] ELSE SubSeq(script[c], 1, sock[c].sent)
            all  == Answers(seen)
            out  == sock[c].out
        IN  Len(out) <= Len(all) /\ out = SubSeq(all, 1, Len(out))

\* Whatever its client does -- nothing, dribbling, not reading, half-closing --
\* a connection's slot is eventually returned to the pool (sweep_idle).
EveryConnectionEnds == \A c \in Conns : sock[c].st = "open" ~> sock[c].st = "closed"

\* The worker is back in epoll_wait, the answer is out, a whole request is in read_buf.
Leftover(c) ==
    /\ pc = "wait"
    /\ \E s \in Slots : fd[s] = c /\ HeadLen(conn[s].buf) # 0 /\ Unsent(conn[s]) = 0

\* A request that is left in the buffer when the budget of post_send is used up
\* is dispatched later on (comment at the end of post_send).
LeftoverIsDispatched ==
    \A c \in Conns : \A n \in 0..6 :
        Leftover(c) /\ Len(sock[c].out) = n ~> Len(sock[c].out) > n \/ sock[c].rst
=============================================================================
