------------------------------ MODULE TlsServer ------------------------------
(***************************************************************************)
(* A TLS worker: the kernel-socket worker of src/server_tls_kernel.c or,   *)
(* on top of the userspace TCP stack, the service of src/server_tls.c.     *)
(* Both feed the engine of TlsEngine and answer HTTP requests from the     *)
(* plaintext it recovers; main.c's build decides which of the two runs.    *)
(*                                                                         *)
(* One event of one connection is one step.  A client is a TLS 1.3 client  *)
(* that follows a plan: what it offers in its ClientHello and the records  *)
(* of plaintext it writes.  It may close or reset its end at any time.     *)
(* A piece of plaintext is <<n, kind>>, the n-th piece this client writes: *)
(* "get" is a whole request, "post" a request whose "body" is the next     *)
(* piece, "bad" a request the parser refuses.                              *)
(*                                                                         *)
(* An operator whose name ends in _bug is a faulty variant of the next     *)
(* definition; no action uses it.                                          *)
(***************************************************************************)
EXTENDS TlsEngine, FiniteSets, Functions

CONSTANTS
    Ios,         \* the transports to explore, of {"kernel", "packet"}
    Table,       \* Table[io]: the slots 1..n of its connection table
    Clients,     \* 1..m: one connection each
    Plans,       \* Plans[io][c]: what client c may do
    PlainCap,    \* pieces that fit the plaintext buffer of a connection
    AnswerRecs,  \* records of the answer to a "get"
    Hints,       \* http_early_hints
    MaxReqs,     \* max_requests_per_conn (0: no limit)
    IdleAge,     \* idle timeout, in ticks
    PartAge,     \* timeout of an incomplete request, in ticks
    Quitters     \* the clients that may close or reset before they are done

ASSUME TlsUse == /\ Ios \subseteq {"kernel", "packet"} /\ Hints \in BOOLEAN
                 /\ \A i \in Ios : Table[i] \subseteq Nat /\ IsFiniteSet(Table[i])
                 /\ Clients \subseteq Nat \ {0} /\ Quitters \subseteq Clients
                 /\ {PlainCap, AnswerRecs} \subseteq Nat \ {0} /\ {MaxReqs, IdleAge, PartAge} \subseteq Nat

VARIABLES
    io,        \* the transport of this worker
    conn,      \* conn[s]: slot s of the connection table
    store,     \* the worker's ticket store
    issued,    \* tickets issued so far
    sock,      \* sock[c]: what waits in the server's socket of client c
    backlog,   \* connections to accept
    client,    \* client[c]: where client c is in its plan
    sent,      \* sent[c]: the records the server has sent to client c, until it closes
    held,      \* the tickets clients have been given
    accepted   \* history: <<ticket, client>> whose early data was accepted

tlsVars == <<io, conn, store, issued, sock, backlog, client, sent, held, accepted>>

Slots    == Table[io]
NoClient == 0
FreeConn == [cl |-> NoClient, e |-> EngineInit, idle |-> 0, part |-> 0, reqs |-> 0, plain |-> <<>>,
             ticket |-> FALSE, want_close |-> FALSE, mask |-> {}]
Gone     == [ph |-> "gone"]
NoSock   == [inq |-> <<>>, fin |-> FALSE, rst |-> FALSE]

Min2(a, b) == IF a < b THEN a ELSE b

-----------------------------------------------------------------------------
(* tls_drive_engine and tls_on_data after the step: what a worker does     *)
(* with the plaintext.  x carries the connection c, the store st, the      *)
(* tickets issued n, close (close_after) and rc.                           *)

\* Phase 1: APP_IN moves to the plaintext buffer, or is answered with 413.
Phase1(x) ==
    LET c == x.c
        a == c.e.app_in
        e == [c.e EXCEPT !.app_in = <<>>]
    IN  IF a = <<>> THEN x
        ELSE IF Len(c.plain) + Len(a) <= PlainCap
        THEN [x EXCEPT !.c.e = e, !.c.plain = @ \o a, !.c.part = IF c.plain = <<>> THEN 1 ELSE @]
        ELSE IF ~ CanSeal(e, 1) THEN [x EXCEPT !.c.e = e, !.rc = -1]
        ELSE [x EXCEPT !.c.e = SealIov(e, 1, <<0, "413">>), !.c.plain = <<>>, !.c.part = 0, !.c.reqs = @ + 1, !.close = TRUE]

\* Only the kernel-socket worker hands a request to the blob store, body and all.
Blob(plain)  == io = "kernel" /\ plain[1][2] = "post"
Whole(plain) == plain # <<>> /\ (Blob(plain) => Len(plain) > 1)
Consumed_bug(plain) == IF plain[1][2] = "bad" THEN Len(plain) ELSE 2
Consumed(plain) == IF plain[1][2] = "bad" THEN Len(plain) ELSE IF Blob(plain) THEN 2 ELSE 1

\* build_http_response_iov counts the request unless the blob store takes it.
Counted(c) == IF Blob(c.plain) THEN c.reqs ELSE c.reqs + 1
Closes(c)  == c.plain[1][2] # "get" \/ (MaxReqs > 0 /\ Counted(c) >= MaxReqs)

\* Phase 2, one request: hints if they fit, the answer, or a close when tx is full.
AnswerOne(x) ==
    LET c == x.c
        get == c.plain[1][2] = "get"
        e == IF Hints /\ get /\ CanSeal(c.e, 1) THEN SealIov(c.e, 1, <<0, "103">>) ELSE c.e
        n == IF get THEN AnswerRecs ELSE 1
        left == SubSeq(c.plain, Consumed(c.plain) + 1, Len(c.plain))
    IN  IF ~ CanSeal(e, n)
        THEN [x EXCEPT !.c.e = e, !.c.reqs = Counted(c), !.c.plain = <<>>, !.c.part = 0, !.close = TRUE]
        ELSE [x EXCEPT !.c.e = SealIov(e, n, c.plain[1]), !.c.reqs = Counted(c),
                       !.c.plain = left, !.c.part = IF left = <<>> THEN 0 ELSE 1, !.close = Closes(c)]

\* Phase 2: every whole request in the buffer, also those of an earlier call.
AnswerMore(x) == IF Whole(x.c.plain) /\ ~ x.close THEN AnswerOne(x) ELSE x
Answering(x) == LET After[n \in 0..PlainCap] == IF n = 0 THEN x ELSE AnswerMore(After[n - 1]) IN After
Phase2(x) == IF x.c.e.state = "APP" /\ ~ x.close THEN Answering(x)[PlainCap] ELSE x

\* Phase 3: one ticket per connection, behind the answers.
Phase3(x) ==
    IF x.close \/ x.c.ticket \/ ~ CanEmitTicket(x.c.e) THEN x
    ELSE [x EXCEPT !.c.e = EmitTicket(x.c.e, x.n + 1), !.c.ticket = TRUE,
                   !.st = Insert(x.st, x.n + 1), !.n = @ + 1]

\* A connection whose engine was given records: the step and the three phases.
Unless(x, y) == IF x.rc = -1 THEN x ELSE y
Served(x)     == Unless(x, Phase3(Phase2(x)))
Stepped(c, s) == [c |-> [c EXCEPT !.e = s.e], st |-> s.st, n |-> issued, close |-> FALSE, rc |-> s.rc]
Stored(x)     == Unless(x, Served(Phase1(x)))
Drive(c)      == Stored(Stepped(c, Step(c.e, store)))

-----------------------------------------------------------------------------
(* The events of a worker. *)

\* Client c is sent recs; a client that is gone reads nothing more.
Send(c, recs) ==
    /\ sent' = [sent EXCEPT ![c] = IF client'[c] = Gone THEN <<>> ELSE @ \o recs]
    /\ held' = held \cup {r.data : r \in {q \in Range(recs) : q.inner = "NST"}}
    /\ accepted' = accepted \cup {<<r.key[3], c>> : r \in {q \in Range(recs) : q.inner = "EE" /\ q.data = 1}}

\* The slots and clients after slot s was closed (kconn_close, tls_on_close).
Close(s) ==
    /\ conn' = [conn EXCEPT ![s] = FreeConn]
    /\ sock' = [sock EXCEPT ![conn[s].cl] = NoSock]
    /\ client' = [client EXCEPT ![conn[s].cl] = Gone]

\* try_accept: the queued connections take the free slots in order, those that
\* find none are closed.
Accept ==
    /\ backlog # <<>>
    /\ LET free == {s \in Slots : conn[s].cl = NoClient}
           rank(s) == Cardinality({t \in free : t <= s})
           Taker(s) == IF s \in free /\ rank(s) <= Len(backlog) THEN backlog[rank(s)] ELSE NoClient
           served == {Taker(s) : s \in Slots}
           refused == Range(backlog) \ served
       IN  /\ conn' = [s \in Slots |->
                         IF Taker(s) = NoClient THEN conn[s]
                         ELSE [FreeConn EXCEPT !.cl = Taker(s), !.mask = {"IN"}]]
           /\ client' = [c \in Clients |-> IF c \in refused THEN Gone ELSE client[c]]
           /\ sock' = [c \in Clients |-> IF c \in refused THEN NoSock ELSE sock[c]]
    /\ backlog' = <<>>
    /\ UNCHANGED <<io, store, issued, sent, held, accepted>>

\* try_recv_and_drive: all that fits rx_buf is received, then the engine is
\* driven once.  A recv that finds the end of the stream asks for the close.
Asking(x, ended) == [x EXCEPT !.c.want_close = @ \/ x.close \/ ended]
Recv(c, k) ==
    LET take  == Min2(RxCap - Len(c.e.rx), Len(k.inq))
        ended == k.fin /\ take = Len(k.inq) /\ Len(c.e.rx) + take < RxCap
    IN  Asking(Drive([c EXCEPT !.e.rx = @ \o SubSeq(k.inq, 1, take), !.idle = IF take > 0 THEN 0 ELSE @]), ended)

\* One iteration of the event loop of tls_worker_main on slot s: sending gets
\* rid of the first room records of tx, rdhup says whether the half-close of
\* the peer was already reported with this event.
KernelEvent(s) ==
    LET c  == conn[s]
        k  == sock[c.cl]
        in == "IN" \in c.mask /\ (k.inq # <<>> \/ k.fin)
    IN
    /\ io = "kernel" /\ c.cl # NoClient
    /\ k.rst \/ k.fin \/ in \/ "OUT" \in c.mask
    /\ \E x \in {IF in THEN Recv(c, k) ELSE [c |-> c, st |-> store, n |-> issued, close |-> FALSE, rc |-> 0]} :
       LET tx == x.c.e.tx IN
       /\ store' = x.st /\ issued' = x.n
       /\ IF k.rst \/ x.rc = -1
          THEN Close(s) /\ Send(c.cl, <<>>)
          ELSE \E room \in {0, Len(tx)}, rdhup \in {k.fin, FALSE} :
               /\ IF room = Len(tx) /\ (x.c.want_close \/ rdhup)
                  THEN Close(s)
                  ELSE /\ conn' = [conn EXCEPT ![s] =
                             [x.c EXCEPT !.e.tx = SubSeq(tx, room + 1, Len(tx)),
                                         !.want_close = @ \/ rdhup,
                                         !.mask = (IF x.c.want_close THEN {} ELSE {"IN"})
                                                    \cup (IF room = Len(tx) THEN {} ELSE {"OUT"})]]
                       /\ sock' = [sock EXCEPT ![c.cl].inq =
                             IF in THEN SubSeq(@, Min2(RxCap - Len(c.e.rx), Len(@)) + 1, Len(@)) ELSE @]
                       /\ UNCHANGED client
               /\ Send(c.cl, SubSeq(tx, 1, room))
    /\ UNCHANGED <<io, backlog>>

\* idle_sweep.
\* An incomplete request or a silent connection has lasted too long.
Overdue_bug(c) == c.idle > IdleAge /\ c.part = 0
Overdue(c) == c.part - 1 > PartAge \/ c.idle > IdleAge
Sweep ==
    LET old == {s \in Slots : conn[s].cl # NoClient /\ Overdue(conn[s])}
        lost == {conn[s].cl : s \in old}
    IN
    /\ io = "kernel" /\ old # {}
    /\ conn' = [s \in Slots |-> IF s \in old THEN FreeConn ELSE conn[s]]
    /\ sock' = [c \in Clients |-> IF c \in lost THEN NoSock ELSE sock[c]]
    /\ client' = [c \in Clients |-> IF c \in lost THEN Gone ELSE client[c]]
    /\ sent' = [c \in Clients |-> IF c \in lost THEN <<>> ELSE sent[c]]
    /\ UNCHANGED <<io, store, issued, backlog, held, accepted>>

\* tls_on_data with a segment of n records: everything the engine has to send
\* is handed to the stack, which closes the connection behind it if asked to.
OnData(s, n) ==
    LET c == conn[s]
        k == sock[c.cl]
    IN
    /\ io = "packet" /\ c.cl # NoClient /\ ~ k.rst /\ n <= Len(k.inq)
    /\ IF Len(c.e.rx) + n > RxCap
       THEN Close(s) /\ Send(c.cl, <<>>) /\ UNCHANGED <<store, issued>>
       ELSE \E x \in {Drive([c EXCEPT !.e.rx = @ \o SubSeq(k.inq, 1, n)])} :
            /\ store' = x.st /\ issued' = x.n
            /\ IF x.rc = -1 THEN Close(s) /\ Send(c.cl, <<>>)
               ELSE /\ IF x.close THEN Close(s)
                       ELSE /\ conn' = [conn EXCEPT ![s] = [x.c EXCEPT !.e.tx = <<>>]]
                            /\ sock' = [sock EXCEPT ![c.cl].inq = SubSeq(@, n + 1, Len(@))]
                            /\ UNCHANGED client
                    /\ Send(c.cl, x.c.e.tx)
    /\ UNCHANGED <<io, backlog>>

\* The stack ends the connection: the peer's FIN behind its data, or a reset.
OnClose(s) ==
    /\ io = "packet" /\ conn[s].cl # NoClient
    /\ LET k == sock[conn[s].cl] IN k.rst \/ (k.fin /\ k.inq = <<>>)
    /\ Close(s) /\ Send(conn[s].cl, <<>>)
    /\ UNCHANGED <<io, store, issued, backlog>>

-----------------------------------------------------------------------------
(* The clients and the clock. *)

Pieces(c) == client[c].pieces
Push(c, recs) == sock' = [sock EXCEPT ![c].inq = @ \o recs]
Talking(c) == client[c].ph \notin {"new", "gone"} /\ ~ sock[c].fin /\ ~ sock[c].rst

Connect(c, plan, offers) ==
    /\ client[c].ph = "new" /\ (c > 1 => client[c - 1].ph # "new")
    /\ client' = [client EXCEPT ![c] = [ph |-> "open", plan |-> plan, offers |-> offers, n |-> 0, base |-> 0, pieces |-> 0, psk |-> NoPsk]]
    /\ backlog' = Append(backlog, c)
    /\ UNCHANGED <<io, conn, store, issued, sock, sent, held, accepted>>

Hello(c) ==
    /\ Talking(c) /\ client[c].ph = "open"
    /\ LET p == client[c].plan IN
       Push(c, <<[ct |-> "handshake", ok |-> p.ok, sig |-> p.sig, share |-> p.share, binder |-> p.binder, id |-> c,
                  offers |-> client[c].offers, early |-> p.early > 0]>>)
    /\ client' = [client EXCEPT ![c].ph = "hello"]
    /\ UNCHANGED <<io, conn, store, issued, backlog, sent, held, accepted>>

\* The next record of the plan, its pieces numbered on from those before.
Write(c, key, seq) ==
    LET r == client[c].plan.data[client[c].n + 1] IN
    /\ Push(c, <<[ct |-> "app", key |-> key, seq |-> seq, inner |-> r.inner,
                  data |-> [i \in DOMAIN r.data |-> <<Pieces(c) + i, r.data[i]>>]]>>)
    /\ client' = [client EXCEPT ![c].n = @ + 1, ![c].pieces = @ + Len(r.data)]

Early(c) ==
    /\ Talking(c) /\ client[c].ph = "hello" /\ client[c].offers # <<>>
    /\ client[c].n < client[c].plan.early
    /\ Write(c, Key("early", c, client[c].offers[1]), client[c].n)
    /\ UNCHANGED <<io, conn, store, issued, backlog, sent, held, accepted>>

\* The whole flight of the server has been read: the client ends its early
\* data if that was accepted and sends ChangeCipherSpec and Finished.
Finish(c) ==
    /\ Talking(c) /\ client[c].ph = "hello"
    /\ \E i \in 1..Len(sent[c]) : sent[c][i].inner = "FIN"
    /\ LET psk  == sent[c][1].data
           eoed == sent[c][2].data = 1
           n    == client[c].n
       IN  /\ Push(c, (IF eoed THEN <<[ct |-> "app", key |-> Key("early", c, psk), seq |-> n, inner |-> "EOED", data |-> <<>>]>> ELSE <<>>)
                      \o <<[ct |-> "ccs"],
                           [ct |-> "app", key |-> Key("c hs", c, psk), seq |-> 0, inner |-> "FIN", data |-> <<c, psk, eoed>>]>>)
           /\ client' = [client EXCEPT ![c].ph = "app", ![c].base = n, ![c].psk = psk]
    /\ UNCHANGED <<io, conn, store, issued, backlog, sent, held, accepted>>

Speak(c) ==
    /\ Talking(c) /\ client[c].ph = "app" /\ client[c].n < Len(client[c].plan.data)
    /\ Write(c, Key("c app", c, client[c].psk), client[c].n - client[c].base)
    /\ UNCHANGED <<io, conn, store, issued, backlog, sent, held, accepted>>

HalfClose(c) ==
    /\ Talking(c) /\ c \in Quitters
    /\ sock' = [sock EXCEPT ![c].fin = TRUE]
    /\ UNCHANGED <<io, conn, store, issued, backlog, client, sent, held, accepted>>
Reset(c) ==
    /\ Talking(c) /\ c \in Quitters
    /\ sock' = [sock EXCEPT ![c].rst = TRUE]
    /\ UNCHANGED <<io, conn, store, issued, backlog, client, sent, held, accepted>>

Tick ==
    LET Older(age, max) == Min2(age + 1, max) IN
    /\ conn' = [s \in Slots |-> IF conn[s].cl = NoClient THEN conn[s]
                   ELSE [conn[s] EXCEPT !.idle = IF io = "packet" THEN 0 ELSE Older(@, IdleAge + 1),
                                        !.part = IF io = "packet" \/ @ = 0 THEN @ ELSE Older(@, PartAge + 2)]]
    /\ store' = [i \in 1..Tickets |-> IF store[i].valid THEN [store[i] EXCEPT !.age = Older(@, Lifetime + 1)] ELSE store[i]]
    /\ UNCHANGED <<io, issued, sock, backlog, client, sent, held, accepted>>

-----------------------------------------------------------------------------
\* The worker has served a client before, which holds a ticket.
TlsInit ==
    /\ io \in Ios
    /\ conn = [s \in Table[io] |-> FreeConn]
    /\ store = Insert([i \in 1..Tickets |-> NoTicket], 1)
    /\ issued = 1
    /\ sock = [c \in Clients |-> NoSock]
    /\ backlog = <<>>
    /\ client = [c \in Clients |-> [ph |-> "new"]]
    /\ sent = [c \in Clients |-> <<>>]
    /\ held = {1} /\ accepted = {}

Worker ==
    \/ Accept \/ Sweep
    \/ \E s \in Slots : KernelEvent(s) \/ OnClose(s) \/ \E n \in 1..RxCap + 1 : OnData(s, n)

Offers(plan) == IF plan.resume THEN {<<id>> : id \in held} \cup {<<a, b>> : a, b \in held} ELSE {<<>>}

TlsNext ==
    \/ Worker \/ Tick
    \/ \E c \in Clients :
        \/ \E plan \in Plans[io][c] : \E offers \in Offers(plan) : Connect(c, plan, offers)
        \/ Hello(c) \/ Early(c) \/ Finish(c) \/ Speak(c) \/ HalfClose(c) \/ Reset(c)

TlsSpec == TlsInit /\ [][TlsNext]_tlsVars

\* epoll_wait returns at least once per IDLE_SWEEP_MS, so that the worker comes
\* back to the listener and to the sweep; the clock does not stop.
TlsFairness == WF_tlsVars(Accept) /\ WF_tlsVars(Sweep) /\ WF_tlsVars(Tick)
TlsFairSpec == TlsSpec /\ TlsFairness

-----------------------------------------------------------------------------
(* Properties. *)

Live(s) == conn[s].cl # NoClient
Sealed2(s) == sent[conn[s].cl] \o conn[s].e.tx

\* The variables keep their types and no buffer of a connection overflows.
TlsTypeOK ==
    /\ io \in Ios /\ issued \in 1..1 + Cardinality(Clients)
    /\ \A s \in Slots :
        /\ conn[s].cl \in Clients \cup {NoClient}
        /\ conn[s].e.state \in {"HANDSHAKE", "APP", "CLOSED"}
        /\ Len(conn[s].e.rx) <= RxCap /\ Len(conn[s].e.tx) <= TxCap
        /\ Len(conn[s].e.app_in) <= AppCap /\ Len(conn[s].plain) <= PlainCap
        /\ conn[s].mask \subseteq {"IN", "OUT"}
    /\ \A i \in 1..Tickets : store[i].age \in 0..Lifetime + 1 /\ store[i].id \in 0..issued
    /\ \A c \in Clients : client[c].ph \in {"new", "open", "hello", "app", "gone"}

\* The number of pieces the answers in recs stand for, the answer of a request
\* being counted at its first record.
Flat(recs) == LET f[i \in 0..Len(recs)] == IF i = 0 THEN <<>> ELSE f[i - 1] \o recs[i].data IN f[Len(recs)]
Plains(recs) == SelectSeq(recs, LAMBDA r : r.ct = "app" /\ r.inner = "app")
Answered(s) ==
    LET r == Sealed2(s) IN {r[i].data[1] : i \in {j \in DOMAIN r : r[j].inner = "app"}} \ {0}

\* Nothing is lost, repeated or reordered between the records a client writes
\* and the answers: what waits in the plaintext buffer, in APP_IN, in rx_buf and
\* in the socket is exactly what the client wrote after the requests answered, and
\* once the handshake is over the plaintext buffer holds no whole request: one
\* never waits there for another packet.
NothingLost ==
    \A s \in Slots : Live(s) /\ ~ conn[s].want_close /\ client[conn[s].cl].ph # "open" =>
        LET c == conn[s]
            waiting == c.plain \o c.e.app_in \o Flat(Plains(c.e.rx)) \o Flat(Plains(sock[c.cl].inq))
            done == Cardinality(Answered(s))
        IN  /\ Len(waiting) + done = Pieces(c.cl)
            /\ \A i \in DOMAIN waiting : waiting[i][1] = done + i
            /\ c.e.state = "APP" => ~ Whole(c.plain)

\* Every record sealed for a client opens under the key and with the number the
\* client expects next: no nonce is used twice and none is skipped, over the
\* three key changes of a handshake.
NoncesInStep ==
    \A s \in Slots : Live(s) =>
        LET r == Sealed2(s) IN
        \A i \in DOMAIN r : r[i].seq = Cardinality({j \in 1..i - 1 : r[j].key = r[i].key})

\* The early data of a ticket is accepted in one handshake only, whatever
\* connections offer it again and whatever the store has evicted since.
EarlyDataOnce == \A a, b \in accepted : a[1] = b[1] => a = b

\* Every connection of the kernel-socket worker ends, whatever its client
\* withholds or fails to read: the sweep finds it if nothing else does.  (A client
\* connects once, so that in the end each has not begun or is gone.)
TlsConnectionsEnd ==
    <>[](io = "kernel" => \A c \in Clients : client[c].ph \in {"new", "gone"})
==============================================================================
