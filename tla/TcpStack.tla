------------------------------- MODULE TcpStack -------------------------------
(***************************************************************************)
(* The userspace TCP stack (src/userspace/tcp/tcp.c): a table of           *)
(* connections, the passive open, in-order delivery to a service, the      *)
(* retransmission queue with its congestion window, and teardown.          *)
(*                                                                         *)
(* Peers are ordinary TCP clients.  The network is the set of segments     *)
(* ever sent: one may arrive late, twice or never, in any order.           *)
(* Sequence numbers live modulo SeqMod, and sequence space is counted in   *)
(* units, MSS of them to a full segment.  Time is left out: a              *)
(* retransmission timer may fire whenever there is something to resend.    *)
(*                                                                         *)
(* X_bug, next to X, is X with a mistake the code could have.              *)
(***************************************************************************)
EXTENDS Integers, Sequences, FiniteSets, Functions

CONSTANTS
    Slots,      \* the connection table
    Peers,      \* remote endpoints (address and port)
    None,       \* no peer
    SeqMod,     \* 2^32 in the code
    PeerIss,    \* the initial sequence number of each peer
    StackIss,   \* what iss_derive yields for a peer and its n-th connection
    PeerData,   \* how many segments, of one unit each, each peer sends
    PeerWnd,    \* the window peers advertise
    MSS,        \* TCP_MSS
    InitCwnd,   \* TCP_INIT_CWND
    RtxMax,     \* TCP_RTX_QUEUE_MAX
    RcvCap,     \* rcv_buf_cap; 0 is no flow control
    MaxOpen,    \* bound: SYNs of a peer the table takes in
    MaxSend,    \* bound: tracked segments the application sends on a connection
    CwndMax,    \* bound: where the congestion window stops counting
    Results     \* what the service may answer to data

ASSUME TcpAssumption ==
    /\ None \notin Peers /\ SeqMod \in Nat /\ SeqMod % 2 = 0 /\ SeqMod > 2
    /\ Slots \subseteq Nat /\ IsFiniteSet(Slots) /\ PeerIss \in [Peers -> 0..SeqMod - 1]
    /\ MSS \in Nat \ {0} /\ RtxMax \in Nat \ {0} /\ RcvCap \in Nat /\ PeerData \in [Peers -> Nat]
    /\ Results \subseteq {"none", "output", "close", "reset"}

\* The network forgets nothing, so a sequence number names one unit of a stream
\* only as long as the stream does not go once around the sequence space.
ASSUME ShortStreams == \A p \in Peers : PeerData[p] < SeqMod

MinCwnd == 2 * MSS
DupAcks == 3

VARIABLES
    conn,     \* the table: tcp_conn_t per slot
    net,      \* every segment ever sent
    peer,     \* the state of each remote endpoint
    opens,    \* how many SYNs of each peer were taken in
    got,      \* what the service of a slot was given, by position in the peer's stream
    tracked,  \* what the application of a slot handed to tcp_send_at
    rented    \* connection states of a peer the service handed out and not got back

vars == <<conn, net, peer, opens, got, tracked, rented>>

-----------------------------------------------------------------------------
Plus(a, b) == (a + b) % SeqMod

\* (int32_t)(a - b)
Delta(a, b) == LET d == (a - b) % SeqMod IN IF d >= SeqMod \div 2 THEN d - SeqMod ELSE d

Lesser(a, b)  == IF a < b THEN a ELSE b
Greater(a, b) == IF a > b THEN a ELSE b

Free == [state |-> "closed", peer |-> None, snd_nxt |-> 0, snd_una |-> 0, rcv_nxt |-> 0,
         used |-> 0, rtx |-> <<>>, cwnd |-> 0, ssthresh |-> 0, snd_wnd |-> 0, dup |-> 0,
         recovering |-> FALSE, recovery_seq |-> 0, opened |-> FALSE]

\* A segment; data is the position of its payload in the stream of its sender.
Seg(to, p, flags, sq, ack, len, data) ==
    [to |-> to, peer |-> p, flags |-> flags, seq |-> sq, ack |-> ack, len |-> len, data |-> data]

\* tcp_advertised_wnd
Window(c) ==
    IF RcvCap = 0 THEN SeqMod ELSE IF c.used >= RcvCap THEN 0 ELSE RcvCap - c.used

-----------------------------------------------------------------------------
(* The handlers work on x: a slot's connection c, the segments they emit,  *)
(* what they delivered to the service, and whether they tore c down.       *)

Emit(x, flags) ==
    [x EXCEPT !.emit = @ \cup {Seg("peer", x.c.peer, flags, x.c.snd_nxt, x.c.rcv_nxt, 0, 0)}]

\* fire_close; the service gets its connection state back when it gave one out.
FireClose(x) ==
    IF x.c.opened THEN [x EXCEPT !.c.opened = FALSE, !.rented = @ - 1] ELSE x

Teardown_bug(x) == [x EXCEPT !.c.state = "closed", !.gone = TRUE]

Teardown(x) == [FireClose(x) EXCEPT !.c.state = "closed", !.gone = TRUE]

\* FIN is sent and takes one unit of sequence space.
EmitFin(x) == [Emit(x, {"FIN", "ACK"}) EXCEPT !.c.snd_nxt = Plus(@, 1), !.c.state = "last_ack"]

\* tcp_sendv of a service's answer: sent once, never tracked.
SendAnswer(x) ==
    IF x.c.state # "established" THEN x
    ELSE [x EXCEPT !.emit = @ \cup {Seg("peer", x.c.peer, {"ACK"}, x.c.snd_nxt, x.c.rcv_nxt, 1, 0)},
                   !.c.snd_nxt = Plus(@, 1)]

\* drive_service_data: the service takes the payload and decides what happens next.
Drive(x, g, res) ==
    LET y == [x EXCEPT !.got = Append(@, g.data)]
    IN  CASE res = "none"   -> y
          [] res = "output" -> SendAnswer(y)
          [] res = "close"  -> EmitFin(SendAnswer(y))
          [] res = "reset"  -> Teardown(Emit(y, {"RST"}))

-----------------------------------------------------------------------------
(* Congestion control and the retransmission queue.                        *)

FlightSize(c) == FoldFunction(LAMBDA e, n : e.len + n, 0, c.rtx)

SendWindow(c) == Greater(0, Lesser(c.cwnd, c.snd_wnd) - FlightSize(c))

Capped(n) == Lesser(n, CwndMax)

Covers_bug(ack, e) == Delta(ack, e.seq) >= 0

\* The acknowledgement covers all of a queued segment.
Covers(ack, e) == Delta(ack, Plus(e.seq, e.len)) >= 0

RtxOnAck(c, ack) == [c EXCEPT !.rtx = SelectSeq(@, LAMBDA e : ~ Covers(ack, e))]

CcOnNewAck(c, acked) ==
    LET done == c.recovering /\ Delta(c.snd_una, c.recovery_seq) >= 0
    IN  [c EXCEPT !.dup = 0,
                  !.recovering = @ /\ ~ done,
                  !.cwnd = IF done THEN c.ssthresh
                           ELSE IF c.recovering THEN @
                           ELSE IF @ < c.ssthresh THEN Capped(@ + Lesser(acked, MSS))
                           ELSE Capped(@ + Greater(1, (MSS * MSS) \div Greater(1, @)))]

\* The oldest unacknowledged segment, sent again.
Resent(x) ==
    LET e == Head(x.c.rtx)
    IN  [x EXCEPT !.emit = @ \cup {Seg("peer", x.c.peer, {"ACK"}, e.seq, x.c.rcv_nxt, e.len, e.data)}]

Ssthresh(c) == Greater(FlightSize(c) \div 2, MinCwnd)

\* dupack_n only counts up to the threshold here.
CcOnDupack(x) ==
    LET n == Lesser(x.c.dup + 1, DupAcks)
        y == [x EXCEPT !.c.dup = n]
    IN  IF n < DupAcks THEN y
        ELSE IF x.c.recovering THEN [y EXCEPT !.c.cwnd = Capped(@ + MSS)]
        ELSE Resent([y EXCEPT !.c.ssthresh = Ssthresh(x.c),
                              !.c.cwnd = Capped(Ssthresh(x.c) + 3 * MSS),
                              !.c.recovery_seq = x.c.snd_nxt, !.c.recovering = TRUE])

CcOnRto(c) ==
    [c EXCEPT !.ssthresh = Ssthresh(c), !.cwnd = MSS, !.dup = 0, !.recovering = FALSE]

-----------------------------------------------------------------------------
(* tcp_input_at.                                                           *)

\* A SYN for which there is a free slot.  What the slot's last connection left
\* in rtx and used stays.
Opening(c, g, iss) ==
    [c EXCEPT !.state = "syn_received", !.peer = g.peer, !.rcv_nxt = Plus(g.seq, 1),
              !.snd_nxt = iss, !.snd_una = iss, !.cwnd = InitCwnd, !.ssthresh = CwndMax,
              !.snd_wnd = PeerWnd, !.dup = 0, !.recovering = FALSE, !.recovery_seq = 0,
              !.opened = FALSE]

RstOk(c, g) ==
    /\ g.seq = c.rcv_nxt
    /\ \/ c.state = "syn_received"
       \/ "ACK" \in g.flags /\ Delta(g.ack, c.snd_una) >= 0 /\ Delta(g.ack, c.snd_nxt) <= 0

Advanced(x, g) == Emit([x EXCEPT !.c.rcv_nxt = Plus(@, g.len)], {"ACK"})

\* The ACK that completes the handshake, and the payload it may carry.
OnSynReceived(x, g, willing, res) ==
    LET y == [x EXCEPT !.c = [RtxOnAck(x.c, g.ack) EXCEPT !.snd_una = g.ack, !.state = "established"]]
        z == [y EXCEPT !.c.opened = TRUE, !.rented = @ + 1]
        d == Drive(z, g, res)
    IN  IF "ACK" \notin g.flags \/ g.ack # x.c.snd_nxt THEN x
        ELSE IF ~ willing THEN [Emit(y, {"RST"}) EXCEPT !.c.state = "closed", !.gone = TRUE]
        ELSE IF g.len = 0 THEN z
        ELSE IF d.gone THEN d
        ELSE Advanced(d, g)

OnAck(x, g) ==
    LET adv == Delta(g.ack, x.c.snd_una)
        dup == /\ g.ack = x.c.snd_una /\ x.c.rtx # <<>> /\ g.len = 0
               /\ g.flags \cap {"SYN", "FIN"} = {}
    IN  IF "ACK" \notin g.flags THEN x
        ELSE IF adv > 0
             THEN [x EXCEPT !.c = CcOnNewAck([RtxOnAck(x.c, g.ack) EXCEPT !.snd_una = g.ack], adv)]
        ELSE IF dup THEN CcOnDupack(x)
        ELSE x


\* The payload fits the window advertised.
Fits(c, g) == g.len <= Window(c)

OnFin(x, g) ==
    IF "FIN" \notin g.flags THEN x
    ELSE FireClose(EmitFin(Emit([x EXCEPT !.c.rcv_nxt = Plus(@, 1)], {"ACK"})))

Refused_bug(x, g) == Advanced(x, g)

\* A segment the window has no room for is dropped and what came before it acknowledged.
Refused(x, g) == Emit(x, {"ACK"})

InOrder_bug(c, g) == Delta(g.seq, c.rcv_nxt) <= 0

InOrder(c, g) == g.seq = c.rcv_nxt

OnEstablished(x, g, res) ==
    LET y == OnAck(x, g)
        d == Drive(y, g, res)
        z == Advanced([d EXCEPT !.c.used = IF RcvCap > 0 THEN @ + g.len ELSE @], g)
    IN  IF ~ InOrder(x.c, g) THEN Emit(x, {"ACK"})
        ELSE IF g.len = 0 THEN OnFin(y, g)
        ELSE IF ~ Fits(y.c, g) THEN Refused(y, g)
        ELSE IF d.gone THEN d
        ELSE OnFin(z, g)

OnLastAck(x, g) ==
    IF "ACK" \in g.flags /\ g.ack = x.c.snd_nxt THEN Teardown(x) ELSE x

OnSegment(x, g, willing, res) ==
    IF "RST" \in g.flags THEN IF RstOk(x.c, g) THEN Teardown(x) ELSE x
    ELSE CASE x.c.state = "syn_received" -> OnSynReceived(x, g, willing, res)
           [] x.c.state = "established"  -> OnEstablished(x, g, res)
           [] x.c.state = "last_ack"     -> OnLastAck(x, g)

-----------------------------------------------------------------------------
(* What the stack does.                                                    *)

Serving(s, p) == conn[s].state # "closed" /\ conn[s].peer = p
Lowest(S)     == CHOOSE s \in S : \A t \in S : s <= t

Context(s) == [c |-> conn[s], emit |-> {}, got |-> got[s], gone |-> FALSE, rented |-> rented[conn[s].peer]]

\* No connection for it: only a SYN is answered.
Accept(g) ==
    LET closed == {s \in Slots : conn[s].state = "closed"}
        s == Lowest(closed)
        c == Opening(conn[s], g, StackIss[g.peer][opens[g.peer] + 1])
        x == Emit([c |-> c, emit |-> {}], {"SYN", "ACK"})
    IN  /\ g \in net /\ g.to = "stack" /\ g.flags = {"SYN"}
        /\ ~ \E t \in Slots : Serving(t, g.peer)
        /\ closed # {} /\ opens[g.peer] < MaxOpen
        /\ conn' = [conn EXCEPT ![s] = [c EXCEPT !.snd_nxt = Plus(@, 1)]]
        /\ net' = net \cup x.emit
        /\ opens' = [opens EXCEPT ![g.peer] = @ + 1]
        /\ got' = [got EXCEPT ![s] = <<>>] /\ tracked' = [tracked EXCEPT ![s] = {}]
        /\ UNCHANGED <<peer, rented>>

\* on_open may refuse a connection, and on_data decides only where there is data.
Input(s, g, willing, res) ==
    LET x == OnSegment(Context(s), g, willing, res)
    IN  /\ g \in net /\ g.to = "stack" /\ Serving(s, g.peer)
        /\ willing \/ conn[s].state = "syn_received"
        /\ res = "none" \/ g.len > 0
        /\ conn' = [conn EXCEPT ![s] = x.c]
        /\ net' = net \cup x.emit
        /\ got' = [got EXCEPT ![s] = x.got]
        /\ rented' = [rented EXCEPT ![g.peer] = x.rented]
        /\ UNCHANGED <<peer, opens, tracked>>

Queueable(c) == Len(c.rtx) < RtxMax /\ MSS <= SendWindow(c)

\* tcp_send_at of one full segment, tracked for retransmission.
SendAt(s) ==
    LET c == conn[s]
        n == Cardinality(tracked[s]) + 1
        e == [seq |-> c.snd_nxt, len |-> MSS, data |-> n]
    IN  /\ c.state = "established" /\ n <= MaxSend /\ Queueable(c)
        /\ conn' = [conn EXCEPT ![s].rtx = Append(@, e), ![s].snd_nxt = Plus(@, MSS)]
        /\ net' = net \cup {Seg("peer", c.peer, {"ACK"}, c.snd_nxt, c.rcv_nxt, MSS, n)}
        /\ tracked' = [tracked EXCEPT ![s] = @ \cup {e}]
        /\ UNCHANGED <<peer, opens, got, rented>>

\* tcp_tick finds the oldest segment of a connection overdue.
Tick(s) ==
    LET x == Resent([c |-> conn[s], emit |-> {}])
    IN  /\ conn[s].state = "established" /\ conn[s].rtx # <<>>
        /\ conn' = [conn EXCEPT ![s] = CcOnRto(@)]
        /\ net' = net \cup x.emit
        /\ UNCHANGED <<peer, opens, got, tracked, rented>>

\* tcp_rcv_consumed by the application.
Consume(s) ==
    LET x == Emit([c |-> conn[s], emit |-> {}], {"ACK"})
    IN  /\ conn[s].used > 0 /\ conn[s].state # "closed"
        /\ conn' = [conn EXCEPT ![s].used = @ - 1]
        /\ net' = IF Window(conn[s]) = 0 /\ conn[s].state = "established" THEN net \cup x.emit ELSE net
        /\ UNCHANGED <<peer, opens, got, tracked, rented>>

-----------------------------------------------------------------------------
(* The peers: ordinary clients that open, send PeerData[p] segments, take  *)
(* what comes in order, and finish or abort.                               *)

Sends(p, k, g) ==
    /\ peer' = [peer EXCEPT ![p] = k] /\ net' = net \cup {g}
    /\ UNCHANGED <<conn, opens, got, tracked, rented>>

Connect(p) ==
    /\ peer[p].st = "closed"
    /\ Sends(p, [peer[p] EXCEPT !.st = "syn"], Seg("stack", p, {"SYN"}, PeerIss[p], 0, 0, 0))

PeerNext(p) == Plus(PeerIss[p], 1 + peer[p].sent)

PeerAck(p, k) == Seg("stack", p, {"ACK"}, PeerNext(p), k.next, 0, 0)

PeerOpen(p, g) ==
    LET k == [peer[p] EXCEPT !.st = "open", !.next = Plus(g.seq, 1)]
    IN  /\ g \in net /\ g.to = "peer" /\ g.peer = p /\ peer[p].st = "syn"
        /\ g.flags = {"SYN", "ACK"} /\ g.ack = PeerNext(p)
        /\ Sends(p, k, PeerAck(p, k))

PeerTake(p, g) ==
    LET k == [peer[p] EXCEPT !.next = Plus(@, g.len + IF "FIN" \in g.flags THEN 1 ELSE 0)]
    IN  /\ g \in net /\ g.to = "peer" /\ g.peer = p /\ peer[p].st = "open"
        /\ g.seq = peer[p].next /\ (g.len > 0 \/ "FIN" \in g.flags)
        /\ Sends(p, k, PeerAck(p, k))

\* A unit of data, the last one possibly with the FIN.
PeerSend(p, fin) ==
    /\ peer[p].st = "open" /\ peer[p].sent < PeerData[p]
    /\ fin => peer[p].sent + 1 = PeerData[p]
    /\ Sends(p, [peer[p] EXCEPT !.sent = @ + 1, !.st = IF fin THEN "done" ELSE @],
             Seg("stack", p, IF fin THEN {"ACK", "FIN"} ELSE {"ACK"},
                 PeerNext(p), peer[p].next, 1, peer[p].sent + 1))

PeerAbort(p) ==
    /\ peer[p].st = "open"
    /\ Sends(p, [peer[p] EXCEPT !.st = "done"],
             Seg("stack", p, {"RST", "ACK"}, PeerNext(p), peer[p].next, 0, 0))

-----------------------------------------------------------------------------
Init ==
    /\ conn = [s \in Slots |-> Free] /\ net = {}
    /\ peer = [p \in Peers |-> [st |-> "closed", sent |-> 0, next |-> 0]]
    /\ opens = [p \in Peers |-> 0] /\ got = [s \in Slots |-> <<>>]
    /\ tracked = [s \in Slots |-> {}] /\ rented = [p \in Peers |-> 0]

Next ==
    \/ \E g \in net : Accept(g)
    \/ \E s \in Slots, g \in net, willing \in BOOLEAN, res \in Results : Input(s, g, willing, res)
    \/ \E s \in Slots : SendAt(s) \/ Tick(s) \/ Consume(s)
    \/ \E p \in Peers : Connect(p) \/ PeerAbort(p) \/ \E fin \in BOOLEAN : PeerSend(p, fin)
    \/ \E p \in Peers, g \in net : PeerOpen(p, g) \/ PeerTake(p, g)

Spec == Init /\ [][Next]_vars

-----------------------------------------------------------------------------
(* Properties.                                                             *)

\* Every variable has its type, and the table's queues and buffers keep within
\* their bounds.
TypeOK ==
    /\ \A s \in Slots :
         /\ conn[s].state \in {"closed", "syn_received", "established", "last_ack"}
         /\ conn[s].snd_nxt \in 0..SeqMod - 1 /\ conn[s].rcv_nxt \in 0..SeqMod - 1
         /\ Len(conn[s].rtx) <= RtxMax /\ conn[s].used \in 0..RcvCap
         /\ conn[s].cwnd \in 0..CwndMax /\ conn[s].dup \in 0..DupAcks
    /\ \A p \in Peers : rented[p] \in Nat

\* Once the first unit of a peer's stream was the first to be delivered, the
\* service is given the stream in order, with no unit repeated or left out,
\* whatever the network does and across the wrap of sequence numbers.
StreamInOrder ==
    \A s \in Slots : got[s] # <<>> /\ got[s][1] = 1 => \A i \in DOMAIN got[s] : got[s][i] = i

\* What an established connection acknowledges is as much as it gave to its
\* service: a segment dropped for its order or for want of room is not acknowledged.
AcksWhatItDelivered ==
    \A s \in Slots : conn[s].state = "established" =>
        conn[s].rcv_nxt = Plus(PeerIss[conn[s].peer], 1 + Len(got[s]))

\* on_close is called exactly once for every on_open that gave out a connection
\* state, and never for a connection that is refused (dispatch.h).
OpenClosePaired ==
    /\ \A p \in Peers : rented[p] = Cardinality({s \in Slots : conn[s].opened /\ conn[s].peer = p})
    /\ \A s \in Slots : conn[s].state \in {"closed", "syn_received"} => ~ conn[s].opened

\* Data handed to tcp_send_at is in the retransmission queue until its peer has
\* acknowledged all of it.
TrackedIsKept ==
    \A s \in Slots : conn[s].state = "established" =>
        \A e \in tracked[s] : e \in Range(conn[s].rtx) \/ Delta(conn[s].snd_una, Plus(e.seq, e.len)) >= 0

\* A service is given the data of a connection in order (dispatch.h, tcp.h).
DataIsInOrder == \A s \in Slots : \A i \in DOMAIN got[s] : got[s][i] = i
=============================================================================
