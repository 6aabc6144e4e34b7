--------------------------- MODULE TcpStackProofs ---------------------------
(***************************************************************************)
(* The receiving side of the userspace TCP stack, for any table, any       *)
(* number of peers and any network that loses, repeats and reorders.       *)
(*                                                                         *)
(* The segments of a peer that are on their way say the truth about its    *)
(* stream (NetOK); a connection that has taken in n units expects unit     *)
(* n + 1 (StreamOK).  As segments may be late by as much as the whole      *)
(* stream, a stream must be shorter than the sequence space for a number   *)
(* to name one unit of it (ShortStreams).                                  *)
(***************************************************************************)
EXTENDS TcpStack, FiniteSetTheorems, NaturalsInduction, WellFoundedInduction, TLAPS

States == {"closed", "syn_received", "established", "last_ack"}

ConnOK(c) ==
    /\ DOMAIN c = DOMAIN Free /\ c.state \in States /\ c.opened \in BOOLEAN
    /\ c.state # "closed" => c.peer \in Peers
    /\ c.opened => c.state \in {"established", "last_ack"}

TcpShape ==
    /\ DOMAIN conn = Slots /\ \A s \in Slots : ConnOK(conn[s])
    /\ got \in [Slots -> Seq(Nat)] /\ rented \in [Peers -> Int]
    /\ DOMAIN peer = Peers
    /\ \A p \in Peers : DOMAIN peer[p] = {"st", "sent", "next"} /\ peer[p].sent \in 0..PeerData[p]

\* What a segment of a peer says about its stream.
Truthful(g) ==
    /\ g.peer \in Peers /\ g.len \in {0, 1}
    /\ g.flags = {"SYN"} => g.seq = PeerIss[g.peer]
    /\ g.len = 1 => g.data \in 1..PeerData[g.peer] /\ g.seq = Plus(PeerIss[g.peer], g.data)

NetOK == \A g \in net : g.to = "stack" => Truthful(g)

\* What was delivered in order, of a stream of n units.
Ordered(d, n) == d # <<>> /\ d[1] = 1 => Len(d) <= n /\ \A i \in DOMAIN d : d[i] = i

StreamOK(c, d) ==
    /\ c.state = "syn_received" => d = <<>>
    /\ c.state \in {"syn_received", "established"} => c.rcv_nxt = Plus(PeerIss[c.peer], 1 + Len(d))
    /\ d # <<>> => c.peer \in Peers
    /\ Ordered(d, PeerData[c.peer])

\* The slots whose service rented a connection state for p.
Using(p) == {s \in Slots : conn[s].opened /\ conn[s].peer = p}

TcpInv ==
    /\ TcpShape /\ NetOK
    /\ \A p \in Peers : rented[p] = Cardinality(Using(p))
    /\ \A s \in Slots : StreamOK(conn[s], got[s])

-----------------------------------------------------------------------------
(* Sequence numbers.                                                       *)

\* A remainder is determined by any way of writing the number.
LEMMA Remainder ==
    ASSUME NEW m \in Nat \ {0}, NEW a \in Int, NEW q \in Int, NEW r \in 0..m - 1, a = m * q + r
    PROVE  a % m = r
<1> DEFINE d == a \div m  e == a % m
<1>1. d \in Int /\ e \in 0..m - 1 /\ a = m * d + e  OBVIOUS
<1> HIDE DEF d, e
<1>2. m * (d - q) = r - e  BY <1>1
<1>3. d - q \in Int /\ -m < r - e /\ r - e < m  BY <1>1
<1>4. \A k \in Int : k >= 1 => m * k >= m  OBVIOUS
<1>5. \A k \in Int : k <= -1 => m * k <= -m  OBVIOUS
<1>6. d - q = 0  BY <1>2, <1>3, <1>4, <1>5
<1>7. e = r  BY <1>1, <1>2, <1>6
<1> QED  BY <1>7 DEF e

\* Sequence numbers add up.
LEMMA PlusPlus ==
    ASSUME NEW a \in Nat, NEW b \in Nat, NEW c \in Nat
    PROVE  Plus(a, b) \in 0..SeqMod - 1 /\ Plus(Plus(a, b), c) = Plus(a, b + c)
<1>1. SeqMod \in Nat \ {0}  BY TcpAssumption
<1> DEFINE q == (a + b) \div SeqMod  r == (a + b) % SeqMod
           p == (r + c) \div SeqMod  t == (r + c) % SeqMod
<1>2. q \in Int /\ r \in 0..SeqMod - 1 /\ a + b = SeqMod * q + r  BY <1>1
<1>3. r + c \in Nat  BY <1>1, <1>2
<1>4. p \in Int /\ t \in 0..SeqMod - 1 /\ r + c = SeqMod * p + t  BY <1>1, <1>3
<1> HIDE DEF q, r, p, t
<1>5. a + (b + c) = SeqMod * (q + p) + t  BY <1>1, <1>2, <1>4
<1>6. (a + (b + c)) % SeqMod = t
  <2> DEFINE z == a + (b + c)  w == q + p
  <2>1. z \in Int /\ w \in Int /\ z = SeqMod * w + t  BY <1>2, <1>4, <1>5
  <2> HIDE DEF z, w
  <2>2. z % SeqMod = t  BY <1>1, <1>4, <2>1, Remainder
  <2> QED  BY <2>2 DEF z
<1> QED  BY <1>2, <1>6 DEF Plus, r, t

\* Positions less than SeqMod apart have different sequence numbers.
LEMMA PlusCancels ==
    ASSUME NEW a \in Nat, NEW k \in 0..SeqMod - 1, NEW n \in 0..SeqMod - 1, Plus(a, 1 + k) = Plus(a, 1 + n)
    PROVE  k = n
<1>1. SeqMod \in Nat \ {0}  BY TcpAssumption
<1> DEFINE q == (a + (1 + k)) \div SeqMod  r == (a + (1 + k)) % SeqMod
           p == (a + (1 + n)) \div SeqMod  t == (a + (1 + n)) % SeqMod
<1>2. q \in Int /\ r \in 0..SeqMod - 1 /\ a + (1 + k) = SeqMod * q + r  BY <1>1
<1>3. p \in Int /\ t \in 0..SeqMod - 1 /\ a + (1 + n) = SeqMod * p + t  BY <1>1
<1>4. r = t  BY DEF Plus
<1> HIDE DEF q, r, p, t
<1>5. SeqMod * (q - p) = k - n /\ q - p \in Int  BY <1>1, <1>2, <1>3, <1>4
<1>6. \A i \in Int : i >= 1 => SeqMod * i >= SeqMod  BY <1>1
<1>7. \A i \in Int : i <= -1 => SeqMod * i <= -SeqMod  BY <1>1
<1>8. q - p = 0  BY <1>1, <1>5, <1>6, <1>7
<1> QED  BY <1>1, <1>5, <1>8

-----------------------------------------------------------------------------
(* The handlers.                                                           *)

ToPeers(E) == \A g \in E : g.to = "peer"

\* What a handler works on.
Handled(x) ==
    /\ DOMAIN x = {"c", "emit", "got", "gone", "rented"} /\ ConnOK(x.c) /\ x.c.peer \in Peers
    /\ ToPeers(x.emit) /\ x.got \in Seq(Nat) /\ x.rented \in Int

\* The connection states of x's peer that are rented for other slots.
ForOthers(x) == x.rented - (IF x.c.opened THEN 1 ELSE 0)

\* y is x after a step that neither receives nor opens nor closes.
Quiet(x, y) ==
    /\ DOMAIN y = DOMAIN x /\ DOMAIN y.c = DOMAIN x.c
    /\ y.c.state = x.c.state /\ y.c.peer = x.c.peer /\ y.c.rcv_nxt = x.c.rcv_nxt /\ y.c.opened = x.c.opened
    /\ y.got = x.got /\ y.gone = x.gone /\ y.rented = x.rented /\ ToPeers(y.emit)

\* Such a step leaves alone what the invariant is about.
LEMMA QuietKeeps ==
    ASSUME NEW x, NEW y, Handled(x), Quiet(x, y)
    PROVE  Handled(y) /\ ForOthers(y) = ForOthers(x)
  BY DEF Handled, Quiet, ConnOK, ForOthers

\* So do two of them.
LEMMA QuietTwice ==
    ASSUME NEW x, NEW y, NEW z, Quiet(x, y), Quiet(y, z)
    PROVE  Quiet(x, z)
  BY DEF Quiet

\* A segment is sent to the peer.
LEMMA EmitKeeps ==
    ASSUME NEW x, Handled(x), NEW f
    PROVE  Quiet(x, Emit(x, f))
<1> DEFINE g == Seg("peer", x.c.peer, f, x.c.snd_nxt, x.c.rcv_nxt, 0, 0)
           E == x.emit \cup {g}
           y == [x EXCEPT !.emit = E]
<1>1. g.to = "peer"  BY DEF Seg
<1> HIDE DEF g
<1>2. ToPeers(E)  BY <1>1 DEF Handled, ToPeers
<1> HIDE DEF E
<1>3. Quiet(x, y)  BY <1>2 DEF Handled, Quiet
<1> QED  BY <1>3 DEF Emit, y, E, g

\* A service's answer goes out once.
LEMMA SendAnswerKeeps ==
    ASSUME NEW x, Handled(x)
    PROVE  Quiet(x, SendAnswer(x))
<1> DEFINE g == Seg("peer", x.c.peer, {"ACK"}, x.c.snd_nxt, x.c.rcv_nxt, 1, 0)
           E == x.emit \cup {g}
           y == [x EXCEPT !.emit = E, !.c.snd_nxt = Plus(@, 1)]
<1>1. g.to = "peer"  BY DEF Seg
<1> HIDE DEF g
<1>2. ToPeers(E)  BY <1>1 DEF Handled, ToPeers
<1> HIDE DEF E
<1>3. Quiet(x, y)  BY <1>2 DEF Handled, Quiet, ConnOK, Free
<1>4. Quiet(x, x)  BY DEF Handled, Quiet
<1> QED  BY <1>3, <1>4 DEF SendAnswer, y, E, g

\* The acknowledgements of our own data touch only the sending side.
LEMMA OnAckKeeps ==
    ASSUME NEW x, Handled(x), NEW g
    PROVE  Quiet(x, OnAck(x, g))
<1>1. Quiet(x, x)  BY DEF Handled, Quiet
<1>2. ASSUME NEW a PROVE Quiet(x, [x EXCEPT !.c = CcOnNewAck([RtxOnAck(x.c, g.ack) EXCEPT !.snd_una = g.ack], a)])
  <2> DEFINE c == [RtxOnAck(x.c, g.ack) EXCEPT !.snd_una = g.ack]
             d == CcOnNewAck(c, a)
  <2>1. DOMAIN c = DOMAIN Free /\ c.state = x.c.state /\ c.peer = x.c.peer /\ c.rcv_nxt = x.c.rcv_nxt /\ c.opened = x.c.opened
    BY DEF Handled, ConnOK, RtxOnAck, Free
  <2> HIDE DEF c
  <2>2. DOMAIN d = DOMAIN Free /\ d.state = x.c.state /\ d.peer = x.c.peer /\ d.rcv_nxt = x.c.rcv_nxt /\ d.opened = x.c.opened
    BY <2>1 DEF CcOnNewAck, Free
  <2> HIDE DEF d
  <2>3. Quiet(x, [x EXCEPT !.c = d])  BY <2>2 DEF Handled, ConnOK, Quiet
  <2> QED  BY <2>3 DEF d, c
<1>3. Quiet(x, CcOnDupack(x))
  <2> DEFINE n == Lesser(x.c.dup + 1, DupAcks)
             y == [x EXCEPT !.c.dup = n]
             u == [y EXCEPT !.c.cwnd = Capped(@ + MSS)]
             v == [y EXCEPT !.c.ssthresh = Ssthresh(x.c), !.c.cwnd = Capped(Ssthresh(x.c) + 3 * MSS),
                            !.c.recovery_seq = x.c.snd_nxt, !.c.recovering = TRUE]
  <2> HIDE DEF n
  <2>1. Quiet(x, y)  BY DEF Handled, ConnOK, Free, Quiet
  <2> HIDE DEF y
  <2>2. Handled(y)  BY <2>1, QuietKeeps
  <2>3. Quiet(y, u)  BY <2>2 DEF Handled, ConnOK, Free, Quiet
  <2>4. Quiet(y, v)  BY <2>2, Zenon DEF Handled, ConnOK, Free, Quiet
  <2> HIDE DEF u, v
  <2>5. Handled(v) /\ Quiet(x, v)  BY <2>1, <2>2, <2>4, QuietKeeps, QuietTwice
  <2>6. Quiet(v, Resent(v))
    <3> DEFINE e == Head(v.c.rtx)
               h == Seg("peer", v.c.peer, {"ACK"}, e.seq, v.c.rcv_nxt, e.len, e.data)
               E == v.emit \cup {h}
    <3>1. h.to = "peer"  BY DEF Seg
    <3> HIDE DEF h
    <3>2. ToPeers(E)  BY <2>5, <3>1 DEF Handled, ToPeers
    <3> HIDE DEF E
    <3>3. Quiet(v, [v EXCEPT !.emit = E])  BY <2>5, <3>2 DEF Handled, Quiet
    <3> QED  BY <3>3 DEF Resent, E, h
  <2>7. Quiet(x, Resent(v)) /\ Quiet(x, u)  BY <2>1, <2>3, <2>5, <2>6, QuietTwice
  <2> QED  BY <2>1, <2>7 DEF CcOnDupack, y, u, v, n
<1> QED  BY <1>1, <1>2, <1>3 DEF OnAck

\* y is x after a step that may end the connection but delivers nothing.
Kept(x, y) ==
    /\ Handled(y) /\ ForOthers(y) = ForOthers(x) /\ y.c.peer = x.c.peer /\ y.got = x.got

\* fire_close gives back what on_open took, once.
LEMMA FireCloseKeeps ==
    ASSUME NEW x, Handled(x)
    PROVE  /\ Kept(x, FireClose(x)) /\ ~ FireClose(x).c.opened
           /\ FireClose(x).c.state = x.c.state /\ FireClose(x).gone = x.gone
<1>1. CASE ~ x.c.opened
  <2>1. FireClose(x) = x  BY <1>1 DEF FireClose
  <2> QED  BY <1>1, <2>1 DEF Kept
<1>2. CASE x.c.opened
  <2> DEFINE y == [x EXCEPT !.c.opened = FALSE, !.rented = @ - 1]
  <2>1. FireClose(x) = y  BY <1>2 DEF FireClose
  <2>2. /\ DOMAIN y = DOMAIN x /\ DOMAIN y.c = DOMAIN x.c /\ y.rented = x.rented - 1
        /\ y.c.state = x.c.state /\ y.c.peer = x.c.peer /\ y.got = x.got /\ y.gone = x.gone /\ y.emit = x.emit
    BY DEF Handled, ConnOK, Free
  <2>3. y.c.opened = FALSE  BY DEF Handled, ConnOK, Free
  <2> HIDE DEF y
  <2>4. y.c.opened \in BOOLEAN  BY <2>3, Zenon
  <2>5. x.rented \in Int  BY DEF Handled
  <2>6. y.rented \in Int  BY <2>2, <2>5
  <2>7. Handled(y)  BY <2>2, <2>3, <2>4, <2>6 DEF Handled, ConnOK
  <2>8. ForOthers(y) = ForOthers(x)  BY <1>2, <2>2, <2>3, <2>5 DEF ForOthers
  <2> QED  BY <2>1, <2>2, <2>3, <2>7, <2>8 DEF Kept
<1> QED  BY <1>1, <1>2

\* A connection torn down is closed and its service has been told.
LEMMA TeardownKeeps ==
    ASSUME NEW x, Handled(x)
    PROVE  Kept(x, Teardown(x)) /\ Teardown(x).c.state = "closed"
<1> DEFINE y == FireClose(x)  z == [y EXCEPT !.c.state = "closed", !.gone = TRUE]
<1>1. Kept(x, y) /\ ~ y.c.opened  BY FireCloseKeeps
<1> HIDE DEF y
<1>2. /\ DOMAIN z = DOMAIN y /\ DOMAIN z.c = DOMAIN y.c /\ z.rented = y.rented /\ z.c.opened = y.c.opened
      /\ z.c.state = "closed" /\ z.c.peer = y.c.peer /\ z.got = y.got /\ z.emit = y.emit
  BY <1>1 DEF Kept, Handled, ConnOK, Free
<1> HIDE DEF z
<1>3. Handled(z)  BY <1>1, <1>2 DEF Kept, Handled, ConnOK, States
<1>4. ForOthers(z) = ForOthers(y)  BY <1>2 DEF ForOthers
<1> QED  BY <1>1, <1>2, <1>3, <1>4 DEF Kept, Teardown, y, z

\* Our FIN goes out.
LEMMA EmitFinKeeps ==
    ASSUME NEW x, Handled(x)
    PROVE  /\ Kept(x, EmitFin(x)) /\ EmitFin(x).c.state = "last_ack" /\ EmitFin(x).gone = x.gone
<1> DEFINE y == Emit(x, {"FIN", "ACK"})
           z == [y EXCEPT !.c.snd_nxt = Plus(@, 1), !.c.state = "last_ack"]
<1>1. Quiet(x, y)  BY EmitKeeps
<1>2. Handled(y) /\ ForOthers(y) = ForOthers(x)  BY <1>1, QuietKeeps
<1> HIDE DEF y
<1>3. /\ DOMAIN z = DOMAIN y /\ DOMAIN z.c = DOMAIN y.c /\ z.rented = y.rented /\ z.c.opened = y.c.opened
      /\ z.c.state = "last_ack" /\ z.c.peer = y.c.peer /\ z.got = y.got /\ z.emit = y.emit /\ z.gone = y.gone
  BY <1>2, Zenon DEF Handled, ConnOK, Free
<1> HIDE DEF z
<1>4. Handled(z)  BY <1>2, <1>3 DEF Handled, ConnOK, States
<1>5. ForOthers(z) = ForOthers(y)  BY <1>3 DEF ForOthers
<1> QED  BY <1>1, <1>2, <1>3, <1>4, <1>5 DEF Kept, Quiet, EmitFin, y, z

\* drive_service_data: the service is given one unit, and the connection goes on,
\* is closing, or is gone.
LEMMA DriveKeeps ==
    ASSUME NEW x, Handled(x), NEW g, g.data \in Nat, NEW res \in {"none", "output", "close", "reset"}
    PROVE  LET d == Drive(x, g, res) IN
           /\ Handled(d) /\ ForOthers(d) = ForOthers(x) /\ d.c.peer = x.c.peer /\ d.got = Append(x.got, g.data)
           /\ \/ d.c.state = "closed"
              \/ d.gone = x.gone /\ d.c.state = "last_ack"
              \/ d.gone = x.gone /\ d.c.state = x.c.state /\ d.c.rcv_nxt = x.c.rcv_nxt
<1> DEFINE y == [x EXCEPT !.got = Append(@, g.data)]
           a == SendAnswer(y)
           r == Emit(y, {"RST"})
<1>1. /\ DOMAIN y = DOMAIN x /\ y.c = x.c /\ y.emit = x.emit /\ y.gone = x.gone /\ y.rented = x.rented
      /\ y.got = Append(x.got, g.data)
  BY DEF Handled
<1>2. y.got \in Seq(Nat)  BY <1>1 DEF Handled
<1> HIDE DEF y
<1>3. Handled(y) /\ ForOthers(y) = ForOthers(x)  BY <1>1, <1>2 DEF Handled, ForOthers
<1>4. Quiet(y, a) /\ Quiet(y, r)  BY <1>3, SendAnswerKeeps, EmitKeeps
<1>5. Handled(a) /\ Handled(r) /\ ForOthers(a) = ForOthers(x) /\ ForOthers(r) = ForOthers(x)  BY <1>3, <1>4, QuietKeeps
<1>6. CASE res = "none"
  <2>1. Drive(x, g, res) = y  BY <1>6 DEF Drive, y
  <2> QED  BY <1>1, <1>3, <2>1
<1>7. CASE res = "output"
  <2>1. Drive(x, g, res) = a  BY <1>7 DEF Drive, y
  <2> QED  BY <1>1, <1>4, <1>5, <2>1 DEF Quiet
<1>8. CASE res = "close"
  <2>1. Drive(x, g, res) = EmitFin(a)  BY <1>8 DEF Drive, y
  <2> HIDE DEF a
  <2>2. Kept(a, EmitFin(a)) /\ EmitFin(a).c.state = "last_ack" /\ EmitFin(a).gone = a.gone  BY <1>5, EmitFinKeeps
  <2> QED  BY <1>1, <1>4, <1>5, <2>1, <2>2 DEF Quiet, Kept
<1>9. CASE res = "reset"
  <2>1. Drive(x, g, res) = Teardown(r)  BY <1>9 DEF Drive, y
  <2> HIDE DEF r
  <2>2. Kept(r, Teardown(r)) /\ Teardown(r).c.state = "closed"  BY <1>5, TeardownKeeps
  <2> QED  BY <1>1, <1>4, <1>5, <2>1, <2>2 DEF Quiet, Kept
<1> QED  BY <1>6, <1>7, <1>8, <1>9

\* What a handler starts from and what it must leave behind.
Good(x) == Handled(x) /\ StreamOK(x.c, x.got)
Result(x, y) == Good(y) /\ ForOthers(y) = ForOthers(x) /\ y.c.peer = x.c.peer

\* Nothing received, nothing opened or closed.
LEMMA QuietResult ==
    ASSUME NEW x, NEW y, Good(x), Quiet(x, y)
    PROVE  Result(x, y)
  BY QuietKeeps DEF Good, Result, Quiet, StreamOK

\* A connection that has ended keeps what it delivered.
LEMMA EndedResult ==
    ASSUME NEW x, NEW y, Good(x), Kept(x, y), y.c.state \in {"closed", "last_ack"}
    PROVE  Result(x, y)
  BY DEF Good, Result, Kept, StreamOK

\* Two steps of a handler.
LEMMA ResultTwice ==
    ASSUME NEW x, NEW y, NEW z, Result(x, y), Result(y, z)
    PROVE  Result(x, z)
  BY DEF Result

\* The unit a connection expects next, or any unit if it is the first, extends
\* what was delivered in order.
LEMMA NextUnit ==
    ASSUME NEW p \in Peers, NEW d \in Seq(Nat), Ordered(d, PeerData[p]), NEW u \in 1..PeerData[p],
           d = <<>> \/ Plus(PeerIss[p], u) = Plus(PeerIss[p], 1 + Len(d))
    PROVE  Ordered(Append(d, u), PeerData[p])
<1>1. PeerData[p] \in Nat /\ PeerData[p] < SeqMod /\ PeerIss[p] \in Nat /\ SeqMod \in Nat  BY TcpAssumption, ShortStreams
<1>2. /\ Len(d) \in Nat /\ DOMAIN d = 1..Len(d) /\ u \in Nat
      /\ Len(Append(d, u)) = Len(d) + 1 /\ DOMAIN Append(d, u) = 1..Len(d) + 1
      /\ Append(d, u)[Len(d) + 1] = u /\ \A i \in 1..Len(d) : Append(d, u)[i] = d[i]
  BY <1>1
<1>3. PICK e : e = Append(d, u)  BY Zenon
<1>4. CASE d = <<>>
  <2>1. Len(d) = 0  BY <1>4
  <2> QED  BY <1>1, <1>2, <2>1 DEF Ordered
<1>5. CASE d # <<>> /\ d[1] # 1
  <2>1. 1 \in 1..Len(d)  BY <1>2, <1>5
  <2> QED  BY <1>2, <1>5, <2>1 DEF Ordered
<1>6. CASE d # <<>> /\ d[1] = 1
  <2>1. Len(d) <= PeerData[p] /\ \A i \in 1..Len(d) : d[i] = i  BY <1>2, <1>6 DEF Ordered
  <2>2. PICK k \in 0..SeqMod - 1 : k = Len(d)
    <3>1. Len(d) \in 0..SeqMod - 1  BY <1>1, <1>2, <2>1
    <3> QED  BY <3>1
  <2>3. PICK n \in 0..SeqMod - 1 : 1 + n = u
    <3>1. u - 1 \in 0..SeqMod - 1 /\ 1 + (u - 1) = u  BY <1>1
    <3> QED  BY <3>1
  <2>4. Plus(PeerIss[p], 1 + k) = Plus(PeerIss[p], 1 + n)  BY <1>6, <2>2, <2>3
  <2>5. k = n  BY <1>1, <2>4, PlusCancels
  <2>6. u = Len(d) + 1  BY <1>1, <2>2, <2>3, <2>5
  <2> QED  BY <1>1, <1>2, <2>1, <2>6 DEF Ordered
<1> QED  BY <1>4, <1>5, <1>6

\* rcv_nxt moves on and an acknowledgement goes out.
LEMMA AdvancedKeeps ==
    ASSUME NEW x, Handled(x), NEW g
    PROVE  /\ Kept(x, Advanced(x, g)) /\ Advanced(x, g).c.state = x.c.state
           /\ Advanced(x, g).c.rcv_nxt = Plus(x.c.rcv_nxt, g.len)
<1> DEFINE n == Plus(x.c.rcv_nxt, g.len)
           y == [x EXCEPT !.c.rcv_nxt = n]
<1>1. Advanced(x, g) = Emit(y, {"ACK"})  BY DEF Advanced
<1> HIDE DEF n
<1>2. /\ DOMAIN y = DOMAIN x /\ DOMAIN y.c = DOMAIN x.c /\ y.rented = x.rented /\ y.c.opened = x.c.opened
      /\ y.c.state = x.c.state /\ y.c.peer = x.c.peer /\ y.got = x.got /\ y.emit = x.emit /\ y.gone = x.gone
      /\ y.c.rcv_nxt = n
  BY DEF Handled, ConnOK, Free
<1> HIDE DEF y
<1>3. Handled(y) /\ ForOthers(y) = ForOthers(x)  BY <1>2 DEF Handled, ConnOK, ForOthers
<1>4. Quiet(y, Emit(y, {"ACK"}))  BY <1>3, EmitKeeps
<1>5. Handled(Emit(y, {"ACK"})) /\ ForOthers(Emit(y, {"ACK"})) = ForOthers(x)  BY <1>3, <1>4, QuietKeeps
<1> QED  BY <1>1, <1>2, <1>4, <1>5 DEF Kept, Quiet, n

\* The connection e, after its service was given the unit of g: what was
\* delivered is what is acknowledged, unless the connection is gone.
LEMMA Received ==
    ASSUME NEW x, Good(x), x.c.state = "established", x.gone = FALSE,
           NEW g, Truthful(g), g.len # 0, g.peer = x.c.peer, x.got = <<>> \/ g.seq = x.c.rcv_nxt,
           NEW res \in {"none", "output", "close", "reset"}
    PROVE  LET d == Drive(x, g, res) IN
           /\ d.gone => Result(x, d)
           /\ \A e : Quiet(d, e) => Result(x, Advanced(e, g))
<1> DEFINE d == Drive(x, g, res)
           p == x.c.peer
<1>1. g.len = 1 /\ g.data \in 1..PeerData[p] /\ g.seq = Plus(PeerIss[p], g.data) /\ p \in Peers
  BY DEF Truthful
<1>2. PeerData[p] \in Nat /\ PeerIss[p] \in Nat /\ SeqMod \in Nat  BY <1>1, TcpAssumption
<1>3. g.data \in Nat  BY <1>1, <1>2
<1>4. /\ Handled(d) /\ ForOthers(d) = ForOthers(x) /\ d.c.peer = p /\ d.got = Append(x.got, g.data)
      /\ \/ d.c.state = "closed"
         \/ d.gone = x.gone /\ d.c.state = "last_ack"
         \/ d.gone = x.gone /\ d.c.state = x.c.state /\ d.c.rcv_nxt = x.c.rcv_nxt
  BY <1>3, DriveKeeps, Zenon DEF Good
<1> HIDE DEF d
<1>5. x.got \in Seq(Nat) /\ Ordered(x.got, PeerData[p]) /\ x.c.rcv_nxt = Plus(PeerIss[p], 1 + Len(x.got))
  BY DEF Good, Handled, StreamOK
<1> HIDE DEF p
<1>6. Ordered(d.got, PeerData[p])
  <2>1. PICK u \in 1..PeerData[p] : u = g.data  BY <1>1
  <2>2. x.got = <<>> \/ Plus(PeerIss[p], u) = Plus(PeerIss[p], 1 + Len(x.got))  BY <1>1, <1>5, <2>1
  <2>3. Ordered(Append(x.got, u), PeerData[p])  BY <1>1, <1>5, <2>2, NextUnit
  <2> QED  BY <1>4, <2>1, <2>3
<1>7. d.got # <<>> /\ Len(d.got) = Len(x.got) + 1 /\ Len(x.got) \in Nat  BY <1>3, <1>4, <1>5
<1>8. d.gone => Result(x, d)
  <2> SUFFICES ASSUME d.gone PROVE Result(x, d)  OBVIOUS
  <2>1. d.c.state = "closed"  BY <1>4, Zenon
  <2> QED  BY <1>1, <1>4, <1>6, <2>1 DEF Result, Good, StreamOK, p
<1>9. ASSUME NEW e, Quiet(d, e) PROVE Result(x, Advanced(e, g))
  <2>1. Handled(e) /\ ForOthers(e) = ForOthers(x)  BY <1>4, <1>9, QuietKeeps
  <2> DEFINE a == Advanced(e, g)
  <2>2. Kept(e, a) /\ a.c.state = e.c.state /\ a.c.rcv_nxt = Plus(e.c.rcv_nxt, 1)  BY <1>1, <2>1, AdvancedKeeps
  <2> HIDE DEF a
  <2>3. /\ a.c.peer = p /\ a.got = d.got /\ a.c.state = d.c.state
        /\ a.c.state = "established" => a.c.rcv_nxt = Plus(x.c.rcv_nxt, 1)
    BY <1>4, <1>9, <2>2 DEF Kept, Quiet
  <2>4. Plus(x.c.rcv_nxt, 1) = Plus(PeerIss[p], 1 + Len(a.got))
    <3>1. PICK n \in Nat : n = Len(x.got)  BY <1>7
    <3>4. PICK b \in Nat : b = 1 + n  OBVIOUS
    <3>6. PICK i \in Nat : i = PeerIss[p]  BY <1>2
    <3>7. PICK l \in Nat : l = 1  OBVIOUS
    <3>8. Plus(Plus(i, b), l) = Plus(i, b + l)  BY PlusPlus
    <3>5. Plus(Plus(PeerIss[p], b), 1) = Plus(PeerIss[p], b + 1)  BY <3>6, <3>7, <3>8
    <3>2. Plus(Plus(PeerIss[p], 1 + n), 1) = Plus(PeerIss[p], (1 + n) + 1)  BY <3>4, <3>5
    <3>3. 1 + Len(a.got) = (1 + n) + 1  BY <1>7, <2>3, <3>1
    <3> QED  BY <1>5, <3>1, <3>2, <3>3
  <2>5. a.c.state # "syn_received"  BY <1>4, <2>3
  <2>6. StreamOK(a.c, a.got)  BY <1>1, <1>6, <2>3, <2>4, <2>5 DEF StreamOK
  <2> QED  BY <2>1, <2>2, <2>3, <2>6 DEF Result, Good, Kept, a, p
<1> QED  BY <1>8, <1>9 DEF d

\* The peer's FIN, behind its data: acknowledged, answered by ours, and the
\* service is told.
LEMMA OnFinKeeps ==
    ASSUME NEW x, Good(x), NEW g
    PROVE  Result(x, OnFin(x, g))
<1> DEFINE n == Plus(x.c.rcv_nxt, 1)
           u == [x EXCEPT !.c.rcv_nxt = n]
           v == Emit(u, {"ACK"})
           w == EmitFin(v)
           y == FireClose(w)
<1>1. OnFin(x, g) = x \/ OnFin(x, g) = y  BY DEF OnFin
<1> HIDE DEF n
<1>2. /\ DOMAIN u = DOMAIN x /\ DOMAIN u.c = DOMAIN x.c /\ u.rented = x.rented /\ u.c.opened = x.c.opened
      /\ u.c.state = x.c.state /\ u.c.peer = x.c.peer /\ u.got = x.got /\ u.emit = x.emit
  BY DEF Good, Handled, ConnOK, Free
<1> HIDE DEF u
<1>3. Kept(x, u)  BY <1>2 DEF Good, Handled, ConnOK, ForOthers, Kept
<1>4. Quiet(u, v)  BY <1>3, EmitKeeps DEF Kept
<1> HIDE DEF v
<1>5. Kept(x, v)  BY <1>3, <1>4, QuietKeeps DEF Kept, Quiet
<1>6. Kept(v, w) /\ w.c.state = "last_ack"  BY <1>5, EmitFinKeeps DEF Kept
<1> HIDE DEF w
<1>7. Kept(w, y) /\ y.c.state = "last_ack"  BY <1>6, FireCloseKeeps DEF Kept
<1> HIDE DEF y
<1>8. Kept(x, y)  BY <1>5, <1>6, <1>7 DEF Kept
<1>9. Result(x, y)  BY <1>7, <1>8, EndedResult
<1>10. Result(x, x)  BY DEF Result
<1> QED  BY <1>1, <1>9, <1>10

\* The segment that completes the handshake.
LEMMA OnSynReceivedKeeps ==
    ASSUME NEW x, Good(x), x.c.state = "syn_received", x.gone = FALSE,
           NEW g, Truthful(g), g.peer = x.c.peer, NEW willing,
           NEW res \in {"none", "output", "close", "reset"}
    PROVE  Result(x, OnSynReceived(x, g, willing, res))
<1> DEFINE c == [RtxOnAck(x.c, g.ack) EXCEPT !.snd_una = g.ack, !.state = "established"]
           y == [x EXCEPT !.c = c]
           z == [y EXCEPT !.c.opened = TRUE, !.rented = @ + 1]
           d == Drive(z, g, res)
           e == Emit(y, {"RST"})
           n == [e EXCEPT !.c.state = "closed", !.gone = TRUE]
<1>1. \/ OnSynReceived(x, g, willing, res) = x \/ OnSynReceived(x, g, willing, res) = n
      \/ OnSynReceived(x, g, willing, res) = z
      \/ g.len # 0 /\ d.gone /\ OnSynReceived(x, g, willing, res) = d
      \/ g.len # 0 /\ OnSynReceived(x, g, willing, res) = Advanced(d, g)
  BY DEF OnSynReceived
<1>2. ~ x.c.opened /\ x.got = <<>> /\ x.rented \in Int /\ x.c.rcv_nxt = Plus(PeerIss[x.c.peer], 1 + Len(x.got))
  BY DEF Good, Handled, ConnOK, StreamOK
<1>3. /\ DOMAIN c = DOMAIN x.c /\ c.state = "established" /\ c.peer = x.c.peer /\ c.rcv_nxt = x.c.rcv_nxt
      /\ c.opened = x.c.opened
  BY DEF Good, Handled, ConnOK, RtxOnAck, Free
<1> HIDE DEF c
<1>4. /\ DOMAIN y = DOMAIN x /\ y.c = c /\ y.emit = x.emit /\ y.got = x.got /\ y.gone = x.gone /\ y.rented = x.rented
  BY DEF Good, Handled
<1> HIDE DEF y
<1>5. Handled(y) /\ ForOthers(y) = ForOthers(x)  BY <1>3, <1>4 DEF Good, Handled, ConnOK, ForOthers, States
<1>6. Result(x, n)
  <2>1. Quiet(y, e)  BY <1>5, EmitKeeps
  <2> HIDE DEF e
  <2>2. Handled(e) /\ ForOthers(e) = ForOthers(x)  BY <1>5, <2>1, QuietKeeps
  <2>3. /\ DOMAIN n = DOMAIN e /\ DOMAIN n.c = DOMAIN e.c /\ n.rented = e.rented /\ n.c.opened = e.c.opened
        /\ n.c.state = "closed" /\ n.c.peer = e.c.peer /\ n.got = e.got /\ n.emit = e.emit
    BY <2>2 DEF Handled, ConnOK, Free
  <2> HIDE DEF n
  <2>4. ~ n.c.opened  BY <1>2, <1>3, <1>4, <2>1, <2>3 DEF Quiet
  <2>5. Handled(n) /\ ForOthers(n) = ForOthers(x)  BY <2>2, <2>3, <2>4 DEF Handled, ConnOK, States, ForOthers
  <2>6. Kept(x, n)  BY <1>3, <1>4, <2>1, <2>3, <2>5 DEF Kept, Quiet
  <2> QED  BY <2>3, <2>6, EndedResult
<1>7. Result(x, z) /\ z.c.state = "established" /\ z.gone = FALSE /\ z.got = <<>>
  <2>1. /\ DOMAIN z = DOMAIN y /\ DOMAIN z.c = DOMAIN c /\ z.rented = x.rented + 1 /\ z.c.rcv_nxt = c.rcv_nxt
        /\ z.c.state = "established" /\ z.c.peer = c.peer /\ z.got = x.got /\ z.emit = x.emit /\ z.gone = x.gone
    BY <1>3, <1>4, <1>5 DEF Handled, ConnOK, Free
  <2>2. z.c.opened = TRUE  BY <1>3, <1>4, <1>5 DEF Handled, ConnOK, Free
  <2> HIDE DEF z
  <2>3. z.c.opened \in BOOLEAN  BY <2>2, Zenon
  <2>4. z.rented \in Int  BY <1>2, <2>1
  <2>5. Handled(z)  BY <1>3, <1>4, <1>5, <2>1, <2>2, <2>3, <2>4, Zenon DEF Handled, ConnOK, States
  <2>6. ForOthers(z) = ForOthers(x)  BY <1>2, <2>1, <2>2 DEF ForOthers
  <2>7. StreamOK(z.c, z.got)  BY <1>2, <1>3, <2>1 DEF Good, StreamOK
  <2> QED  BY <1>2, <1>3, <2>1, <2>5, <2>6, <2>7 DEF Result, Good
<1> HIDE DEF z
<1>8. ASSUME g.len # 0 PROVE (d.gone => Result(z, d)) /\ Result(z, Advanced(d, g))
  <2>1. Good(z) /\ g.peer = z.c.peer  BY <1>7 DEF Result
  <2>2. (d.gone => Result(z, d)) /\ \A q : Quiet(d, q) => Result(z, Advanced(q, g))  BY <1>7, <1>8, <2>1, Received, Zenon
  <2>3. g.data \in Nat
    <3>1. g.len = 1 /\ g.data \in 1..PeerData[g.peer] /\ PeerData[g.peer] \in Nat  BY <1>8, TcpAssumption DEF Truthful
    <3> QED  BY <3>1
  <2>4. Handled(d)  BY <2>1, <2>3, DriveKeeps, Zenon DEF Good
  <2> HIDE DEF d
  <2>5. Quiet(d, d)  BY <2>4 DEF Quiet, Handled
  <2> QED  BY <2>2, <2>5
<1>9. Result(x, x)  BY DEF Result
<1> HIDE DEF d, n
<1> QED  BY <1>1, <1>6, <1>7, <1>8, <1>9, ResultTwice

\* A segment of an established connection.
LEMMA OnEstablishedKeeps ==
    ASSUME NEW x, Good(x), x.c.state = "established", x.gone = FALSE,
           NEW g, Truthful(g), g.peer = x.c.peer, NEW res \in {"none", "output", "close", "reset"}
    PROVE  Result(x, OnEstablished(x, g, res))
<1> DEFINE y == OnAck(x, g)
           d == Drive(y, g, res)
           e == [d EXCEPT !.c.used = IF RcvCap > 0 THEN @ + g.len ELSE @]
           z == Advanced(e, g)
<1>1. \/ OnEstablished(x, g, res) = Emit(x, {"ACK"}) \/ OnEstablished(x, g, res) = OnFin(y, g)
      \/ OnEstablished(x, g, res) = Emit(y, {"ACK"})
      \/ /\ g.seq = x.c.rcv_nxt /\ g.len # 0
         /\ (d.gone /\ OnEstablished(x, g, res) = d) \/ OnEstablished(x, g, res) = OnFin(z, g)
  BY DEF OnEstablished, InOrder, Refused
<1>2. Quiet(x, y)  BY OnAckKeeps DEF Good
<1> HIDE DEF y
<1>3. Result(x, y) /\ Good(y)  BY <1>2, QuietResult DEF Result
<1>4. Result(x, Emit(x, {"ACK"}))  BY EmitKeeps, QuietResult DEF Good
<1>5. Result(y, Emit(y, {"ACK"}))  BY <1>3, EmitKeeps, QuietResult DEF Good
<1>6. Result(y, OnFin(y, g))  BY <1>3, OnFinKeeps
<1>7. ASSUME g.seq = x.c.rcv_nxt, g.len # 0 PROVE (d.gone => Result(y, d)) /\ Result(y, OnFin(z, g))
  <2>1. y.c.state = "established" /\ y.gone = FALSE /\ g.peer = y.c.peer /\ g.seq = y.c.rcv_nxt
    BY <1>2, <1>7 DEF Quiet
  <2>2. (d.gone => Result(y, d)) /\ \A q : Quiet(d, q) => Result(y, Advanced(q, g))  BY <1>3, <1>7, <2>1, Received, Zenon
  <2>3. g.data \in Nat
    <3>1. g.len = 1 /\ g.data \in 1..PeerData[g.peer] /\ PeerData[g.peer] \in Nat  BY <1>7, TcpAssumption DEF Truthful
    <3> QED  BY <3>1
  <2>4. Handled(d)  BY <1>3, <2>3, DriveKeeps, Zenon DEF Good
  <2> HIDE DEF d
  <2>5. Quiet(d, e)
    <3> DEFINE w == IF RcvCap > 0 THEN d.c.used + g.len ELSE d.c.used
    <3>1. e = [d EXCEPT !.c.used = w]  OBVIOUS
    <3> HIDE DEF w, e
    <3> QED  BY <2>4, <3>1 DEF Quiet, Handled, ConnOK, Free
  <2> HIDE DEF e
  <2>6. Result(y, z) /\ Good(z)  BY <2>2, <2>5 DEF Result
  <2> HIDE DEF z
  <2>7. Result(z, OnFin(z, g))  BY <2>6, OnFinKeeps
  <2> QED  BY <2>2, <2>6, <2>7, ResultTwice
<1> HIDE DEF d, z
<1> QED  BY <1>1, <1>3, <1>4, <1>5, <1>6, <1>7, ResultTwice

\* tcp_input_at on a connection of the table.
LEMMA OnSegmentKeeps ==
    ASSUME NEW x, Good(x), x.c.state # "closed", x.gone = FALSE,
           NEW g, Truthful(g), g.peer = x.c.peer, NEW willing,
           NEW res \in {"none", "output", "close", "reset"}
    PROVE  Result(x, OnSegment(x, g, willing, res))
<1>1. Result(x, x)  BY DEF Result
<1>2. Result(x, Teardown(x))  BY TeardownKeeps, EndedResult DEF Good
<1>3. CASE "RST" \in g.flags  BY <1>1, <1>2, <1>3 DEF OnSegment
<1>4. CASE "RST" \notin g.flags
  <2>1. CASE x.c.state = "syn_received"
    <3>1. OnSegment(x, g, willing, res) = OnSynReceived(x, g, willing, res)  BY <1>4, <2>1 DEF OnSegment
    <3> QED  BY <2>1, <3>1, OnSynReceivedKeeps, Zenon
  <2>2. CASE x.c.state = "established"
    <3>1. OnSegment(x, g, willing, res) = OnEstablished(x, g, res)  BY <1>4, <2>2 DEF OnSegment
    <3> QED  BY <2>2, <3>1, OnEstablishedKeeps, Zenon
  <2>3. CASE x.c.state = "last_ack"
    <3>1. OnSegment(x, g, willing, res) = OnLastAck(x, g)  BY <1>4, <2>3 DEF OnSegment
    <3> QED  BY <1>1, <1>2, <3>1 DEF OnLastAck
  <2> QED  BY <2>1, <2>2, <2>3 DEF Good, Handled, ConnOK, States
<1> QED  BY <1>3, <1>4

-----------------------------------------------------------------------------
(* The steps of the stack and of its peers.                                *)

\* What goes out says nothing about the streams of the peers.
LEMMA NetGrows ==
    ASSUME NetOK, NEW E, ToPeers(E), net' = net \cup E
    PROVE  NetOK'
<1>1. \A g \in net' : g \in net \/ g.to = "peer"  BY DEF ToPeers
<1> QED  BY <1>1 DEF NetOK, Truthful, Plus

\* One slot changes, and what it was given with it.
LEMMA SlotStep ==
    ASSUME TcpInv, NEW s \in Slots, NEW c, NEW d \in Seq(Nat),
           conn' = [conn EXCEPT ![s] = c], got' = [got EXCEPT ![s] = d], ConnOK(c), StreamOK(c, d),
           rented' \in [Peers -> Int], peer' = peer
    PROVE  TcpShape' /\ \A t \in Slots : StreamOK(conn[t], got[t])'
<1>1. /\ DOMAIN conn' = Slots /\ conn'[s] = c /\ \A t \in Slots : t # s => conn'[t] = conn[t]
      /\ got' \in [Slots -> Seq(Nat)] /\ got'[s] = d /\ \A t \in Slots : t # s => got'[t] = got[t]
  BY DEF TcpInv, TcpShape
<1>2. \A t \in Slots : ConnOK(conn'[t]) /\ StreamOK(conn'[t], got'[t])  BY <1>1 DEF TcpInv, TcpShape
<1>3. \A t \in Slots : ConnOK(conn[t])' /\ StreamOK(conn[t], got[t])'
  BY <1>2 DEF ConnOK, Free, StreamOK, Ordered, Plus
<1> QED  BY <1>1, <1>3 DEF TcpInv, TcpShape

\* No slot opens or closes.
LEMMA SameUse ==
    ASSUME TcpInv, rented' = rented,
           \A s \in Slots : /\ conn'[s].opened <=> conn[s].opened
                            /\ conn[s].opened => conn'[s].peer = conn[s].peer
    PROVE  \A p \in Peers : (rented[p] = Cardinality(Using(p)))'
<1> SUFFICES ASSUME NEW p \in Peers PROVE (rented[p] = Cardinality(Using(p)))'  OBVIOUS
<1>1. Using(p)' = Using(p)  BY DEF Using
<1> QED  BY <1>1 DEF TcpInv

\* Counting: one element more or less.
LEMMA OneMore ==
    ASSUME NEW A, IsFiniteSet(A), NEW s
    PROVE  /\ Cardinality(A \ {s}) \in Nat
           /\ Cardinality(A) = Cardinality(A \ {s}) + (IF s \in A THEN 1 ELSE 0)
<1>1. IsFiniteSet(A \ {s}) /\ Cardinality(A \ {s}) = IF s \in A THEN Cardinality(A) - 1 ELSE Cardinality(A)
  BY FS_RemoveElement
<1>2. Cardinality(A) \in Nat /\ Cardinality(A \ {s}) \in Nat  BY <1>1, FS_CardinalityType
<1> QED  BY <1>1, <1>2

\* A slot opens or closes, and its peer's count with it.
LEMMA OneUse ==
    ASSUME TcpInv, NEW s \in Slots, NEW q \in Peers, conn[s].peer = q, conn'[s].peer = q,
           \A t \in Slots : t # s => conn'[t] = conn[t], conn'[s].opened \in BOOLEAN,
           rented' = [rented EXCEPT ![q] = (rented[q] - (IF conn[s].opened THEN 1 ELSE 0))
                                             + (IF conn'[s].opened THEN 1 ELSE 0)]
    PROVE  \A p \in Peers : (rented[p] = Cardinality(Using(p)))'
<1> SUFFICES ASSUME NEW p \in Peers PROVE (rented[p] = Cardinality(Using(p)))'  OBVIOUS
<1>1. rented \in [Peers -> Int] /\ rented[p] = Cardinality(Using(p)) /\ conn[s].opened \in BOOLEAN
  BY DEF TcpInv, TcpShape, ConnOK
<1>2. CASE p # q
  <2>1. Using(p)' = Using(p)  BY <1>2 DEF Using
  <2>2. rented'[p] = rented[p]  BY <1>1, <1>2
  <2> QED  BY <1>1, <2>1, <2>2
<1>3. CASE p = q
  <2>1. PICK A : A = Using(p)  OBVIOUS
  <2>2. PICK B : B = Using(p)'  OBVIOUS
  <2>3. A \ {s} = B \ {s}  BY <2>1, <2>2 DEF Using
  <2>4. (s \in A <=> conn[s].opened) /\ (s \in B <=> conn'[s].opened)  BY <1>3, <2>1, <2>2 DEF Using
  <2>5. IsFiniteSet(A) /\ IsFiniteSet(B)
    <3>1. A \subseteq Slots /\ B \subseteq Slots  BY <2>1, <2>2 DEF Using
    <3> QED  BY <3>1, TcpAssumption, FS_Subset, Zenon
  <2>6. /\ Cardinality(A \ {s}) \in Nat
        /\ Cardinality(A) = Cardinality(A \ {s}) + (IF s \in A THEN 1 ELSE 0)
        /\ Cardinality(B) = Cardinality(B \ {s}) + (IF s \in B THEN 1 ELSE 0)
    BY <2>5, OneMore
  <2>7. rented'[p] = (rented[p] - (IF conn[s].opened THEN 1 ELSE 0)) + (IF conn'[s].opened THEN 1 ELSE 0)
    BY <1>1, <1>3
  <2>8. rented[p] = Cardinality(A)  BY <1>1, <2>1
  <2>9. rented'[p] = Cardinality(B)
    <3>1. rented'[p] = (Cardinality(A) - (IF s \in A THEN 1 ELSE 0)) + (IF s \in B THEN 1 ELSE 0)  BY <2>4, <2>7, <2>8
    <3>2. Cardinality(B \ {s}) = Cardinality(A \ {s})  BY <2>3
    <3> QED  BY <2>6, <3>1, <3>2
  <2> QED  BY <2>2, <2>9
<1> QED  BY <1>2, <1>3

\* A segment arrives at a connection.
LEMMA InputKeeps ==
    ASSUME TcpInv, NEW s \in Slots, NEW g \in net, NEW willing \in BOOLEAN, NEW res \in Results,
           Input(s, g, willing, res)
    PROVE  TcpInv'
<1>1. PICK x : x = Context(s)  OBVIOUS
<1>2. PICK y : y = OnSegment(x, g, willing, res)  OBVIOUS
<1>3. /\ g.to = "stack" /\ conn[s].state # "closed" /\ conn[s].peer = g.peer
      /\ conn' = [conn EXCEPT ![s] = y.c] /\ net' = net \cup y.emit /\ got' = [got EXCEPT ![s] = y.got]
      /\ rented' = [rented EXCEPT ![g.peer] = y.rented] /\ peer' = peer
  BY <1>1, <1>2 DEF Input, Serving
<1>4. Truthful(g) /\ g.peer \in Peers  BY <1>3 DEF TcpInv, NetOK, Truthful
<1>5. res \in {"none", "output", "close", "reset"}  BY TcpAssumption
<1>6. /\ DOMAIN x = {"c", "emit", "got", "gone", "rented"} /\ x.c = conn[s] /\ x.emit = {} /\ x.got = got[s]
      /\ x.gone = FALSE /\ x.rented = rented[g.peer]
  BY <1>1, <1>3 DEF Context
<1>7. Good(x)
  <2>1. ConnOK(conn[s]) /\ got[s] \in Seq(Nat) /\ rented[g.peer] \in Int /\ StreamOK(conn[s], got[s])
    BY <1>4 DEF TcpInv, TcpShape
  <2> QED  BY <1>3, <1>4, <1>6, <2>1 DEF Good, Handled, ToPeers
<1>8. Result(x, y)
  <2>1. x.c.state # "closed" /\ g.peer = x.c.peer  BY <1>3, <1>6
  <2> QED  BY <1>2, <1>4, <1>5, <1>6, <1>7, <2>1, OnSegmentKeeps, Zenon
<1>9. /\ Handled(y) /\ StreamOK(y.c, y.got) /\ y.c.peer = g.peer /\ ForOthers(y) = ForOthers(x)
  BY <1>3, <1>6, <1>8 DEF Result, Good
<1>10. NetOK'  BY <1>3, <1>9, NetGrows DEF Handled, TcpInv
<1>11. TcpShape' /\ \A t \in Slots : StreamOK(conn[t], got[t])'
  <2>1. rented' \in [Peers -> Int]  BY <1>3, <1>9 DEF Handled, TcpInv, TcpShape
  <2>2. PICK c : c = y.c  OBVIOUS
  <2>3. PICK d \in Seq(Nat) : d = y.got  BY <1>9 DEF Handled
  <2>4. ConnOK(c) /\ StreamOK(c, d) /\ conn' = [conn EXCEPT ![s] = c] /\ got' = [got EXCEPT ![s] = d]
    BY <1>3, <1>9, <2>2, <2>3 DEF Handled
  <2> QED  BY <1>3, <2>1, <2>4, SlotStep, Zenon
<1>12. \A p \in Peers : (rented[p] = Cardinality(Using(p)))'
  <2>1. conn'[s] = y.c /\ \A t \in Slots : t # s => conn'[t] = conn[t]  BY <1>3 DEF TcpInv, TcpShape
  <2>2. conn'[s].opened \in BOOLEAN /\ conn'[s].peer = g.peer  BY <1>9, <2>1 DEF Handled, ConnOK
  <2>3. y.rented = (rented[g.peer] - (IF conn[s].opened THEN 1 ELSE 0)) + (IF conn'[s].opened THEN 1 ELSE 0)
    <3>1. y.rented - (IF y.c.opened THEN 1 ELSE 0) = rented[g.peer] - (IF conn[s].opened THEN 1 ELSE 0)
      BY <1>6, <1>9 DEF ForOthers
    <3>2. y.rented \in Int /\ rented[g.peer] \in Int  BY <1>4, <1>9 DEF Handled, TcpInv, TcpShape
    <3> QED  BY <2>1, <3>1, <3>2
  <2> QED  BY <1>3, <1>4, <2>1, <2>2, <2>3, OneUse, Zenon
<1> QED  BY <1>10, <1>11, <1>12 DEF TcpInv

\* A set of slots has a lowest one.
LEMMA LowestIsIn ==
    ASSUME NEW S, S \subseteq Slots, S # {}
    PROVE  Lowest(S) \in S
<1>1. S \subseteq Nat  BY TcpAssumption
<1>2. IsWellFoundedOn(OpToRel(<, Nat), Nat)  BY NatLessThanWellFounded, Zenon
<1>3. PICK m \in S : \A t \in S : <<t, m>> \notin OpToRel(<, Nat)  BY <1>1, <1>2, WFMin, Zenon
<1>4. \A t \in S : m <= t
  <2> SUFFICES ASSUME NEW t \in S, t < m PROVE FALSE  BY <1>1
  <2>1. <<t, m>> \in OpToRel(<, Nat)  BY <1>1 DEF OpToRel
  <2> QED  BY <1>3, <2>1, Zenon
<1>5. \E r \in S : \A t \in S : r <= t  BY <1>4
<1> QED  BY <1>5 DEF Lowest

\* What Emit and Resent send when nothing was sent before.
LEMMA OneSegment ==
    ASSUME NEW c, NEW f
    PROVE  /\ ToPeers(Emit([c |-> c, emit |-> {}], f).emit)
           /\ ToPeers(Resent([c |-> c, emit |-> {}]).emit)
<1> DEFINE g == Seg("peer", c.peer, f, c.snd_nxt, c.rcv_nxt, 0, 0)
           e == Head(c.rtx)
           h == Seg("peer", c.peer, {"ACK"}, e.seq, c.rcv_nxt, e.len, e.data)
<1>1. g.to = "peer" /\ h.to = "peer"  BY DEF Seg
<1>2. Emit([c |-> c, emit |-> {}], f).emit = {g}  BY DEF Emit
<1>3. Resent([c |-> c, emit |-> {}]).emit = {h}  BY DEF Resent
<1> HIDE DEF g, h
<1> QED  BY <1>1, <1>2, <1>3 DEF ToPeers

\* A slot that was closed takes a SYN.
LEMMA AcceptKeeps ==
    ASSUME TcpInv, NEW g \in net, Accept(g)
    PROVE  TcpInv'
<1>1. PICK closed : closed = {s \in Slots : conn[s].state = "closed"}  BY Zenon
<1>2. PICK s : s = Lowest(closed)  OBVIOUS
<1>3. PICK iss : iss = StackIss[g.peer][opens[g.peer] + 1]  OBVIOUS
<1>4. PICK c : c = Opening(conn[s], g, iss)  OBVIOUS
<1>5. PICK b : b = [c EXCEPT !.snd_nxt = Plus(@, 1)]  BY Zenon
<1>6. /\ g.to = "stack" /\ g.flags = {"SYN"} /\ closed # {} /\ conn' = [conn EXCEPT ![s] = b]
      /\ net' = net \cup Emit([c |-> c, emit |-> {}], {"SYN", "ACK"}).emit
      /\ got' = [got EXCEPT ![s] = <<>>] /\ peer' = peer /\ rented' = rented
  BY <1>1, <1>2, <1>3, <1>4, <1>5, Zenon DEF Accept
<1>7. s \in Slots /\ conn[s].state = "closed"  BY <1>1, <1>2, <1>6, LowestIsIn
<1>8. ConnOK(conn[s])  BY <1>7 DEF TcpInv, TcpShape
<1>9. ~ conn[s].opened /\ DOMAIN conn[s] = DOMAIN Free  BY <1>7, <1>8 DEF ConnOK
<1>10. /\ DOMAIN c = DOMAIN Free /\ c.state = "syn_received" /\ c.peer = g.peer /\ c.rcv_nxt = Plus(g.seq, 1)
  BY <1>4, <1>9, Zenon DEF Opening, Free
<1>11. c.opened = FALSE  BY <1>4, <1>9 DEF Opening, Free
<1>12. /\ DOMAIN b = DOMAIN Free /\ b.state = "syn_received" /\ b.peer = g.peer /\ b.rcv_nxt = Plus(g.seq, 1)
       /\ b.opened = c.opened
  BY <1>5, <1>10 DEF Free
<1>13. b.opened \in BOOLEAN /\ ~ b.opened  BY <1>11, <1>12, Zenon
<1>14. g.peer \in Peers /\ g.seq = PeerIss[g.peer]  BY <1>6 DEF TcpInv, NetOK, Truthful
<1>15. ConnOK(b)  BY <1>12, <1>13, <1>14 DEF ConnOK, States
<1>16. StreamOK(b, <<>>)
  <2>1. Len(<<>>) = 0 /\ 1 + 0 = 1  OBVIOUS
  <2> QED  BY <1>12, <1>14, <2>1 DEF StreamOK, Ordered
<1>17. NetOK'  BY <1>6, OneSegment, NetGrows, Zenon DEF TcpInv
<1>18. TcpShape' /\ \A t \in Slots : StreamOK(conn[t], got[t])'
  <2>1. rented' \in [Peers -> Int] /\ peer' = peer  BY <1>6, Zenon DEF TcpInv, TcpShape
  <2>4. <<>> \in Seq(Nat)  OBVIOUS
  <2>2. PICK d \in Seq(Nat) : d = <<>>  BY <2>4, Zenon
  <2>3. got' = [got EXCEPT ![s] = d] /\ StreamOK(b, d)  BY <1>6, <1>16, <2>2
  <2> QED  BY <1>6, <1>7, <1>15, <2>1, <2>3, SlotStep, Zenon
<1>19. \A p \in Peers : (rented[p] = Cardinality(Using(p)))'
  <2>1. conn'[s] = b /\ \A t \in Slots : t # s => conn'[t] = conn[t]  BY <1>6, <1>7 DEF TcpInv, TcpShape
  <2> QED  BY <1>6, <1>9, <1>13, <2>1, SameUse
<1> QED  BY <1>17, <1>18, <1>19 DEF TcpInv

\* A step of the sending side of a connection.
LEMMA SendingKeeps ==
    ASSUME TcpInv, NEW s \in Slots, NEW c, conn' = [conn EXCEPT ![s] = c],
           DOMAIN c = DOMAIN Free, c.state = conn[s].state, c.peer = conn[s].peer,
           c.rcv_nxt = conn[s].rcv_nxt, c.opened = conn[s].opened,
           NEW E, ToPeers(E), net' = net \cup E, UNCHANGED <<peer, got, rented>>
    PROVE  TcpInv'
<1>1. ConnOK(conn[s]) /\ StreamOK(conn[s], got[s]) /\ got \in [Slots -> Seq(Nat)] /\ rented \in [Peers -> Int]
  BY DEF TcpInv, TcpShape
<1>2. ConnOK(c) /\ StreamOK(c, got[s])  BY <1>1 DEF ConnOK, StreamOK
<1>3. PICK d \in Seq(Nat) : d = got[s]  BY <1>1
<1>4. got' = [got EXCEPT ![s] = d]  BY <1>1, <1>3
<1>5. TcpShape' /\ \A t \in Slots : StreamOK(conn[t], got[t])'  BY <1>1, <1>2, <1>3, <1>4, SlotStep, Zenon
<1>6. conn'[s] = c /\ \A t \in Slots : t # s => conn'[t] = conn[t]  BY DEF TcpInv, TcpShape
<1>7. \A p \in Peers : (rented[p] = Cardinality(Using(p)))'  BY <1>6, SameUse
<1>8. NetOK'  BY NetGrows DEF TcpInv
<1> QED  BY <1>5, <1>7, <1>8 DEF TcpInv

\* A peer says something true about its stream.
LEMMA PeerKeeps ==
    ASSUME TcpInv, NEW p \in Peers, NEW k, NEW g, Sends(p, k, g),
           DOMAIN k = {"st", "sent", "next"}, k.sent \in 0..PeerData[p], g.to = "stack" => Truthful(g)
    PROVE  TcpInv'
<1>1. /\ UNCHANGED <<conn, got, rented>> /\ peer' = [peer EXCEPT ![p] = k] /\ net' = net \cup {g}
  BY DEF Sends
<1>2. NetOK'
  <2>1. \A h \in net' : h \in net \/ h = g  BY <1>1
  <2>2. \A h \in net' : h.to = "stack" => Truthful(h)  BY <2>1 DEF TcpInv, NetOK
  <2> QED  BY <2>2 DEF NetOK, Truthful, Plus
<1>3. TcpShape'
  <2>1. DOMAIN peer' = Peers /\ \A q \in Peers : peer'[q] = IF q = p THEN k ELSE peer[q]  BY <1>1 DEF TcpInv, TcpShape
  <2>2. \A t \in Slots : ConnOK(conn[t])'  BY <1>1, Zenon DEF TcpInv, TcpShape, ConnOK, Free
  <2>3. \A q \in Peers : DOMAIN peer'[q] = {"st", "sent", "next"} /\ peer'[q].sent \in 0..PeerData[q]
    BY <2>1 DEF TcpInv, TcpShape
  <2> QED  BY <1>1, <2>1, <2>2, <2>3 DEF TcpInv, TcpShape
<1>4. \A t \in Slots : StreamOK(conn[t], got[t])'  BY <1>1 DEF TcpInv, StreamOK, Ordered, Plus
<1>5. \A q \in Peers : (rented[q] = Cardinality(Using(q)))'  BY <1>1, SameUse, Zenon
<1> QED  BY <1>2, <1>3, <1>4, <1>5 DEF TcpInv

\* Every step of the stack, of its services and of its peers keeps the invariant.
LEMMA TcpStep == TcpInv /\ [Next]_vars => TcpInv'
<1> SUFFICES ASSUME TcpInv, [Next]_vars PROVE TcpInv'  OBVIOUS
<1>1. ASSUME NEW g \in net, Accept(g) PROVE TcpInv'  BY <1>1, AcceptKeeps
<1>2. ASSUME NEW s \in Slots, NEW g \in net, NEW willing \in BOOLEAN, NEW res \in Results, Input(s, g, willing, res)
      PROVE  TcpInv'
  BY <1>2, InputKeeps
<1>3. ASSUME NEW s \in Slots, SendAt(s) \/ Tick(s) \/ Consume(s) PROVE TcpInv'
  <2>0. DOMAIN conn[s] = DOMAIN Free  BY DEF TcpInv, TcpShape, ConnOK
  <2>1. CASE SendAt(s)
    <3>1. PICK e : e = [seq |-> conn[s].snd_nxt, len |-> MSS, data |-> Cardinality(tracked[s]) + 1]  BY Zenon
    <3>2. PICK g : g = Seg("peer", conn[s].peer, {"ACK"}, conn[s].snd_nxt, conn[s].rcv_nxt, MSS, Cardinality(tracked[s]) + 1)
      OBVIOUS
    <3>3. PICK c : c = [conn[s] EXCEPT !.rtx = Append(@, e), !.snd_nxt = Plus(@, MSS)]  OBVIOUS
    <3>4. /\ conn' = [conn EXCEPT ![s].rtx = Append(@, e), ![s].snd_nxt = Plus(@, MSS)]
          /\ net' = net \cup {g} /\ UNCHANGED <<peer, got, rented>>
      BY <2>1, <3>1, <3>2 DEF SendAt
    <3>5. conn' = [conn EXCEPT ![s] = c]
      <4>1. DOMAIN conn = Slots  BY DEF TcpInv, TcpShape
      <4>2. conn'[s] = c  BY <2>0, <3>3, <3>4, <4>1 DEF Free
      <4>3. DOMAIN conn' = Slots /\ \A t \in Slots : t # s => conn'[t] = conn[t]  BY <3>4, <4>1
      <4>4. conn' = [t \in Slots |-> conn'[t]]  BY <3>4, <4>1, Zenon
      <4> QED  BY <4>1, <4>2, <4>3, <4>4
    <3>6. /\ DOMAIN c = DOMAIN Free /\ c.state = conn[s].state /\ c.peer = conn[s].peer
          /\ c.rcv_nxt = conn[s].rcv_nxt /\ c.opened = conn[s].opened
      BY <2>0, <3>3 DEF Free
    <3>7. ToPeers({g})  BY <3>2 DEF ToPeers, Seg
    <3> QED  BY <3>4, <3>5, <3>6, <3>7, SendingKeeps, Zenon
  <2>2. CASE Tick(s)
    <3>1. PICK E : E = Resent([c |-> conn[s], emit |-> {}]).emit  OBVIOUS
    <3>2. PICK c : c = CcOnRto(conn[s])  OBVIOUS
    <3>3. conn' = [conn EXCEPT ![s] = c] /\ net' = net \cup E /\ UNCHANGED <<peer, got, rented>>
      BY <2>2, <3>1, <3>2 DEF Tick
    <3>4. /\ DOMAIN c = DOMAIN Free /\ c.state = conn[s].state /\ c.peer = conn[s].peer
          /\ c.rcv_nxt = conn[s].rcv_nxt /\ c.opened = conn[s].opened
      BY <2>0, <3>2 DEF CcOnRto, Free
    <3>5. ToPeers(E)  BY <3>1, OneSegment, Zenon
    <3> QED  BY <3>3, <3>4, <3>5, SendingKeeps, Zenon
  <2>3. CASE Consume(s)
    <3>1. PICK E : E = IF Window(conn[s]) = 0 /\ conn[s].state = "established"
                       THEN Emit([c |-> conn[s], emit |-> {}], {"ACK"}).emit ELSE {}
      OBVIOUS
    <3>2. PICK c : c = [conn[s] EXCEPT !.used = @ - 1]  BY Zenon
    <3>3. conn' = [conn EXCEPT ![s] = c] /\ net' = net \cup E /\ UNCHANGED <<peer, got, rented>>
      BY <2>3, <3>1, <3>2 DEF Consume
    <3>4. /\ DOMAIN c = DOMAIN Free /\ c.state = conn[s].state /\ c.peer = conn[s].peer
          /\ c.rcv_nxt = conn[s].rcv_nxt /\ c.opened = conn[s].opened
      BY <2>0, <3>2 DEF Free
    <3>5. ToPeers(E)
      <4>1. ToPeers({})  BY DEF ToPeers
      <4> QED  BY <3>1, <4>1, OneSegment
    <3> QED  BY <3>3, <3>4, <3>5, SendingKeeps, Zenon
  <2> QED  BY <1>3, <2>1, <2>2, <2>3
<1>4. ASSUME NEW p \in Peers,
             \/ Connect(p) \/ PeerAbort(p) \/ \E fin \in BOOLEAN : PeerSend(p, fin)
             \/ \E g \in net : PeerOpen(p, g) \/ PeerTake(p, g)
      PROVE  TcpInv'
  <2>0. /\ DOMAIN peer[p] = {"st", "sent", "next"} /\ peer[p].sent \in 0..PeerData[p]
        /\ PeerData[p] \in Nat /\ PeerIss[p] \in Nat
    BY TcpAssumption DEF TcpInv, TcpShape
  <2>2. CASE Connect(p)
    <3>1. PICK k : k = [peer[p] EXCEPT !.st = "syn"]  BY Zenon
    <3>2. PICK g : g = Seg("stack", p, {"SYN"}, PeerIss[p], 0, 0, 0)  OBVIOUS
    <3>3. Sends(p, k, g)  BY <2>2, <3>1, <3>2 DEF Connect
    <3>4. DOMAIN k = {"st", "sent", "next"} /\ k.sent = peer[p].sent  BY <2>0, <3>1
    <3>5. Truthful(g)  BY <3>2 DEF Truthful, Seg
    <3> QED  BY <2>0, <3>3, <3>4, <3>5, PeerKeeps
  <2>3. CASE PeerAbort(p)
    <3>1. PICK k : k = [peer[p] EXCEPT !.st = "done"]  BY Zenon
    <3>2. PICK g : g = Seg("stack", p, {"RST", "ACK"}, PeerNext(p), peer[p].next, 0, 0)  OBVIOUS
    <3>3. Sends(p, k, g)  BY <2>3, <3>1, <3>2 DEF PeerAbort
    <3>4. DOMAIN k = {"st", "sent", "next"} /\ k.sent = peer[p].sent  BY <2>0, <3>1
    <3>5. Truthful(g)  BY <3>2 DEF Truthful, Seg
    <3> QED  BY <2>0, <3>3, <3>4, <3>5, PeerKeeps
  <2>4. ASSUME NEW fin \in BOOLEAN, PeerSend(p, fin) PROVE TcpInv'
    <3>1. PICK k : k = [peer[p] EXCEPT !.sent = @ + 1, !.st = IF fin THEN "done" ELSE @]  OBVIOUS
    <3>2. PICK f : f = (IF fin THEN {"ACK", "FIN"} ELSE {"ACK"})  BY Zenon
    <3>3. PICK g : g = Seg("stack", p, f, PeerNext(p), peer[p].next, 1, peer[p].sent + 1)  OBVIOUS
    <3>4. Sends(p, k, g) /\ peer[p].sent < PeerData[p]  BY <2>4, <3>1, <3>2, <3>3 DEF PeerSend
    <3>5. DOMAIN k = {"st", "sent", "next"} /\ k.sent = peer[p].sent + 1  BY <2>0, <3>1
    <3>6. k.sent \in 1..PeerData[p] /\ k.sent \in 0..PeerData[p]  BY <2>0, <3>4, <3>5
    <3>7. f # {"SYN"}  BY <3>2
    <3>8. PeerNext(p) = Plus(PeerIss[p], peer[p].sent + 1)  BY <2>0 DEF PeerNext, Plus
    <3>9. Truthful(g)
      <4>1. g.peer = p /\ g.len = 1 /\ g.flags = f /\ g.data = k.sent /\ g.seq = Plus(PeerIss[p], k.sent)
        BY <3>3, <3>5, <3>8 DEF Seg
      <4> QED  BY <3>6, <3>7, <4>1 DEF Truthful
    <3> QED  BY <3>4, <3>5, <3>6, <3>9, PeerKeeps
  <2>5. ASSUME NEW g \in net, PeerOpen(p, g) \/ PeerTake(p, g) PROVE TcpInv'
    <3>1. PICK k : /\ DOMAIN k = {"st", "sent", "next"} /\ k.sent = peer[p].sent
                   /\ Sends(p, k, PeerAck(p, k))
      <4>1. CASE PeerOpen(p, g)
        <5>1. PICK k : k = [peer[p] EXCEPT !.st = "open", !.next = Plus(g.seq, 1)]  OBVIOUS
        <5>2. DOMAIN k = {"st", "sent", "next"} /\ k.sent = peer[p].sent  BY <2>0, <5>1
        <5>3. Sends(p, k, PeerAck(p, k))  BY <4>1, <5>1 DEF PeerOpen
        <5> QED  BY <5>2, <5>3
      <4>2. CASE PeerTake(p, g)
        <5>1. PICK k : k = [peer[p] EXCEPT !.next = Plus(@, g.len + IF "FIN" \in g.flags THEN 1 ELSE 0)]  BY Zenon
        <5>2. DOMAIN k = {"st", "sent", "next"} /\ k.sent = peer[p].sent  BY <2>0, <5>1
        <5>3. Sends(p, k, PeerAck(p, k))  BY <4>2, <5>1 DEF PeerTake
        <5> QED  BY <5>2, <5>3
      <4> QED  BY <2>5, <4>1, <4>2
    <3>2. PICK h : h = PeerAck(p, k)  OBVIOUS
    <3>3. Truthful(h)  BY <3>2 DEF PeerAck, Truthful, Seg
    <3> QED  BY <2>0, <3>1, <3>2, <3>3, PeerKeeps
  <2> QED  BY <1>4, <2>2, <2>3, <2>4, <2>5
<1>5. CASE UNCHANGED vars
  <2>1. UNCHANGED <<conn, net, peer, got, rented>>  BY <1>5 DEF vars
  <2>2. TcpShape'  BY <2>1, Zenon DEF TcpInv, TcpShape, ConnOK, Free
  <2>3. NetOK'  BY <2>1, Zenon DEF TcpInv, NetOK, Truthful, Plus
  <2>4. \A t \in Slots : StreamOK(conn[t], got[t])'  BY <2>1, Zenon DEF TcpInv, StreamOK, Ordered, Plus
  <2>5. \A q \in Peers : (rented[q] = Cardinality(Using(q)))'  BY <2>1, Zenon DEF TcpInv, Using
  <2> QED  BY <2>2, <2>3, <2>4, <2>5 DEF TcpInv
<1> QED  BY <1>1, <1>2, <1>3, <1>4, <1>5 DEF Next

\* An empty table, an empty network and peers that have sent nothing.
LEMMA TcpStart == Init => TcpInv
<1> SUFFICES ASSUME Init PROVE TcpInv  OBVIOUS
<1>1. PICK f : f = Free  OBVIOUS
<1>2. DOMAIN f = DOMAIN Free /\ f.state = "closed"  BY <1>1 DEF Free
<1>3. f.opened = FALSE  BY <1>1 DEF Free
<1>4. f.opened \in BOOLEAN /\ ~ f.opened  BY <1>3, Zenon
<1>5. ConnOK(f)  BY <1>2, <1>4 DEF ConnOK, States
<1>6. /\ DOMAIN conn = Slots /\ \A s \in Slots : conn[s] = f
      /\ got = [s \in Slots |-> <<>>] /\ rented = [p \in Peers |-> 0] /\ net = {}
  BY <1>1 DEF Init
<1>7. TcpShape
  <2>1. <<>> \in Seq(Nat)  OBVIOUS
  <2>2. got \in [Slots -> Seq(Nat)] /\ rented \in [Peers -> Int]  BY <1>6, <2>1
  <2>3. DOMAIN peer = Peers /\ \A p \in Peers : DOMAIN peer[p] = {"st", "sent", "next"} /\ peer[p].sent = 0
    BY DEF Init
  <2>4. \A p \in Peers : 0 \in 0..PeerData[p]  BY TcpAssumption
  <2> QED  BY <1>5, <1>6, <2>2, <2>3, <2>4, Zenon DEF TcpShape
<1>8. \A p \in Peers : rented[p] = Cardinality(Using(p))
  <2>1. \A p : Using(p) = {}  BY <1>4, <1>6 DEF Using
  <2> QED  BY <1>6, <2>1, FS_EmptySet, Zenon
<1>9. \A s \in Slots : StreamOK(conn[s], got[s])  BY <1>2, <1>6 DEF StreamOK, Ordered
<1> QED  BY <1>6, <1>7, <1>8, <1>9 DEF TcpInv, NetOK

\* The invariant of the stack.
LEMMA TcpInvariant == Spec => []TcpInv
  BY TcpStart, TcpStep, PTL DEF Spec

\* For any table and any number of peers, whatever segments are lost, repeated,
\* late or out of order: every on_open that gave out a connection state is
\* matched by one on_close, when the connection ends in any of its ways
\* (fire_open, fire_close, teardown in tcp.c).
THEOREM OpensAndClosesPair == Spec => []OpenClosePaired
<1>1. TcpInv => OpenClosePaired
  BY DEF TcpInv, TcpShape, ConnOK, OpenClosePaired, Using
<1> QED  BY <1>1, TcpInvariant, PTL

\* Whatever the network does, an established connection acknowledges as many
\* units as its service was given: a segment out of order or too large for the
\* window is never acknowledged (rcv_nxt in tcp_input_at).
THEOREM AcksOnlyTheDelivered == Spec => []AcksWhatItDelivered
<1>1. TcpInv => AcksWhatItDelivered
  BY DEF TcpInv, StreamOK, AcksWhatItDelivered
<1> QED  BY <1>1, TcpInvariant, PTL

\* Whatever the network does, and across the wrap of sequence numbers, a service
\* whose first unit was the first of the stream is given the stream in order,
\* each unit once (the in-order test and the advance of rcv_nxt in tcp_input_at).
THEOREM StreamsStayInOrder == Spec => []StreamInOrder
<1>1. TcpInv => StreamInOrder
  BY DEF TcpInv, StreamOK, Ordered, StreamInOrder
<1> QED  BY <1>1, TcpInvariant, PTL
=============================================================================
