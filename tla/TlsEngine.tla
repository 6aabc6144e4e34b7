------------------------------ MODULE TlsEngine ------------------------------
(***************************************************************************)
(* The TLS 1.3 server engine (userspace/tls/engine.c) and the store of     *)
(* session tickets it shares with the other connections of its worker      *)
(* (userspace/tls/ticket_store.c), as operators on an engine record.       *)
(*                                                                         *)
(* The engine is passive: the worker puts records into rx, calls step,     *)
(* reads app_in, seals its answers and drains tx.  A buffer is counted in  *)
(* records (rx, tx) or in pieces of plaintext (app_in); a record that has  *)
(* not arrived whole is a record still in the socket.                      *)
(*                                                                         *)
(* Cryptography is symbolic.  A key is the secret's name, the ClientHello  *)
(* it was derived from and the PSK that went into it; a record opens only  *)
(* under the key and the sequence number that sealed it.                   *)
(*                                                                         *)
(* An operator whose name ends in _bug is a faulty variant of the next     *)
(* definition; no action uses it.                                          *)
(***************************************************************************)
EXTENDS Integers, Sequences

CONSTANTS
    RxCap,       \* records that fit rx_buf
    TxCap,       \* records that fit tx_buf
    AppCap,      \* pieces of plaintext that fit app_in_buf
    MaxEarly,    \* PW_TLS_TICKET_MAX_EARLY, in pieces of plaintext
    Lifetime,    \* PW_TLS_TICKET_LIFETIME_S, in ticks
    Tickets      \* PW_TLS_TICKET_SLOTS

ASSUME TlsSizes == {RxCap, TxCap, AppCap, Tickets} \subseteq Nat \ {0} /\ {MaxEarly, Lifetime} \subseteq Nat

NoPsk   == 0
Spins   == 8                                         \* handshake moves per step
Key(secret, hello, psk) == <<secret, hello, psk>>
NoKey   == Key("none", 0, NoPsk)

Sealed(dir, inner, data) == [ct |-> "app", key |-> dir.key, seq |-> dir.seq, inner |-> inner, data |-> data]
Direction(key) == [key |-> key, seq |-> 0]
Opens(dir, rec) == rec.ct = "app" /\ rec.key = dir.key /\ rec.seq = dir.seq

\* pw_tls_engine_init and pw_tls_engine_configure_server.
EngineInit ==
    [state |-> "HANDSHAKE", phase |-> "WAIT_CH", err |-> "NONE",
     rx |-> <<>>, tx |-> <<>>, app_in |-> <<>>,
     read |-> Direction(NoKey), write |-> Direction(NoKey),
     hello |-> 0, psk |-> NoPsk, resumed |-> FALSE,
     early |-> 0, early_max |-> 0, early_seen |-> 0, rms |-> FALSE]

-----------------------------------------------------------------------------
(* The ticket store: one record per slot. *)

NoTicket == [valid |-> FALSE, id |-> 0, age |-> 0, used |-> FALSE, max_early |-> 0]

Expired(t) == t.age > Lifetime

Holding(store, id) == {i \in 1..Tickets : store[i].valid /\ store[i].id = id}
First(S) == CHOOSE i \in S : \A j \in S : i <= j

\* The slot pw_tls_ticket_store_insert takes: the first that is empty (or holds
\* the same id), else the oldest.
Victim(store, id) ==
    LET open == {i \in 1..Tickets : ~ store[i].valid \/ store[i].id = id} IN
    IF open # {} THEN First(open)
    ELSE First({i \in 1..Tickets : \A j \in 1..Tickets : store[j].age <= store[i].age})

Insert(store, id) ==
    [store EXCEPT ![Victim(store, id)] =
        [valid |-> TRUE, id |-> id, age |-> 0, used |-> FALSE, max_early |-> MaxEarly]]

\* pw_tls_ticket_store_lookup finds the offered ticket and it is not too old.
Usable(store, id) == Holding(store, id) # {} /\ ~ Expired(store[First(Holding(store, id))])

\* The lookups of the offers 1..n: an expired ticket that is found is wiped.
Looked(store, offers, n) ==
    [i \in 1..Tickets |->
        IF \E k \in 1..n : Holding(store, offers[k]) # {} /\ i = First(Holding(store, offers[k])) /\ Expired(store[i])
        THEN NoTicket ELSE store[i]]

CanEarlyData(t) == t.valid /\ ~ t.used /\ t.max_early > 0

\* pw_tls_ticket_consume_for_0rtt: the ticket carries no early data again.
Consume_bug(store, i) == [store EXCEPT ![i].used = (store[i].max_early = 0)]
Consume(store, i) == [store EXCEPT ![i].used = TRUE]

-----------------------------------------------------------------------------
(* The three moves of the handshake.  Each takes and returns a record of   *)
(* the engine e, the store st and rc: 1 moved, 0 nothing to do, -1 fatal.  *)

Result(rc, e, st) == [rc |-> rc, e |-> e, st |-> st]
Marked(e, err) == [e EXCEPT !.err = IF e.err = "NONE" THEN err ELSE e.err]

\* The offer that is taken: the first that is known and whose binder matches, or 0.
Selected(st, ch) ==
    LET known == {i \in DOMAIN ch.offers : Usable(st, ch.offers[i]) /\ ch.binder}
    IN  IF known = {} THEN 0 ELSE First(known)

\* The answer to a ClientHello whose offer sel was taken, given the store the
\* lookups left: the ticket is used up before the checks that may still refuse
\* the handshake.
AnswerWith(e, ch, sel, seen) ==
    LET slot  == First(Holding(seen, ch.offers[sel]))
        psk   == IF sel = 0 THEN NoPsk ELSE ch.offers[sel]
        early == sel = 1 /\ ch.early /\ CanEarlyData(seen[slot])
        st2   == IF sel = 0 THEN seen ELSE Consume(seen, slot)
        e2    == [e EXCEPT !.resumed = sel # 0, !.psk = psk, !.hello = ch.id,
                           !.early = IF early THEN 1 ELSE 0,
                           !.early_max = IF early THEN seen[slot].max_early ELSE 0]
    IN  IF (sel = 0 /\ ~ ch.sig) \/ ~ ch.share \/ Len(e.tx) = TxCap
        THEN Result(-1, [e EXCEPT !.resumed = sel # 0, !.psk = psk], st2)
        ELSE Result(1,
            [e2 EXCEPT !.read  = Direction(Key(IF early THEN "early" ELSE "c hs", ch.id, psk)),
                       !.write = Direction(Key("s hs", ch.id, psk)),
                       !.tx    = Append(e.tx, [ct |-> "handshake", key |-> NoKey, seq |-> 0,
                                               inner |-> "SH", data |-> psk]),
                       !.phase = "AFTER_SH_KEYS",
                       !.rx    = Tail(e.rx)], st2)

LookedFor(e, st, ch, sel) ==
    AnswerWith(e, ch, sel, Looked(st, ch.offers, IF sel = 0 THEN Len(ch.offers) ELSE sel))

\* try_drive_handshake_server, once the ClientHello parses.
AnswerHello(e, st, ch) == LookedFor(e, st, ch, Selected(st, ch))

\* tls13_parse_client_hello, and the checks of what it offers.
Parses(rec) == rec.ct = "handshake" /\ rec.ok

TryDriveHandshakeServer(e, st) ==
    IF e.phase # "WAIT_CH" \/ e.rx = <<>> THEN Result(0, e, st)
    ELSE IF ~ Parses(Head(e.rx)) THEN Result(-1, e, st)
    ELSE AnswerHello(e, st, Head(e.rx))

\* Records sealed one after another under the write key.
SealAll(dir, msgs) == [i \in DOMAIN msgs |-> Sealed([dir EXCEPT !.seq = dir.seq + i - 1], msgs[i].inner, msgs[i].data)]
\* The sequence number after n records.
Advance_bug(dir, n) == IF n > 1 THEN [dir EXCEPT !.seq = @ + 1] ELSE [dir EXCEPT !.seq = @ + n]
Advance(dir, n) == [dir EXCEPT !.seq = @ + n]
Queue(e, msgs) == [e EXCEPT !.tx = @ \o SealAll(e.write, msgs), !.write = Advance(e.write, Len(msgs))]

Flight(e) ==
    <<[inner |-> "EE", data |-> e.early]>>
        \o (IF e.resumed THEN <<>> ELSE <<[inner |-> "CERT", data |-> 0], [inner |-> "CV", data |-> 0]>>)
        \o <<[inner |-> "FIN", data |-> 0]>>

TryEmitServerFlight(e, st) ==
    IF e.phase # "AFTER_SH_KEYS" THEN Result(0, e, st)
    ELSE IF Len(e.tx) + Len(Flight(e)) > TxCap THEN Result(-1, e, st)
    ELSE Result(1, [Queue(e, Flight(e)) EXCEPT !.phase = "AFTER_SF_AWAIT_CF"], st)

\* Early data is surfaced up to the ticket's cap; EndOfEarlyData brings the
\* handshake key back.
EarlyRecord(e, st, rec) ==
    LET opened == [e EXCEPT !.read.seq = @ + 1]
        n == Len(rec.data)
    IN  IF rec.inner = "EOED"
        THEN Result(1, [e EXCEPT !.read = Direction(Key("c hs", e.hello, e.psk)), !.early = 2, !.rx = Tail(@)], st)
        ELSE IF rec.inner # "app" THEN Result(-1, opened, st)
        ELSE IF e.early_seen + n > e.early_max THEN Result(-1, Marked(opened, "PROTOCOL"), st)
        ELSE IF Len(e.app_in) + n > AppCap THEN Result(-1, Marked(opened, "OVERFLOW"), st)
        ELSE Result(1, [opened EXCEPT !.app_in = @ \o rec.data, !.early_seen = @ + n, !.rx = Tail(@)], st)

\* The client's Finished covers the ClientHello, the PSK and EndOfEarlyData.
Covered(e) == <<e.hello, e.psk, e.early = 2>>

TryRecvClientFinished(e, st) ==
    IF e.phase # "AFTER_SF_AWAIT_CF" \/ e.rx = <<>> THEN Result(0, e, st)
    ELSE LET rec == Head(e.rx) IN
        IF rec.ct = "ccs" THEN Result(1, [e EXCEPT !.rx = Tail(@)], st)
        ELSE IF rec.ct # "app" THEN Result(-1, e, st)
        ELSE IF ~ Opens(e.read, rec) THEN Result(-1, Marked(e, "AUTH"), st)
        ELSE IF e.early = 1 THEN EarlyRecord(e, st, rec)
        ELSE IF rec.inner # "FIN" THEN Result(-1, e, st)
        ELSE IF rec.data # Covered(e) THEN Result(-1, Marked(e, "AUTH"), st)
        ELSE Result(1, [e EXCEPT !.read  = Direction(Key("c app", e.hello, e.psk)),
                                 !.write = Direction(Key("s app", e.hello, e.psk)),
                                 !.rms = TRUE, !.state = "APP", !.rx = Tail(@)], st)

-----------------------------------------------------------------------------
(* pw_tls_step. *)

\* One turn of the handshake loop: the first move that does something.
OrElse(a, b) == IF a.rc # 0 THEN a ELSE b
Turn(x) ==
    OrElse(TryDriveHandshakeServer(x.e, x.st),
           OrElse(TryEmitServerFlight(x.e, x.st), TryRecvClientFinished(x.e, x.st)))

Spun(x) == IF x.rc = 1 /\ x.e.state # "APP" THEN Turn(x) ELSE x

Spin(e, st) == LET After[n \in 0..Spins] == IF n = 0 THEN Result(1, e, st) ELSE Spun(After[n - 1]) IN After
Handshaken(e, st) == Spin(e, st)[Spins]

\* try_open_one.
TryOpenOne(e) ==
    IF e.rx = <<>> THEN [rc |-> 0, e |-> e]
    ELSE LET rec  == Head(e.rx)
             past == [e EXCEPT !.read.seq = @ + 1, !.rx = Tail(@)]
         IN
        IF ~ Opens(e.read, rec) THEN [rc |-> -1, e |-> Marked(e, "AUTH")]
        ELSE IF rec.inner = "app"
        THEN IF Len(e.app_in) + Len(rec.data) > AppCap THEN [rc |-> -1, e |-> Marked(e, "OVERFLOW")]
             ELSE [rc |-> 1, e |-> [past EXCEPT !.app_in = @ \o rec.data]]
        ELSE IF rec.inner = "alert" THEN [rc |-> 1, e |-> [past EXCEPT !.state = "CLOSED"]]
        ELSE IF rec.inner = "update" THEN [rc |-> 1, e |-> past]
        ELSE [rc |-> -1, e |-> e]

\* The loop that opens records until one has brought plaintext.
OpenMore(x) == IF x.rc = 1 /\ x.e.state = "APP" /\ x.e.app_in = <<>> THEN TryOpenOne(x.e) ELSE x
Opening(e) == LET After[n \in 0..Len(e.rx)] == IF n = 0 THEN TryOpenOne(e) ELSE OpenMore(After[n - 1]) IN After
Drained(e) == IF e.app_in # <<>> THEN [rc |-> 0, e |-> e] ELSE Opening(e)[Len(e.rx)]

Failed(e) == [Marked(e, "PROTOCOL") EXCEPT !.state = "FAILED"]
Wiped(e) ==
    [Failed(e) EXCEPT !.read = Direction(NoKey), !.write = Direction(NoKey),
                      !.psk = NoPsk, !.rms = FALSE, !.tx = <<>>, !.app_in = <<>>]

\* After the records were opened, and after the handshake moved.
Opened(d, st) == IF d.rc = -1 THEN Result(-1, Failed(d.e), st) ELSE Result(0, d.e, st)
Moved(h) ==
    IF h.rc = -1 THEN Result(-1, Wiped(h.e), h.st)
    ELSE IF h.e.state = "HANDSHAKE" THEN Result(0, h.e, h.st)
    ELSE Opened(Drained(h.e), h.st)

Step(e, st) ==
    IF e.state = "FAILED" THEN Result(-1, e, st)
    ELSE Moved(IF e.state = "HANDSHAKE" THEN Handshaken(e, st) ELSE Result(0, e, st))

-----------------------------------------------------------------------------
(* The ports. *)

\* pw_tls_app_seal_iov of an answer that takes n records.
CanSeal_bug(e, n) == e.state = "APP" /\ Len(e.tx) < TxCap
CanSeal(e, n) == e.state = "APP" /\ Len(e.tx) + n <= TxCap
SealIov(e, n, what) == Queue(e, [i \in 1..n |-> [inner |-> "app", data |-> what]])

\* pw_tls_engine_emit_session_ticket.
CanEmitTicket(e) == e.state = "APP" /\ e.rms /\ Len(e.tx) < TxCap
EmitTicket(e, id) == Queue(e, <<[inner |-> "NST", data |-> id]>>)
===============================================================================
