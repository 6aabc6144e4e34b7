---------------------------- MODULE QuicRecovery ----------------------------
(***************************************************************************)
(* Loss detection and congestion control of one QUIC packet number space:  *)
(* userspace/quic/loss.c (RTT estimate, tracker of sent packets, loss and  *)
(* probe timers) and userspace/quic/cc.c (NewReno).                        *)
(*                                                                         *)
(* The two are kept apart in the code and called by the embedder: it asks  *)
(* quic_cc_can_send before a packet, and calls quic_cc_on_acked or         *)
(* quic_cc_on_lost once for each in-flight packet the tracker reports.     *)
(* Every ack-eliciting packet has the size Mds and is in flight; the       *)
(* others (pure ACKs) are tracked but use no window.  Times are in units   *)
(* of a microsecond or longer; packet numbers start at 1, so that 0 is     *)
(* "none acknowledged".                                                    *)
(*                                                                         *)
(* An operator whose name ends in _bug is a faulty variant of the next     *)
(* definition; no action uses it.                                          *)
(***************************************************************************)
EXTENDS Integers, FiniteSets

CONSTANTS
    Granularity,    \* QUIC_LOSS_GRANULARITY_US
    Threshold,      \* QUIC_LOSS_PACKET_THRESHOLD
    MaxTracked,     \* QUIC_LOSS_MAX_TRACKED
    MaxAckDelay,    \* max_ack_delay_us
    AckDelays,      \* the delays peers report
    InitialRtt,     \* 333 ms
    Mds,            \* max_datagram_size
    InitialFloor,   \* 14720 of kInitialWindow
    MaxPn, MaxNow, MaxPto   \* bounds

ASSUME RecoveryAssumption ==
    /\ Granularity \in Nat \ {0} /\ Threshold \in Nat \ {0} /\ MaxTracked \in Nat \ {0}
    /\ MaxAckDelay \in Nat /\ AckDelays \subseteq Nat /\ InitialRtt \in Nat \ {0}
    /\ Mds \in Nat \ {0} /\ InitialFloor \in Nat /\ MaxPn \in Nat /\ MaxNow \in Nat /\ MaxPto \in Nat

VARIABLES
    now,
    nextPn,
    tracker,     \* the used slots of pkts[]
    largest,     \* largest_acked, 0 before have_largest_acked
    lossTime,    \* loss_time
    lastSent,    \* time_of_last_ack_eliciting_sent
    inFlight,    \* ack_eliciting_in_flight
    ptoCount,    \* pto_count
    rtt,         \* quic_rtt_t
    cc,          \* quic_cc_t; ssthresh 0 stands for UINT64_MAX
    owed,        \* packets reported acked or lost, before the call to cc.c
    evicted      \* history: a packet was dropped from the full tracker

recVars == <<now, nextPn, tracker, largest, lossTime, lastSent, inFlight, ptoCount, rtt, cc, owed, evicted>>

MaxOf(a, b) == IF a > b THEN a ELSE b
MinOf(a, b) == IF a < b THEN a ELSE b
Minus(a, b) == IF a > b THEN a - b ELSE 0
Packets == [pn : Nat, sent : Nat, elic : BOOLEAN]

\* quic_cc_initial_window, quic_cc_minimum_window
InitialWindow == MinOf(10 * Mds, MaxOf(2 * Mds, InitialFloor))
MinimumWindow == 2 * Mds

RecInit ==
    /\ now = 1 /\ nextPn = 1 /\ tracker = {} /\ largest = 0 /\ lossTime = 0 /\ lastSent = 0
    /\ inFlight = 0 /\ ptoCount = 0
    /\ rtt = [first |-> FALSE, latest |-> 0, min |-> 0, smoothed |-> 0, var |-> 0]
    /\ cc = [cwnd |-> InitialWindow, ssthresh |-> 0, bytes |-> 0, recovery |-> 0]
    /\ owed = [acked |-> {}, lost |-> {}]
    /\ evicted = FALSE

-----------------------------------------------------------------------------
(* The RTT estimate and the timers derived from it.                        *)

\* quic_rtt_sample
Sampled(r, latest, delay) ==
    IF ~r.first
    THEN [first |-> TRUE, latest |-> latest, min |-> latest, smoothed |-> latest, var |-> latest \div 2]
    ELSE LET min == MinOf(r.min, latest)
             d == IF MaxAckDelay > 0 THEN MinOf(delay, MaxAckDelay) ELSE delay
             adjusted == IF latest >= min + d THEN latest - d ELSE latest
         IN  [first |-> TRUE, latest |-> latest, min |-> min,
              var |-> (3 * r.var + MaxOf(r.smoothed - adjusted, adjusted - r.smoothed)) \div 4,
              smoothed |-> (7 * r.smoothed + adjusted) \div 8]

\* loss_delay_us
LossDelay(r) ==
    IF ~r.first THEN Granularity
    ELSE MaxOf((MaxOf(r.latest, r.smoothed) * 9) \div 8, Granularity)

\* quic_loss_pto_us and quic_loss_pto_deadline
PtoBase == IF rtt.first THEN rtt.smoothed + MaxOf(4 * rtt.var, Granularity) + MaxAckDelay
           ELSE InitialRtt + MaxAckDelay
PtoArmed == inFlight # 0 /\ lastSent # 0
PtoDeadline == lastSent + PtoBase * 2 ^ MinOf(ptoCount, 16)

-----------------------------------------------------------------------------
(* The tracker.                                                            *)

Eliciting(pkts) == {p \in pkts : p.elic}
Oldest(pkts) == {p \in pkts : \A q \in pkts : p.sent <= q.sent}

\* quic_loss_on_sent, after quic_cc_can_send; then quic_cc_on_sent.  A full
\* tracker drops the packet sent first.
Track(pkt) ==
    IF Cardinality(tracker) < MaxTracked
    THEN tracker' = tracker \cup {pkt} /\ UNCHANGED evicted
    ELSE /\ \E old \in Oldest(tracker) : tracker' = (tracker \ {old}) \cup {pkt}
         /\ evicted' = TRUE
NothingOwed == owed.acked = {} /\ owed.lost = {}
Send(elic) ==
    /\ NothingOwed /\ nextPn <= MaxPn
    /\ elic => cc.bytes + Mds <= cc.cwnd
    /\ Track([pn |-> nextPn, sent |-> now, elic |-> elic])
    /\ nextPn' = nextPn + 1
    /\ IF elic THEN /\ inFlight' = inFlight + 1 /\ lastSent' = now
                    /\ cc' = [cc EXCEPT !.bytes = @ + Mds]
       ELSE UNCHANGED <<inFlight, lastSent, cc>>
    /\ UNCHANGED <<now, largest, lossTime, ptoCount, rtt, owed>>

\* detect_lost_inner, on what is tracked once the acknowledged are out: a packet
\* Threshold below the largest acknowledged, or sent a loss delay ago, is lost;
\* the loss timer is set for the others below the largest.
Below(pkts, top) == {p \in pkts : p.pn <= top}
Lost(pkts, top, r) ==
    {p \in Below(pkts, top) : top - p.pn >= Threshold \/ p.sent <= Minus(now, LossDelay(r))}
Deadlines(pkts, top, r) == {p.sent + LossDelay(r) : p \in Below(pkts, top) \ Lost(pkts, top, r)}
DetectLost_bug(pkts, top, r) ==
    /\ tracker' = pkts \ Lost(pkts, top, r)
    /\ LET due == Deadlines(pkts, top, r) IN
       \/ due = {} /\ UNCHANGED lossTime
       \/ \E t \in due : (\A u \in due : t <= u) /\ lossTime' = t
DetectLost(pkts, top, r) ==
    /\ tracker' = pkts \ Lost(pkts, top, r)
    /\ LET due == Deadlines(pkts, top, r) IN
       \/ due = {} /\ lossTime' = 0
       \/ \E t \in due : (\A u \in due : t <= u) /\ lossTime' = t

\* quic_loss_on_ack: an RTT sample only if the largest newly acknowledged is the
\* largest of the frame and elicited the ACK.
Forgotten(gone) == inFlight' = Minus(inFlight, Cardinality(Eliciting(gone)))
OnAckFrame(acks, top, delay) ==
    LET newly == {p \in tracker : p.pn \in acks}
        top2 == MaxOf(top, largest)
        sample == {p \in newly : p.pn = top /\ p.elic}
        rtt2 == IF sample = {} THEN rtt
                ELSE Sampled(rtt, Minus(now, (CHOOSE p \in sample : TRUE).sent), delay)
        rest == tracker \ newly
        lost == Lost(rest, top2, rtt2)
    IN  /\ largest' = top2
        /\ rtt' = rtt2
        /\ ptoCount' = IF newly = {} THEN ptoCount ELSE 0
        /\ DetectLost(rest, top2, rtt2)
        /\ Forgotten(newly \cup lost)
        /\ owed' = [acked |-> Eliciting(newly), lost |-> Eliciting(lost)]
        /\ UNCHANGED <<now, nextPn, lastSent, cc, evicted>>
Ack ==
    /\ NothingOwed
    /\ \E acks \in SUBSET (1 .. nextPn - 1), delay \in AckDelays :
         \E top \in acks : (\A a \in acks : a <= top) /\ OnAckFrame(acks, top, delay)

\* quic_loss_detect_lost, when the loss timer is due.
LossTimer ==
    /\ NothingOwed /\ lossTime # 0 /\ now >= lossTime
    /\ DetectLost(tracker, largest, rtt)
    /\ Forgotten(Lost(tracker, largest, rtt))
    /\ owed' = [acked |-> {}, lost |-> Eliciting(Lost(tracker, largest, rtt))]
    /\ UNCHANGED <<now, nextPn, largest, lastSent, ptoCount, rtt, cc, evicted>>

\* The embedder's probe timer is due: it backs off (and may send).
ProbeTimer ==
    /\ NothingOwed /\ PtoArmed /\ now >= PtoDeadline /\ ptoCount < MaxPto
    /\ ptoCount' = ptoCount + 1
    /\ UNCHANGED <<now, nextPn, tracker, largest, lossTime, lastSent, inFlight, rtt, cc, owed, evicted>>

-----------------------------------------------------------------------------
(* The window.                                                             *)

SlowStart == cc.ssthresh = 0 \/ cc.cwnd < cc.ssthresh
\* quic_cc_on_acked
CcAcked ==
    /\ \E p \in owed.acked : owed' = [owed EXCEPT !.acked = @ \ {p}]
    /\ LET bytes == MinOf(Mds, cc.bytes) IN
       cc' = [cc EXCEPT !.bytes = @ - bytes,
                        !.cwnd = IF SlowStart THEN @ + bytes ELSE @ + (Mds * bytes) \div @]
    /\ UNCHANGED <<now, nextPn, tracker, largest, lossTime, lastSent, inFlight, ptoCount, rtt, evicted>>

\* quic_cc_on_lost: at most one reaction to the losses of a recovery period.
Reaction(repaid) ==
    LET half == MaxOf(cc.cwnd \div 2, MinimumWindow)
    IN  [cwnd |-> half, ssthresh |-> half, bytes |-> repaid, recovery |-> now]
AfterLoss_bug(pkt, repaid) ==
    IF cc.recovery # 0 /\ pkt.sent <= cc.recovery THEN cc ELSE Reaction(repaid)
AfterLoss(pkt, repaid) ==
    IF cc.recovery # 0 /\ pkt.sent <= cc.recovery THEN [cc EXCEPT !.bytes = repaid] ELSE Reaction(repaid)
CcLost ==
    /\ \E p \in owed.lost : /\ owed' = [owed EXCEPT !.lost = @ \ {p}]
                           /\ cc' = AfterLoss(p, Minus(cc.bytes, Mds))
    /\ UNCHANGED <<now, nextPn, tracker, largest, lossTime, lastSent, inFlight, ptoCount, rtt, evicted>>

\* quic_cc_on_persistent_congestion, when the embedder sees that
CcCollapse ==
    /\ NothingOwed /\ ptoCount > 1
    /\ cc' = [cc EXCEPT !.cwnd = MinimumWindow, !.recovery = 0]
    /\ UNCHANGED <<now, nextPn, tracker, largest, lossTime, lastSent, inFlight, ptoCount, rtt, owed, evicted>>

\* The embedder's clock.
Clock ==
    /\ now < MaxNow /\ now' = now + 1
    /\ UNCHANGED <<nextPn, tracker, largest, lossTime, lastSent, inFlight, ptoCount, rtt, cc, owed, evicted>>

RecNext ==
    \/ \E elic \in BOOLEAN : Send(elic)
    \/ Ack \/ LossTimer \/ ProbeTimer \/ CcAcked \/ CcLost \/ CcCollapse \/ Clock
RecSpec == RecInit /\ [][RecNext]_recVars

-----------------------------------------------------------------------------
RttType == [first : BOOLEAN, latest : Nat, min : Nat, smoothed : Nat, var : Nat]
CcType == [cwnd : Nat, ssthresh : Nat, bytes : Nat, recovery : Nat]
RecTypeOK ==
    /\ now \in Nat /\ nextPn \in Nat \ {0} /\ largest \in Nat /\ lossTime \in Nat /\ lastSent \in Nat
    /\ inFlight \in Nat /\ ptoCount \in Nat /\ evicted \in BOOLEAN
    /\ tracker \subseteq Packets /\ owed \in [acked : SUBSET Packets, lost : SUBSET Packets]
    /\ rtt \in RttType /\ cc \in CcType

\* No packet is forgotten by the timers.  An ack-eliciting packet that is
\* tracked keeps the probe timer armed (quic_loss_pto_deadline does not
\* return 0, whatever the counter was decremented for); one below the largest acknowledged has a loss
\* timer set no later than its own deadline; and when the loss timer is due there
\* is a packet for it to declare lost, unless the tracker overflowed: it never
\* fires in vain, however the RTT estimate moved meanwhile.
TimersCoverFlight ==
    /\ \A p \in Eliciting(tracker) : PtoArmed
    /\ \A p \in Below(tracker, largest) : lossTime # 0 /\ lossTime <= p.sent + LossDelay(rtt)
    /\ lossTime # 0 /\ ~evicted =>
         \E p \in Below(tracker, largest) : lossTime = p.sent + LossDelay(rtt)

\* The two accounts of what is in flight agree with the tracker, unless it
\* overflowed: bytes_in_flight drains to 0 when everything is acknowledged or
\* lost, so that the window (never less than two datagrams) opens again.
FlightIsAccounted ==
    /\ cc.cwnd >= MinimumWindow
    /\ ~evicted => /\ inFlight = Cardinality(Eliciting(tracker))
                   /\ cc.bytes = Mds * (Cardinality(Eliciting(tracker))
                                         + Cardinality(owed.acked) + Cardinality(owed.lost))
=============================================================================
