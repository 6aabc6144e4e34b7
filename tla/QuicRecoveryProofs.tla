------------------------- MODULE QuicRecoveryProofs -------------------------
(***************************************************************************)
(* Proofs about QuicRecovery, for any thresholds, delays, datagram size,   *)
(* tracker size and number of packets, and any ACK frames.                 *)
(*                                                                         *)
(* Neither property is inductive alone.  That the probe timer is armed     *)
(* while something ack-eliciting is tracked rests on the in-flight count   *)
(* never falling below the tracked packets, even after an overflow; that   *)
(* the loss timer covers a packet rests on a new packet always being above *)
(* the largest acknowledged; and the bytes in flight are only repaid       *)
(* exactly because what is owed to cc.c was part of the tracker before.    *)
(***************************************************************************)
EXTENDS QuicRecovery, FiniteSetTheorems, TLAPS

\* Packets were sent, with numbers below the next one, after time 0.
PacketsOK(pkts) == \A p \in pkts : p \in Packets /\ p.pn < nextPn /\ p.sent > 0

FlightOK ==
    /\ IsFiniteSet(tracker) /\ IsFiniteSet(owed.acked) /\ IsFiniteSet(owed.lost)
    /\ inFlight >= Cardinality(Eliciting(tracker))
    /\ Eliciting(tracker) # {} => lastSent # 0

\* The part of TimersCoverFlight about the loss timer.
LossTimerOK ==
    /\ \A p \in Below(tracker, largest) : lossTime # 0 /\ lossTime <= p.sent + LossDelay(rtt)
    /\ lossTime # 0 /\ ~evicted =>
         \E p \in Below(tracker, largest) : lossTime = p.sent + LossDelay(rtt)

RecInv ==
    /\ RecTypeOK
    /\ now > 0 /\ largest < nextPn /\ PacketsOK(tracker)
    /\ FlightOK /\ LossTimerOK /\ FlightIsAccounted

-----------------------------------------------------------------------------
\* A part T of a finite set S and the rest of it.
LEMMA Parts ==
  ASSUME NEW S, NEW T, IsFiniteSet(S), T \subseteq S
  PROVE  /\ IsFiniteSet(T) /\ IsFiniteSet(S \ T)
         /\ Cardinality(S) \in Nat /\ Cardinality(T) \in Nat /\ Cardinality(S \ T) \in Nat
         /\ Cardinality(S \ T) = Cardinality(S) - Cardinality(T)
<1>1. IsFiniteSet(T)
  BY FS_Subset
<1>2. S \cap T = T
  OBVIOUS
<1>3. IsFiniteSet(S \ T) /\ Cardinality(S \ T) = Cardinality(S) - Cardinality(T)
  BY <1>2, FS_Difference
<1> QED
  BY <1>1, <1>3, FS_CardinalityType

\* loss_delay_us is positive, and an RTT sample keeps the estimate well-typed.
LEMMA DelayType == ASSUME NEW r \in RttType PROVE LossDelay(r) \in Nat \ {0}
<1>1. MaxOf(r.latest, r.smoothed) \in Nat
  BY DEF RttType, MaxOf
<1>2. (MaxOf(r.latest, r.smoothed) * 9) \div 8 \in Nat
  BY <1>1
<1> QED
  BY <1>2, RecoveryAssumption DEF LossDelay, MaxOf, RttType

\* A sample of the round-trip time leaves the estimate well typed (quic_rtt_sample).
LEMMA SampledType ==
  ASSUME NEW r \in RttType, NEW latest \in Nat, NEW delay \in Nat
  PROVE  Sampled(r, latest, delay) \in RttType
<1> DEFINE min == MinOf(r.min, latest)
           d == IF MaxAckDelay > 0 THEN MinOf(delay, MaxAckDelay) ELSE delay
           adjusted == IF latest >= min + d THEN latest - d ELSE latest
<1>0. r.first \in BOOLEAN /\ r.min \in Nat /\ r.smoothed \in Nat /\ r.var \in Nat
  BY DEF RttType
<1>1. min \in Nat
  BY <1>0 DEF MinOf
<1>2. d \in Nat
  BY RecoveryAssumption DEF MinOf
<1>3. adjusted \in Nat
  BY <1>1, <1>2
<1> HIDE DEF adjusted, min, d
<1>4. (3 * r.var + MaxOf(r.smoothed - adjusted, adjusted - r.smoothed)) \div 4 \in Nat
  <2>1. MaxOf(r.smoothed - adjusted, adjusted - r.smoothed) \in Nat
    BY <1>0, <1>3 DEF MaxOf
  <2> QED
    BY <1>0, <2>1
<1>5. (7 * r.smoothed + adjusted) \div 8 \in Nat
  BY <1>0, <1>3
<1>6. latest \div 2 \in Nat
  OBVIOUS
<1>7. CASE ~ r.first
  BY <1>6, <1>7 DEF Sampled, RttType
<1>8. CASE r.first
  <2>1. Sampled(r, latest, delay) =
          [first |-> TRUE, latest |-> latest, min |-> min,
           var |-> (3 * r.var + MaxOf(r.smoothed - adjusted, adjusted - r.smoothed)) \div 4,
           smoothed |-> (7 * r.smoothed + adjusted) \div 8]
    BY <1>8 DEF Sampled, adjusted, min, d
  <2> QED
    BY <1>1, <1>4, <1>5, <2>1 DEF RttType
<1> QED
  BY <1>7, <1>8

\* A window of n datagrams, with one taken away (n > 0) or added.
LEMMA OneDatagram ==
  ASSUME NEW n \in Nat
  PROVE  /\ Mds * n \in Nat
         /\ Mds * (n + 1) = Mds * n + Mds
         /\ n > 0 => Mds <= Mds * n /\ Mds * n - Mds = Mds * (n - 1)
<1>1. Mds \in Nat
  BY RecoveryAssumption
<1>2. \A m \in Nat : Mds * m \in Nat /\ Mds * (m + 1) = Mds * m + Mds
  BY <1>1
<1>3. n > 0 => n - 1 \in Nat /\ (n - 1) + 1 = n
  OBVIOUS
<1>4. n > 0 => Mds * n = Mds * (n - 1) + Mds /\ Mds * (n - 1) \in Nat
  BY <1>2, <1>3
<1>5. Mds * n \in Nat /\ Mds * (n + 1) = Mds * n + Mds
  BY <1>2
<1> QED
  BY <1>1, <1>4, <1>5

-----------------------------------------------------------------------------
\* detect_lost_inner arms the loss timer for exactly what it leaves below the
\* largest acknowledged.
LEMMA DetectArms ==
  ASSUME NEW pkts, NEW top \in Nat, NEW r \in RttType, DetectLost(pkts, top, r),
         \A p \in pkts : p \in Packets /\ p.sent > 0
  PROVE  /\ tracker' = pkts \ Lost(pkts, top, r) /\ lossTime' \in Nat
         /\ \A p \in Below(tracker', top) : lossTime' # 0 /\ lossTime' <= p.sent + LossDelay(r)
         /\ lossTime' # 0 => \E p \in Below(tracker', top) : lossTime' = p.sent + LossDelay(r)
<1> DEFINE due == Deadlines(pkts, top, r)
<1>1. tracker' = pkts \ Lost(pkts, top, r)
  BY DEF DetectLost
<1>2. Below(tracker', top) = Below(pkts, top) \ Lost(pkts, top, r)
  BY <1>1 DEF Below, Lost
<1>3. LossDelay(r) \in Nat \ {0}
  BY DelayType
<1>4. \A p \in Below(tracker', top) :
        p.sent \in Nat /\ p.sent + LossDelay(r) \in due /\ p.sent + LossDelay(r) > 0
  BY <1>2, <1>3 DEF Deadlines, Below, Packets
<1>5. \A t \in due : \E p \in Below(tracker', top) : t = p.sent + LossDelay(r)
  BY <1>2 DEF Deadlines
<1>6. CASE due = {} /\ lossTime' = 0
  BY <1>1, <1>4, <1>6, Zenon
<1>7. CASE \E t \in due : (\A u \in due : t <= u) /\ lossTime' = t
  <2>1. lossTime' \in due /\ \A u \in due : lossTime' <= u
    BY <1>7
  <2>2. PICK p \in Below(tracker', top) : lossTime' = p.sent + LossDelay(r)
    BY <1>5, <2>1
  <2>3. lossTime' \in Nat /\ lossTime' # 0
    BY <1>3, <1>4, <2>2
  <2> HIDE DEF due
  <2> QED
    BY <1>1, <1>4, <2>1, <2>2, <2>3, Zenon
<1> QED
  BY <1>6, <1>7, Zenon DEF DetectLost

\* Packets that leave the tracker are taken off the in-flight count.
LEMMA Forget ==
  ASSUME RecInv, NEW gone, gone \subseteq tracker, tracker' = tracker \ gone, Forgotten(gone)
  PROVE  /\ IsFiniteSet(tracker') /\ inFlight' \in Nat
         /\ Cardinality(Eliciting(gone)) \in Nat /\ Cardinality(Eliciting(tracker')) \in Nat
         /\ Cardinality(Eliciting(tracker)) = Cardinality(Eliciting(tracker')) + Cardinality(Eliciting(gone))
         /\ inFlight' >= Cardinality(Eliciting(tracker'))
         /\ ~evicted => inFlight' = Cardinality(Eliciting(tracker'))
         /\ Eliciting(tracker') # {} => lastSent # 0
<1>1. IsFiniteSet(tracker) /\ inFlight \in Nat /\ inFlight >= Cardinality(Eliciting(tracker))
  BY DEF RecInv, FlightOK, RecTypeOK
<1>2. IsFiniteSet(tracker')
  BY <1>1, Parts
<1>3. /\ Eliciting(gone) \subseteq Eliciting(tracker) /\ Eliciting(tracker) \subseteq tracker
      /\ Eliciting(tracker') = Eliciting(tracker) \ Eliciting(gone)
  BY DEF Eliciting
<1>4. IsFiniteSet(Eliciting(tracker))
  BY <1>1, <1>3, Parts, Zenon
<1>5. /\ Cardinality(Eliciting(tracker)) \in Nat
      /\ Cardinality(Eliciting(gone)) \in Nat /\ Cardinality(Eliciting(tracker')) \in Nat
      /\ Cardinality(Eliciting(tracker')) = Cardinality(Eliciting(tracker)) - Cardinality(Eliciting(gone))
  BY <1>3, <1>4, Parts, Zenon
<1>6. inFlight' = Minus(inFlight, Cardinality(Eliciting(gone)))
  BY DEF Forgotten
<1>7. /\ inFlight' \in Nat /\ inFlight' >= Cardinality(Eliciting(tracker'))
      /\ inFlight = Cardinality(Eliciting(tracker)) => inFlight' = Cardinality(Eliciting(tracker'))
  BY <1>1, <1>5, <1>6 DEF Minus
<1>8. ~evicted => inFlight = Cardinality(Eliciting(tracker))
  BY DEF RecInv, FlightIsAccounted
<1>9. Eliciting(tracker') # {} => lastSent # 0
  BY <1>3 DEF RecInv, FlightOK
<1>10. Cardinality(Eliciting(tracker)) = Cardinality(Eliciting(tracker')) + Cardinality(Eliciting(gone))
  BY <1>5
<1> QED
  BY <1>2, <1>5, <1>7, <1>8, <1>9, <1>10, Zenon

\* The common part of quic_loss_on_ack and quic_loss_detect_lost: newly is taken
\* out as acknowledged, then the rest is searched for losses.
LEMMA RemoveAndDetect ==
  ASSUME RecInv, NothingOwed, NEW newly, newly \subseteq tracker,
         NEW top \in Nat, top < nextPn, NEW r \in RttType,
         DetectLost(tracker \ newly, top, r),
         Forgotten(newly \cup Lost(tracker \ newly, top, r)),
         owed' = [acked |-> Eliciting(newly), lost |-> Eliciting(Lost(tracker \ newly, top, r))],
         largest' = top, rtt' = r, ptoCount' \in Nat,
         UNCHANGED <<now, nextPn, lastSent, cc, evicted>>
  PROVE  RecInv'
<1> DEFINE lost == Lost(tracker \ newly, top, r)
           gone == newly \cup lost
<1>1. lost \subseteq tracker \ newly
  BY DEF Lost, Below
<1>2. \A p \in tracker : p \in Packets /\ p.pn < nextPn /\ p.sent > 0
  BY DEF RecInv, PacketsOK
<1>3. /\ tracker' = (tracker \ newly) \ lost /\ lossTime' \in Nat
      /\ \A p \in Below(tracker', top) : lossTime' # 0 /\ lossTime' <= p.sent + LossDelay(r)
      /\ lossTime' # 0 => \E p \in Below(tracker', top) : lossTime' = p.sent + LossDelay(r)
  <2>1. \A p \in tracker \ newly : p \in Packets /\ p.sent > 0
    BY <1>2
  <2> QED
    BY <2>1, DetectArms, Zenon
<1> HIDE DEF lost
<1>4. tracker' = tracker \ gone /\ gone \subseteq tracker
  BY <1>1, <1>3
<1>5. Forgotten(gone)
  BY DEF lost
<1>6. /\ IsFiniteSet(tracker') /\ inFlight' \in Nat
      /\ Cardinality(Eliciting(gone)) \in Nat /\ Cardinality(Eliciting(tracker')) \in Nat
      /\ Cardinality(Eliciting(tracker)) = Cardinality(Eliciting(tracker')) + Cardinality(Eliciting(gone))
      /\ inFlight' >= Cardinality(Eliciting(tracker'))
      /\ ~evicted => inFlight' = Cardinality(Eliciting(tracker'))
      /\ Eliciting(tracker') # {} => lastSent # 0
  BY <1>4, <1>5, Forget, Zenon
<1>7. /\ owed' = [acked |-> Eliciting(newly), lost |-> Eliciting(lost)]
      /\ owed'.acked = Eliciting(newly) /\ owed'.lost = Eliciting(lost)
  BY DEF lost
<1>8. /\ IsFiniteSet(Eliciting(newly)) /\ IsFiniteSet(Eliciting(lost))
      /\ Cardinality(Eliciting(gone)) = Cardinality(Eliciting(newly)) + Cardinality(Eliciting(lost))
  <2>1. Eliciting(newly) \subseteq tracker /\ Eliciting(lost) \subseteq tracker
    BY <1>1 DEF Eliciting
  <2>2. IsFiniteSet(Eliciting(newly)) /\ IsFiniteSet(Eliciting(lost))
    BY <2>1, FS_Subset DEF RecInv, FlightOK
  <2>3. /\ Eliciting(gone) = Eliciting(newly) \cup Eliciting(lost)
        /\ Eliciting(newly) \cap Eliciting(lost) = {}
    BY <1>1 DEF Eliciting
  <2>4. /\ Cardinality(Eliciting(gone)) =
             Cardinality(Eliciting(newly)) + Cardinality(Eliciting(lost)) - Cardinality({})
        /\ Cardinality({}) = 0
    <3>1. Cardinality(Eliciting(newly) \cup Eliciting(lost)) =
            Cardinality(Eliciting(newly)) + Cardinality(Eliciting(lost))
              - Cardinality(Eliciting(newly) \cap Eliciting(lost))
      BY <2>2, FS_Union
    <3> QED
      BY <2>3, <3>1, FS_EmptySet, Zenon
  <2>5. Cardinality(Eliciting(newly)) \in Nat /\ Cardinality(Eliciting(lost)) \in Nat
    BY <2>2, FS_CardinalityType
  <2> QED
    BY <2>2, <2>4, <2>5
<1>9. RecTypeOK'
  <2>1. owed' \in [acked : SUBSET Packets, lost : SUBSET Packets]
    BY <1>1, <1>2, <1>7, Zenon DEF Eliciting
  <2>2. tracker' \subseteq Packets
    BY <1>2, <1>4
  <2> QED
    BY <1>3, <1>6, <2>1, <2>2, Zenon DEF RecInv, RecTypeOK
<1>10. PacketsOK(tracker)'
  BY <1>2, <1>4 DEF PacketsOK
<1>11. FlightOK'
  BY <1>6, <1>7, <1>8 DEF FlightOK
<1>12. LossTimerOK'
  BY <1>3 DEF LossTimerOK
<1>13. FlightIsAccounted'
  <2>1. cc.cwnd >= MinimumWindow
    BY DEF RecInv, FlightIsAccounted
  <2>2. ASSUME ~evicted
        PROVE  cc.bytes = Mds * (Cardinality(Eliciting(tracker'))
                                   + Cardinality(Eliciting(newly)) + Cardinality(Eliciting(lost)))
    <3>1. owed.acked = {} /\ owed.lost = {} /\ Cardinality({}) = 0
      BY FS_EmptySet DEF NothingOwed
    <3>2. cc.bytes = Mds * (Cardinality(Eliciting(tracker)) + 0 + 0)
      BY <2>2, <3>1 DEF RecInv, FlightIsAccounted
    <3>3. Cardinality(Eliciting(newly)) \in Nat /\ Cardinality(Eliciting(lost)) \in Nat
      BY <1>8, FS_CardinalityType
    <3>4. Cardinality(Eliciting(tracker)) + 0 + 0 =
            Cardinality(Eliciting(tracker')) + Cardinality(Eliciting(newly)) + Cardinality(Eliciting(lost))
      BY <1>6, <1>8, <3>3
    <3> QED
      BY <3>2, <3>4
  <2> QED
    BY <1>6, <1>7, <2>1, <2>2 DEF FlightIsAccounted, MinimumWindow
<1>14. now' > 0 /\ (largest < nextPn)'
  BY DEF RecInv
<1> QED
  BY <1>9, <1>10, <1>11, <1>12, <1>13, <1>14 DEF RecInv

\* quic_loss_on_sent and quic_cc_on_sent.
LEMMA SendKeeps == ASSUME RecInv, NEW elic \in BOOLEAN, Send(elic) PROVE RecInv'
<1> DEFINE pkt == [pn |-> nextPn, sent |-> now, elic |-> elic]
           E == Eliciting(tracker)
<1>1. /\ RecTypeOK /\ now > 0 /\ largest < nextPn /\ PacketsOK(tracker)
      /\ FlightOK /\ LossTimerOK /\ FlightIsAccounted
  BY DEF RecInv
<1>2. /\ pkt \in Packets /\ pkt.pn = nextPn /\ pkt.sent = now /\ pkt.elic = elic
      /\ pkt \notin tracker /\ ~ (pkt.pn <= largest)
  BY <1>1 DEF Packets, RecTypeOK, PacketsOK
<1> HIDE DEF pkt
<1>3. /\ nextPn' = nextPn + 1 /\ now' = now /\ largest' = largest /\ lossTime' = lossTime
      /\ ptoCount' = ptoCount /\ rtt' = rtt /\ owed' = owed /\ NothingOwed /\ Track(pkt)
      /\ IF elic THEN inFlight' = inFlight + 1 /\ lastSent' = now /\ cc' = [cc EXCEPT !.bytes = @ + Mds]
         ELSE inFlight' = inFlight /\ lastSent' = lastSent /\ cc' = cc
  BY DEF Send, pkt
<1>4. PICK kept : /\ kept \subseteq tracker /\ tracker' = kept \cup {pkt}
                  /\ \/ kept = tracker /\ evicted' = evicted
                     \/ evicted' = TRUE
  BY <1>3, Zenon DEF Track, Oldest
<1>5. /\ IsFiniteSet(E) /\ IsFiniteSet(Eliciting(kept)) /\ IsFiniteSet(kept)
      /\ Cardinality(E) \in Nat /\ Cardinality(Eliciting(kept)) \in Nat
      /\ Cardinality(Eliciting(kept)) <= Cardinality(E)
  <2>1. E \subseteq tracker /\ Eliciting(kept) \subseteq E
    BY <1>4 DEF Eliciting
  <2>2. IsFiniteSet(E) /\ IsFiniteSet(kept)
    BY <1>1, <1>4, <2>1, FS_Subset DEF FlightOK
  <2> QED
    BY <2>1, <2>2, FS_Subset, FS_CardinalityType
<1>6. /\ elic => Eliciting(tracker') = Eliciting(kept) \cup {pkt} /\ pkt \notin Eliciting(kept)
      /\ ~elic => Eliciting(tracker') = Eliciting(kept)
  BY <1>2, <1>4 DEF Eliciting
<1>7. /\ IsFiniteSet(tracker') /\ IsFiniteSet(Eliciting(tracker'))
      /\ Cardinality(Eliciting(tracker')) = Cardinality(Eliciting(kept)) + (IF elic THEN 1 ELSE 0)
  <2>1. IsFiniteSet(kept \cup {pkt})
    BY <1>5, FS_AddElement
  <2>2. CASE elic
    <3>1. /\ IsFiniteSet(Eliciting(kept) \cup {pkt})
          /\ Cardinality(Eliciting(kept) \cup {pkt}) = Cardinality(Eliciting(kept)) + 1
      BY <1>5, <1>6, <2>2, FS_AddElement
    <3> QED
      BY <1>4, <1>6, <2>1, <2>2, <3>1
  <2>3. CASE ~elic
    BY <1>4, <1>5, <1>6, <2>1, <2>3
  <2> QED
    BY <2>2, <2>3
<1>8. RecTypeOK'
  <2>1. cc' \in CcType
    BY <1>1, <1>3, RecoveryAssumption DEF RecTypeOK, CcType
  <2>2. tracker' \subseteq Packets
    BY <1>1, <1>2, <1>4 DEF RecTypeOK
  <2>3. inFlight' \in Nat /\ lastSent' \in Nat
    BY <1>1, <1>3 DEF RecTypeOK
  <2>4. evicted' \in BOOLEAN
    BY <1>1, <1>4, Zenon DEF RecTypeOK
  <2>5. nextPn' \in Nat \ {0}
    BY <1>1, <1>3 DEF RecTypeOK
  <2> QED
    BY <1>1, <1>3, <2>1, <2>2, <2>3, <2>4, <2>5 DEF RecTypeOK
<1>9. now' > 0 /\ largest' < nextPn' /\ PacketsOK(tracker)'
  BY <1>1, <1>2, <1>3, <1>4 DEF RecTypeOK, PacketsOK, Packets
<1>10. FlightOK'
  <2>1. inFlight' >= Cardinality(Eliciting(tracker'))
    BY <1>1, <1>3, <1>5, <1>7 DEF FlightOK, RecTypeOK
  <2>2. Eliciting(tracker') # {} => lastSent' # 0
    <3>1. CASE elic
      BY <1>1, <1>3, <3>1 DEF RecTypeOK
    <3>2. CASE ~elic
      <4>1. Eliciting(kept) \subseteq E
        BY <1>4 DEF Eliciting
      <4> QED
        BY <1>1, <1>3, <1>6, <3>2, <4>1 DEF FlightOK
    <3> QED
      BY <3>1, <3>2
  <2> QED
    BY <1>1, <1>3, <1>7, <2>1, <2>2 DEF FlightOK
<1>11. LossTimerOK'
  <2>1. Below(tracker', largest') = Below(kept, largest)
    BY <1>2, <1>3, <1>4 DEF Below
  <2>2. Below(kept, largest) \subseteq Below(tracker, largest)
    BY <1>4 DEF Below
  <2> QED
    BY <1>1, <1>3, <1>4, <2>1, <2>2 DEF LossTimerOK
<1>12. FlightIsAccounted'
  <2>1. cc'.cwnd = cc.cwnd /\ cc'.bytes = IF elic THEN cc.bytes + Mds ELSE cc.bytes
    BY <1>1, <1>3 DEF RecTypeOK, CcType
  <2>2. ASSUME ~evicted'
        PROVE  /\ inFlight' = Cardinality(Eliciting(tracker'))
               /\ cc'.bytes = Mds * (Cardinality(Eliciting(tracker'))
                                      + Cardinality(owed'.acked) + Cardinality(owed'.lost))
    <3>1. kept = tracker /\ ~evicted
      BY <1>4, <2>2
    <3>2. inFlight = Cardinality(E) /\ owed' = owed
      BY <1>1, <1>3, <3>1 DEF FlightIsAccounted
    <3>3. Cardinality(owed'.acked) = 0 /\ Cardinality(owed'.lost) = 0
      BY <1>3, FS_EmptySet DEF NothingOwed
    <3>4. cc.bytes = Mds * (Cardinality(E) + 0 + 0)
      BY <1>1, <3>1, <3>2, <3>3 DEF FlightIsAccounted
    <3>5. cc.bytes = Mds * Cardinality(E)
      BY <1>5, <3>4
    <3>6. inFlight' = Cardinality(Eliciting(tracker'))
      BY <1>3, <1>5, <1>7, <3>1, <3>2
    <3>7. cc'.bytes = Mds * Cardinality(Eliciting(tracker'))
      BY <1>5, <1>7, <2>1, <3>1, <3>5, OneDatagram
    <3>8. Cardinality(Eliciting(tracker')) + 0 + 0 = Cardinality(Eliciting(tracker'))
      BY <1>5, <1>7
    <3> QED
      BY <3>3, <3>6, <3>7, <3>8
  <2> QED
    BY <1>1, <2>1, <2>2 DEF FlightIsAccounted, MinimumWindow
<1> QED
  BY <1>8, <1>9, <1>10, <1>11, <1>12 DEF RecInv

\* quic_loss_on_ack, for any ACK frame.
LEMMA AckKeeps == ASSUME RecInv, Ack PROVE RecInv'
<1>1. PICK acks \in SUBSET (1 .. nextPn - 1), delay \in AckDelays : \E top \in acks :
        (\A a \in acks : a <= top) /\ OnAckFrame(acks, top, delay)
  BY DEF Ack
<1>2. PICK top \in acks : (\A a \in acks : a <= top) /\ OnAckFrame(acks, top, delay)
  BY <1>1
<1> DEFINE newly == {p \in tracker : p.pn \in acks}
           top2 == MaxOf(top, largest)
           sample == {p \in newly : p.pn = top /\ p.elic}
           p0 == CHOOSE p \in sample : TRUE
           rtt2 == IF sample = {} THEN rtt ELSE Sampled(rtt, Minus(now, p0.sent), delay)
           lost == Lost(tracker \ newly, top2, rtt2)
<1>3. RecTypeOK /\ largest < nextPn /\ PacketsOK(tracker) /\ NothingOwed
  BY DEF RecInv, Ack
<1>4. top \in Nat /\ top < nextPn /\ delay \in Nat
  BY <1>3, RecoveryAssumption DEF RecTypeOK
<1>5. top2 \in Nat /\ top2 < nextPn
  BY <1>3, <1>4 DEF MaxOf, RecTypeOK
<1>6. newly \subseteq tracker
  OBVIOUS
<1>7. rtt2 \in RttType
  <2>1. CASE sample = {}
    BY <1>3, <2>1 DEF RecTypeOK
  <2>2. CASE sample # {}
    <3>1. p0 \in tracker
      BY <2>2
    <3>2. p0.sent \in Nat
      BY <1>3, <3>1 DEF PacketsOK, Packets
    <3> HIDE DEF p0
    <3>3. Minus(now, p0.sent) \in Nat
      BY <1>3, <3>2 DEF Minus, RecTypeOK
    <3> QED
      BY <1>3, <1>4, <2>2, <3>3, SampledType DEF RecTypeOK
  <2> QED
    BY <2>1, <2>2
<1>8. /\ largest' = top2 /\ rtt' = rtt2 /\ ptoCount' = (IF newly = {} THEN ptoCount ELSE 0)
      /\ DetectLost(tracker \ newly, top2, rtt2) /\ Forgotten(newly \cup lost)
      /\ owed' = [acked |-> Eliciting(newly), lost |-> Eliciting(lost)]
      /\ UNCHANGED <<now, nextPn, lastSent, cc, evicted>>
  BY <1>2 DEF OnAckFrame
<1>9. ptoCount' \in Nat
  BY <1>3, <1>8, Zenon DEF RecTypeOK
<1> HIDE DEF newly, top2, rtt2
<1> QED
  BY <1>3, <1>5, <1>6, <1>7, <1>8, <1>9, RemoveAndDetect

\* quic_loss_detect_lost.
LEMMA LossTimerKeeps == ASSUME RecInv, LossTimer PROVE RecInv'
<1>1. /\ tracker \ {} = tracker /\ {} \cup Lost(tracker, largest, rtt) = Lost(tracker, largest, rtt)
      /\ Eliciting({}) = {} /\ {} \subseteq tracker
  BY DEF Eliciting
<1>2. RecTypeOK /\ largest < nextPn /\ NothingOwed /\ largest \in Nat /\ rtt \in RttType
  BY DEF RecInv, LossTimer, RecTypeOK
<1>3. /\ DetectLost(tracker \ {}, largest, rtt) /\ Forgotten({} \cup Lost(tracker \ {}, largest, rtt))
      /\ owed' = [acked |-> Eliciting({}), lost |-> Eliciting(Lost(tracker \ {}, largest, rtt))]
      /\ largest' = largest /\ rtt' = rtt /\ UNCHANGED <<now, nextPn, lastSent, cc, evicted>>
  BY <1>1 DEF LossTimer
<1>4. ptoCount' \in Nat
  BY <1>2 DEF LossTimer, RecTypeOK
<1> QED
  BY <1>1, <1>2, <1>3, <1>4, RemoveAndDetect

-----------------------------------------------------------------------------
\* One call of quic_cc_on_acked or quic_cc_on_lost, for a packet that was owed:
\* the tracker and the timers stay, the packet's bytes are repaid.
LEMMA RepayKeeps ==
  ASSUME RecInv, NEW which \in {"acked", "lost"}, NEW p \in owed[which],
         owed' = [owed EXCEPT ![which] = @ \ {p}],
         cc' \in CcType, cc'.cwnd >= MinimumWindow,
         cc.bytes >= Mds => cc'.bytes = cc.bytes - Mds,
         UNCHANGED <<now, nextPn, tracker, largest, lossTime, lastSent, inFlight, ptoCount, rtt, evicted>>
  PROVE  RecInv'
<1>1. /\ RecTypeOK /\ now > 0 /\ largest < nextPn /\ PacketsOK(tracker)
      /\ FlightOK /\ LossTimerOK /\ FlightIsAccounted
  BY DEF RecInv
<1> DEFINE other == IF which = "acked" THEN "lost" ELSE "acked"
           a == Cardinality(owed[which])
           b == Cardinality(owed[other])
           n == Cardinality(Eliciting(tracker))
<1>2. /\ owed \in [acked : SUBSET Packets, lost : SUBSET Packets]
      /\ IsFiniteSet(owed.acked) /\ IsFiniteSet(owed.lost)
  BY <1>1 DEF RecTypeOK, FlightOK
<1>3. IsFiniteSet(owed[which]) /\ IsFiniteSet(owed[other])
  BY <1>2
<1>4. /\ owed'[which] = owed[which] \ {p} /\ owed'[other] = owed[other]
      /\ owed' \in [acked : SUBSET Packets, lost : SUBSET Packets]
  BY <1>2
<1>5. /\ IsFiniteSet(owed[which] \ {p}) /\ a \in Nat /\ b \in Nat
      /\ Cardinality(owed[which] \ {p}) = a - 1 /\ a > 0
  <2>1. IsFiniteSet(owed[which] \ {p}) /\ Cardinality(owed[which] \ {p}) = a - 1
    BY <1>3, FS_RemoveElement
  <2>2. a \in Nat /\ b \in Nat /\ a - 1 \in Nat
    BY <1>3, <2>1, FS_CardinalityType
  <2> QED
    BY <2>1, <2>2
<1>6. n \in Nat
  <2>1. Eliciting(tracker) \subseteq tracker
    BY DEF Eliciting
  <2>2. IsFiniteSet(Eliciting(tracker))
    BY <1>1, <2>1, FS_Subset DEF FlightOK
  <2> QED
    BY <2>2, FS_CardinalityType
<1>7. RecTypeOK'
  BY <1>1, <1>4 DEF RecTypeOK
<1>8. now' > 0 /\ largest' < nextPn' /\ PacketsOK(tracker)' /\ LossTimerOK'
  BY <1>1 DEF PacketsOK, LossTimerOK
<1>9. FlightOK'
  BY <1>1, <1>3, <1>4, <1>5 DEF FlightOK
<1>10. FlightIsAccounted'
  <2>1. ASSUME ~evicted
        PROVE  /\ inFlight = n
               /\ cc'.bytes = Mds * (n + Cardinality(owed'.acked) + Cardinality(owed'.lost))
    <3>1. inFlight = n /\ cc.bytes = Mds * (n + Cardinality(owed.acked) + Cardinality(owed.lost))
      BY <1>1, <2>1 DEF FlightIsAccounted
    <3>2. PICK m \in Nat : m = n + a + b /\ m > 0 /\ m - 1 = n + (a - 1) + b
      BY <1>5, <1>6
    <3>3. n + Cardinality(owed.acked) + Cardinality(owed.lost) = m
      BY <1>5, <1>6, <3>2
    <3>4. n + Cardinality(owed'.acked) + Cardinality(owed'.lost) = m - 1
      <4>1. Cardinality(owed'[which]) = a - 1 /\ Cardinality(owed'[other]) = b
        BY <1>4, <1>5
      <4> QED
        BY <1>5, <1>6, <3>2, <4>1
    <3>5. Mds <= Mds * m /\ Mds * m - Mds = Mds * (m - 1) /\ Mds * m \in Nat
      BY <3>2, OneDatagram
    <3>6. cc'.bytes = cc.bytes - Mds
      BY <3>1, <3>3, <3>5, RecoveryAssumption
    <3> QED
      BY <3>1, <3>3, <3>4, <3>5, <3>6
  <2> QED
    BY <2>1 DEF FlightIsAccounted, MinimumWindow
<1> QED
  BY <1>7, <1>8, <1>9, <1>10 DEF RecInv

\* quic_cc_on_acked: the window never shrinks.
LEMMA CcAckedKeeps == ASSUME RecInv, CcAcked PROVE RecInv'
<1> DEFINE bytes == MinOf(Mds, cc.bytes)
           grown == IF SlowStart THEN cc.cwnd + bytes ELSE cc.cwnd + (Mds * bytes) \div cc.cwnd
<1>1. PICK p \in owed.acked : owed' = [owed EXCEPT !.acked = @ \ {p}]
  BY Zenon DEF CcAcked
<1>2. /\ cc' = [cc EXCEPT !.bytes = @ - bytes, !.cwnd = grown]
      /\ UNCHANGED <<now, nextPn, tracker, largest, lossTime, lastSent, inFlight, ptoCount, rtt, evicted>>
  BY DEF CcAcked
<1>3. /\ cc \in CcType /\ cc.bytes \in Nat /\ cc.cwnd \in Nat /\ cc.cwnd >= MinimumWindow
      /\ Mds \in Nat \ {0} /\ MinimumWindow \in Nat \ {0}
  BY RecoveryAssumption DEF RecInv, RecTypeOK, CcType, FlightIsAccounted, MinimumWindow
<1>4. /\ bytes \in Nat /\ cc.bytes - bytes \in Nat
      /\ cc.bytes >= Mds => cc.bytes - bytes = cc.bytes - Mds
  BY <1>3 DEF MinOf
<1> HIDE DEF bytes
<1>5. (Mds * bytes) \div cc.cwnd \in Nat
  <2>1. Mds * bytes \in Nat /\ cc.cwnd \in Nat \ {0}
    BY <1>3, <1>4
  <2> QED
    BY <2>1
<1>6. grown \in Nat /\ grown >= cc.cwnd
  BY <1>3, <1>4, <1>5
<1> HIDE DEF grown
<1>7. /\ cc' \in CcType /\ cc'.cwnd = grown /\ cc'.bytes = cc.bytes - bytes
  BY <1>2, <1>3, <1>4, <1>6, Zenon DEF CcType
<1>8. cc'.cwnd >= MinimumWindow
  BY <1>3, <1>6, <1>7
<1> QED
  BY <1>1, <1>2, <1>4, <1>7, <1>8, RepayKeeps

\* quic_cc_on_lost: the window is halved at most, and not below the minimum.
LEMMA CcLostKeeps == ASSUME RecInv, CcLost PROVE RecInv'
<1> DEFINE repaid == Minus(cc.bytes, Mds)
           half == MaxOf(cc.cwnd \div 2, MinimumWindow)
<1>1. PICK p \in owed.lost : owed' = [owed EXCEPT !.lost = @ \ {p}] /\ cc' = AfterLoss(p, repaid)
  BY DEF CcLost
<1>2. UNCHANGED <<now, nextPn, tracker, largest, lossTime, lastSent, inFlight, ptoCount, rtt, evicted>>
  BY DEF CcLost
<1>3. /\ cc \in CcType /\ cc.bytes \in Nat /\ cc.cwnd \in Nat /\ cc.cwnd >= MinimumWindow
      /\ Mds \in Nat \ {0} /\ MinimumWindow \in Nat /\ now \in Nat
  BY RecoveryAssumption DEF RecInv, RecTypeOK, CcType, FlightIsAccounted, MinimumWindow
<1>4. repaid \in Nat /\ (cc.bytes >= Mds => repaid = cc.bytes - Mds)
  BY <1>3 DEF Minus
<1>5. half \in Nat /\ half >= MinimumWindow
  BY <1>3 DEF MaxOf
<1> HIDE DEF repaid, half
<1>6. \/ cc' = [cc EXCEPT !.bytes = repaid]
      \/ cc' = [cwnd |-> half, ssthresh |-> half, bytes |-> repaid, recovery |-> now]
  BY <1>1 DEF AfterLoss, Reaction, half
<1>7. cc' \in CcType /\ cc'.bytes = repaid /\ cc'.cwnd >= MinimumWindow
  BY <1>3, <1>4, <1>5, <1>6 DEF CcType
<1> QED
  BY <1>1, <1>2, <1>4, <1>7, RepayKeeps

-----------------------------------------------------------------------------
\* Nothing is tracked at first, and the initial window is no less than the minimum.
LEMMA RecStart == RecInit => RecInv
<1> SUFFICES ASSUME RecInit PROVE RecInv
  OBVIOUS
<1>1. Mds \in Nat /\ InitialFloor \in Nat
  BY RecoveryAssumption
<1>2. InitialWindow \in Nat /\ InitialWindow >= MinimumWindow
  BY <1>1 DEF InitialWindow, MinimumWindow, MinOf, MaxOf
<1>3. Eliciting(tracker) = {} /\ Below(tracker, largest) = {}
  BY DEF RecInit, Eliciting, Below
<1>4. IsFiniteSet({}) /\ Cardinality({}) = 0
  BY FS_EmptySet
<1>5. RecTypeOK
  <2>1. rtt \in RttType
    BY DEF RecInit, RttType
  <2>2. cc \in CcType
    BY <1>2 DEF RecInit, CcType
  <2>3. owed \in [acked : SUBSET Packets, lost : SUBSET Packets]
    BY DEF RecInit
  <2>4. /\ now = 1 /\ nextPn = 1 /\ tracker = {} /\ largest = 0 /\ lossTime = 0 /\ lastSent = 0
        /\ inFlight = 0 /\ ptoCount = 0
    BY DEF RecInit
  <2>5. evicted \in BOOLEAN
    BY Zenon DEF RecInit
  <2> QED
    BY <2>1, <2>2, <2>3, <2>4, <2>5 DEF RecTypeOK
<1>6. FlightOK /\ LossTimerOK /\ PacketsOK(tracker)
  BY <1>3, <1>4 DEF RecInit, FlightOK, LossTimerOK, PacketsOK
<1>7. FlightIsAccounted
  <2>1. Mds * (0 + 0 + 0) = 0
    BY <1>1
  <2> QED
    BY <1>2, <1>3, <1>4, <2>1 DEF RecInit, FlightIsAccounted
<1> QED
  BY <1>5, <1>6, <1>7 DEF RecInit, RecInv

\* Every call into loss.c and cc.c, and the clock, keep the invariant.
LEMMA RecStep == RecInv /\ [RecNext]_recVars => RecInv'
<1> SUFFICES ASSUME RecInv, [RecNext]_recVars PROVE RecInv'
  OBVIOUS
<1> USE DEF RecInv
<1>1. ASSUME NEW elic \in BOOLEAN, Send(elic) PROVE RecInv'
  BY <1>1, SendKeeps
<1>2. CASE Ack
  BY <1>2, AckKeeps
<1>3. CASE LossTimer
  BY <1>3, LossTimerKeeps
<1>4. CASE ProbeTimer
  BY <1>4 DEF ProbeTimer, RecTypeOK, PacketsOK, FlightOK, LossTimerOK, FlightIsAccounted, MinimumWindow
<1>5. CASE CcAcked
  BY <1>5, CcAckedKeeps
<1>6. CASE CcLost
  BY <1>6, CcLostKeeps
<1>7. CASE CcCollapse
  <2>1. /\ cc' = [cc EXCEPT !.cwnd = MinimumWindow, !.recovery = 0]
        /\ UNCHANGED <<now, nextPn, tracker, largest, lossTime, lastSent, inFlight, ptoCount, rtt, owed, evicted>>
    BY <1>7 DEF CcCollapse
  <2>2. MinimumWindow \in Nat
    BY RecoveryAssumption DEF MinimumWindow
  <2>3. cc' \in CcType /\ cc'.cwnd = MinimumWindow /\ cc'.bytes = cc.bytes
    BY <2>1, <2>2, Zenon DEF RecTypeOK, CcType
  <2>4. RecTypeOK'
    BY <2>1, <2>3 DEF RecTypeOK
  <2>5. FlightIsAccounted'
    BY <2>1, <2>2, <2>3 DEF FlightIsAccounted, MinimumWindow
  <2> QED
    BY <2>1, <2>4, <2>5 DEF PacketsOK, FlightOK, LossTimerOK
<1>8. CASE Clock
  BY <1>8 DEF Clock, RecTypeOK, PacketsOK, FlightOK, LossTimerOK, FlightIsAccounted, MinimumWindow
<1>9. CASE UNCHANGED recVars
  BY <1>9 DEF recVars, RecTypeOK, PacketsOK, FlightOK, LossTimerOK, FlightIsAccounted, MinimumWindow
<1> QED
  BY <1>1, <1>2, <1>3, <1>4, <1>5, <1>6, <1>7, <1>8, <1>9 DEF RecNext

\* The inductive invariant holds throughout.
LEMMA RecInvariant == RecSpec => []RecInv
  BY RecStart, RecStep, PTL DEF RecSpec

\* The in-flight count of loss.c and the bytes in flight of cc.c agree with the
\* tracker until it overflows, and the window is never less than two datagrams,
\* whatever is acknowledged, acknowledged again or declared lost.
THEOREM FlightAccounted == RecSpec => []FlightIsAccounted
<1>1. RecInv => FlightIsAccounted
  BY DEF RecInv
<1> QED
  BY <1>1, RecInvariant, PTL

\* While something ack-eliciting is tracked the probe timer is armed, and every
\* packet below the largest acknowledged has a loss timer in time for it, which
\* is one packet's own deadline (quic_loss_pto_deadline, detect_lost_inner).
THEOREM TimersCover == RecSpec => []TimersCoverFlight
<1>1. RecInv => TimersCoverFlight
  <2> SUFFICES ASSUME RecInv PROVE TimersCoverFlight
    OBVIOUS
  <2>1. ASSUME NEW p \in Eliciting(tracker) PROVE PtoArmed
    <3>1. Eliciting(tracker) \subseteq tracker /\ IsFiniteSet(tracker)
      BY DEF Eliciting, RecInv, FlightOK
    <3>2. IsFiniteSet(Eliciting(tracker)) /\ Eliciting(tracker) # {}
      BY <2>1, <3>1, FS_Subset
    <3>3. Cardinality(Eliciting(tracker)) \in Nat /\ Cardinality(Eliciting(tracker)) # 0
      BY <3>2, FS_EmptySet, FS_CardinalityType
    <3> QED
      BY <3>2, <3>3 DEF RecInv, RecTypeOK, FlightOK, PtoArmed
  <2> QED
    BY <2>1 DEF RecInv, LossTimerOK, TimersCoverFlight
<1> QED
  BY <1>1, RecInvariant, PTL
=============================================================================
