-------------------------- MODULE PicowalFenceProofs --------------------------
(***************************************************************************)
(* Proofs about PicowalFence, for any number of threads, any lease, cap    *)
(* and timeout, and any interleaving of round trips with appointments.     *)
(***************************************************************************)
EXTENDS PicowalFence, TLAPS

\* The inductive invariant.  A round trip in flight is not older than its
\* timeout, and an answer that grants a lease came after the question; so the
\* expiry computed on arrival is that much past the grant, and no more.
FenceInv ==
    /\ FenceTypeOK
    /\ granted <= now
    /\ mu # NoThread => sent <= now /\ now <= sent + IoTimeout
    /\ answer = "ok" => sent <= granted
    /\ expiry <= granted + IoTimeout + Lease

\* The lease used is a number, and no longer than the cap.
LEMMA LeaseIsCapped == Lease \in Nat /\ Lease <= LeaseCap
BY FenceAssumption DEF Lease, Lesser

\* Every step of a request thread, the control plane or the clock preserves it.
LEMMA FenceStep ==
    ASSUME FenceInv, [FenceNext]_fenceVars
    PROVE  FenceInv'
<1> USE FenceAssumption, LeaseIsCapped DEF FenceInv
<1> Lease' = Lease
    BY DEF Lease, Lesser
<1>1. ASSUME NEW w \in Threads, GateCached(w) PROVE FenceInv'
    BY <1>1 DEF GateCached, FenceTypeOK
<1>2. ASSUME NEW w \in Threads, GateAsk(w) PROVE FenceInv'
    BY <1>2 DEF GateAsk, Unlocked, FenceTypeOK
<1>3. ASSUME NEW w \in Threads, GateGranted(w) PROVE FenceInv'
    <2>1. mu = w /\ now <= granted + IoTimeout
        BY <1>3 DEF GateGranted, FenceTypeOK
    <2>2. expiry' <= granted' + IoTimeout + Lease
        BY <1>3, <2>1 DEF GateGranted, FenceTypeOK
    <2>3. FenceTypeOK'
        BY <1>3, <2>1 DEF GateGranted, FenceTypeOK
    <2> QED BY <1>3, <2>2, <2>3 DEF GateGranted
<1>4. ASSUME NEW w \in Threads, GateRefused(w) PROVE FenceInv'
    BY <1>4 DEF GateRefused, FenceTypeOK
<1>5. ASSUME NEW w \in Threads, Mutate(w) PROVE FenceInv'
    BY <1>5 DEF Mutate, FenceTypeOK
<1>6. CASE Answer
    BY <1>6 DEF Answer, FenceTypeOK
<1>7. CASE Appoint
    BY <1>7, Zenon DEF Appoint, FenceTypeOK
<1>8. CASE Advance
    BY <1>8 DEF Advance, FenceTypeOK
<1>9. CASE UNCHANGED fenceVars
    BY <1>9 DEF fenceVars, FenceTypeOK
<1> QED BY <1>1, <1>2, <1>3, <1>4, <1>5, <1>6, <1>7, <1>8, <1>9 DEF FenceNext

\* The inductive invariant holds throughout.
LEMMA FenceInvariant == FenceSpec => []FenceInv
<1>1. FenceInit => FenceInv
    BY FenceAssumption, LeaseIsCapped DEF FenceInit, FenceInv, FenceTypeOK
<1> QED BY <1>1, FenceStep, PTL DEF FenceSpec

\* The fence mutex serialises do_check: at most one thread is asking.
THEOREM FenceTypeCorrect == FenceSpec => []FenceTypeOK
<1>1. FenceInv => FenceTypeOK
    BY DEF FenceInv
<1> QED BY <1>1, FenceInvariant, PTL

\* picowal_fence_check never answers from a grant older than one round-trip
\* timeout plus PWFENCE_CLIENT_LEASE_CAP_MS.
THEOREM CacheIsFresh == FenceSpec => []StalenessIsBounded
<1>1. FenceInv => StalenessIsBounded
    BY FenceAssumption, LeaseIsCapped DEF FenceInv, FenceTypeOK, StalenessIsBounded
<1> QED BY <1>1, FenceInvariant, PTL

\* After the control plane has appointed another primary, fence_gate lets no
\* further thread through once a timeout and a lease have passed since the
\* last grant.
THEOREM GateCloses == FenceSpec => GateClosesAfterAppointment
<1>1. FenceInv /\ [FenceNext]_fenceVars =>
        [\A w \in Threads : (pc[w] # "passed" /\ pc'[w] = "passed" /\ ~ primary)
            => now <= granted + IoTimeout + Lesser(Granted, LeaseCap)]_fenceVars
    <2> SUFFICES ASSUME FenceInv, FenceNext, NEW w \in Threads, pc[w] # "passed", pc'[w] = "passed"
                 PROVE  now <= granted + IoTimeout + Lease
        BY DEF Lease
    <2>1. \E v \in Threads : GateCached(v) \/ GateGranted(v)
        BY DEF FenceNext, GateAsk, GateRefused, Mutate, Answer, Appoint, Advance, FenceInv, FenceTypeOK
    <2>2. ASSUME NEW v \in Threads, GateCached(v) PROVE now <= granted + IoTimeout + Lease
        BY <2>2, FenceAssumption, LeaseIsCapped DEF GateCached, LeaseValid, FenceInv, FenceTypeOK
    <2>3. ASSUME NEW v \in Threads, GateGranted(v) PROVE now <= granted + IoTimeout + Lease
        BY <2>3, FenceAssumption, LeaseIsCapped DEF GateGranted, FenceInv, FenceTypeOK
    <2> QED BY <2>1, <2>2, <2>3
<1> QED BY <1>1, FenceInvariant, PTL DEF FenceSpec, GateClosesAfterAppointment
=============================================================================
