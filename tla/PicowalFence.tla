---------------------------- MODULE PicowalFence -----------------------------
(***************************************************************************)
(* The control-plane fence of a clustered writer (src/src/picowal_fence.c) *)
(* and its use before every mutation (fence_gate in src/src/picowal_db.c). *)
(*                                                                         *)
(* Request threads pass the gate without holding the database lock and     *)
(* mutate later.  The control plane is external: it answers a check for    *)
(* the node it regards as primary with a lease, and appoints another       *)
(* primary only once every lease it granted has run out.                   *)
(* Times are in ticks of the monotonic clock, which starts at 1 because    *)
(* an expiry of 0 means "no lease".                                        *)
(*                                                                         *)
(* An operator whose name ends in _bug is a faulty variant of the next     *)
(* definition; no action uses it.                                          *)
(***************************************************************************)
EXTENDS Naturals

CONSTANTS
    Threads,     \* request threads that mutate
    NoThread,
    Granted,     \* lease the control plane grants
    LeaseCap,    \* PWFENCE_CLIENT_LEASE_CAP_MS
    IoTimeout,   \* the longest a round trip lasts before it fails
    MaxTime      \* bound on the clock

ASSUME FenceAssumption ==
    /\ NoThread \notin Threads
    /\ Granted \in Nat /\ LeaseCap \in Nat /\ IoTimeout \in Nat /\ MaxTime \in Nat

VARIABLES
    now,         \* CLOCK_MONOTONIC
    expiry,      \* lease_expiry_ms
    mu,          \* holder of the fence mutex
    pc,          \* "idle", "asking" inside do_check, "passed" the gate
    sent,        \* when the round trip in flight began
    answer,      \* the control plane's answer in flight: "none", "ok", "denied"
    primary,     \* this node is the control plane's primary
    granted      \* when the last lease was granted, 0 before the first

fenceVars == <<now, expiry, mu, pc, sent, answer, primary, granted>>

Lesser(m, n) == IF m < n THEN m ELSE n

FenceInit ==
    /\ now = 1 /\ expiry = 0 /\ mu = NoThread
    /\ pc = [w \in Threads |-> "idle"]
    /\ sent = 1 /\ answer = "none"
    /\ primary = TRUE /\ granted = 0

-----------------------------------------------------------------------------
(* picowal_fence_check                                                     *)

Unlocked == mu = NoThread

\* A lease is valid for ever.
LeaseValid_bug == expiry # 0

LeaseValid == expiry # 0 /\ now < expiry

\* The lease is not capped.
Lease_bug == Granted

Lease == Lesser(Granted, LeaseCap)

GateCached(w) ==
    /\ pc[w] = "idle" /\ Unlocked /\ LeaseValid
    /\ pc' = [pc EXCEPT ![w] = "passed"]
    /\ UNCHANGED <<now, expiry, mu, sent, answer, primary, granted>>

GateAsk(w) ==
    /\ pc[w] = "idle" /\ Unlocked /\ ~ LeaseValid
    /\ pc' = [pc EXCEPT ![w] = "asking"]
    /\ mu' = w /\ sent' = now /\ answer' = "none"
    /\ UNCHANGED <<now, expiry, primary, granted>>

GateGranted(w) ==
    /\ pc[w] = "asking" /\ answer = "ok"
    /\ expiry' = now + Lease
    /\ pc' = [pc EXCEPT ![w] = "passed"]
    /\ mu' = NoThread /\ answer' = "none"
    /\ UNCHANGED <<now, sent, primary, granted>>

\* A denial, a refused connection, a malformed answer or a timeout.
GateRefused(w) ==
    /\ pc[w] = "asking"
    /\ expiry' = 0
    /\ pc' = [pc EXCEPT ![w] = "idle"]
    /\ mu' = NoThread /\ answer' = "none"
    /\ UNCHANGED <<now, sent, primary, granted>>

\* The caller of fence_gate gets db->mu and mutates.
Mutate(w) ==
    /\ pc[w] = "passed"
    /\ pc' = [pc EXCEPT ![w] = "idle"]
    /\ UNCHANGED <<now, expiry, mu, sent, answer, primary, granted>>

-----------------------------------------------------------------------------
(* The control plane and the clock                                         *)

Answer ==
    /\ mu # NoThread /\ answer = "none"
    /\ answer' = IF primary THEN "ok" ELSE "denied"
    /\ granted' = IF primary THEN now ELSE granted
    /\ UNCHANGED <<now, expiry, mu, pc, sent, primary>>

Appoint ==
    /\ primary /\ now >= granted + Granted
    /\ primary' = FALSE
    /\ UNCHANGED <<now, expiry, mu, pc, sent, answer, granted>>

\* A round trip is over, one way or the other, within its timeout.
Advance ==
    /\ now < MaxTime
    /\ mu # NoThread => now < sent + IoTimeout
    /\ now' = now + 1
    /\ UNCHANGED <<expiry, mu, pc, sent, answer, primary, granted>>

FenceNext ==
    \/ \E w \in Threads :
        GateCached(w) \/ GateAsk(w) \/ GateGranted(w) \/ GateRefused(w) \/ Mutate(w)
    \/ Answer \/ Appoint \/ Advance

FenceSpec == FenceInit /\ [][FenceNext]_fenceVars

-----------------------------------------------------------------------------
\* One thread at a time is inside do_check, and it holds the fence mutex.
FenceTypeOK ==
    /\ now \in Nat /\ expiry \in Nat /\ sent \in Nat /\ granted \in Nat
    /\ mu \in Threads \cup {NoThread}
    /\ pc \in [Threads -> {"idle", "asking", "passed"}]
    /\ answer \in {"none", "ok", "denied"} /\ primary \in BOOLEAN
    /\ \A w \in Threads : pc[w] = "asking" <=> mu = w

\* The staleness of a cached authorisation is bounded: however round trips,
\* denials and threads interleave, picowal_fence_check answers from a lease
\* only while the grant it comes from is at most IoTimeout + LeaseCap old.
StalenessIsBounded ==
    expiry <= granted + IoTimeout + LeaseCap

\* Once another primary is appointed, no thread newly passes the gate except
\* within one round-trip timeout.
GateClosesAfterAppointment ==
    [][\A w \in Threads :
        (pc[w] # "passed" /\ pc'[w] = "passed" /\ ~ primary)
            => now <= granted + IoTimeout + Lesser(Granted, LeaseCap)]_fenceVars
=============================================================================
