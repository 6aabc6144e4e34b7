------------------------------ MODULE KvPromise ------------------------------
(***************************************************************************)
(* What picowal promises its callers, with no log in sight: a map from     *)
(* keys to values, changed atomically by one call at a time, and what an   *)
(* interruption may do to it.                                              *)
(*   - A process that dies keeps every acknowledged call; the call it was  *)
(*     in, or the last one that failed, took effect wholly or not at all.  *)
(*   - A power cut falls back at most to the last state made durable.      *)
(*   - While deleted records are being reclaimed (folding), a crash may    *)
(*     bring an older value of a deleted key back: the one weakness the    *)
(*     engine has.  With folding always FALSE it is promised away.         *)
(***************************************************************************)
EXTENDS Integers

CONSTANTS Keys, Values       \* 0 \in Values stands for "no record"

VARIABLES
    kv,       \* what readers see (or will, after the next open)
    may,      \* what a power cut may leave
    wip,      \* the effect, {} or a singleton, that is on disk but not acknowledged
    call,     \* what the current call asks for: a map on the keys it touches
    folding   \* deleted records are being reclaimed

vars == <<kv, may, wip, call, folding>>

Maps     == [Keys -> Values]
Partial  == UNION {[K -> Values] : K \in SUBSET Keys}
Nothing  == [k \in {} |-> 0]
Effect   == [k \in Keys |-> IF k \in DOMAIN call THEN call[k] ELSE kv[k]]

Init ==
    /\ kv = [k \in Keys |-> 0] /\ may = {kv} /\ wip = {}
    /\ call = Nothing /\ folding = FALSE

\* The caller asks for something, or gives up.
Request == call' \in Partial /\ UNCHANGED <<kv, may, wip, folding>>

\* The call's effect reaches the disk, or replaces what an earlier one left.
Write == wip' \in {{}, {Effect}} /\ UNCHANGED <<kv, may, call, folding>>

\* Success: atomic, visible, and the only thing a power cut can leave when durable.
Acknowledge(durable) ==
    /\ wip = {Effect}
    /\ kv' = Effect
    /\ may' = IF durable THEN {Effect} ELSE may \cup {Effect}
    /\ wip' = {} /\ call' = Nothing
    /\ UNCHANGED folding

\* An error: nothing visible, although the effect may surface after a restart.
Refuse ==
    /\ may' = may \cup wip /\ call' = Nothing
    /\ UNCHANGED <<kv, wip, folding>>

\* Everything acknowledged so far becomes durable.
Sync == may' = {kv} \cup wip /\ UNCHANGED <<kv, wip, call, folding>>

Fold == folding' \in BOOLEAN /\ UNCHANGED <<kv, may, wip, call>>

\* m, save for deleted keys whose reclaiming was under way.
UpToFolding(m) ==
    {n \in Maps : \A k \in Keys : n[k] = m[k] \/ (folding /\ m[k] = 0)}

Stop ==
    /\ call' = Nothing /\ folding' = FALSE

\* The process stops; acknowledged calls survive.
Restart ==
    /\ \E m \in {kv} \cup wip : kv' \in UpToFolding(m)
    /\ may' = may \/ (folding /\ kv' \in may')
    /\ Stop /\ UNCHANGED wip

PowerCut ==
    /\ \E m \in may \cup wip : kv' \in UpToFolding(m)
    /\ may' = {kv'} /\ wip' = {}
    /\ Stop

\* Service resumes with what the interruption left.
Resume == may' = may \cup {kv} /\ wip' = {} /\ UNCHANGED <<kv, call, folding>>

Next ==
    \/ Request \/ Write \/ Refuse \/ Sync \/ Fold
    \/ \E durable \in BOOLEAN : Acknowledge(durable)
    \/ Restart \/ PowerCut \/ Resume

Spec == Init /\ [][Next]_vars
=============================================================================
