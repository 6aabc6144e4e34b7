------------------------------- MODULE MCStore -------------------------------
(* TLC instances of PicowalStore, and its refinement of KvPromise.         *)
EXTENDS PicowalStore, TLC

KeySymmetry == Permutations(Keys)

KeptMap  == IF up = "up" THEN View ELSE Reopened(cur)
CallMap  ==
    IF op.final THEN [k \in {op.key} |-> op.val]
    ELSE [k \in {txn[i].key : i \in DOMAIN txn} |->
            cur[lead][txn[MaxOf({i \in DOMAIN txn : txn[i].key = k})].off].val]

Promise == INSTANCE KvPromise WITH Values <- 0..MaxOps, kv <- KeptMap, call <- CallMap,
                                   folding <- (pc = "unlink")

\* The engine keeps its promise: every call is atomic and visible when it
\* returns, acknowledged calls survive the crash of the process at any disk
\* access, a power cut never goes behind the last durable call, and recovery
\* invents nothing -- except that a crash while a checkpoint unlinks its
\* segments may bring a deleted key back.
KeepsPromise == Promise!Spec

-----------------------------------------------------------------------------
(* Liveness.  The thread inside the engine keeps running, a transaction is *)
(* ended by its caller, and the flusher, which tries every few             *)
(* milliseconds, is not passed over for ever by the db->mu it waits for.   *)

FairSpec ==
    /\ Spec
    /\ WF_vars(EngineStep)
    /\ WF_vars(TxnRollback \/ \E d \in Durabilities : TxnMark(d))
    /\ SF_vars(Flush)

\* A power cut would lose the record that readers of some key are shown.
Unsynced(s, i) ==
    /\ up = "up" /\ dur[s][i] # cur[s][i]
    /\ \E k \in Keys : index[k].seg = s /\ index[k].off = i

\* Fire-and-forget has a bounded window of loss: every record readers see
\* reaches stable storage (or base.dat, or is superseded), although a rotation
\* may seal its segment before the flusher, which only syncs the leading one,
\* comes round.
FireAndForgetReachesDisk ==
    \A s \in SegIds, i \in Cells : Unsynced(s, i) ~> ~ Unsynced(s, i)

-----------------------------------------------------------------------------
\* Whatever a crash interrupts, the volume can be opened again.
AlwaysOpens == up # "failed"
=============================================================================
