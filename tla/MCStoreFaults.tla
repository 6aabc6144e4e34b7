---------------------------- MODULE MCStoreFaults ----------------------------
(***************************************************************************)
(* Two scenes of PicowalStore in one TLC instance.  In "crash" callers use *)
(* transactions and both durabilities, writes may fail and the process may *)
(* be killed at any disk access.  In "power" callers make durable implicit *)
(* writes, over more operations, and the machine loses power after any     *)
(* pages have been written back.                                           *)
(***************************************************************************)
EXTENDS MCStore

CONSTANT CrashOps        \* bound: record writes attempted in the scene "crash"

VARIABLE scene

CrashStep ==
    \/ \E k \in Keys, d \in Durabilities : PutKey(k, d) \/ DeleteKey(k, d)
    \/ TxnBegin \/ TxnRollback
    \/ \E k \in Keys : TxnPut(k) \/ TxnDelete(k)
    \/ \E d \in Durabilities : TxnMark(d)
    \/ EngineStep \/ CheckpointRename \/ Flush
    \/ RotateFail \/ AppendFail
    \/ Close \/ Kill \/ Open \/ OpenFail

PowerStep ==
    \/ \E k \in Keys : PutKey(k, "LOCAL") \/ DeleteKey(k, "LOCAL")
    \/ EngineStep \/ CheckpointRename
    \/ Close \/ PowerLoss \/ Open \/ OpenFail
    \/ \E s \in SegIds, i \in Cells : Writeback(s, i)

FaultsInit == Init /\ scene \in {"crash", "power"}
FaultsNext ==
    \/ scene = "crash" /\ CrashStep /\ opn' <= CrashOps /\ UNCHANGED scene
    \/ scene = "power" /\ PowerStep /\ UNCHANGED scene
FaultsSpec == FaultsInit /\ [][FaultsNext]_<<vars, scene>>
==============================================================================
