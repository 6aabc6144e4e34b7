---------------------------- MODULE PicowalStore ----------------------------
(***************************************************************************)
(* The picowal storage engine (src/src/picowal_db.c) on one node: the      *)
(* leading and the sealed WAL segments, base.dat, the A/B superblock, the  *)
(* in-memory index, implicit and explicit transactions, rotation,          *)
(* checkpointing, the background flusher, and what a killed process or a   *)
(* power cut leaves for the next open.                                     *)
(*                                                                         *)
(* Every engine call holds db->mu from its first to its last disk access,  *)
(* so two calls never interleave.  What does interleave is a crash: a call *)
(* is therefore split into one step per disk access it makes, and pc says  *)
(* which access comes next.                                                *)
(*                                                                         *)
(* A record occupies one cell of its segment (its aligned span), and the   *)
(* payload of a put is the number of the operation that wrote it, so that  *)
(* two writes never look alike.                                            *)
(*                                                                         *)
(* An operator whose name ends in _bug is a faulty variant of the next     *)
(* definition; no action uses it.                                          *)
(***************************************************************************)
EXTENDS Integers, Sequences, FiniteSets

CONSTANTS
    Keys,          \* record keys
    SegCap,        \* cells in a WAL segment (segment_bytes)
    MaxSeg,        \* bound: highest WAL segment id
    MaxOps,        \* bound: record writes attempted
    SbInterval,    \* PICOWAL_SB_CHECKPOINT_INTERVAL
    Durabilities,  \* the durability levels callers use, of {"LOCAL", "FAF"}
    UseTxns,       \* whether callers use explicit transactions
    Faults,        \* interruptions, of {"close", "kill", "power", "eio_append", "eio_commit"}
    MaxFaults,     \* bound: interruptions in a behaviour
    Empty,         \* a cell that was never written
    Torn           \* a cell whose record fails its checksum

SegIds == 1..MaxSeg
Cells  == 1..SegCap

Rec == [key: Keys, val: 0..MaxOps, seq: Nat, txn: Nat, tomb: BOOLEAN, commit: BOOLEAN]

ASSUME SizesAssumption ==
    /\ SegCap \in Nat \ {0} /\ MaxSeg \in Nat \ {0} /\ MaxOps \in Nat
    /\ SbInterval \in Nat \ {0} /\ MaxFaults \in Nat
ASSUME KeysAssumption == IsFiniteSet(Keys)
ASSUME CellAssumption == Empty \notin Rec /\ Torn \notin Rec
ASSUME UsageAssumption ==
    /\ Durabilities \subseteq {"LOCAL", "FAF"}
    /\ UseTxns \in BOOLEAN
    /\ Faults \subseteq {"close", "kill", "power", "eio_append", "eio_commit"}

VARIABLES
    seg,      \* seg[s]: "none", "raw" (created, header not yet valid) or "ok"
    cur,      \* cur[s][i]: cell i of segment s as the page cache has it
    dur,      \* dur[s][i]: the same cell as stable storage has it
    base,     \* base[k]: the record base.dat holds for k (seq 0: none)
    sb,       \* the two superblock slots
    up,       \* "up", "down" (closed or crashed) or "failed" (open refused)
    lead,     \* leading_wal_id
    woff,     \* leading_write_off, in cells
    sealed,   \* sealed_wals, in list order (head first)
    nextSeq,  \* next_seq
    sbGen,    \* sb_generation
    sinceSb,  \* appends_since_checkpoint
    dirty,    \* dirty_unsynced
    index,    \* the hash index; an absent key is a tombstone with seq 0
    pc,       \* the next disk access of the call that holds db->mu
    op,       \* the record that call is appending
    txn,      \* ops[] of the open explicit transaction
    opn,      \* record writes attempted so far (source of payloads)
    faults,   \* interruptions so far
    may,      \* history: the key maps a power cut is allowed to leave
    wip       \* history: what the unacknowledged commit on disk would make visible

disk   == <<seg, cur, dur, base, sb>>
memory == <<lead, woff, sealed, nextSeq, sbGen, sinceSb, dirty, index>>
ghost  == <<opn, faults, may, wip>>
vars   == <<disk, memory, up, pc, op, txn, ghost>>

-----------------------------------------------------------------------------
(* Reading a segment: the scan that recovery, and nothing else, performs.  *)

Entry   == [seg: 0..MaxSeg, off: 0..SegCap, seq: Nat, tomb: BOOLEAN]
NoEntry == [seg |-> 0, off |-> 0, seq |-> 0, tomb |-> TRUE]
NoOp    == [key |-> 0, val |-> 0, tomb |-> FALSE, final |-> FALSE, d |-> "LOCAL", seq |-> 0]
EIO     == -1

\* Cells the scan reaches: it stops at the first cell that holds no valid record.
Prefix(cells) == {i \in Cells : \A j \in 1..i : cells[j] \notin {Empty, Torn}}

\* The commit flag is not consulted.
Applied_bug(cells) == Prefix(cells)

\* Cells the scan indexes: those of a transaction whose commit-marked record
\* follows with no record of another transaction in between.
Applied(cells) ==
    {i \in Prefix(cells) :
        \E j \in Prefix(cells) :
            /\ i <= j /\ cells[j].commit
            /\ \A m \in i..j : cells[m].txn = cells[i].txn}

\* The end of the last committed record: where the next append goes.
EndOf(cells) ==
    CHOOSE e \in 0..SegCap :
        /\ e = 0 \/ (e \in Prefix(cells) /\ cells[e].commit)
        /\ \A j \in Prefix(cells) : cells[j].commit => j <= e

\* Index entries that a scan of base.dat and of the given cells offers for k.
Hits(k, img) ==
    {[seg |-> p[1], off |-> p[2], seq |-> img[p[1]][p[2]].seq, tomb |-> img[p[1]][p[2]].tomb] :
        p \in {q \in SegIds \X Cells :
            /\ seg[q[1]] # "none"
            /\ q[2] \in Applied(img[q[1]])
            /\ img[q[1]][q[2]].key = k}}
    \cup (IF base[k].seq = 0 THEN {}
          ELSE {[seg |-> 0, off |-> 0, seq |-> base[k].seq, tomb |-> FALSE]})

\* scan_volume reads base.dat, then the sealed segments, newest first, then
\* the leading one; index_upsert lets an equal seq replace.
ScanRank(s, top) == IF s = top THEN MaxSeg + 1 ELSE IF s = 0 THEN 0 ELSE MaxSeg + 1 - s

Supersedes(e, f, top) ==
    \/ e.seq > f.seq
    \/ e.seq = f.seq /\ ScanRank(e.seg, top) > ScanRank(f.seg, top)
    \/ e.seq = f.seq /\ e.seg = f.seg /\ e.off > f.off

Newest(k, img, top) ==
    LET H == Hits(k, img)
    IN  IF H = {} THEN NoEntry
        ELSE CHOOSE e \in H : \A f \in H \ {e} : ~ Supersedes(f, e, top)

MaxOf(S) == CHOOSE x \in S : \A y \in S : y <= x

\* load_or_format trusts the highest WAL id it finds on disk.
Top == MaxOf({s \in SegIds : seg[s] # "none"})

SeqsSeen(img) ==
    {0} \cup {base[k].seq : k \in Keys}
        \cup {img[p[1]][p[2]].seq :
                p \in {q \in SegIds \X Cells : seg[q[1]] # "none" /\ q[2] \in Prefix(img[q[1]])}}

\* picowal_db_get_key once the index entry is found: 0 is ENOENT.
Fetch(k, e, img) ==
    IF e.tomb THEN 0
    ELSE IF e.seg = 0 THEN IF base[k].seq # 0 THEN base[k].val ELSE EIO
    ELSE IF /\ seg[e.seg] # "none"
            /\ img[e.seg][e.off] \notin {Empty, Torn}
            /\ img[e.seg][e.off].key = k
            /\ ~ img[e.seg][e.off].tomb
         THEN img[e.seg][e.off].val ELSE EIO

View      == [k \in Keys |-> Fetch(k, index[k], cur)]
Reopened(img) == [k \in Keys |-> Fetch(k, Newest(k, img, Top), img)]

-----------------------------------------------------------------------------
Init ==
    /\ seg = [s \in SegIds |-> IF s = 1 THEN "ok" ELSE "none"]
    /\ cur = [s \in SegIds |-> [i \in Cells |-> Empty]]
    /\ dur = cur
    /\ base = [k \in Keys |-> [val |-> 0, seq |-> 0]]
    /\ sb = [i \in {0, 1} |-> [gen |-> 1, lead |-> 1, nseq |-> 1]]
    /\ up = "up" /\ pc = "idle" /\ op = NoOp /\ txn = <<>>
    /\ lead = 1 /\ woff = 0 /\ sealed = <<>> /\ nextSeq = 1
    /\ sbGen = 1 /\ sinceSb = 0 /\ dirty = FALSE
    /\ index = [k \in Keys |-> NoEntry]
    /\ opn = 0 /\ faults = 0 /\ may = {View} /\ wip = {}

Idle == up = "up" /\ pc = "idle"

Fault(kind) == kind \in Faults /\ faults < MaxFaults /\ faults' = faults + 1

\* write_superblock_locked, for the lead and nseq the caller leaves in memory.
WriteSuperblock(l, n) ==
    /\ sbGen' = sbGen + 1
    /\ sb' = [sb EXCEPT ![(sbGen + 1) % 2] = [gen |-> sbGen + 1, lead |-> l, nseq |-> n]]
    /\ sinceSb' = 0

\* appends_since_checkpoint grows by n; the superblock follows at the interval.
CountAppends(n) ==
    IF sinceSb + n >= SbInterval
    THEN WriteSuperblock(lead, nextSeq)
    ELSE sinceSb' = sinceSb + n /\ UNCHANGED <<sb, sbGen>>

Upsert(idx, k, e) == IF e.seq >= idx[k].seq THEN [idx EXCEPT ![k] = e] ELSE idx

\* The record a call is appending, once it has its sequence number.
OpRec == [key |-> op.key, val |-> op.val, seq |-> op.seq,
          txn |-> IF txn = <<>> THEN op.seq ELSE txn[1].seq,
          tomb |-> op.tomb, commit |-> op.final]

\* What the keys read once the current call, or transaction, has committed.
AfterOp  == [View EXCEPT ![op.key] = op.val]
AfterTxn ==
    [k \in Keys |->
        LET I == {i \in DOMAIN txn : txn[i].key = k}
        IN  IF I = {} THEN View[k] ELSE cur[lead][txn[MaxOf(I)].off].val]

-----------------------------------------------------------------------------
(* Implicit operations: put_key_dur, delete_key_dur.                       *)

RoomLeft == opn < MaxOps /\ (woff < SegCap \/ lead < MaxSeg)

StartRecord(k, tomb, final, d) ==
    /\ opn' = opn + 1
    /\ op' = [key |-> k, val |-> IF tomb THEN 0 ELSE opn + 1, tomb |-> tomb,
              final |-> final, d |-> d, seq |-> 0]
    /\ pc' = "append"

\* create_only only refuses some of these calls before they touch anything.
PutKey(k, d) ==
    /\ Idle /\ RoomLeft
    /\ StartRecord(k, FALSE, TRUE, d)
    /\ UNCHANGED <<disk, memory, up, txn, faults, may, wip>>

DeleteKey(k, d) ==
    /\ Idle /\ RoomLeft
    /\ ~ index[k].tomb
    /\ StartRecord(k, TRUE, TRUE, d)
    /\ UNCHANGED <<disk, memory, up, txn, faults, may, wip>>

-----------------------------------------------------------------------------
(* append_record_locked: rotation.                                         *)

RotateCreate ==
    /\ pc = "append" /\ woff = SegCap /\ op.final
    /\ seg' = [seg EXCEPT ![lead + 1] = "raw"]
    /\ pc' = "header"
    /\ UNCHANGED <<cur, dur, base, sb, memory, up, op, txn, ghost>>

RotateHeader ==
    /\ pc = "header"
    /\ seg' = [seg EXCEPT ![lead + 1] = "ok"]
    /\ pc' = "seal"
    /\ UNCHANGED <<cur, dur, base, sb, memory, up, op, txn, ghost>>

\* The outgoing segment is not synced.
SyncOutgoing_bug == dur' = dur

\* The fdatasync of the outgoing segment.
SyncOutgoing == dur' = [dur EXCEPT ![lead] = cur[lead]]

NewLeading == lead' = lead + 1 /\ woff' = 0

RotateSeal ==
    /\ pc = "seal"
    /\ SyncOutgoing
    /\ sealed' = <<lead>> \o sealed
    /\ NewLeading
    /\ WriteSuperblock(lead + 1, nextSeq)
    /\ pc' = "append"
    /\ UNCHANGED <<seg, cur, base, nextSeq, dirty, index, up, op, txn, ghost>>

\* The header of the new file cannot be written: the call returns -1 and the
\* headerless file stays.
RotateFail ==
    /\ pc = "header" /\ Fault("eio_append")
    /\ pc' = "idle" /\ op' = NoOp
    /\ UNCHANGED <<disk, memory, up, txn, opn, may, wip>>

-----------------------------------------------------------------------------
(* append_record_locked: the record.  A record is whole once its payload   *)
(* and padding are there; a tombstone that overwrites abandoned bytes is   *)
(* whole with its header.                                                  *)

AppendHeader ==
    /\ pc = "append" /\ woff < SegCap
    /\ nextSeq' = nextSeq + 1
    /\ op' = [op EXCEPT !.seq = nextSeq]
    /\ LET whole == op.tomb /\ cur[lead][woff + 1] # Empty
           rec   == [OpRec EXCEPT !.seq = nextSeq,
                                  !.txn = IF txn = <<>> THEN nextSeq ELSE @]
       IN  /\ cur' = [cur EXCEPT ![lead][woff + 1] = IF whole THEN rec ELSE Torn]
           /\ wip' = IF whole /\ op.final THEN {AfterOp} ELSE {}
    /\ pc' = "body"
    /\ UNCHANGED <<seg, dur, base, sb, lead, woff, sealed, sbGen, sinceSb, dirty,
                   index, up, txn, opn, faults, may>>

AppendBody ==
    /\ pc = "body"
    /\ cur' = [cur EXCEPT ![lead][woff + 1] = OpRec]
    /\ wip' = IF op.final THEN {AfterOp} ELSE {}
    /\ pc' = "finish"
    /\ UNCHANGED <<seg, dur, base, sb, memory, up, op, txn, opn, faults, may>>

\* No durability level syncs.
Synced_bug(d) == dur

\* Stable storage after the fdatasync that every level but FIRE_AND_FORGET asks for.
Synced(d) == IF d = "FAF" THEN dur ELSE [dur EXCEPT ![lead] = cur[lead]]

\* The optional fdatasync, and what the caller does with an appended record.
FinishImplicit ==
    /\ pc = "finish" /\ op.final
    /\ dur' = Synced(op.d)
    /\ dirty' = (dirty \/ op.d = "FAF")
    /\ woff' = woff + 1
    /\ index' = Upsert(index, op.key, [seg |-> lead, off |-> woff + 1,
                                       seq |-> op.seq, tomb |-> op.tomb])
    /\ CountAppends(1)
    /\ may' = IF op.d = "FAF" THEN may \cup wip ELSE wip
    /\ wip' = {}
    /\ pc' = "idle" /\ op' = NoOp
    /\ UNCHANGED <<seg, cur, base, lead, sealed, nextSeq, up, txn, opn, faults>>

FinishTxnOp ==
    /\ pc = "finish" /\ ~ op.final
    /\ woff' = woff + 1
    /\ txn' = Append(txn, [key |-> op.key, off |-> woff + 1, seq |-> op.seq, tomb |-> op.tomb])
    /\ pc' = "txn" /\ op' = NoOp
    /\ UNCHANGED <<disk, lead, sealed, nextSeq, sbGen, sinceSb, dirty, index, up, ghost>>

\* A write or the fdatasync fails: -1, with whatever was written left at
\* leading_write_off for the next append to overwrite.
AppendFail ==
    /\ pc \in {"body", "finish"} /\ Fault("eio_append")
    /\ may' = may \cup wip
    /\ pc' = (IF op.final THEN "idle" ELSE "txn") /\ op' = NoOp
    /\ UNCHANGED <<disk, memory, up, txn, opn, wip>>

-----------------------------------------------------------------------------
(* Explicit transactions.  db->mu stays held from begin to the end, and no *)
(* append inside rotates: a full segment refuses it (ENOSPC).              *)

TxnBegin ==
    /\ Idle /\ UseTxns
    /\ pc' = "txn"
    /\ UNCHANGED <<disk, memory, up, op, txn, ghost>>

TxnPut(k) ==
    /\ pc = "txn" /\ opn < MaxOps /\ woff < SegCap
    /\ StartRecord(k, FALSE, FALSE, "LOCAL")
    /\ UNCHANGED <<disk, memory, up, txn, faults, may, wip>>

TxnDelete(k) ==
    /\ pc = "txn" /\ opn < MaxOps /\ woff < SegCap
    /\ ~ index[k].tomb
    /\ StartRecord(k, TRUE, FALSE, "LOCAL")
    /\ UNCHANGED <<disk, memory, up, txn, faults, may, wip>>

\* txn_rollback; also txn_commit with no operation, or whose marking write fails.
TxnRollback ==
    /\ pc = "txn"
    /\ pc' = "idle" /\ txn' = <<>>
    /\ UNCHANGED <<disk, memory, up, op, ghost>>

\* txn_commit up to mark_committed_locked: the last record gets the commit flag.
TxnMark(d) ==
    /\ pc = "txn" /\ txn # <<>>
    /\ cur' = [cur EXCEPT ![lead][txn[Len(txn)].off].commit = TRUE]
    /\ wip' = {AfterTxn}
    /\ op' = [NoOp EXCEPT !.d = d]
    /\ pc' = "commit"
    /\ UNCHANGED <<seg, dur, base, sb, memory, up, txn, opn, faults, may>>

\* The rest of txn_commit: fdatasync, index every operation in order, superblock.
TxnCommit ==
    /\ pc = "commit"
    /\ dur' = Synced(op.d)
    /\ dirty' = (dirty \/ op.d = "FAF")
    /\ index' = [k \in Keys |->
                    LET I == {i \in DOMAIN txn : txn[i].key = k}
                        t == txn[MaxOf(I)]
                    IN  IF I = {} THEN index[k]
                        ELSE [seg |-> lead, off |-> t.off, seq |-> t.seq, tomb |-> t.tomb]]
    /\ CountAppends(Len(txn))
    /\ may' = IF op.d = "FAF" THEN may \cup wip ELSE wip
    /\ wip' = {}
    /\ pc' = "idle" /\ op' = NoOp /\ txn' = <<>>
    /\ UNCHANGED <<seg, cur, base, lead, woff, sealed, nextSeq, up, opn, faults>>

\* The fdatasync of txn_commit fails: -1, nothing indexed, the mark stays.
TxnCommitFail ==
    /\ pc = "commit" /\ op.d # "FAF" /\ Fault("eio_commit")
    /\ may' = may \cup wip
    /\ pc' = "idle" /\ op' = NoOp /\ txn' = <<>>
    /\ UNCHANGED <<disk, memory, up, opn, wip>>

-----------------------------------------------------------------------------
(* Background threads, and the page cache.                                 *)

\* flusher_thread
Flush ==
    /\ Idle /\ dirty
    /\ dur' = [dur EXCEPT ![lead] = cur[lead]]
    /\ dirty' = FALSE
    /\ may' = {View} \cup wip
    /\ UNCHANGED <<seg, cur, base, sb, lead, woff, sealed, nextSeq, sbGen, sinceSb,
                   index, up, pc, op, txn, opn, faults, wip>>

\* The kernel writes one dirty page back, in whatever order it likes.
Writeback(s, i) ==
    /\ "power" \in Faults
    /\ dur[s][i] # cur[s][i]
    /\ dur' = [dur EXCEPT ![s][i] = cur[s][i]]
    /\ UNCHANGED <<seg, cur, base, sb, memory, up, pc, op, txn, ghost>>

SealedSet == {sealed[i] : i \in DOMAIN sealed}

\* Keys whose live record checkpoint copies into the new base.dat.
Folded(k) == ~ index[k].tomb /\ index[k].seg # lead

\* picowal_db_checkpoint up to the rename and the re-indexing; the thread's
\* reclaimable-bytes threshold only decides when.
CheckpointRename ==
    /\ Idle /\ sealed # <<>>
    /\ \A k \in Keys : Folded(k) => View[k] # EIO
    /\ base' = [k \in Keys |-> IF Folded(k) THEN [val |-> View[k], seq |-> index[k].seq]
                               ELSE [val |-> 0, seq |-> 0]]
    /\ index' = [k \in Keys |->
                    IF Folded(k) THEN [seg |-> 0, off |-> 0, seq |-> index[k].seq, tomb |-> FALSE]
                    ELSE IF index[k].seg \in {0} \cup SealedSet THEN NoEntry
                    ELSE index[k]]
    /\ pc' = "unlink"
    /\ UNCHANGED <<seg, cur, dur, sb, lead, woff, sealed, nextSeq, sbGen, sinceSb, dirty,
                   up, op, txn, ghost>>

\* One turn of the unlink loop, head of the list first.
CheckpointUnlink ==
    /\ pc = "unlink" /\ sealed # <<>>
    /\ seg' = [seg EXCEPT ![Head(sealed)] = "none"]
    /\ cur' = [cur EXCEPT ![Head(sealed)] = [i \in Cells |-> Empty]]
    /\ dur' = [dur EXCEPT ![Head(sealed)] = [i \in Cells |-> Empty]]
    /\ sealed' = Tail(sealed)
    /\ UNCHANGED <<base, sb, lead, woff, nextSeq, sbGen, sinceSb, dirty, index, up, pc,
                   op, txn, ghost>>

CheckpointDone ==
    /\ pc = "unlink" /\ sealed = <<>>
    /\ WriteSuperblock(lead, nextSeq)
    /\ pc' = "idle"
    /\ UNCHANGED <<seg, cur, dur, base, lead, woff, sealed, nextSeq, dirty, index, up,
                   op, txn, ghost>>

-----------------------------------------------------------------------------
(* Close, crashes, open.                                                   *)

Forget ==
    /\ lead' = 0 /\ woff' = 0 /\ sealed' = <<>> /\ nextSeq' = 1
    /\ dirty' = FALSE /\ index' = [k \in Keys |-> NoEntry]
    /\ pc' = "idle" /\ op' = NoOp /\ txn' = <<>>
    /\ up' = "down"

\* picowal_db_close
Close ==
    /\ Idle /\ Fault("close")
    /\ sb' = [sb EXCEPT ![(sbGen + 1) % 2] = [gen |-> sbGen + 1, lead |-> lead, nseq |-> nextSeq]]
    /\ sbGen' = 0 /\ sinceSb' = 0
    /\ Forget
    /\ UNCHANGED <<seg, cur, dur, base, opn, may, wip>>

\* The process dies; the page cache survives it.
Kill ==
    /\ up = "up" /\ Fault("kill")
    /\ sbGen' = 0 /\ sinceSb' = 0
    /\ Forget
    /\ may' = IF pc = "unlink" THEN {Reopened(cur), Reopened(dur)} ELSE may
    /\ UNCHANGED <<disk, opn, wip>>

\* The machine dies: only stable storage survives.
PowerLoss ==
    /\ up \in {"up", "down"} /\ Fault("power")
    /\ cur' = dur
    /\ sbGen' = 0 /\ sinceSb' = 0
    /\ Forget
    /\ may' = {Reopened(dur)} /\ wip' = {}
    /\ UNCHANGED <<seg, dur, base, sb, opn>>

SbWinner == IF sb[0].gen >= sb[1].gen THEN sb[0] ELSE sb[1]

\* load_or_format on an existing volume: the leading id it settles on.
LeadingId == MaxOf({SbWinner.lead, Top})

DescendingFrom(S) ==
    CHOOSE q \in [1..Cardinality(S) -> S] :
        \A i, j \in 1..Cardinality(S) : i < j => q[i] > q[j]

\* picowal_db_open: load_or_format, then scan_volume.
Open ==
    /\ up = "down" /\ seg[LeadingId] = "ok"
    /\ up' = "up"
    /\ lead' = LeadingId
    /\ sealed' = DescendingFrom({s \in SegIds : seg[s] # "none"} \ {LeadingId})
    /\ index' = [k \in Keys |-> Newest(k, cur, LeadingId)]
    /\ woff' = EndOf(cur[LeadingId])
    /\ nextSeq' = MaxOf({SbWinner.nseq, 1 + MaxOf(SeqsSeen(cur))})
    /\ sbGen' = SbWinner.gen /\ sinceSb' = 0
    /\ may' = may \cup {Reopened(cur)}
    /\ wip' = {}
    /\ UNCHANGED <<disk, dirty, pc, op, txn, opn, faults>>

\* The leading file has no valid header: picowal_db_open fails with EIO.
OpenFail ==
    /\ up = "down" /\ seg[LeadingId] # "ok"
    /\ up' = "failed"
    /\ UNCHANGED <<disk, memory, pc, op, txn, ghost>>

-----------------------------------------------------------------------------
EngineStep ==
    \/ RotateCreate \/ RotateHeader \/ RotateSeal
    \/ AppendHeader \/ AppendBody \/ FinishImplicit \/ FinishTxnOp
    \/ TxnCommit
    \/ CheckpointUnlink \/ CheckpointDone

Next ==
    \/ \E k \in Keys, d \in Durabilities : PutKey(k, d) \/ DeleteKey(k, d)
    \/ TxnBegin \/ TxnRollback
    \/ \E k \in Keys : TxnPut(k) \/ TxnDelete(k)
    \/ \E d \in Durabilities : TxnMark(d)
    \/ EngineStep
    \/ CheckpointRename \/ Flush
    \/ RotateFail \/ AppendFail \/ TxnCommitFail
    \/ Close \/ Kill \/ PowerLoss \/ Open \/ OpenFail
    \/ \E s \in SegIds, i \in Cells : Writeback(s, i)

Spec == Init /\ [][Next]_vars

-----------------------------------------------------------------------------
CellType == Rec \cup {Empty, Torn}

\* Every variable holds what the C field or file it stands for can hold; a
\* running engine has a leading file with a valid header, the highest id on
\* disk, and every other file is in its sealed list.
TypeOK ==
    /\ seg \in [SegIds -> {"none", "raw", "ok"}]
    /\ cur \in [SegIds -> [Cells -> CellType]]
    /\ dur \in [SegIds -> [Cells -> CellType]]
    /\ base \in [Keys -> [val: 0..MaxOps, seq: Nat]]
    /\ sb \in [{0, 1} -> [gen: Nat, lead: SegIds, nseq: Nat]]
    /\ up \in {"up", "down", "failed"}
    /\ lead \in 0..MaxSeg /\ woff \in 0..SegCap
    /\ sealed \in Seq(SegIds)
    /\ nextSeq \in Nat /\ sbGen \in Nat /\ sinceSb \in Nat /\ dirty \in BOOLEAN
    /\ index \in [Keys -> Entry]
    /\ pc \in {"idle", "append", "header", "seal", "body", "finish", "txn", "commit", "unlink"}
    /\ opn \in 0..MaxOps /\ faults \in 0..MaxFaults

\* The image a crash would leave if nothing lay beyond leading_write_off.
Below == [s \in SegIds |-> [i \in Cells |-> IF s = lead /\ i > woff THEN Empty ELSE cur[s][i]]]

\* The index is a cache of the log: between calls, and inside a transaction
\* that has not committed, a scan of what lies below leading_write_off
\* rebuilds exactly the entries in memory.  (The tombstones a checkpoint drops
\* have no log record either.)  And next_seq is above every committed record a
\* scan could meet, so that newest-wins never prefers an old write to a new one.
IndexIsReplay ==
    up = "up" =>
        /\ pc \in {"idle", "append", "header", "seal", "body", "finish", "txn"} =>
             \A k \in Keys : index[k] = Newest(k, Below, lead)
        /\ \A k \in Keys : \A e \in Hits(k, cur) : e.seq < nextSeq
=============================================================================
