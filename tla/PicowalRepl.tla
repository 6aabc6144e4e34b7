---------------------------- MODULE PicowalRepl ------------------------------
(***************************************************************************)
(* Primary/replica streaming: the primary's feed (src/src/picowal_repl.c), *)
(* the replica's poller (src/src/picowal_repl_client.c) and the functions  *)
(* of src/src/picowal_db.c both are built on, with the acknowledgement     *)
(* quorum of REPLICATED writes.                                            *)
(*                                                                         *)
(* A segment file is the sequence of its records and an offset is a number *)
(* of records; segment 0 is base.dat.  Every write is an implicit          *)
(* transaction, so each record is committed when it is visible.  The value *)
(* of a record is its sequence number.  Each call on a database runs under *)
(* that database's db->mu and is one step; each HTTP request of a replica  *)
(* is a step, and between two of them the primary may write, rotate or     *)
(* checkpoint.                                                             *)
(*                                                                         *)
(* An operator whose name ends in _bug is a faulty variant of the next     *)
(* definition; no action uses it.                                          *)
(***************************************************************************)
EXTENDS Integers, Sequences, FiniteSetsExt, SequencesExt

CONSTANTS
    Replicas, Keys,
    SegCap,      \* records in a segment before the writer rotates
    MaxSeg,      \* bound: WAL segments ever created
    MaxOps,      \* bound: writes
    ChunkMax,    \* PICOWAL_REPL_CHUNK_MAX, in records
    Quorum,      \* ack_quorum
    Lossy        \* requests may fail

ASSUME ReplAssumption ==
    /\ SegCap \in Nat \ {0} /\ MaxSeg \in Nat \ {0} /\ MaxOps \in Nat
    /\ ChunkMax \in Nat \ {0} /\ Quorum \in Nat \ {0} /\ Lossy \in BOOLEAN

VARIABLES
    (* the primary *)
    seg, sealed, lead, gen, index, nextSeq,
    waiting,     \* the REPLICATED write that waits for acknowledgements
    acks,        \* the ack registry, one slot per replica
    (* each replica's database *)
    rseg, rsealed, rlead, rgen, rindex,
    (* each replica's poller *)
    pc, seen, list, todo,
    (* history *)
    last,        \* the sequence number of each key's last write
    gap,         \* a replica has lost records for good
    clean        \* no request of the current poll has failed

primary == <<seg, sealed, lead, gen, index, nextSeq>>
replica == <<rseg, rsealed, rlead, rgen, rindex>>
poller  == <<pc, seen, list, todo>>
vars    == <<primary, waiting, acks, replica, poller, last, gap, clean>>

SegIds  == 1..MaxSeg
NoEntry == [seg |-> -1, seq |-> 0, del |-> TRUE]
NoLead  == -1   \* leading_wal_id == UINT32_MAX
NotWaiting == [seg |-> 0, off |-> 0, key |-> 0, seq |-> 0]

Init ==
    /\ seg = [s \in 0..MaxSeg |-> <<>>] /\ sealed = {} /\ lead = 1 /\ gen = 1
    /\ index = [k \in Keys |-> NoEntry] /\ nextSeq = 1
    /\ waiting = NotWaiting
    /\ acks = [r \in Replicas |-> [seg |-> 0, off |-> 0]]
    /\ rseg = [r \in Replicas |-> seg]
    /\ rsealed = [r \in Replicas |-> {}] /\ rlead = [r \in Replicas |-> 1]
    /\ rgen = [r \in Replicas |-> 1] /\ rindex = [r \in Replicas |-> index]
    /\ pc = [r \in Replicas |-> "status"]
    /\ seen = [r \in Replicas |-> [lead |-> 1, off |-> 0, next |-> 1]]
    /\ list = [r \in Replicas |-> [gen |-> 1, sealed |-> {}, lead |-> 1]]
    /\ todo = [r \in Replicas |-> {}]
    /\ last = [k \in Keys |-> 0]
    /\ gap = [r \in Replicas |-> FALSE] /\ clean = [r \in Replicas |-> TRUE]

-----------------------------------------------------------------------------
(* The key index                                                           *)

\* scan_file_range and index_upsert: records enter in file order, and one
\* replaces the entry of its key unless that entry is newer.
Indexed(idx, s, recs) ==
    [k \in Keys |->
        LET C == {i \in DOMAIN recs : recs[i].key = k}
        IN  IF C # {} /\ recs[Max(C)].seq >= idx[k].seq
            THEN [seg |-> s, seq |-> recs[Max(C)].seq, del |-> recs[Max(C)].del]
            ELSE idx[k]]

\* index_drop_segment, for every segment of S
Dropped(idx, S) == [k \in Keys |-> IF idx[k].seg \in S THEN NoEntry ELSE idx[k]]

\* What get_key answers: the sequence number of the live record, or 0.
Value(idx, k) == IF idx[k].del THEN 0 ELSE idx[k].seq

-----------------------------------------------------------------------------
(* The primary                                                             *)

\* put_key_dur and delete_key_dur: rotation, append and index update.
PWrite(k, del) ==
    LET full == Len(seg[lead]) = SegCap
        s    == IF full THEN lead + 1 ELSE lead
        rec  == [key |-> k, seq |-> nextSeq, del |-> del]
    IN  /\ nextSeq <= MaxOps /\ s <= MaxSeg
        /\ del => Value(index, k) # 0
        /\ seg' = [seg EXCEPT ![s] = Append(@, rec)]
        /\ sealed' = IF full THEN sealed \cup {lead} ELSE sealed
        /\ lead' = s
        /\ index' = [index EXCEPT ![k] = [seg |-> s, seq |-> nextSeq, del |-> del]]
        /\ nextSeq' = nextSeq + 1
        /\ last' = [last EXCEPT ![k] = nextSeq]
        /\ \/ UNCHANGED waiting
           \/ /\ waiting = NotWaiting
              /\ waiting' = [seg |-> s, off |-> Len(seg'[s]), key |-> k, seq |-> nextSeq]
        /\ UNCHANGED <<gen, acks, replica, poller, gap, clean>>

\* picowal_db_checkpoint: the live records outside the leading segment, in
\* order of their sequence numbers, become the next base.dat.
PCheckpoint ==
    /\ sealed # {}
    /\ LET F == {k \in Keys : ~ index[k].del /\ index[k].seg # lead}
           b == SetToSortSeq({[key |-> k, seq |-> index[k].seq, del |-> FALSE] : k \in F},
                             LAMBDA x, y : x.seq < y.seq)
       IN  /\ seg' = [s \in 0..MaxSeg |-> IF s = 0 THEN b ELSE IF s \in sealed THEN <<>> ELSE seg[s]]
           /\ index' = Indexed(Dropped(index, {0} \cup sealed), 0, b)
    /\ gen' = gen + 1 /\ sealed' = {}
    /\ UNCHANGED <<last, lead, nextSeq, waiting, acks, replica, poller, gap, clean>>

\* An offset just before the record is enough.
Acked_bug(w) == {r \in Replicas : acks[r].seg = w.seg /\ acks[r].off + 1 >= w.off}

\* wait_for_ack_quorum
Acked(w) == {r \in Replicas : acks[r].seg = w.seg /\ acks[r].off >= w.off}

WaitOk ==
    /\ waiting # NotWaiting /\ Cardinality(Acked(waiting)) >= Quorum
    /\ waiting' = NotWaiting
    /\ UNCHANGED <<primary, last, acks, replica, poller, gap, clean>>

\* Nobody is registered, or the deadline passes.
WaitGivesUp ==
    /\ waiting # NotWaiting
    /\ waiting' = NotWaiting
    /\ UNCHANGED <<primary, last, acks, replica, poller, gap, clean>>

\* The bytes from offset o that one response carries.
Transfer(s, o) == SubSeq(seg[s], o + 1, Min({Len(seg[s]), o + ChunkMax}))

-----------------------------------------------------------------------------
(* The poller: GET status, GET segments                                    *)

Go(r, where) == pc' = [pc EXCEPT ![r] = where]

Status(r) ==
    /\ pc[r] = "status"
    /\ seen' = [seen EXCEPT ![r] = [lead |-> lead, off |-> Len(seg[lead]), next |-> nextSeq]]
    /\ clean' = [clean EXCEPT ![r] = TRUE]
    /\ Go(r, "segments")
    /\ UNCHANGED <<primary, last, waiting, acks, replica, list, todo, gap>>

Segments(r) ==
    /\ pc[r] = "segments"
    /\ list' = [list EXCEPT ![r] = [gen |-> gen, sealed |-> sealed, lead |-> lead]]
    /\ todo' = [todo EXCEPT ![r] = {0} \cup sealed]
    /\ Go(r, "install")
    /\ UNCHANGED <<primary, last, waiting, acks, replica, seen, gap, clean>>

SegmentsFail(r) ==
    /\ Lossy /\ pc[r] = "segments"
    /\ Go(r, "status")
    /\ UNCHANGED <<primary, last, waiting, acks, replica, seen, list, todo, gap, clean>>

-----------------------------------------------------------------------------
(* Whole segments, in ascending order, base.dat first                      *)

\* Any base.dat will do.
Have_bug(r, s) == s = 0 \/ s \in rsealed[r]

Have(r, s) == IF s = 0 THEN rgen[r] = list[r].gen ELSE s \in rsealed[r]

Turn(r, s) == pc[r] = "install" /\ todo[r] # {} /\ s = Min(todo[r])
Tick(r, s) == todo' = [todo EXCEPT ![r] = @ \ {s}] /\ UNCHANGED <<pc, seen, list>>

InstallSkip(r, s) ==
    /\ Turn(r, s) /\ Have(r, s) /\ Tick(r, s)
    /\ UNCHANGED <<primary, last, waiting, acks, replica, gap, clean>>

\* picowal_db_repl_read_segment finds the segment at the wanted generation.
Fetchable(r, s) == IF s = 0 THEN gen = list[r].gen ELSE s \in sealed
Fetched(s) == Transfer(s, 0)

\* 404, 410, or no answer.
FetchFail(r, s) ==
    /\ Turn(r, s) /\ ~ Have(r, s) /\ Tick(r, s)
    /\ Lossy \/ ~ Fetchable(r, s)
    /\ clean' = [clean EXCEPT ![r] = FALSE]
    /\ gap' = [gap EXCEPT ![r] = @ \/ s = 0]
    /\ UNCHANGED <<primary, last, waiting, acks, replica>>

Demoted(r, s) == [rlead EXCEPT ![r] = IF @ = s THEN NoLead ELSE @]

\* picowal_db_repl_install_segment.  A segment the replica itself leads is
\* rewritten if empty, only relabelled if the lengths agree, refused else.
Install(r, s) ==
    LET data  == Fetched(s)
        mine  == s = rlead[r]
        empty == rseg[r][s] = <<>>
        same  == mine /\ ~ empty /\ Len(data) = Len(rseg[r][s])
    IN  /\ Turn(r, s) /\ ~ Have(r, s) /\ Fetchable(r, s) /\ Tick(r, s)
        /\ mine => empty \/ same
        /\ rlead' = Demoted(r, s)
        /\ rsealed' = [rsealed EXCEPT ![r] = @ \cup ({s} \ {0})]
        /\ rgen' = [rgen EXCEPT ![r] = IF s = 0 THEN list[r].gen ELSE @]
        /\ IF same THEN UNCHANGED <<rseg, rindex>>
           ELSE /\ rseg' = [rseg EXCEPT ![r][s] = data]
                /\ rindex' = [rindex EXCEPT ![r] = Indexed(Dropped(@, {s}), s, data)]
        /\ gap' = [gap EXCEPT ![r] = @ \/ data # seg[s]]
        /\ UNCHANGED <<primary, last, waiting, acks, clean>>

InstallRefused(r, s) ==
    /\ Turn(r, s) /\ ~ Have(r, s) /\ Fetchable(r, s) /\ Tick(r, s)
    /\ s = rlead[r] /\ rseg[r][s] # <<>> /\ Len(Fetched(s)) # Len(rseg[r][s])
    /\ clean' = [clean EXCEPT ![r] = FALSE]
    /\ UNCHANGED <<primary, last, waiting, acks, replica, gap>>

\* The loop over picowal_db_repl_drop_segment: whatever the primary did not
\* list goes.  A leading segment loses its file and its index entries, not
\* its place.
Drop(r) ==
    /\ pc[r] = "install" /\ todo[r] = {}
    /\ LET D == (rsealed[r] \cup ({rlead[r]} \ {NoLead})) \ (list[r].sealed \cup {list[r].lead})
       IN  /\ rsealed' = [rsealed EXCEPT ![r] = @ \ D]
           /\ rindex' = [rindex EXCEPT ![r] = Dropped(@, D)]
           /\ rseg' = [rseg EXCEPT ![r] = [s \in 0..MaxSeg |-> IF s \in D \ {rlead[r]} THEN <<>> ELSE @[s]]]
    /\ Go(r, "stream")
    /\ UNCHANGED <<primary, last, waiting, acks, rlead, rgen, seen, list, todo, gap, clean>>

-----------------------------------------------------------------------------
(* The leading segment                                                     *)

\* What is already there is not counted.
LocalOff_bug(r) == 0

LocalOff(r) ==
    LET s == seen[r].lead IN IF s \in rsealed[r] \cup {rlead[r]} THEN Len(rseg[r][s]) ELSE 0

\* GET stream, then picowal_db_repl_ingest_segment, which adopts a segment
\* it does not lead yet and seals the one it led.
Stream(r) ==
    LET s     == seen[r].lead
        o     == LocalOff(r)
        chunk == Transfer(s, o)
        adopt == s # rlead[r]
    IN  /\ pc[r] = "stream" /\ o < seen[r].off /\ s = lead
        /\ adopt => o = 0
        /\ rlead' = [rlead EXCEPT ![r] = s]
        /\ rsealed' = [rsealed EXCEPT ![r] = IF adopt THEN @ \cup ({rlead[r]} \ {NoLead}) ELSE @]
        /\ rseg' = [rseg EXCEPT ![r][s] = IF adopt THEN chunk ELSE @ \o chunk]
        /\ rindex' = [rindex EXCEPT ![r] = Indexed(@, s, chunk)]
        /\ gap' = [gap EXCEPT ![r] = @ \/ (adopt /\ rlead[r] \in sealed /\ rseg[r][rlead[r]] # seg[rlead[r]])]
        /\ UNCHANGED <<primary, last, waiting, acks, rgen, poller, clean>>

\* Nothing is missing up to the offset seen, or the request or the ingestion
\* fails.
StreamDone(r) ==
    LET behind == LocalOff(r) < seen[r].off
    IN  /\ pc[r] = "stream"
        /\ behind => Lossy \/ seen[r].lead # lead \/ (seen[r].lead # rlead[r] /\ LocalOff(r) # 0)
        /\ clean' = [clean EXCEPT ![r] = @ /\ ~ behind]
        /\ Go(r, "ack")
        /\ UNCHANGED <<primary, last, waiting, acks, replica, seen, list, todo, gap>>

\* POST ack, then picowal_db_repl_ack on the primary.
SendAck(r) ==
    /\ pc[r] = "ack" /\ Go(r, "status")
    /\ acks' = [acks EXCEPT ![r] = [seg |-> seen[r].lead, off |-> LocalOff(r)]]
    /\ UNCHANGED <<primary, last, waiting, replica, seen, list, todo, gap, clean>>

AckLost(r) ==
    /\ Lossy /\ pc[r] = "ack" /\ Go(r, "status")
    /\ UNCHANGED <<primary, last, waiting, acks, replica, seen, list, todo, gap, clean>>

-----------------------------------------------------------------------------
Poll(r) ==
    \/ Status(r) \/ Segments(r) \/ SegmentsFail(r)
    \/ \E s \in 0..MaxSeg : InstallSkip(r, s) \/ FetchFail(r, s) \/ Install(r, s) \/ InstallRefused(r, s)
    \/ Drop(r) \/ Stream(r) \/ StreamDone(r) \/ SendAck(r) \/ AckLost(r)

Next ==
    \/ \E k \in Keys, del \in BOOLEAN : PWrite(k, del)
    \/ PCheckpoint \/ WaitOk \/ WaitGivesUp
    \/ \E r \in Replicas : Poll(r)

Spec == Init /\ [][Next]_vars

-----------------------------------------------------------------------------
Records == [key: Keys, seq: 1..MaxOps, del: BOOLEAN]
Entries == [seg: -1..MaxSeg, seq: 0..MaxOps, del: BOOLEAN]

\* The databases and the poller's copies of what it was told are well formed.
TypeOK ==
    /\ \A s \in 0..MaxSeg : seg[s] \in Seq(Records)
    /\ sealed \subseteq SegIds /\ lead \in SegIds \ sealed /\ gen \in 1..MaxSeg
    /\ index \in [Keys -> Entries] /\ nextSeq \in 1..MaxOps + 1
    /\ \A r \in Replicas :
        /\ \A s \in 0..MaxSeg : rseg[r][s] \in Seq(Records)
        /\ rsealed[r] \subseteq SegIds /\ rlead[r] \in ({NoLead} \cup SegIds) \ rsealed[r] /\ rgen[r] \in 1..gen
        /\ rindex[r] \in [Keys -> Entries]
        /\ pc[r] \in {"status", "segments", "install", "stream", "ack"}
        /\ todo[r] \subseteq {0} \cup list[r].sealed

\* Whatever a replica stores of a segment the primary still has is a prefix
\* of it: polls that straddle rotations and checkpoints, truncated or refused
\* installs and repeated chunks never leave foreign, reordered or repeated
\* records in a replica's file.
ReplicaIsPrefix ==
    \A r \in Replicas : \A s \in (rsealed[r] \cup {rlead[r]}) \cap (sealed \cup {lead}) :
        IsPrefix(rseg[r][s], seg[s])

\* A poll that met no failed request leaves a replica without history gaps
\* reading what the primary had when the poll began: a key the primary has
\* not changed since then reads the same on both.
PollCatchesUp ==
    \A r \in Replicas : pc[r] = "ack" /\ clean[r] /\ ~ gap[r] =>
        \A k \in Keys : last[k] < seen[r].next => Value(rindex[r], k) = Value(index, k)

\* A write reported as replicated is on a quorum: each replica counted by
\* wait_for_ack_quorum stores that write or a later one of the same key.
ReplicatedIsStored ==
    [][WaitOk => \A r \in Acked(waiting) : gap[r] \/
            \/ rindex[r][waiting.key].seq >= waiting.seq
            \/ Value(rindex[r], waiting.key) = 0 /\ rgen[r] > 1]_vars

FairSpec ==
    /\ Spec
    /\ \A r \in Replicas :
        /\ WF_vars(Poll(r)) /\ SF_vars(Segments(r)) /\ SF_vars(Stream(r))
        /\ \A s \in 0..MaxSeg : SF_vars(Install(r, s))

\* When writes stop, every replica without a history gap comes to read what
\* the primary reads, and stays so.
EventuallyConverges ==
    \A r \in Replicas : <>[](gap[r] \/ \A k \in Keys : Value(rindex[r], k) = Value(index, k))

\* A replica's sealed segment holds every record of the primary's.
SealedIsWhole ==
    \A r \in Replicas : \A s \in rsealed[r] \cap sealed : rseg[r][s] = seg[s]
=============================================================================
