------------------------------ MODULE MCWorkers ------------------------------
(***************************************************************************)
(* A TLC instance of the workers that can stand in for the epoll worker:   *)
(* the TLS workers and the io_uring worker.  A process runs one of them,   *)
(* which main.c and the build choose: `build` says which one moves.        *)
(***************************************************************************)
EXTENDS TlsServer, MCUring

Data(pieces) == [inner |-> "app", data |-> pieces]
Plan(resume, early, data) ==
    [ok |-> TRUE, sig |-> TRUE, share |-> TRUE, binder |-> TRUE, resume |-> resume, early |-> early, data |-> data]

Pipelined == Plan(FALSE, 0, <<Data(<<"get">>), Data(<<"get", "get">>)>>)
Upload    == Plan(FALSE, 0, <<Data(<<"post">>), Data(<<"body">>)>>)
Resuming  == Plan(TRUE, 1, <<Data(<<"get">>), Data(<<"get">>)>>)
Replaying == Plan(TRUE, 1, <<Data(<<"get">>)>>)

\* Clients that the engine or the worker turns away.
Turned ==
    {[Plan(FALSE, 0, <<>>) EXCEPT !.ok = FALSE], [Plan(FALSE, 0, <<>>) EXCEPT !.sig = FALSE],
     [Replaying EXCEPT !.share = FALSE], [Replaying EXCEPT !.binder = FALSE],
     Plan(FALSE, 0, <<[inner |-> "update", data |-> <<>>], Data(<<"bad">>)>>),
     Plan(FALSE, 0, <<[inner |-> "alert", data |-> <<>>]>>),
     Plan(FALSE, 0, <<Data(<<"post">>), Data(<<"body", "body">>)>>),
     Plan(TRUE, 1, <<Data(<<"get", "get">>)>>)}

MCPlans == [kernel |-> <<{Pipelined, Upload} \cup Turned, {Resuming}>>,
            packet |-> <<{Pipelined, Replaying}, {Replaying}>>]
MCTable == [kernel |-> {1}, packet |-> {1, 2}]

VARIABLE build   \* "tls" or "uring"

workerVars == <<build, tlsVars, uringVars>>

WorkersInit ==
    /\ build \in {"tls", "uring"}
    /\ TlsInit /\ UringInit
    /\ build = "tls" => ring = CHOOSE r \in Rings : TRUE
    /\ build = "uring" => io = CHOOSE i \in Ios : TRUE

\* The connection tables, buffers and rings of the workers stay within what the
\* code declares: no tx buffer is overrun by a seal (pw_tls_app_seal_iov checks
\* the room first), and the io_uring pool's free list and its slots in use
\* partition the pool.
WorkersTypeOK == TlsTypeOK /\ UringTypeOK

TlsStep   == build = "tls" /\ TlsNext /\ UNCHANGED <<build, uringVars>>
UringStep == build = "uring" /\ UringNext /\ UNCHANGED <<build, tlsVars>>
WorkersNext == TlsStep \/ UringStep

\* The fairness of the two specifications; as `build` never changes, weak fairness
\* of a disjunction of steps of different builds is weak fairness of each.
WorkersSpec ==
    /\ WorkersInit /\ [][WorkersNext]_workerVars
    /\ WF_workerVars(\/ build = "tls" /\ Accept /\ UNCHANGED <<build, uringVars>>
                     \/ build = "uring" /\ UringWorker /\ UNCHANGED <<build, tlsVars>>)
    /\ WF_workerVars(\/ build = "tls" /\ Sweep /\ UNCHANGED <<build, uringVars>>
                     \/ build = "uring" /\ TakeEntry /\ UNCHANGED <<build, tlsVars>>)
    /\ WF_workerVars(\/ build = "tls" /\ Tick /\ UNCHANGED <<build, uringVars>>
                     \/ build = "uring" /\ Complete /\ UNCHANGED <<build, tlsVars>>)
=============================================================================
