-------------------------- MODULE EpollServerProofs --------------------------
(***************************************************************************)
(* The connection pool of a worker and the response bodies its slots hold, *)
(* for any number of slots and clients.                                    *)
(*                                                                         *)
(* PoolIsPartitioned is inductive once it is known that                    *)
(*   - the accept queue holds distinct sockets that no slot serves yet,    *)
(*   - an event waiting in the batch is an event of a slot in use: a       *)
(*     connection is only closed while its own event is handled or after   *)
(*     the whole batch, so no event outlives its connection.               *)
(* BodiesAreReleased is inductive once it is known that only a slot that   *)
(* is writing has a body, and that a free slot has none: then reading and  *)
(* dispatching, which would overwrite a body, never meet one.              *)
(***************************************************************************)
EXTENDS EpollServer, FiniteSetTheorems, NaturalsInduction, WellFoundedInduction, TLAPS

\* Sockets are records with a state, whatever else they hold.
SocksOK == DOMAIN sock = Conns /\ \A c \in Conns : "st" \in DOMAIN sock[c]

QueueOK ==
    /\ backlog \in Seq(Conns)
    /\ \A i, j \in DOMAIN backlog : backlog[i] = backlog[j] => i = j
    /\ \A i \in DOMAIN backlog : sock[backlog[i]].st = "queued"

EventsAreCurrent == \A s \in Slots : batch[s] # {} => fd[s] # None

PoolInv ==
    /\ fd \in [Slots -> Conns \cup {None}] /\ free \in Seq(Slots)
    /\ batch \in [Slots -> SUBSET Events]
    /\ SocksOK /\ QueueOK /\ EventsAreCurrent
    /\ PoolIsPartitioned

-----------------------------------------------------------------------------
\* The pool starts with every slot free and no socket open (pool_init).
LEMMA PoolInit == Init => PoolInv
<1> SUFFICES ASSUME Init PROVE PoolInv
  OBVIOUS
<1>1. Cap \in Nat
  BY EpollAssumption
<1>2. free \in Seq(Slots) /\ Len(free) = Cap /\ \A i \in 1..Cap : free[i] = i
  BY <1>1 DEF Init, Slots
<1>3. Range(free) = Slots
  BY <1>2 DEF Range, Slots
<1>4. None \notin Conns
  BY EpollAssumption
<1>5. fd \in [Slots -> Conns \cup {None}] /\ batch \in [Slots -> SUBSET Events]
  BY DEF Init
<1>6. SocksOK
  BY DEF Init, SocksOK, NoSock
<1>7. QueueOK
  BY DEF Init, QueueOK
<1>8. EventsAreCurrent
  BY DEF Init, EventsAreCurrent
<1>9. PoolIsPartitioned
  <2>1. {c \in Conns : sock[c].st = "open"} = {}
    BY DEF Init, NoSock
  <2>2. \A s \in Slots : fd[s] = None
    BY DEF Init
  <2> QED
    BY <1>1, <1>2, <1>3, <2>1, <2>2 DEF PoolIsPartitioned, Slots
<1> QED
  BY <1>2, <1>5, <1>6, <1>7, <1>8, <1>9 DEF PoolInv

\* A step that moves no slot and no socket between their states, and adds no
\* event to the batch, keeps the pool as it is.
LEMMA PoolUntouched ==
  ASSUME PoolInv, fd' = fd, free' = free, backlog' = backlog,
         batch' \in [Slots -> SUBSET Events],
         \A s \in Slots : batch'[s] # {} => fd[s] # None,
         SocksOK', \A c \in Conns : sock'[c].st = sock[c].st
  PROVE  PoolInv'
<1>1. QueueOK'
  <2>1. backlog \in Seq(Conns)
    BY DEF PoolInv, QueueOK
  <2>2. \A i \in DOMAIN backlog : backlog[i] \in Conns
    BY <2>1
  <2> QED
    BY <2>2 DEF PoolInv, QueueOK
<1>2. EventsAreCurrent'
  BY DEF EventsAreCurrent
<1>3. PoolIsPartitioned'
  <2>1. {c \in Conns : sock[c].st = "open"}' = {c \in Conns : sock[c].st = "open"}
    OBVIOUS
  <2> QED
    BY <2>1 DEF PoolInv, PoolIsPartitioned
<1> QED
  BY <1>1, <1>2, <1>3 DEF PoolInv

\* A client that changes its socket without changing its state.
LEMMA ClientKeeps ==
  ASSUME PoolInv, NEW c \in Conns, NEW k, Client(c, k), backlog' = backlog,
         "st" \in DOMAIN k, k.st = sock[c].st
  PROVE  PoolInv'
<1>1. fd' = fd /\ free' = free /\ batch' = batch
  BY DEF Client, worker, loop
<1>2. SocksOK' /\ \A d \in Conns : sock'[d].st = sock[d].st
  BY DEF Client, PoolInv, SocksOK
<1> QED
  BY <1>1, <1>2, PoolUntouched DEF PoolInv, EventsAreCurrent

\* A slot in use is handed back: its socket is closed and it becomes the head
\* of the free list (close_conn, pool_free).
LEMMA PoolFree ==
  ASSUME PoolInv, NEW s \in Slots, fd[s] # None,
         fd' = [fd EXCEPT ![s] = None], free' = <<s>> \o free, backlog' = backlog,
         batch' = [batch EXCEPT ![s] = {}],
         NEW k, sock' = [sock EXCEPT ![fd[s]] = k], "st" \in DOMAIN k, k.st = "closed"
  PROVE  PoolInv'
<1>1. fd[s] \in Conns /\ fd[s] \in {c \in Conns : sock[c].st = "open"}
  BY DEF PoolInv, PoolIsPartitioned
<1>2. SocksOK' /\ sock'[fd[s]].st = "closed"
      /\ \A c \in Conns : c # fd[s] => sock'[c] = sock[c]
  BY <1>1 DEF PoolInv, SocksOK
<1>3. /\ fd' \in [Slots -> Conns \cup {None}] /\ fd'[s] = None
      /\ \A t \in Slots : t # s => fd'[t] = fd[t]
      /\ batch' \in [Slots -> SUBSET Events]
      /\ batch'[s] = {} /\ \A t \in Slots : t # s => batch'[t] = batch[t]
  BY DEF PoolInv
<1>4. EventsAreCurrent'
  BY <1>3 DEF PoolInv, EventsAreCurrent
<1>5. QueueOK'
  <2>1. \A i \in DOMAIN backlog : backlog[i] \in Conns /\ backlog[i] # fd[s]
    <3>1. backlog \in Seq(Conns)
      BY DEF PoolInv, QueueOK
    <3>2. \A i \in DOMAIN backlog : backlog[i] \in Conns
      BY <3>1
    <3> QED
      BY <1>1, <3>2 DEF PoolInv, QueueOK
  <2> QED
    BY <1>2, <2>1 DEF PoolInv, QueueOK
<1>6. /\ free \in Seq(Slots) /\ s \notin Range(free)
      /\ Range(free) = {t \in Slots : fd[t] = None}
  BY DEF PoolInv, PoolIsPartitioned
<1>7. /\ free' \in Seq(Slots) /\ Len(free') = Len(free) + 1 /\ free'[1] = s
      /\ \A i \in 2..Len(free) + 1 : free'[i] = free[i - 1]
  BY <1>6
<1>8. \A i, j \in DOMAIN free' : free'[i] = free'[j] => i = j
  <2>1. \A i \in DOMAIN free' : i = 1 \/ (i - 1 \in DOMAIN free /\ free'[i] = free[i - 1])
    BY <1>6, <1>7
  <2>2. \A i \in DOMAIN free : free[i] # s
    BY <1>6 DEF Range
  <2>3. \A i, j \in DOMAIN free : free[i] = free[j] => i = j
    BY DEF PoolInv, PoolIsPartitioned
  <2>4. \A i \in DOMAIN free' : i \in Int
    BY <1>7
  <2> QED
    BY <1>7, <2>1, <2>2, <2>3, <2>4
<1>9. Range(free') = {t \in Slots : fd'[t] = None}
  <2>1. Range(free') = Range(free) \cup {s}
    <3>1. DOMAIN free' = 1..Len(free) + 1 /\ DOMAIN free = 1..Len(free) /\ Len(free) \in Nat
      BY <1>6, <1>7
    <3>2. \A i \in DOMAIN free : i + 1 \in DOMAIN free' /\ free'[i + 1] = free[i]
      BY <1>7, <3>1
    <3>3. \A i \in DOMAIN free' : free'[i] = s \/ (i - 1 \in DOMAIN free /\ free'[i] = free[i - 1])
      BY <1>7, <3>1
    <3>4. 1 \in DOMAIN free' /\ free'[1] = s
      BY <1>7, <3>1
    <3>5. Range(free') \subseteq Range(free) \cup {s}
      BY <3>3 DEF Range
    <3>6. Range(free) \cup {s} \subseteq Range(free')
      <4>1. \A x \in Range(free) : x \in Range(free')
        BY <3>2, Zenon DEF Range
      <4> QED
        BY <3>4, <4>1, Zenon DEF Range
    <3> QED
      BY <3>5, <3>6
  <2> QED
    BY <1>3, <1>6, <2>1
<1>10. \A t, u \in Slots : fd'[t] = fd'[u] => t = u \/ fd'[t] = None
  BY <1>3 DEF PoolInv, PoolIsPartitioned
<1>11. {c \in Conns : sock'[c].st = "open"} = {fd'[t] : t \in Slots} \ {None}
  <2>1. {c \in Conns : sock'[c].st = "open"} = {c \in Conns : sock[c].st = "open"} \ {fd[s]}
    BY <1>1, <1>2
  <2>2. {fd'[t] : t \in Slots} \ {None} = ({fd[t] : t \in Slots} \ {None}) \ {fd[s]}
    BY <1>3 DEF PoolInv, PoolIsPartitioned
  <2> QED
    BY <2>1, <2>2 DEF PoolInv, PoolIsPartitioned
<1>12. PoolIsPartitioned'
  BY <1>8, <1>9, <1>10, <1>11 DEF PoolIsPartitioned
<1> QED
  BY <1>2, <1>3, <1>4, <1>5, <1>7, <1>12 DEF PoolInv

-----------------------------------------------------------------------------
\* One handler run: the slot is kept as it was or closed (the event loop's body).
LEMMA PoolHandle == ASSUME PoolInv, NEW s \in Slots, Handle(s) PROVE PoolInv'
<1> DEFINE X == OnEvents(Context(s), fd[s], batch[s])
           K == [sock[fd[s]] EXCEPT !.out = X.out, !.got = X.got]
<1>1. fd[s] # None /\ fd[s] \in Conns /\ "st" \in DOMAIN sock[fd[s]]
  <2>1. fd[s] # None
    BY DEF Handle, PoolInv, EventsAreCurrent
  <2>2. fd[s] \in Conns
    BY <2>1 DEF PoolInv
  <2> QED
    BY <2>1, <2>2 DEF PoolInv, SocksOK
<1>2. /\ batch' = [batch EXCEPT ![s] = {}] /\ backlog' = backlog
      /\ \/ /\ fd' = [fd EXCEPT ![s] = None] /\ free' = <<s>> \o free
            /\ sock' = [sock EXCEPT ![fd[s]] = Closed(K)]
         \/ fd' = fd /\ free' = free /\ sock' = [sock EXCEPT ![fd[s]] = K]
  BY DEF Handle
<1>3. PICK x, y : K = [sock[fd[s]] EXCEPT !.out = x, !.got = y]
  BY Zenon
<1>4. "st" \in DOMAIN K /\ K.st = sock[fd[s]].st
  BY <1>1, <1>3
<1>5. PICK k : k = Closed(K)
  OBVIOUS
<1>6. "st" \in DOMAIN k /\ k.st = "closed"
  BY <1>5 DEF Closed, NoSock
<1> HIDE DEF K
<1>7. CASE /\ fd' = [fd EXCEPT ![s] = None] /\ free' = <<s>> \o free
           /\ sock' = [sock EXCEPT ![fd[s]] = Closed(K)]
  BY <1>1, <1>2, <1>5, <1>6, <1>7, PoolFree, Zenon
<1>8. CASE fd' = fd /\ free' = free /\ sock' = [sock EXCEPT ![fd[s]] = K]
  <2>1. batch' \in [Slots -> SUBSET Events] /\ \A t \in Slots : batch'[t] # {} => fd[t] # None
    BY <1>2 DEF PoolInv, EventsAreCurrent
  <2>2. SocksOK' /\ \A c \in Conns : sock'[c].st = sock[c].st
    BY <1>1, <1>4, <1>8 DEF PoolInv, SocksOK
  <2> QED
    BY <1>2, <1>8, <2>1, <2>2, PoolUntouched
<1> QED
  BY <1>2, <1>7, <1>8

\* try_accept: the first slots of the free list take the first sockets of the
\* queue, the others are closed.
LEMMA PoolAccept == ASSUME PoolInv, Accept PROVE PoolInv'
<1> DEFINE n == Lesser(Len(backlog), Len(free))
           Taken == {free[i] : i \in 1..n}
           ConnOf(s) == backlog[CHOOSE i \in 1..n : free[i] = s]
<1>1. /\ free \in Seq(Slots) /\ backlog \in Seq(Conns)
      /\ Len(free) \in Nat /\ Len(backlog) \in Nat
      /\ DOMAIN free = 1..Len(free) /\ DOMAIN backlog = 1..Len(backlog)
  BY DEF PoolInv, QueueOK
<1>2. n \in Nat /\ n <= Len(backlog) /\ n <= Len(free)
  BY <1>1 DEF Lesser
<1>3. /\ fd' = [s \in Slots |-> IF s \in Taken THEN ConnOf(s) ELSE fd[s]]
      /\ free' = SubSeq(free, n + 1, Len(free)) /\ backlog' = <<>> /\ batch' = batch
      /\ sock' = [c \in Conns |->
                    IF c \notin Range(backlog) THEN sock[c]
                    ELSE IF \E i \in 1..n : backlog[i] = c THEN [sock[c] EXCEPT !.st = "open"]
                    ELSE Closed(sock[c])]
  BY DEF Accept, PoolAlloc
<1>4. \A i \in 1..n : /\ i \in DOMAIN free /\ free[i] \in Slots /\ fd[free[i]] = None
                      /\ i \in DOMAIN backlog /\ backlog[i] \in Conns
                      /\ sock[backlog[i]].st = "queued"
  <2>1. \A i \in 1..n : i \in DOMAIN free /\ i \in DOMAIN backlog
    BY <1>1, <1>2
  <2>2. \A i \in DOMAIN free : free[i] \in Slots /\ free[i] \in Range(free)
    BY <1>1 DEF Range
  <2>3. \A i \in DOMAIN backlog : backlog[i] \in Conns
    BY <1>1
  <2> QED
    BY <2>1, <2>2, <2>3 DEF PoolInv, PoolIsPartitioned, QueueOK
<1>5. /\ \A i, j \in DOMAIN free : free[i] = free[j] => i = j
      /\ \A i, j \in DOMAIN backlog : backlog[i] = backlog[j] => i = j
  BY DEF PoolInv, PoolIsPartitioned, QueueOK
<1>6. \A i \in 1..n : fd'[free[i]] = backlog[i]
  <2> SUFFICES ASSUME NEW i \in 1..n PROVE fd'[free[i]] = backlog[i]
    OBVIOUS
  <2>1. \A j \in 1..n : free[j] = free[i] => j = i
    BY <1>4, <1>5
  <2>2. (CHOOSE j \in 1..n : free[j] = free[i]) = i
    BY <2>1
  <2> QED
    BY <1>3, <1>4, <2>2
<1>7. \A s \in Slots : s \notin Taken => fd'[s] = fd[s]
  BY <1>3
<1>8. fd' \in [Slots -> Conns \cup {None}]
  <2>1. \A s \in Slots : fd'[s] \in Conns \cup {None}
    BY <1>4, <1>6, <1>7 DEF PoolInv
  <2> QED
    BY <1>3, <2>1
<1>9. /\ free' \in Seq(Slots) /\ Len(free') = Len(free) - n
      /\ DOMAIN free' = 1..Len(free) - n
      /\ \A i \in 1..Len(free) - n : free'[i] = free[n + i]
  BY <1>1, <1>2, <1>3
<1> HIDE DEF n
<1>10. /\ SocksOK'
       /\ \A c \in Conns : sock'[c].st = "open" <=>
             sock[c].st = "open" \/ \E i \in 1..n : backlog[i] = c
  <2> SUFFICES ASSUME NEW c \in Conns
               PROVE  /\ "st" \in DOMAIN sock'[c]
                      /\ sock'[c].st = "open" <=>
                           sock[c].st = "open" \/ \E i \in 1..n : backlog[i] = c
    BY <1>3 DEF SocksOK
  <2>1. "st" \in DOMAIN sock[c]
    BY DEF PoolInv, SocksOK
  <2>2. c \in Range(backlog) => sock[c].st = "queued"
    BY DEF PoolInv, QueueOK, Range
  <2>3. (\E i \in 1..n : backlog[i] = c) => c \in Range(backlog)
    BY <1>4 DEF Range
  <2>4. CASE c \notin Range(backlog)
    BY <1>3, <2>1, <2>3, <2>4
  <2>5. CASE \E i \in 1..n : backlog[i] = c
    <3>1. sock'[c] = [sock[c] EXCEPT !.st = "open"]
      BY <1>3, <2>3, <2>5
    <3> QED
      BY <2>1, <2>5, <3>1
  <2>6. CASE c \in Range(backlog) /\ ~ \E i \in 1..n : backlog[i] = c
    <3>1. sock'[c] = Closed(sock[c])
      BY <1>3, <2>6
    <3>2. "st" \in DOMAIN sock'[c] /\ sock'[c].st = "closed"
      BY <3>1 DEF Closed, NoSock
    <3> QED
      BY <2>2, <2>6, <3>2
  <2> QED
    BY <2>4, <2>5, <2>6
<1>11. QueueOK'
  BY <1>3 DEF QueueOK
<1>12. EventsAreCurrent'
  BY <1>3, <1>4, <1>7 DEF PoolInv, EventsAreCurrent
<1>13. \A i, j \in DOMAIN free' : free'[i] = free'[j] => i = j
  <2>1. \A i \in DOMAIN free' : n + i \in DOMAIN free /\ free'[i] = free[n + i] /\ i \in Int
    <3> SUFFICES ASSUME NEW i \in 1..Len(free) - n
                 PROVE  n + i \in 1..Len(free) /\ free'[i] = free[n + i] /\ i \in Int
      BY <1>1, <1>9
    <3> QED
      BY <1>1, <1>2, <1>9
  <2> QED
    BY <1>2, <1>5, <2>1
<1>14. Range(free') = Range(free) \ Taken
  <2>1. \A i \in DOMAIN free' : /\ n + i \in DOMAIN free /\ free'[i] = free[n + i]
                               /\ n + i \notin 1..n
    <3> SUFFICES ASSUME NEW i \in 1..Len(free) - n
                 PROVE  n + i \in 1..Len(free) /\ free'[i] = free[n + i] /\ n + i \notin 1..n
      BY <1>1, <1>9
    <3> QED
      BY <1>1, <1>2, <1>9
  <2>2. \A i \in DOMAIN free : i \in 1..n \/ (i - n \in DOMAIN free' /\ free'[i - n] = free[i])
    BY <1>1, <1>2, <1>9
  <2>3. \A x \in Range(free') : x \in Range(free) /\ x \notin Taken
    BY <1>4, <1>5, <2>1 DEF Range
  <2>4. \A x \in Range(free) : x \in Taken \/ x \in Range(free')
    BY <2>2 DEF Range
  <2>5. \A x \in Taken : x \notin Range(free')
    BY <2>3
  <2> QED
    BY <2>3, <2>4
<1>15. Range(free') = {s \in Slots : fd'[s] = None}
  <2>1. \A s \in Taken : s \in Slots /\ fd'[s] # None
    BY <1>4, <1>6, EpollAssumption
  <2>2. Range(free) = {s \in Slots : fd[s] = None}
    BY DEF PoolInv, PoolIsPartitioned
  <2> QED
    BY <1>7, <1>14, <2>1, <2>2
<1>16. \A s, t \in Slots : fd'[s] = fd'[t] => s = t \/ fd'[s] = None
  <2>1. \A s \in Taken : \E i \in 1..n : s = free[i] /\ fd'[s] = backlog[i]
    BY <1>6
  <2>2. \A s, t \in Taken : fd'[s] = fd'[t] => s = t
    BY <1>4, <1>5, <2>1
  <2>3. \A s \in Taken : fd'[s] \in Conns /\ sock[fd'[s]].st = "queued"
    BY <1>4, <2>1
  <2>4. \A t \in Slots : fd[t] # None => fd[t] \in Conns /\ sock[fd[t]].st = "open"
    BY DEF PoolInv, PoolIsPartitioned
  <2>5. \A s \in Taken, t \in Slots \ Taken : fd'[s] # fd'[t]
    BY <1>7, <2>3, <2>4, EpollAssumption
  <2>6. \A s, t \in Slots \ Taken : fd'[s] = fd'[t] => s = t \/ fd'[s] = None
    BY <1>7 DEF PoolInv, PoolIsPartitioned
  <2> QED
    BY <2>2, <2>5, <2>6
<1>17. {c \in Conns : sock'[c].st = "open"} = {fd'[s] : s \in Slots} \ {None}
  <2>1. {c \in Conns : sock[c].st = "open"} = {fd[s] : s \in Slots} \ {None}
    BY DEF PoolInv, PoolIsPartitioned
  <2>2. \A c \in Conns : sock'[c].st = "open" => c \in {fd'[s] : s \in Slots}
    <3> SUFFICES ASSUME NEW c \in Conns, sock'[c].st = "open"
                 PROVE  \E s \in Slots : fd'[s] = c
      OBVIOUS
    <3>1. CASE \E i \in 1..n : backlog[i] = c
      BY <1>4, <1>6, <3>1
    <3>2. CASE sock[c].st = "open"
      <4>1. PICK s \in Slots : fd[s] = c
        BY <2>1, <3>2
      <4>2. s \notin Taken
        BY <1>4, <4>1, EpollAssumption
      <4> QED
        BY <1>7, <4>1, <4>2
    <3> QED
      BY <1>10, <3>1, <3>2
  <2>3. \A s \in Slots : fd'[s] # None => fd'[s] \in Conns /\ sock'[fd'[s]].st = "open"
    <3> SUFFICES ASSUME NEW s \in Slots, fd'[s] # None
                 PROVE  fd'[s] \in Conns /\ sock'[fd'[s]].st = "open"
      OBVIOUS
    <3>1. CASE s \in Taken
      BY <1>4, <1>6, <1>10, <3>1
    <3>2. CASE s \notin Taken
      <4>1. fd'[s] = fd[s] /\ fd[s] \in Conns
        BY <1>7, <3>2 DEF PoolInv
      <4>2. sock[fd[s]].st = "open"
        BY <2>1, <4>1
      <4> QED
        BY <1>10, <4>1, <4>2
    <3> QED
      BY <3>1, <3>2
  <2> QED
    BY <2>2, <2>3, EpollAssumption
<1>18. PoolIsPartitioned'
  BY <1>13, <1>15, <1>16, <1>17 DEF PoolIsPartitioned
<1> QED
  BY <1>3, <1>8, <1>9, <1>10, <1>11, <1>12, <1>18 DEF PoolInv

\* sweep_idle: the stale slots are closed and pushed on the free list one by one.
LEMMA PoolSweep == ASSUME PoolInv, Sweep PROVE PoolInv'
<1> DEFINE S == {s \in Slots : due /\ Stale(s)}
<1>1. PICK freed \in [1..Cardinality(S) -> S] :
        /\ Range(freed) = S /\ \A i, j \in DOMAIN freed : i < j => freed[i] > freed[j]
        /\ free' = freed \o free
  BY Zenon DEF Sweep
<1>2. /\ fd' = [s \in Slots |-> IF s \in S THEN None ELSE fd[s]]
      /\ sock' = [c \in Conns |-> IF \E s \in S : fd[s] = c THEN Closed(sock[c]) ELSE sock[c]]
      /\ batch' = batch /\ backlog' = backlog /\ \A s \in Slots : batch[s] = {}
  BY DEF Sweep
<1>3. S \subseteq Slots /\ \A s \in S : fd[s] # None
  BY DEF Stale
<1> HIDE DEF S
<1>4. Cardinality(S) \in Nat
  <2>1. IsFiniteSet(Slots)
    BY FS_Interval, EpollAssumption DEF Slots
  <2>2. IsFiniteSet(S)
    BY <1>3, <2>1, FS_Subset
  <2> QED
    BY <2>2, FS_CardinalityType
<1>5. PICK m \in Nat : m = Cardinality(S)
  BY <1>4
<1>6. /\ freed \in Seq(Slots) /\ Len(freed) = m /\ DOMAIN freed = 1..m
      /\ \A i \in 1..m : freed[i] \in S
  BY <1>1, <1>3, <1>5
<1>7. /\ free \in Seq(Slots) /\ Len(free) \in Nat /\ DOMAIN free = 1..Len(free)
      /\ Range(free) = {s \in Slots : fd[s] = None}
      /\ \A i, j \in DOMAIN free : free[i] = free[j] => i = j
  BY DEF PoolInv, PoolIsPartitioned
<1>8. /\ free' \in Seq(Slots) /\ DOMAIN free' = 1..m + Len(free)
      /\ \A i \in 1..m : free'[i] = freed[i]
      /\ \A i \in m + 1..m + Len(free) : free'[i] = free[i - m]
  BY <1>1, <1>6, <1>7
<1>9. \A i \in 1..Len(free) : free[i] \notin S
  BY <1>3, <1>7 DEF Range
<1>10. \A i, j \in DOMAIN free' : free'[i] = free'[j] => i = j
  <2>1. \A i, j \in 1..m : freed[i] = freed[j] => i = j
    <3>1. \A s \in Slots : s \in Int
      BY EpollAssumption DEF Slots
    <3>2. \A i \in 1..m : freed[i] \in Int
      BY <1>3, <1>6, <3>1
    <3> QED
      BY <1>1, <1>6, <3>2
  <2>0. DOMAIN free' = 1..m + Len(free)
    BY <1>8
  <2>2. \A i \in DOMAIN free' :
          \/ i \in 1..m /\ free'[i] = freed[i] /\ free'[i] \in S
          \/ i - m \in 1..Len(free) /\ free'[i] = free[i - m] /\ free'[i] \notin S
    <3> SUFFICES ASSUME NEW i \in 1..m + Len(free)
                 PROVE \/ i \in 1..m /\ free'[i] = freed[i] /\ free'[i] \in S
                       \/ i - m \in 1..Len(free) /\ free'[i] = free[i - m] /\ free'[i] \notin S
      BY <2>0
    <3>1. CASE i \in 1..m
      BY <1>6, <1>8, <3>1
    <3>2. CASE i \in m + 1..m + Len(free)
      <4>1. i - m \in 1..Len(free)
        BY <1>5, <1>7, <3>2
      <4> QED
        BY <1>8, <1>9, <3>2, <4>1
    <3> QED
      BY <1>5, <1>7, <3>1, <3>2
  <2>3. \A i \in DOMAIN free' : i \in Int
    BY <1>8
  <2> SUFFICES ASSUME NEW i \in DOMAIN free', NEW j \in DOMAIN free', free'[i] = free'[j]
               PROVE  i = j
    OBVIOUS
  <2>4. CASE free'[i] \in S
    BY <2>1, <2>2, <2>4
  <2>5. CASE free'[i] \notin S
    <3>1. i - m \in 1..Len(free) /\ j - m \in 1..Len(free) /\ free[i - m] = free[j - m]
      BY <2>2, <2>5
    <3>2. i - m = j - m
      BY <1>7, <3>1
    <3> QED
      BY <1>5, <2>3, <3>2
  <2> QED
    BY <2>4, <2>5
<1>11. Range(free') = Range(free) \cup S
  <2>1. \A x \in Range(free') : x \in S \/ x \in Range(free)
    <3> SUFFICES ASSUME NEW i \in 1..m + Len(free) PROVE free'[i] \in S \/ free'[i] \in Range(free)
      BY <1>8 DEF Range
    <3>1. i \in 1..m \/ (i \in m + 1..m + Len(free) /\ i - m \in DOMAIN free)
      BY <1>5, <1>7
    <3> QED
      BY <1>6, <1>8, <3>1 DEF Range
  <2>2. \A x \in S : x \in Range(free')
    <3> SUFFICES ASSUME NEW i \in 1..m PROVE freed[i] \in Range(free')
      BY <1>1, <1>6 DEF Range
    <3>1. i \in DOMAIN free' /\ free'[i] = freed[i]
      BY <1>5, <1>7, <1>8
    <3> QED
      BY <3>1 DEF Range
  <2>3. \A x \in Range(free) : x \in Range(free')
    <3> SUFFICES ASSUME NEW i \in 1..Len(free) PROVE free[i] \in Range(free')
      BY <1>7 DEF Range
    <3>1. m + i \in m + 1..m + Len(free) /\ m + i \in 1..m + Len(free) /\ (m + i) - m = i
      BY <1>5, <1>7
    <3>2. m + i \in DOMAIN free' /\ free'[m + i] = free[i]
      BY <1>8, <3>1
    <3> QED
      BY <3>2 DEF Range
  <2> QED
    BY <2>1, <2>2, <2>3
<1>12. Range(free') = {s \in Slots : fd'[s] = None}
  BY <1>2, <1>3, <1>7, <1>11
<1>13. fd' \in [Slots -> Conns \cup {None}] /\ \A s \in Slots : fd'[s] = IF s \in S THEN None ELSE fd[s]
  BY <1>2 DEF PoolInv
<1>14. \A s, t \in Slots : fd'[s] = fd'[t] => s = t \/ fd'[s] = None
  BY <1>13 DEF PoolInv, PoolIsPartitioned
<1>15. /\ SocksOK'
       /\ \A c \in Conns : IF \E s \in S : fd[s] = c THEN sock'[c].st = "closed" ELSE sock'[c] = sock[c]
  <2>1. \A c \in Conns : "st" \in DOMAIN Closed(sock[c]) /\ Closed(sock[c]).st = "closed"
    BY DEF Closed, NoSock
  <2> QED
    BY <1>2, <2>1 DEF PoolInv, SocksOK
<1>16. {c \in Conns : sock'[c].st = "open"} = {fd'[s] : s \in Slots} \ {None}
  <2>1. {c \in Conns : sock[c].st = "open"} = {fd[s] : s \in Slots} \ {None}
    BY DEF PoolInv, PoolIsPartitioned
  <2>2. \A s, t \in Slots : fd[s] = fd[t] => s = t \/ fd[s] = None
    BY DEF PoolInv, PoolIsPartitioned
  <2>3. \A c \in Conns : sock'[c].st = "open" => c \in {fd'[s] : s \in Slots} \ {None}
    BY <1>13, <1>15, <2>1
  <2>4. \A s \in Slots : fd'[s] # None => fd'[s] \in Conns /\ sock'[fd'[s]].st = "open"
    <3> SUFFICES ASSUME NEW s \in Slots, fd'[s] # None
                 PROVE fd'[s] \in Conns /\ sock'[fd'[s]].st = "open"
      OBVIOUS
    <3>1. s \notin S /\ fd'[s] = fd[s] /\ fd[s] \in Conns /\ fd[s] # None
      BY <1>13 DEF PoolInv
    <3>2. ~ \E t \in S : fd[t] = fd[s]
      BY <1>3, <2>2, <3>1
    <3>3. sock[fd[s]].st = "open"
      BY <2>1, <3>1
    <3> QED
      BY <1>15, <3>1, <3>2, <3>3
  <2> QED
    BY <2>3, <2>4
<1>17. PoolIsPartitioned'
  BY <1>10, <1>12, <1>14, <1>16 DEF PoolIsPartitioned
<1>18. QueueOK'
  <2>1. backlog \in Seq(Conns) /\ \A i \in DOMAIN backlog : sock[backlog[i]].st = "queued"
    BY DEF PoolInv, QueueOK
  <2>2. \A i \in DOMAIN backlog : backlog[i] \in Conns
    BY <2>1
  <2>3. \A s \in S : fd[s] \in Conns /\ sock[fd[s]].st = "open"
    BY <1>3 DEF PoolInv, PoolIsPartitioned
  <2>4. \A i \in DOMAIN backlog : sock'[backlog[i]] = sock[backlog[i]]
    BY <1>15, <2>1, <2>2, <2>3
  <2> QED
    BY <1>2, <2>4, ZenonT(30) DEF PoolInv, QueueOK
<1>19. EventsAreCurrent'
  BY <1>2 DEF EventsAreCurrent
<1> QED
  BY <1>2, <1>8, <1>13, <1>15, <1>17, <1>18, <1>19 DEF PoolInv

-----------------------------------------------------------------------------
\* Every step of the worker and of its clients keeps the pool invariant.
LEMMA PoolStep == PoolInv /\ [Next]_vars => PoolInv'
<1> SUFFICES ASSUME PoolInv, [Next]_vars PROVE PoolInv'
  OBVIOUS
<1>0. SocksOK /\ EventsAreCurrent /\ batch \in [Slots -> SUBSET Events]
  BY DEF PoolInv
<1>1. CASE Wait
  <2>1. fd' = fd /\ free' = free /\ backlog' = backlog /\ sock' = sock
        /\ batch' = [s \in Slots |-> Ready(s)]
    BY <1>1 DEF Wait, worker, peers
  <2>2. \A s \in Slots : Ready(s) \in SUBSET Events /\ (Ready(s) # {} => fd[s] # None)
    BY DEF Ready
  <2>3. batch' \in [Slots -> SUBSET Events] /\ \A s \in Slots : batch'[s] # {} => fd[s] # None
    BY <2>1, <2>2
  <2> QED
    BY <1>0, <2>1, <2>3, PoolUntouched DEF SocksOK
<1>2. CASE Accept
  BY <1>2, PoolAccept
<1>3. CASE Sweep
  BY <1>3, PoolSweep
<1>4. CASE Tick
  <2>1. fd' = fd /\ free' = free /\ backlog' = backlog /\ sock' = sock /\ batch' = batch
    BY <1>4 DEF Tick, peers
  <2> QED
    BY <1>0, <2>1, PoolUntouched DEF SocksOK, EventsAreCurrent
<1>5. ASSUME NEW s \in Slots, Handle(s) PROVE PoolInv'
  BY <1>5, PoolHandle
<1>6. ASSUME NEW c \in Conns, Connect(c) PROVE PoolInv'
  <2>1. fd' = fd /\ free' = free /\ batch' = batch /\ backlog' = Append(backlog, c)
        /\ sock' = [sock EXCEPT ![c] = [sock[c] EXCEPT !.st = "queued"]] /\ sock[c].st = "none"
    BY <1>6 DEF Connect, Client, worker, loop
  <2>2. SocksOK' /\ sock'[c].st = "queued" /\ \A d \in Conns : d # c => sock'[d] = sock[d]
    BY <1>0, <2>1 DEF SocksOK
  <2>3. QueueOK'
    <3>1. /\ backlog \in Seq(Conns) /\ \A i \in DOMAIN backlog : backlog[i] # c
          /\ \A i, j \in DOMAIN backlog : backlog[i] = backlog[j] => i = j
          /\ \A i \in DOMAIN backlog : sock[backlog[i]].st = "queued"
      BY <2>1 DEF PoolInv, QueueOK
    <3>2. \A i \in DOMAIN backlog : backlog[i] \in Conns
      BY <3>1
    <3>3. /\ backlog' \in Seq(Conns) /\ backlog'[Len(backlog) + 1] = c
          /\ \A i \in DOMAIN backlog' :
               i = Len(backlog) + 1 \/ (i \in DOMAIN backlog /\ backlog'[i] = backlog[i])
      BY <2>1, <3>1
    <3> QED
      BY <2>2, <3>1, <3>2, <3>3 DEF QueueOK
  <2>4. {d \in Conns : sock'[d].st = "open"} = {d \in Conns : sock[d].st = "open"}
    BY <2>1, <2>2
  <2>5. PoolIsPartitioned'
    BY <2>1, <2>4 DEF PoolInv, PoolIsPartitioned
  <2>6. EventsAreCurrent'
    BY <1>0, <2>1 DEF EventsAreCurrent
  <2> QED
    BY <2>1, <2>2, <2>3, <2>5, <2>6 DEF PoolInv
<1>7. ASSUME NEW c \in Conns, Send(c) \/ Take(c) \/ HalfClose(c) \/ Reset(c) PROVE PoolInv'
  <2>1. "st" \in DOMAIN sock[c]
    BY <1>0 DEF SocksOK
  <2>2. CASE Send(c)
    BY <2>1, <2>2, ClientKeeps DEF Send
  <2>3. CASE Take(c)
    BY <2>1, <2>3, ClientKeeps DEF Take
  <2>4. CASE HalfClose(c)
    BY <2>1, <2>4, ClientKeeps DEF HalfClose
  <2>5. CASE Reset(c)
    BY <2>1, <2>5, ClientKeeps DEF Reset
  <2> QED
    BY <1>7, <2>2, <2>3, <2>4, <2>5
<1>8. CASE UNCHANGED vars
  BY <1>8, <1>0, PoolUntouched DEF vars, SocksOK, EventsAreCurrent
<1> QED
  BY <1>1, <1>2, <1>3, <1>4, <1>5, <1>6, <1>7, <1>8 DEF Next

\* For any number of slots, clients and scripts: the free list holds each free
\* slot once, and a socket is open exactly while one slot serves it (pool.c,
\* try_accept, close_conn, sweep_idle).
THEOREM PoolPartitioned == Spec => []PoolIsPartitioned
<1>1. PoolInv => PoolIsPartitioned
  BY DEF PoolInv
<1> QED
  BY <1>1, PoolInit, PoolStep, PTL DEF Spec

\* An event of the current batch is never applied to a slot whose connection is
\* gone (the pointer in epoll_event.data), although slots are freed and reused
\* while the batch is worked off.
THEOREM NoEventOutlivesItsConnection == Spec => []EventsAreCurrent
<1>1. PoolInv => EventsAreCurrent
  BY DEF PoolInv
<1> QED
  BY <1>1, PoolInit, PoolStep, PTL DEF Spec

-----------------------------------------------------------------------------
(* Response bodies.                                                        *)

\* What the handlers work on: a record of these fields, in which only an answer
\* that is going out holds a body.
Fields == {"state", "buf", "need", "wire", "sent", "closing", "reqs", "half", "mask", "age", "owned",
           "out", "taken", "rst", "got", "heap", "done"}
Sane(x) ==
    /\ DOMAIN x = Fields /\ x.heap \in Int /\ x.owned \in BOOLEAN
    /\ x.owned => x.state = "writing"

\* The bodies that others hold.
Others(x) == x.heap - (IF x.owned THEN 1 ELSE 0)

\* A slot holds a body only while it sends one, and a free slot holds none.
SlotsSane ==
    /\ DOMAIN conn = Slots
    /\ \A s \in Slots :
         /\ DOMAIN conn[s] = DOMAIN Fresh /\ conn[s].owned \in BOOLEAN
         /\ conn[s].owned => conn[s].state = "writing" /\ fd[s] # None

BodiesInv == PoolInv /\ SlotsSane /\ BodiesAreReleased

\* y is x after a step that allocates and releases nothing.
Alike(x, y) == DOMAIN y = DOMAIN x /\ y.heap = x.heap /\ y.owned = x.owned /\ y.state = x.state

\* Such a step leaves everything about bodies as it is.
LEMMA AlikeKeeps ==
    ASSUME NEW x, NEW y, Sane(x), Alike(x, y)
    PROVE  Sane(y) /\ Others(y) = Others(x)
  BY DEF Sane, Others, Alike

\* What only sets the mask, the decision, the buffers or the flags of a
\* connection allocates and releases nothing.
LEMMA Decided ==
    ASSUME NEW x, Sane(x), NEW what, NEW mask
    PROVE  Alike(x, Decide(x, what)) /\ Alike(x, StayFor(x, mask)) /\ Alike(x, AwaitMore(x))
<1>1. Alike(x, Decide(x, what))  BY DEF Sane, Fields, Alike, Decide
<1>2. \A m : Alike(x, StayFor(x, m))  BY DEF Sane, Fields, Alike, StayFor
<1>3. Alike(x, Decide(x, "close"))  BY DEF Sane, Fields, Alike, Decide
<1>4. Alike(x, AwaitMore(x))  BY <1>2, <1>3 DEF AwaitMore
<1> QED  BY <1>1, <1>2, <1>4

\* try_send moves what it can to the socket.
LEMMA TrySendKeeps ==
    ASSUME NEW x, Sane(x)
    PROVE  Alike(x, TrySend(x))
<1>1. Alike(x, x)  BY DEF Alike
<1>2. Alike(x, Decide(x, "close"))  BY Decided
<1> DEFINE n == Lesser(Room(x), Unsent(x))
           y == [x EXCEPT !.sent = @ + n, !.out = @ \o SubSeq(x.wire, x.sent + 1, x.sent + n)]
<1>3. Alike(x, y)
  <2> HIDE DEF n
  <2> QED  BY DEF Sane, Fields, Alike
<1>4. Alike(x, StayFor(y, {"out", "rdhup"}))
  <2> HIDE DEF y
  <2>1. Alike(y, StayFor(y, {"out", "rdhup"}))  BY <1>3, AlikeKeeps, Decided
  <2> QED  BY <1>3, <2>1 DEF Alike
<1> QED  BY <1>1, <1>2, <1>3, <1>4 DEF TrySend

\* An answer is put into a connection that has none.
LEMMA AnsweringKeeps ==
    ASSUME NEW x, Sane(x), ~ x.owned, NEW w, NEW c, NEW b
    PROVE  /\ Sane(Answering(x, w, c, b)) /\ ~ Answering(x, w, c, b).owned
           /\ Answering(x, w, c, b).heap = x.heap /\ Answering(x, w, c, b).state = "writing"
           /\ Others(Answering(x, w, c, b)) = Others(x)
<1> DEFINE a == Answering(x, w, c, b)
<1>1. DOMAIN a = Fields /\ a.state = "writing" /\ a.owned = x.owned /\ a.heap = x.heap
  BY DEF Sane, Fields, Answering
<1> HIDE DEF a
<1>2. Sane(a) /\ Others(a) = Others(x)  BY <1>1 DEF Sane, Others
<1> QED  BY <1>1, <1>2 DEF a

\* api_run, and the 413 answer: one body is allocated, and this connection sends it.
LEMMA ApiKeeps ==
    ASSUME NEW x, Sane(x), ~ x.owned, NEW p
    PROVE  /\ Sane(ApiRun(x, p)) /\ Others(ApiRun(x, p)) = Others(x)
           /\ Sane(ApiTooLarge(x, p)) /\ Others(ApiTooLarge(x, p)) = Others(x)
<1>1. ASSUME NEW a, Sane(a), ~ a.owned, a.heap = x.heap, a.state = "writing"
      PROVE  LET y == [a EXCEPT !.owned = TRUE, !.heap = @ + 1] IN Sane(y) /\ Others(y) = Others(x)
  <2> DEFINE y == [a EXCEPT !.owned = TRUE, !.heap = @ + 1]
  <2>1. DOMAIN y = Fields /\ y.heap = x.heap + 1 /\ y.state = "writing"  BY <1>1 DEF Sane, Fields
  <2>2. y.owned  BY <1>1 DEF Sane, Fields
  <2>3. x.heap \in Int  BY DEF Sane
  <2> HIDE DEF y
  <2>4. Sane(y)
    <3>1. y.owned \in BOOLEAN  BY <2>2, Zenon
    <3>2. y.heap \in Int  BY <2>1, <2>3
    <3> QED  BY <2>1, <3>1, <3>2 DEF Sane
  <2>5. Others(y) = Others(x)  BY <2>1, <2>2, <2>3 DEF Others
  <2> QED  BY <2>4, <2>5 DEF y
<1>2. /\ Sane(Answering(x, Reply("post", p), TRUE, <<>>)) /\ ~ Answering(x, Reply("post", p), TRUE, <<>>).owned
      /\ Answering(x, Reply("post", p), TRUE, <<>>).heap = x.heap
      /\ Answering(x, Reply("post", p), TRUE, <<>>).state = "writing"
  BY AnsweringKeeps, ZenonT(30)
<1>3. /\ Sane(Answering(x, Error(p), TRUE, <<>>)) /\ ~ Answering(x, Error(p), TRUE, <<>>).owned
      /\ Answering(x, Error(p), TRUE, <<>>).heap = x.heap
      /\ Answering(x, Error(p), TRUE, <<>>).state = "writing"
  BY AnsweringKeeps, ZenonT(30)
<1> QED  BY <1>1, <1>2, <1>3, Zenon DEF ApiRun, ApiTooLarge

\* dispatch_one on a connection without an answer: if a body is allocated, this
\* connection is going to send it.
LEMMA DispatchKeeps ==
    ASSUME NEW x, Sane(x), ~ x.owned
    PROVE  Sane(DispatchOne(x)) /\ Others(DispatchOne(x)) = Others(x)
<1> DEFINE r == [x EXCEPT !.reqs = @ + 1]
<1>1. Sane(r) /\ ~ r.owned /\ Others(r) = Others(x)
  <2>1. DOMAIN r = Fields /\ r.owned = x.owned /\ r.heap = x.heap /\ r.state = x.state  BY DEF Sane, Fields
  <2> HIDE DEF r
  <2> QED  BY <2>1 DEF Sane, Others
<1>2. ASSUME NEW w, NEW c, NEW b PROVE Sane(Answering(r, w, c, b)) /\ Others(Answering(r, w, c, b)) = Others(x)
  <2> HIDE DEF r
  <2>1. Sane(r) /\ ~ r.owned /\ Others(r) = Others(x)  BY <1>1
  <2>2. Sane(Answering(r, w, c, b)) /\ Others(Answering(r, w, c, b)) = Others(r)  BY <2>1, AnsweringKeeps
  <2> QED  BY <2>1, <2>2
<1>3. ASSUME NEW k, NEW p
      PROVE  LET y == [x EXCEPT !.reqs = @ + 1, !.need = k] IN
             /\ Sane(ApiRun(y, p)) /\ Others(ApiRun(y, p)) = Others(x)
             /\ Sane(ApiTooLarge(y, p)) /\ Others(ApiTooLarge(y, p)) = Others(x)
             /\ Sane([y EXCEPT !.state = "body"]) /\ Others([y EXCEPT !.state = "body"]) = Others(x)
  <2> DEFINE y == [x EXCEPT !.reqs = @ + 1, !.need = k]  z == [y EXCEPT !.state = "body"]
  <2>1. DOMAIN y = Fields /\ y.owned = x.owned /\ y.heap = x.heap /\ y.state = x.state  BY DEF Sane, Fields
  <2> HIDE DEF y
  <2>2. Sane(y) /\ ~ y.owned /\ Others(y) = Others(x)  BY <2>1 DEF Sane, Others
  <2>3. DOMAIN z = Fields /\ z.owned = y.owned /\ z.heap = y.heap  BY <2>1 DEF Fields
  <2> HIDE DEF z
  <2>4. Sane(z) /\ Others(z) = Others(x)  BY <2>2, <2>3 DEF Sane, Others
  <2>5. Sane(ApiRun(y, p)) /\ Others(ApiRun(y, p)) = Others(x) /\ Sane(ApiTooLarge(y, p)) /\ Others(ApiTooLarge(y, p)) = Others(x)
    BY <2>2, ApiKeeps
  <2> QED  BY <2>4, <2>5 DEF y, z
<1>4. ASSUME NEW w, NEW c, NEW b
      PROVE  LET y == [Answering(x, w, c, b) EXCEPT !.reqs = @ + 1] IN Sane(y) /\ Others(y) = Others(x)
  <2> DEFINE a == Answering(x, w, c, b)  y == [a EXCEPT !.reqs = @ + 1]
  <2>1. Sane(a) /\ ~ a.owned /\ Others(a) = Others(x)  BY AnsweringKeeps, Zenon
  <2> HIDE DEF a
  <2>2. DOMAIN y = Fields /\ y.owned = a.owned /\ y.heap = a.heap /\ y.state = a.state  BY <2>1 DEF Sane, Fields
  <2> HIDE DEF y
  <2>3. Sane(y) /\ Others(y) = Others(x)  BY <2>1, <2>2 DEF Sane, Others
  <2> QED  BY <2>3 DEF y, a
<1> HIDE DEF r
<1> QED  BY <1>2, <1>3, <1>4, Zenon DEF DispatchOne, r

\* The body of an answer that is out is released.
LEMMA ReleasedKeeps ==
    ASSUME NEW x, Sane(x)
    PROVE  Sane(Released(x)) /\ ~ Released(x).owned /\ Others(Released(x)) = Others(x)
<1> DEFINE y == Released(x)
<1>1. DOMAIN y = Fields /\ y.heap = (IF x.owned THEN x.heap - 1 ELSE x.heap) /\ x.heap \in Int  BY DEF Sane, Fields, Released
<1>2. y.owned = FALSE  BY DEF Sane, Fields, Released
<1> HIDE DEF y
<1>3. Others(y) = Others(x)
  <2>1. CASE x.owned  BY <1>1, <1>2, <2>1 DEF Others
  <2>2. CASE ~ x.owned  BY <1>1, <1>2, <2>2 DEF Others
  <2> QED  BY <2>1, <2>2
<1>4. Sane(y)
  <2>1. y.owned \in BOOLEAN  BY <1>2, Zenon
  <2>2. y.heap \in Int
    <3>1. CASE x.owned  BY <1>1, <3>1
    <3>2. CASE ~ x.owned  BY <1>1, <3>2
    <3> QED  BY <3>1, <3>2
  <2> QED  BY <1>1, <1>2, <2>1, <2>2 DEF Sane
<1> QED  BY <1>2, <1>3, <1>4 DEF y

\* One turn of post_send.
LEMMA TurnKeeps ==
    ASSUME NEW x, Sane(x)
    PROVE  Sane(Turn(x)) /\ Others(Turn(x)) = Others(x)
<1> DEFINE y == Released(x)  z == DispatchOne(y)
<1>1. Sane(y) /\ ~ y.owned /\ Others(y) = Others(x)  BY ReleasedKeeps
<1> HIDE DEF y
<1>2. Sane(z) /\ Others(z) = Others(x)  BY <1>1, DispatchKeeps
<1> HIDE DEF z
<1>3. Sane(AwaitMore(y)) /\ Others(AwaitMore(y)) = Others(x)  BY <1>1, Decided, AlikeKeeps
<1>4. Sane(AwaitMore(z)) /\ Others(AwaitMore(z)) = Others(x)  BY <1>2, Decided, AlikeKeeps
<1>5. Sane(TrySend(z)) /\ Others(TrySend(z)) = Others(x)  BY <1>2, TrySendKeeps, AlikeKeeps
<1>6. Sane(Decide(x, "close")) /\ Others(Decide(x, "close")) = Others(x)  BY Decided, AlikeKeeps
<1> QED  BY <1>3, <1>4, <1>5, <1>6 DEF Turn, y, z

\* Induction over the natural numbers, for sets.
LEMMA EveryNatural ==
    ASSUME NEW S, 0 \in S, \A n \in Nat : n \in S => n + 1 \in S
    PROVE  \A n \in Nat : n \in S
<1> SUFFICES ASSUME Nat \ S # {} PROVE FALSE  OBVIOUS
<1>1. IsWellFoundedOn(OpToRel(<, Nat), Nat)  BY NatLessThanWellFounded, Zenon
<1>2. PICK m \in Nat \ S : \A n \in Nat \ S : <<n, m>> \notin OpToRel(<, Nat)  BY <1>1, WFMin, Zenon
<1>3. m - 1 \in Nat /\ m = (m - 1) + 1  OBVIOUS
<1>4. m - 1 \notin S  BY <1>3
<1>5. <<m - 1, m>> \in OpToRel(<, Nat)  BY <1>3 DEF OpToRel
<1> QED  BY <1>2, <1>3, <1>4, <1>5, Zenon

\* The loop of post_send does what it says: each turn goes on from the last one.
LEMMA TurnsUnfold ==
    ASSUME NEW x
    PROVE  Turns(x) = [n \in 0..Budget |-> IF n = 0 THEN x ELSE Turn(Turns(x)[n - 1])]
<1> DEFINE Unrolled(f, k) == f = [n \in 0..k |-> IF n = 0 THEN x ELSE Turn(f[n - 1])]
           S == {k \in Nat : \E f : Unrolled(f, k)}
<1>1. 0 \in S
  <2>1. Unrolled([n \in 0..0 |-> x], 0)  OBVIOUS
  <2> QED  BY <2>1, Zenon
<1>2. ASSUME NEW k \in Nat, k \in S PROVE k + 1 \in S
  <2>1. PICK f : Unrolled(f, k)  BY <1>2
  <2> DEFINE g == [n \in 0..k + 1 |-> IF n = k + 1 THEN Turn(f[k]) ELSE f[n]]
  <2>2. ASSUME NEW n \in 0..k + 1 PROVE g[n] = IF n = 0 THEN x ELSE Turn(g[n - 1])
    <3>1. CASE n = k + 1
      <4>1. n - 1 \in 0..k + 1 /\ n - 1 = k /\ n - 1 # k + 1 /\ n # 0  BY <3>1
      <4> QED  BY <3>1, <4>1
    <3>2. CASE n # k + 1
      <4>1. n \in 0..k  BY <3>2
      <4>2. f[n] = IF n = 0 THEN x ELSE Turn(f[n - 1])  BY <2>1, <4>1
      <4>3. n # 0 => n - 1 \in 0..k + 1 /\ n - 1 # k + 1  BY <4>1
      <4> QED  BY <3>2, <4>2, <4>3
    <3> QED  BY <3>1, <3>2
  <2>3. DOMAIN g = 0..k + 1 /\ g = [n \in 0..k + 1 |-> g[n]]  OBVIOUS
  <2> HIDE DEF g
  <2>4. Unrolled(g, k + 1)  BY <2>2, <2>3, Zenon
  <2> QED  BY <2>4
<1>3. Budget \in S
  <2> HIDE DEF S
  <2> QED  BY <1>1, <1>2, EveryNatural, EpollAssumption
<1>4. \E f : f = [n \in 0..Budget |-> IF n = 0 THEN x ELSE Turn(f[n - 1])]  BY <1>3
<1> QED  BY <1>4, Zenon DEF Turns

\* post_send, however many pipelined requests it answers: every body but the one
\* going out at the end was released.
LEMMA PostSendKeeps ==
    ASSUME NEW x, Sane(x)
    PROVE  Sane(PostSend(x)) /\ Others(PostSend(x)) = Others(x)
<1> DEFINE Good(y) == Sane(y) /\ Others(y) = Others(x)
           S == {n \in Nat : n \in 0..Budget => Good(Turns(x)[n])}
<1>1. 0 \in S
  <2>1. Turns(x)[0] = x  BY TurnsUnfold, EpollAssumption
  <2> QED  BY <2>1
<1>2. ASSUME NEW n \in Nat, n \in S PROVE n + 1 \in S
  <2> SUFFICES ASSUME n + 1 \in 0..Budget PROVE Good(Turns(x)[n + 1])  OBVIOUS
  <2>1. n \in 0..Budget /\ n + 1 # 0 /\ (n + 1) - 1 = n  BY EpollAssumption
  <2> DEFINE m == n + 1  t == Turns(x)
  <2>4. m \in 0..Budget /\ m # 0 /\ m - 1 = n  BY <2>1
  <2>5. t = [k \in 0..Budget |-> IF k = 0 THEN x ELSE Turn(t[k - 1])]  BY TurnsUnfold
  <2> HIDE DEF m, t
  <2>6. t[m] = Turn(t[m - 1])  BY <2>4, <2>5, Zenon
  <2>2. Turns(x)[n + 1] = Turn(Turns(x)[n])  BY <2>4, <2>6 DEF m, t
  <2>3. Good(Turns(x)[n])  BY <1>2, <2>1
  <2> QED  BY <2>2, <2>3, TurnKeeps
<1>3. Budget \in S /\ Budget \in 0..Budget
  <2> HIDE DEF S
  <2> QED  BY <1>1, <1>2, EveryNatural, EpollAssumption
<1> DEFINE y == Turns(x)[Budget]
<1>4. Good(y)  BY <1>3
<1> HIDE DEF y
<1>5. Good(StayFor(y, {"in", "rdhup"}))  BY <1>4, Decided, AlikeKeeps
<1> QED  BY <1>4, <1>5 DEF PostSend, y

\* try_send, and post_send when everything is out.
LEMMA SendOutKeeps ==
    ASSUME NEW x, Sane(x)
    PROVE  Sane(SendOut(x)) /\ Others(SendOut(x)) = Others(x)
<1> DEFINE y == TrySend(x)
<1>1. Sane(y) /\ Others(y) = Others(x)  BY TrySendKeeps, AlikeKeeps
<1> HIDE DEF y
<1>2. Sane(PostSend(y)) /\ Others(PostSend(y)) = Others(x)  BY <1>1, PostSendKeeps
<1> QED  BY <1>1, <1>2 DEF SendOut, y

\* The read loop allocates and releases nothing.
LEMMA IncomingKeeps ==
    ASSUME NEW x, Sane(x), NEW c
    PROVE  Alike(x, Incoming(x, c))
<1> DEFINE n == Lesser(Space(x), sock[c].sent - sock[c].got)
           y == [x EXCEPT !.buf = @ \o [i \in 1..n |-> <<script[c][sock[c].got + i], sock[c].got + i>>],
                          !.got = @ + n]
<1>1. Alike(x, y)
  <2> HIDE DEF n
  <2> QED  BY DEF Sane, Fields, Alike
<1> DEFINE h == y.half \/ (sock[c].fin /\ y.got = sock[c].sent /\ Len(y.buf) < BufCap)
           z == [y EXCEPT !.half = h]
<1>2. Incoming(x, c) = z  BY DEF Incoming
<1> HIDE DEF y
<1>3. Alike(y, z)
  <2> HIDE DEF h
  <2> QED  BY <1>1 DEF Sane, Fields, Alike
<1> QED  BY <1>1, <1>2, <1>3 DEF Alike

\* handle_readable, on a connection that is not sending.
LEMMA HandleReadableKeeps ==
    ASSUME NEW x, Sane(x), ~ x.owned, NEW c
    PROVE  Sane(HandleReadable(x, c)) /\ Others(HandleReadable(x, c)) = Others(x)
<1> DEFINE Good(u) == Sane(u) /\ Others(u) = Others(x)
           y == Incoming(x, c)
           z == DispatchOne(y)
           a == ApiRun(y, y.buf[y.need - 1][2])
<1>1. Good(y) /\ ~ y.owned
  <2>1. Alike(x, y)  BY IncomingKeeps
  <2> HIDE DEF y
  <2> QED  BY <2>1, AlikeKeeps DEF Alike
<1> HIDE DEF y
<1>2. Good(z)  BY <1>1, DispatchKeeps
<1>3. Good(a)
  <2> DEFINE p == y.buf[y.need - 1][2]
  <2> HIDE DEF p
  <2>1. Good(ApiRun(y, p))  BY <1>1, ApiKeeps
  <2> QED  BY <2>1 DEF p
<1> HIDE DEF z, a
<1>4. Good(SendOut(z)) /\ Good(SendOut(a))  BY <1>2, <1>3, SendOutKeeps
<1>5. \A what : Good(Decide(x, what)) /\ Good(Decide(y, what)) /\ Good(Decide(z, what))
  BY <1>1, <1>2, Decided, AlikeKeeps
<1>6. \/ HandleReadable(x, c) = Decide(x, "close")
      \/ HandleReadable(x, c) = Decide(y, IF y.half THEN "close" ELSE "stay")
      \/ HandleReadable(x, c) = SendOut(a)
      \/ HandleReadable(x, c) = Decide(z, "stay")
      \/ HandleReadable(x, c) = SendOut(z)
  BY Zenon DEF HandleReadable, y, z, a
<1> QED  BY <1>4, <1>5, <1>6

\* Whatever the events: the bodies of the others stay, and the connection has a
\* body only while it is sending.
LEMMA OnEventsKeeps ==
    ASSUME NEW x, Sane(x), NEW c, NEW ev
    PROVE  Sane(OnEvents(x, c, ev)) /\ Others(OnEvents(x, c, ev)) = Others(x)
<1> DEFINE Good(u) == Sane(u) /\ Others(u) = Others(x)
           h == x.half \/ "rdhup" \in ev
           y == [x EXCEPT !.half = h]
<1>1. Good(y)
  <2>1. Alike(x, y)
    <3> HIDE DEF h
    <3> QED  BY DEF Sane, Fields, Alike
  <2> HIDE DEF y
  <2> QED  BY <2>1, AlikeKeeps
<1> HIDE DEF y
<1>2. Good(SendOut(y))  BY <1>1, SendOutKeeps
<1>3. \A what : Good(Decide(x, what)) /\ Good(Decide(y, what))  BY <1>1, Decided, AlikeKeeps
<1>4. y.state # "writing" => Good(HandleReadable(y, c))
  <2>1. y.state # "writing" => ~ y.owned  BY <1>1 DEF Sane
  <2> QED  BY <1>1, <2>1, HandleReadableKeeps
<1>5. \/ \E what : OnEvents(x, c, ev) \in {Decide(x, what), Decide(y, what)}
      \/ OnEvents(x, c, ev) = SendOut(y)
      \/ y.state # "writing" /\ OnEvents(x, c, ev) = HandleReadable(y, c)
  BY DEF OnEvents, y
<1> QED  BY <1>2, <1>3, <1>4, <1>5

\* Counting: one element more or less.
LEMMA OneMore ==
    ASSUME NEW A, IsFiniteSet(A), NEW s
    PROVE  /\ Cardinality(A \ {s}) \in Nat
           /\ Cardinality(A) = Cardinality(A \ {s}) + (IF s \in A THEN 1 ELSE 0)
<1>1. IsFiniteSet(A \ {s}) /\ Cardinality(A \ {s}) = IF s \in A THEN Cardinality(A) - 1 ELSE Cardinality(A)
  BY FS_RemoveElement
<1>2. Cardinality(A) \in Nat /\ Cardinality(A \ {s}) \in Nat  BY <1>1, FS_CardinalityType
<1> QED  BY <1>1, <1>2

\* The context of a handler: the slot's conn_t, with the heap and the socket.
LEMMA ContextSane ==
    ASSUME SlotsSane, heap \in Int, NEW s \in Slots
    PROVE  /\ Sane(Context(s)) /\ Context(s).heap = heap
           /\ Context(s).owned = conn[s].owned
<1> DEFINE k == sock[fd[s]]
           g == [out |-> k.out, taken |-> k.taken, rst |-> k.rst, got |-> k.got, heap |-> heap, done |-> "go"]
           x == Context(s)
<1>1. DOMAIN conn[s] = DOMAIN Fresh  BY DEF SlotsSane
<1>2. DOMAIN Fresh = {"state", "buf", "need", "wire", "sent", "closing", "reqs", "half", "mask", "age", "owned"}
  BY DEF Fresh
<1>3. DOMAIN g = {"out", "taken", "rst", "got", "heap", "done"} /\ g.heap = heap  OBVIOUS
<1>4. x = [f \in DOMAIN conn[s] \cup DOMAIN g |-> IF f \in DOMAIN g THEN g[f] ELSE conn[s][f]]
  BY DEF Context
<1> HIDE DEF x, g
<1>5. DOMAIN x = Fields  BY <1>1, <1>2, <1>3, <1>4 DEF Fields
<1>6. x.heap = heap /\ x.state = conn[s].state  BY <1>1, <1>2, <1>3, <1>4
<1>7. x.owned = conn[s].owned  BY <1>1, <1>2, <1>3, <1>4
<1>8. Sane(x)
  <2>1. x.owned \in BOOLEAN /\ (x.owned => x.state = "writing")  BY <1>6, <1>7 DEF SlotsSane
  <2> QED  BY <1>5, <1>6, <2>1 DEF Sane
<1> QED  BY <1>6, <1>7, <1>8 DEF x

\* The slots that hold a body.
Holders == {s \in Slots : conn[s].owned}

\* There are finitely many.
LEMMA HoldersFinite == IsFiniteSet(Holders) /\ (BodiesAreReleased => heap = Cardinality(Holders) /\ heap \in Int)
<1>1. IsFiniteSet(Slots)  BY FS_Interval, EpollAssumption DEF Slots
<1>2. IsFiniteSet(Holders)  BY <1>1, FS_Subset DEF Holders
<1>3. Cardinality(Holders) \in Nat  BY <1>2, FS_CardinalityType
<1> QED  BY <1>2, <1>3 DEF BodiesAreReleased, Owned, Holders

\* One slot changes, and the heap with it.
LEMMA OneSlot ==
    ASSUME SlotsSane, BodiesAreReleased, NEW s \in Slots, conn'[s].owned \in BOOLEAN,
           \A t \in Slots : t # s => conn'[t] = conn[t],
           heap' = (heap - (IF conn[s].owned THEN 1 ELSE 0)) + (IF conn'[s].owned THEN 1 ELSE 0)
    PROVE  BodiesAreReleased'
<1>1. \A t \in Slots : t # s => conn'[t] = conn[t]  OBVIOUS
<1>2. PICK A : A = Holders  OBVIOUS
<1>3. PICK B : B = Holders'  OBVIOUS
<1>4. A \ {s} = B \ {s}  BY <1>1, <1>2, <1>3 DEF Holders, Slots
<1>5. (s \in A) = conn[s].owned /\ (s \in B) = conn'[s].owned
  <2>1. s \in A <=> conn[s].owned  BY <1>2 DEF Holders
  <2>2. s \in B <=> conn'[s].owned  BY <1>1, <1>3 DEF Holders, Slots
  <2> QED  BY <2>1, <2>2 DEF SlotsSane
<1>6. IsFiniteSet(A) /\ heap = Cardinality(A)  BY <1>2, HoldersFinite
<1>7. IsFiniteSet(B)
  <2>1. IsFiniteSet(Slots)  BY FS_Interval, EpollAssumption DEF Slots
  <2>2. B \subseteq Slots  BY <1>3 DEF Holders, Slots
  <2> QED  BY <2>1, <2>2, FS_Subset
<1>8. /\ Cardinality(A \ {s}) \in Nat
      /\ Cardinality(A) = Cardinality(A \ {s}) + (IF s \in A THEN 1 ELSE 0)
      /\ Cardinality(B) = Cardinality(B \ {s}) + (IF s \in B THEN 1 ELSE 0)
  BY <1>6, <1>7, OneMore
<1>9. heap' = Cardinality(B)
  <2>1. Cardinality(B \ {s}) = Cardinality(A \ {s})  BY <1>4
  <2>2. heap' = (Cardinality(A) - (IF s \in A THEN 1 ELSE 0)) + (IF s \in B THEN 1 ELSE 0)  BY <1>5, <1>6, Zenon
  <2> QED  BY <1>8, <2>1, <2>2
<1>10. Owned(Slots)' = Cardinality(B)  BY <1>3 DEF Owned, Holders, Slots
<1> QED  BY <1>9, <1>10 DEF BodiesAreReleased

\* A handler: close_conn releases the body the connection holds, and a connection
\* that stays keeps the one it is sending.
LEMMA BodiesHandle ==
    ASSUME BodiesInv, NEW s \in Slots, Handle(s)
    PROVE  SlotsSane' /\ BodiesAreReleased'
<1>1. PICK x : x = OnEvents(Context(s), fd[s], batch[s])  OBVIOUS
<1>2. heap \in Int /\ SlotsSane /\ BodiesAreReleased  BY HoldersFinite DEF BodiesInv
<1>3. PICK y : y = Context(s)  OBVIOUS
<1>4. Sane(y) /\ y.heap = heap /\ y.owned = conn[s].owned  BY <1>2, <1>3, ContextSane
<1>5. Sane(x) /\ Others(x) = Others(y)  BY <1>1, <1>3, <1>4, OnEventsKeeps
<1>6. Others(x) = heap - (IF conn[s].owned THEN 1 ELSE 0)  BY <1>4, <1>5 DEF Others
<1>7. fd[s] # None  BY DEF BodiesInv, PoolInv, EventsAreCurrent, Handle
<1>8. CASE x.done = "close"
  <2>1. conn' = [conn EXCEPT ![s] = Fresh] /\ heap' = Unreleased(x) /\ fd' = [fd EXCEPT ![s] = None]
    BY <1>1, <1>8 DEF Handle
  <2>2. PICK k : k = Fresh  OBVIOUS
  <2>3. DOMAIN k = DOMAIN Fresh /\ k.owned = FALSE  BY <2>2 DEF Fresh
  <2>4. heap' = heap - (IF conn[s].owned THEN 1 ELSE 0)
    <3>1. Unreleased(x) = Others(x)  BY <1>5 DEF Unreleased, Others, Sane
    <3> QED  BY <1>6, <2>1, <3>1
  <2>5. heap' = (heap - (IF conn[s].owned THEN 1 ELSE 0)) + (IF k.owned THEN 1 ELSE 0)  BY <1>2, <2>3, <2>4
  <2>8. k.owned \in BOOLEAN /\ ~ k.owned  BY <2>3, Zenon
  <2>9. conn'[s] = k /\ \A t \in Slots : t # s => conn'[t] = conn[t]  BY <1>2, <2>1, <2>2 DEF SlotsSane
  <2>6. BodiesAreReleased'  BY <1>2, <2>5, <2>8, <2>9, OneSlot
  <2>7. SlotsSane'
    <3>1. DOMAIN conn' = Slots /\ conn'[s] = k /\ \A t \in Slots : t # s => conn'[t] = conn[t] /\ fd'[t] = fd[t]
      BY <1>2, <2>1, <2>2 DEF SlotsSane, BodiesInv, PoolInv
    <3> QED  BY <1>2, <2>3, <3>1, Zenon DEF SlotsSane, Slots, Fresh
  <2> QED  BY <2>6, <2>7
<1>9. CASE x.done # "close"
  <2>1. conn' = [conn EXCEPT ![s] = [f \in DOMAIN Fresh |-> x[f]]] /\ heap' = x.heap /\ fd' = fd
    BY <1>1, <1>9 DEF Handle
  <2>2. PICK k : k = [f \in DOMAIN Fresh |-> x[f]]  BY Zenon
  <2>3. DOMAIN k = DOMAIN Fresh /\ k.state = x.state  BY <2>2 DEF Fresh
  <2>4. k.owned = x.owned  BY <2>2 DEF Fresh
  <2>5. heap' = (heap - (IF conn[s].owned THEN 1 ELSE 0)) + (IF k.owned THEN 1 ELSE 0)
    BY <1>5, <1>6, <2>1, <2>4 DEF Others, Sane
  <2>6. k.owned \in BOOLEAN /\ (k.owned => k.state = "writing")  BY <1>5, <2>3, <2>4 DEF Sane
  <2>9. conn'[s] = k /\ \A t \in Slots : t # s => conn'[t] = conn[t]  BY <1>2, <2>1, <2>2 DEF SlotsSane
  <2>7. BodiesAreReleased'  BY <1>2, <2>5, <2>6, <2>9, OneSlot
  <2>8. SlotsSane'
    <3>1. DOMAIN conn' = Slots /\ conn'[s] = k /\ \A t \in Slots : t # s => conn'[t] = conn[t]
      BY <1>2, <2>1, <2>2 DEF SlotsSane
    <3> QED  BY <1>2, <1>7, <2>1, <2>3, <2>6, <3>1 DEF SlotsSane, Slots, Fresh
  <2> QED  BY <2>7, <2>8
<1> QED  BY <1>8, <1>9

\* No slot takes or gives up a body.
LEMMA SameHolders ==
    ASSUME BodiesAreReleased, heap' = heap, \A s \in Slots : conn'[s].owned <=> conn[s].owned
    PROVE  BodiesAreReleased'
<1>1. Holders' = Holders  BY DEF Holders, Slots
<1>2. Owned(Slots) = Cardinality(Holders) /\ Owned(Slots)' = Cardinality(Holders')
  BY DEF Owned, Holders, Slots
<1> QED  BY <1>1, <1>2 DEF BodiesAreReleased

\* try_accept takes free slots, and those hold no body.
LEMMA BodiesAccept ==
    ASSUME BodiesInv, Accept
    PROVE  SlotsSane' /\ BodiesAreReleased'
<1>1. PICK n : n = Lesser(Len(backlog), Len(free))  OBVIOUS
<1>2. PICK Taken : Taken = {free[i] : i \in 1..n}  BY Zenon
<1>3. SlotsSane /\ BodiesAreReleased  BY DEF BodiesInv
<1>4. /\ conn' = [s \in Slots |-> IF s \in Taken THEN Fresh ELSE conn[s]] /\ heap' = heap
      /\ \A s \in Slots : s \notin Taken => fd'[s] = fd[s]
  BY <1>1, <1>2 DEF Accept
<1>5. \A s \in Taken : fd[s] = None
  <2>1. free \in Seq(Slots) /\ backlog \in Seq(Conns)  BY DEF BodiesInv, PoolInv, QueueOK
  <2>2. n \in Nat /\ n <= Len(free) /\ DOMAIN free = 1..Len(free)  BY <1>1, <2>1 DEF Lesser
  <2>3. \A i \in 1..n : i \in DOMAIN free /\ free[i] \in Range(free)  BY <2>1, <2>2 DEF Range
  <2>4. Range(free) = {s \in Slots : fd[s] = None}  BY DEF BodiesInv, PoolInv, PoolIsPartitioned
  <2> QED  BY <1>2, <2>3, <2>4
<1>6. PICK k : k = Fresh  OBVIOUS
<1>7. DOMAIN k = DOMAIN Fresh /\ k.owned = FALSE  BY <1>6 DEF Fresh
<1>8. k.owned \in BOOLEAN  BY <1>7, Zenon
<1>9. \A s \in Slots : conn'[s] = IF s \in Taken THEN k ELSE conn[s]  BY <1>4, <1>6
<1>10. \A s \in Slots : conn'[s].owned <=> conn[s].owned
  <2>1. \A s \in Slots : s \in Taken => ~ conn[s].owned  BY <1>3, <1>5 DEF SlotsSane
  <2> QED  BY <1>7, <1>9, <2>1
<1>11. SlotsSane'
  <2>1. DOMAIN conn' = Slots  BY <1>4
  <2>2. ASSUME NEW s \in Slots PROVE /\ DOMAIN conn'[s] = DOMAIN Fresh /\ conn'[s].owned \in BOOLEAN
                                     /\ conn'[s].owned => conn'[s].state = "writing" /\ fd'[s] # None
    <3>1. CASE s \in Taken
      <4>1. conn'[s] = k  BY <1>9, <3>1
      <4> QED  BY <1>7, <1>8, <4>1
    <3>2. CASE s \notin Taken
      <4>1. conn'[s] = conn[s] /\ fd'[s] = fd[s]  BY <1>4, <1>9, <3>2
      <4> QED  BY <1>3, <4>1 DEF SlotsSane
    <3> QED  BY <3>1, <3>2
  <2> QED  BY <2>1, <2>2 DEF SlotsSane, Slots, Fresh
<1> QED  BY <1>3, <1>4, <1>10, <1>11, SameHolders

\* sweep_idle releases the bodies of the connections it closes, and no other.
LEMMA BodiesSweep ==
    ASSUME BodiesInv, Sweep
    PROVE  SlotsSane' /\ BodiesAreReleased'
<1>1. PICK S : S = {s \in Slots : due /\ Stale(s)}  BY Zenon
<1>2. SlotsSane /\ BodiesAreReleased /\ S \subseteq Slots  BY <1>1 DEF BodiesInv
<1>3. /\ conn' = [s \in Slots |-> IF s \in S THEN Fresh ELSE conn[s]] /\ heap' = heap - Owned(S)
      /\ \A s \in Slots : s \notin S => fd'[s] = fd[s]
  BY <1>1 DEF Sweep
<1>6. PICK k : k = Fresh  OBVIOUS
<1>7. DOMAIN k = DOMAIN Fresh /\ k.owned = FALSE  BY <1>6 DEF Fresh
<1>8. k.owned \in BOOLEAN  BY <1>7, Zenon
<1>9. \A s \in Slots : conn'[s] = IF s \in S THEN k ELSE conn[s]  BY <1>3, <1>6
<1>10. PICK A : A = Holders  OBVIOUS
<1>11. PICK B : B = Holders'  OBVIOUS
<1>12. B = A \ S
  <2>1. \A s \in Slots : s \in B <=> conn'[s].owned  BY <1>11 DEF Holders, Slots
  <2>2. \A s \in Slots : s \in A <=> conn[s].owned  BY <1>10 DEF Holders
  <2>3. A \subseteq Slots /\ B \subseteq Slots  BY <1>10, <1>11 DEF Holders, Slots
  <2>4. \A s \in Slots : s \in B <=> s \in A /\ s \notin S  BY <1>7, <1>9, <2>1, <2>2
  <2> QED  BY <2>3, <2>4
<1>13. Owned(S) = Cardinality(A \cap S)
  <2>1. {s \in S : conn[s].owned} = A \cap S  BY <1>2, <1>10 DEF Holders
  <2> QED  BY <2>1 DEF Owned
<1>14. IsFiniteSet(A) /\ heap = Cardinality(A) /\ heap \in Int  BY <1>2, <1>10, HoldersFinite
<1>15. Cardinality(A \ S) = Cardinality(A) - Cardinality(A \cap S)  BY <1>14, FS_Difference
<1>16. BodiesAreReleased'
  <2>1. Owned(Slots)' = Cardinality(B)  BY <1>11 DEF Owned, Holders, Slots
  <2> QED  BY <1>3, <1>12, <1>13, <1>14, <1>15, <2>1 DEF BodiesAreReleased
<1>17. SlotsSane'
  <2>1. DOMAIN conn' = Slots  BY <1>3
  <2>2. ASSUME NEW s \in Slots PROVE /\ DOMAIN conn'[s] = DOMAIN Fresh /\ conn'[s].owned \in BOOLEAN
                                     /\ conn'[s].owned => conn'[s].state = "writing" /\ fd'[s] # None
    <3>1. CASE s \in S
      <4>1. conn'[s] = k  BY <1>9, <3>1
      <4> QED  BY <1>7, <1>8, <4>1
    <3>2. CASE s \notin S
      <4>1. conn'[s] = conn[s] /\ fd'[s] = fd[s]  BY <1>3, <1>9, <3>2
      <4> QED  BY <1>2, <4>1 DEF SlotsSane
    <3> QED  BY <3>1, <3>2
  <2> QED  BY <2>1, <2>2 DEF SlotsSane, Slots, Fresh
<1> QED  BY <1>16, <1>17

\* Every step of the worker and of its clients keeps the bodies accounted for.
LEMMA BodiesStep == BodiesInv /\ [Next]_vars => BodiesInv'
<1> SUFFICES ASSUME BodiesInv, [Next]_vars PROVE BodiesInv'  OBVIOUS
<1>0. PoolInv /\ PoolInv' /\ SlotsSane /\ BodiesAreReleased  BY PoolStep DEF BodiesInv
<1>1. CASE UNCHANGED worker
  <2>1. fd' = fd /\ conn' = conn /\ heap' = heap  BY <1>1 DEF worker
  <2>2. SlotsSane'  BY <1>0, <2>1 DEF SlotsSane, Slots, Fresh
  <2> QED  BY <1>0, <2>1, <2>2, SameHolders DEF BodiesInv
<1>2. CASE Accept  BY <1>0, <1>2, BodiesAccept DEF BodiesInv
<1>3. CASE Sweep  BY <1>0, <1>3, BodiesSweep DEF BodiesInv
<1>4. CASE Tick
  <2>1. /\ heap' = heap /\ fd' = fd /\ DOMAIN conn' = Slots
        /\ \A s \in Slots : \E a : conn'[s] = [conn[s] EXCEPT !.age = a]
    BY <1>4, Zenon DEF Tick
  <2>2. \A s \in Slots : /\ DOMAIN conn'[s] = DOMAIN Fresh /\ conn'[s].state = conn[s].state
                         /\ conn'[s].owned = conn[s].owned
    <3> SUFFICES ASSUME NEW s \in Slots
                 PROVE /\ DOMAIN conn'[s] = DOMAIN Fresh /\ conn'[s].state = conn[s].state
                       /\ conn'[s].owned = conn[s].owned
      OBVIOUS
    <3>1. PICK a : conn'[s] = [conn[s] EXCEPT !.age = a]  BY <2>1
    <3>2. DOMAIN conn[s] = DOMAIN Fresh  BY <1>0 DEF SlotsSane
    <3> QED  BY <3>1, <3>2 DEF Fresh
  <2>3. SlotsSane'  BY <1>0, <2>1, <2>2 DEF SlotsSane, Slots, Fresh
  <2>4. BodiesAreReleased'  BY <1>0, <2>1, <2>2, SameHolders
  <2> QED  BY <1>0, <2>3, <2>4 DEF BodiesInv
<1>5. ASSUME NEW s \in Slots, Handle(s) PROVE BodiesInv'
  BY <1>0, <1>5, BodiesHandle DEF BodiesInv
<1>6. Wait \/ (\E c \in Conns : Connect(c) \/ Send(c) \/ Take(c) \/ HalfClose(c) \/ Reset(c)) => UNCHANGED worker
  BY DEF Wait, Connect, Send, Take, HalfClose, Reset, Client
<1>7. UNCHANGED vars => UNCHANGED worker  BY DEF vars, worker
<1> QED  BY <1>1, <1>2, <1>3, <1>4, <1>5, <1>6, <1>7 DEF Next

\* For any number of slots, clients, requests per turn and whatever the clients
\* send or leave unread: an API response body exists exactly while a slot is
\* sending it, so closing, sweeping and answering release each one once
\* (api_pending in close_conn, sweep_idle and post_send).
THEOREM BodiesReleased == Spec => []BodiesAreReleased
<1>1. Init => BodiesInv
  <2> SUFFICES ASSUME Init PROVE BodiesInv  OBVIOUS
  <2>1. DOMAIN conn = Slots /\ heap = 0 /\ \A s \in Slots : conn[s] = Fresh  BY DEF Init
  <2>2. PICK k : k = Fresh  OBVIOUS
  <2>3. k.owned = FALSE /\ DOMAIN k = DOMAIN Fresh  BY <2>2 DEF Fresh
  <2>4. k.owned \in BOOLEAN  BY <2>3, Zenon
  <2>5. SlotsSane  BY <2>1, <2>2, <2>3, <2>4 DEF SlotsSane
  <2>6. {s \in Slots : conn[s].owned} = {}  BY <2>1, <2>2, <2>3
  <2>7. BodiesAreReleased  BY <2>1, <2>6, FS_EmptySet DEF BodiesAreReleased, Owned
  <2> QED  BY <2>5, <2>7, PoolInit DEF BodiesInv
<1>2. BodiesInv => BodiesAreReleased  BY DEF BodiesInv
<1> QED  BY <1>1, <1>2, BodiesStep, PTL DEF Spec
=============================================================================
