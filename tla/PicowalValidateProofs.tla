------------------------ MODULE PicowalValidateProofs ------------------------
(***************************************************************************)
(* Lookup integrity, for any number of records, worker threads, schemas    *)
(* and schema writes, and any scan limit.                                  *)
(***************************************************************************)
EXTENDS PicowalValidate, TLAPS

\* Where a write is while it has something to check or to store.
Writing == {"readonly", "joins", "transitions", "store"}

\* What a mutation that nothing was stored beside has found out, and still
\* holds: its lookup has a parent; no child refers to the parent it deletes but
\* those it has yet to load.
Found(m) ==
    LET w == mutation[m] IN
    w.alone /\ "joins" \in w.rules =>
        /\ w.pc \in {"transitions", "store"} => w.body.fk \in parents \cup {NoValue}
        /\ w.pc = "scan" /\ ~w.capped => \A c \in Children : RefersTo(c, w.rec) => c \in w.todo
        /\ w.pc = "delete" /\ ~w.capped => \A c \in Children : ~RefersTo(c, w.rec)

\* A write that names its record names a child.
NamesAChild(m) ==
    mutation[m].pc \in Writing => mutation[m].op = "NEW" \/ mutation[m].rec \in Children

\* The inductive invariant.
ValInv ==
    /\ ValTypeOK
    /\ LookupsHold
    /\ \A m \in Mutations : Found(m) /\ NamesAChild(m)

-----------------------------------------------------------------------------
\* The next check is the first that applies: none is passed over.
LEMMA NextCheckIsFirst ==
    ASSUME NEW w, NEW d \in 0 .. 3
    PROVE  /\ NextCheck(w, d) \in Checks(w) /\ NextCheck(w, d) \in Writing
           /\ d < 2 /\ "joins" \in Checks(w) => NextCheck(w, d) \in {"readonly", "joins"}
<1> DEFINE P(r) == Order[r] > d /\ \A q \in Checks(w) : Order[q] > d => Order[r] <= Order[q]
<1>1. Checks(w) \subseteq Writing /\ "store" \in Checks(w)
  BY DEF Checks, Writing
<1>2. Order["readonly"] = 1 /\ Order["joins"] = 2 /\ Order["transitions"] = 3 /\ Order["store"] = 4
  BY DEF Order
<1>3. \E r \in Checks(w) : P(r)
  <2>1. CASE d < 1 /\ "readonly" \in Checks(w)
    BY <1>1, <1>2, <2>1 DEF Writing
  <2>2. CASE d < 2 /\ "joins" \in Checks(w) /\ ~(d < 1 /\ "readonly" \in Checks(w))
    BY <1>1, <1>2, <2>2 DEF Writing
  <2>3. CASE d < 3 /\ "transitions" \in Checks(w) /\ ~(d < 1 /\ "readonly" \in Checks(w))
               /\ ~(d < 2 /\ "joins" \in Checks(w))
    BY <1>1, <1>2, <2>3 DEF Writing
  <2>4. CASE /\ ~(d < 1 /\ "readonly" \in Checks(w)) /\ ~(d < 2 /\ "joins" \in Checks(w))
             /\ ~(d < 3 /\ "transitions" \in Checks(w))
    BY <1>1, <1>2, <2>4 DEF Writing
  <2> QED BY <2>1, <2>2, <2>3, <2>4
<1>4. NextCheck(w, d) = CHOOSE r \in Checks(w) : P(r)
  BY DEF NextCheck
<1>5. NextCheck(w, d) \in Checks(w) /\ P(NextCheck(w, d))
  <2> HIDE DEF P
  <2> QED BY <1>3, <1>4
<1> QED BY <1>1, <1>2, <1>5 DEF Writing

\* Validation starts from a sound state: no child is stored yet.
LEMMA ValInitSound == ValInit => ValInv
<1> SUFFICES ASSUME ValInit PROVE ValInv
  OBVIOUS
<1>1. Idle \in MutationType
  BY DEF Idle, Pcs, Writes, MutationType
<1>2. ValTypeOK
  BY <1>1, ValidateAssumption DEF ValInit, ValTypeOK
<1>3. LookupsHold
  BY DEF ValInit, LookupsHold, Absent
<1>4. \A m \in Mutations : Found(m) /\ NamesAChild(m)
  BY DEF ValInit, Found, NamesAChild, Idle, Writing
<1> QED BY <1>2, <1>3, <1>4 DEF ValInv

\* The two records a mutation starts and ends with.
LEMMA IdleIsTyped == /\ Idle \in MutationType /\ Idle.pc = "new" /\ Idle.alone = TRUE /\ Idle.capped = FALSE
  BY DEF Idle, MutationType, Pcs, Writes

\* A step that stores nothing: the database is as it was, one mutation moves,
\* and the new record of that mutation is typed and sound.
LEMMA QuietStep ==
    ASSUME ValInv, NEW m \in Mutations, NEW w \in MutationType,
           mutation' = [mutation EXCEPT ![m] = w],
           UNCHANGED <<parents, kids, schema, workload, loose>>,
           Found(m)', NamesAChild(m)'
    PROVE  ValInv'
<1>1. ValTypeOK'
  BY DEF ValInv, ValTypeOK, MutationType
<1>2. LookupsHold'
  BY DEF ValInv, LookupsHold
<1>3. ASSUME NEW n \in Mutations PROVE Found(n)' /\ NamesAChild(n)'
  <2>1. CASE n = m
    BY <2>1
  <2>2. CASE n # m
    <3>1. mutation'[n] = mutation[n]
      BY <2>2 DEF ValInv, ValTypeOK
    <3>2. Found(n) /\ NamesAChild(n)
      BY DEF ValInv
    <3> QED BY <3>1, <3>2 DEF Found, NamesAChild, RefersTo
  <2> QED BY <2>1, <2>2
<1> QED BY <1>1, <1>2, <1>3 DEF ValInv

\* A step that stores something: whoever else is under way is no longer alone.
LEMMA StoringStep ==
    ASSUME ValInv, NEW m \in Mutations, Stored(m),
           UNCHANGED <<schema, workload>>,
           parents' \subseteq Parents, kids' \in [Children -> Bodies \cup {Absent}],
           loose' \subseteq Children, LookupsHold'
    PROVE  ValInv'
<1>1. ASSUME NEW n \in Mutations
      PROVE  /\ mutation'[n] \in MutationType
             /\ \/ mutation'[n].pc = "new"
                \/ /\ mutation'[n].alone = FALSE /\ mutation'[n].pc = mutation[n].pc
                   /\ mutation'[n].op = mutation[n].op /\ mutation'[n].rec = mutation[n].rec
  <2>1. mutation[n] \in MutationType
    BY DEF ValInv, ValTypeOK
  <2>2. CASE n = m
    BY <2>2, IdleIsTyped DEF Stored
  <2>3. CASE n # m /\ (At(n, "new"))
    BY <2>1, <2>3 DEF Stored, At
  <2>4. CASE n # m /\ ~(At(n, "new"))
    <3>1. mutation'[n] = [mutation[n] EXCEPT !.alone = FALSE]
      BY <2>4 DEF Stored
    <3> QED BY <2>1, <3>1, Zenon DEF MutationType
  <2> QED BY <2>2, <2>3, <2>4, Zenon
<1>2. mutation' \in [Mutations -> MutationType]
  BY <1>1, Zenon DEF Stored
<1>3. ValTypeOK'
  BY <1>2 DEF ValInv, ValTypeOK, MutationType
<1>4. \A n \in Mutations : Found(n)' /\ NamesAChild(n)'
  BY <1>1, Zenon DEF ValInv, Found, NamesAChild, Writing
<1> QED BY <1>3, <1>4 DEF ValInv

\* A refusal, at whatever step.
LEMMA RefusalIsSound ==
    ASSUME ValInv, NEW m \in Mutations, Refuse(m), UNCHANGED <<schema, workload>>
    PROVE  ValInv'
<1>1. mutation'[m] = Idle
  BY DEF Refuse, ValInv, ValTypeOK
<1>2. Found(m)' /\ NamesAChild(m)'
  BY <1>1, IdleIsTyped DEF Found, NamesAChild, Writing
<1> QED BY <1>2, IdleIsTyped, QuietStep, Zenon DEF Refuse

\* A check that passed, and the next one: a lookup is passed over by no write
\* that has one.
LEMMA CheckIsSound ==
    ASSUME ValInv, NEW m \in Mutations, NEW rule \in {"readonly", "joins", "transitions"},
           NEW passes \in BOOLEAN, Check(m, rule, passes),
           rule = "joins" /\ passes => mutation[m].body.fk \in parents
    PROVE  ValInv'
<1>1. CASE ~passes
  BY <1>1, RefusalIsSound DEF Check
<1>2. CASE passes
  <2> DEFINE w == mutation[m]
             next == NextCheck(w, Order[rule])
             v == [w EXCEPT !.pc = next]
  <2>1. w \in MutationType /\ w.pc = rule /\ Found(m) /\ NamesAChild(m)
    BY DEF ValInv, ValTypeOK, Check, At
  <2>2. /\ Order[rule] \in 1 .. 3
        /\ rule = "readonly" => Order[rule] = 1
    BY DEF Order
  <2>3. /\ next \in Writing
        /\ rule = "readonly" /\ "joins" \in Checks(w) => next \in {"readonly", "joins"}
    BY <2>2, NextCheckIsFirst
  <2>4. "joins" \in w.rules /\ w.body.fk # NoValue => "joins" \in Checks(w)
    BY DEF Checks
  <2>5. v \in MutationType
    BY <2>1, <2>3 DEF MutationType, Pcs, Writing
  <2>6. /\ mutation' = [mutation EXCEPT ![m] = v]
        /\ UNCHANGED <<parents, kids, schema, workload, loose>>
    BY <1>2 DEF Check, Moves, ValInv, ValTypeOK
  <2>7. mutation'[m] = v
    BY <2>6 DEF ValInv, ValTypeOK
  <2>8. /\ v.pc = next /\ v.alone = w.alone /\ v.rules = w.rules /\ v.body = w.body
        /\ v.op = w.op /\ v.rec = w.rec
    BY <2>1 DEF MutationType
  <2> HIDE DEF v, next, w
  <2>9. NamesAChild(m)'
    BY <2>1, <2>7, <2>8 DEF NamesAChild, Writing, w
  <2>10. Found(m)'
    <3> SUFFICES ASSUME v.alone, "joins" \in v.rules, v.pc \in {"transitions", "store"}
                 PROVE  v.body.fk \in parents \cup {NoValue}
      BY <2>3, <2>6, <2>7, <2>8 DEF Found, Writing
    <3>1. CASE rule = "readonly"
      BY <3>1, <2>3, <2>4, <2>8
    <3>2. CASE rule = "joins"
      BY <3>2, <1>2, <2>8 DEF w
    <3>3. CASE rule = "transitions"
      BY <3>3, <2>1, <2>8 DEF Found, w
    <3> QED BY <3>1, <3>2, <3>3
  <2> QED BY <2>5, <2>6, <2>9, <2>10, QuietStep, Zenon
<1> QED BY <1>1, <1>2

\* Every step keeps the invariant.
LEMMA ValStepSound == ValInv /\ [ValNext]_valVars => ValInv'
<1> SUFFICES ASSUME ValInv, [ValNext]_valVars PROVE ValInv'
  OBVIOUS
<1>1. ASSUME NEW m \in Mutations, WriteBegin(m) PROVE ValInv'
  <2>1. PICK op \in Writes, c \in Children \cup {NoValue}, body \in workload.bodies :
          /\ (op = "NEW") = (c = NoValue)
          /\ mutation' = [mutation EXCEPT ![m] =
               IF BodyPasses(body, Enforced(schema))
               THEN [[Idle EXCEPT !.op = op, !.rec = c, !.body = body, !.rules = Enforced(schema)] EXCEPT
                        !.pc = NextCheck([Idle EXCEPT !.op = op, !.rec = c, !.body = body,
                                                      !.rules = Enforced(schema)], 0)]
               ELSE Idle]
    BY <1>1, Zenon DEF WriteBegin, Idle
  <2> DEFINE w == [Idle EXCEPT !.op = op, !.rec = c, !.body = body, !.rules = Enforced(schema)]
             v == [w EXCEPT !.pc = NextCheck(w, 0)]
  <2>2. /\ body \in Bodies /\ Enforced(schema) \in SUBSET Rules
    BY ValidateAssumption DEF ValInv, ValTypeOK, Enforced
  <2>3. /\ w \in MutationType
        /\ w.op = op /\ w.rec = c /\ w.body = body /\ w.rules = Enforced(schema)
    BY <2>2, IdleIsTyped, Zenon DEF MutationType
  <2>4. /\ NextCheck(w, 0) \in Writing
        /\ "joins" \in Checks(w) => NextCheck(w, 0) \in {"readonly", "joins"}
    BY NextCheckIsFirst
  <2>5. "joins" \in w.rules /\ w.body.fk # NoValue => "joins" \in Checks(w)
    BY DEF Checks
  <2> HIDE DEF w
  <2>6. /\ v \in MutationType /\ v.pc = NextCheck(w, 0)
        /\ v.op = op /\ v.rec = c /\ v.body = w.body /\ v.rules = w.rules
    BY <2>3, <2>4 DEF MutationType, Pcs, Writing
  <2> HIDE DEF v
  <2>7. UNCHANGED <<parents, kids, schema, workload, loose>>
    BY <1>1 DEF WriteBegin
  <2>8. CASE mutation' = [mutation EXCEPT ![m] = Idle]
    BY <2>7, <2>8, RefusalIsSound, Zenon DEF Refuse
  <2>9. CASE mutation' = [mutation EXCEPT ![m] = v]
    <3>1. mutation'[m] = v
      BY <2>9 DEF ValInv, ValTypeOK
    <3>2. NamesAChild(m)'
      BY <2>1, <2>6, <3>1 DEF NamesAChild
    <3>3. Found(m)'
      BY <2>4, <2>5, <2>6, <3>1 DEF Found, Writing
    <3> QED BY <2>6, <2>7, <2>9, <3>2, <3>3, QuietStep, Zenon
  <2> QED BY <2>1, <2>8, <2>9, Zenon DEF v, w
<1>2. ASSUME NEW m \in Mutations, WriteReadonly(m) PROVE ValInv'
  BY <1>2, CheckIsSound, Zenon DEF WriteReadonly
<1>3. ASSUME NEW m \in Mutations, WriteJoins(m) PROVE ValInv'
  <2> DEFINE passes == mutation[m].body.fk \in parents
  <2>1. passes \in BOOLEAN /\ Check(m, "joins", passes)
    BY <1>3 DEF WriteJoins
  <2>2. passes => mutation[m].body.fk \in parents
    OBVIOUS
  <2> HIDE DEF passes
  <2> QED BY <2>1, <2>2, CheckIsSound
<1>4. ASSUME NEW m \in Mutations, WriteTransitions(m) PROVE ValInv'
  BY <1>4, CheckIsSound, Zenon DEF WriteTransitions
<1>5. ASSUME NEW m \in Mutations, WriteStore(m) PROVE ValInv'
  <2> DEFINE w == mutation[m]
  <2>0. UNCHANGED <<schema, workload>>
    BY <1>5 DEF WriteStore
  <2>1. CASE Refuse(m)
    BY <2>0, <2>1, RefusalIsSound
  <2>2. CASE ~Refuse(m)
    <3>1. PICK c \in StoreIds(w) :
            /\ kids' = [kids EXCEPT ![c] = w.body]
            /\ loose' = IF w.alone /\ "joins" \in w.rules THEN loose \ {c} ELSE loose \cup {c}
            /\ Stored(m) /\ UNCHANGED parents
      BY <1>5, <2>2 DEF WriteStore
    <3>2. w \in MutationType /\ w.pc = "store" /\ NamesAChild(m) /\ Found(m)
      BY <1>5 DEF WriteStore, At, ValInv, ValTypeOK
    <3>3. c \in Children
      BY <3>2 DEF StoreIds, NamesAChild, Writing
    <3>4. w.body \in Bodies \cup {Absent}
      BY <3>2 DEF MutationType
    <3>5. kids' \in [Children -> Bodies \cup {Absent}] /\ loose' \subseteq Children /\ parents' \subseteq Parents
      BY <3>1, <3>3, <3>4 DEF ValInv, ValTypeOK
    <3>6. LookupsHold'
      <4> SUFFICES ASSUME NEW d \in Children, kids'[d].there, kids'[d].fk \notin parents' \cup {NoValue}
                   PROVE  d \in loose'
        BY DEF LookupsHold
      <4>1. CASE d = c
        BY <3>1, <3>2, <3>3, <4>1 DEF Found, ValInv, ValTypeOK
      <4>2. CASE d # c
        BY <3>1, <3>3, <4>2 DEF ValInv, ValTypeOK, LookupsHold
      <4> QED BY <4>1, <4>2
    <3> QED BY <2>0, <3>1, <3>5, <3>6, StoringStep
  <2> QED BY <2>1, <2>2
<1>6. ASSUME NEW m \in Mutations, ChildDelete(m) PROVE ValInv'
  <2>1. PICK c \in Children : kids' = [kids EXCEPT ![c] = Absent]
    BY <1>6, Zenon DEF ChildDelete
  <2>2. kids' \in [Children -> Bodies \cup {Absent}]
    BY <2>1 DEF ValInv, ValTypeOK
  <2>3. UNCHANGED <<parents, loose, schema, workload>> /\ Stored(m)
    BY <1>6 DEF ChildDelete
  <2>4. parents' \subseteq Parents /\ loose' \subseteq Children
    BY <2>3 DEF ValInv, ValTypeOK
  <2>5. LookupsHold'
    BY <2>1, <2>3 DEF ValInv, ValTypeOK, LookupsHold, Absent
  <2> QED BY <2>2, <2>3, <2>4, <2>5, StoringStep
<1>7. ASSUME NEW m \in Mutations, ParentPut(m) PROVE ValInv'
  <2>1. /\ parents \subseteq parents' /\ parents' \subseteq Parents
        /\ UNCHANGED <<kids, loose, schema, workload>> /\ Stored(m)
    BY <1>7 DEF ParentPut, ValInv, ValTypeOK
  <2>2. LookupsHold'
    BY <2>1 DEF ValInv, LookupsHold
  <2>3. kids' \in [Children -> Bodies \cup {Absent}] /\ loose' \subseteq Children
    BY <2>1 DEF ValInv, ValTypeOK
  <2> QED BY <2>1, <2>2, <2>3, StoringStep
<1>8. ASSUME NEW m \in Mutations, DeleteBegin(m) PROVE ValInv'
  <2>1. PICK p \in Parents :
          mutation' = [mutation EXCEPT ![m] =
             [Idle EXCEPT !.pc = IF "joins" \in schema THEN "list" ELSE "delete",
                          !.op = "DELETE", !.rec = p, !.rules = schema]]
    BY <1>8, Zenon DEF DeleteBegin
  <2> DEFINE v == [Idle EXCEPT !.pc = IF "joins" \in schema THEN "list" ELSE "delete",
                               !.op = "DELETE", !.rec = p, !.rules = schema]
  <2>2. schema \in SUBSET Rules
    BY ValidateAssumption DEF ValInv, ValTypeOK
  <2>3. /\ v \in MutationType /\ v.rules = schema
        /\ v.pc = IF "joins" \in schema THEN "list" ELSE "delete"
    BY <2>2, IdleIsTyped, Zenon DEF MutationType, Pcs
  <2> HIDE DEF v
  <2>4. mutation' = [mutation EXCEPT ![m] = v] /\ mutation'[m] = v
    BY <2>1 DEF v, ValInv, ValTypeOK
  <2>5. UNCHANGED <<parents, kids, schema, workload, loose>>
    BY <1>8 DEF DeleteBegin
  <2>6. Found(m)' /\ NamesAChild(m)'
    BY <2>3, <2>4 DEF Found, NamesAChild, Writing
  <2> QED BY <2>3, <2>4, <2>5, <2>6, QuietStep, Zenon
<1>9. ASSUME NEW m \in Mutations, DeleteList(m) PROVE ValInv'
  <2> DEFINE there == {c \in Children : kids[c].there}
  <2>1. PICK found \in SUBSET there :
          mutation' = [mutation EXCEPT ![m].pc = "scan", ![m].todo = found, ![m].capped = (found # there)]
    BY <1>9, Zenon DEF DeleteList
  <2> DEFINE v == [mutation[m] EXCEPT !.pc = "scan", !.todo = found, !.capped = (found # there)]
  <2>2. mutation[m] \in MutationType
    BY DEF ValInv, ValTypeOK
  <2>3. /\ v \in MutationType /\ v.pc = "scan" /\ v.todo = found /\ v.capped = (found # there)
    BY <2>2, Zenon DEF MutationType, Pcs
  <2>4. mutation' = [mutation EXCEPT ![m] = v] /\ mutation'[m] = v
    BY <2>1, Zenon DEF ValInv, ValTypeOK
  <2> HIDE DEF v
  <2>5. UNCHANGED <<parents, kids, schema, workload, loose>>
    BY <1>9 DEF DeleteList
  <2>6. Found(m)' /\ NamesAChild(m)'
    BY <2>3, <2>4, <2>5, Zenon DEF Found, NamesAChild, Writing, RefersTo
  <2> QED BY <2>3, <2>4, <2>5, <2>6, QuietStep, Zenon
<1>10. ASSUME NEW m \in Mutations, DeleteScan(m) PROVE ValInv'
  <2> DEFINE w == mutation[m]
  <2>0. UNCHANGED <<schema, workload>>
    BY <1>10 DEF DeleteScan
  <2>1. w \in MutationType /\ w.pc = "scan" /\ Found(m)
    BY <1>10 DEF DeleteScan, At, ValInv, ValTypeOK
  <2>2. CASE Refuse(m)
    BY <2>0, <2>2, RefusalIsSound
  <2>3. ASSUME NEW c \in w.todo, ~RefersTo(c, w.rec),
               mutation' = [mutation EXCEPT ![m].todo = @ \ {c}], UNCHANGED <<parents, kids, loose>>
        PROVE  ValInv'
    <3> DEFINE v == [w EXCEPT !.todo = @ \ {c}]
    <3>1. /\ v \in MutationType /\ v.pc = "scan" /\ v.todo = w.todo \ {c}
          /\ v.alone = w.alone /\ v.capped = w.capped /\ v.rules = w.rules /\ v.rec = w.rec
      BY <2>1 DEF MutationType
    <3>2. mutation' = [mutation EXCEPT ![m] = v] /\ mutation'[m] = v
      BY <2>3 DEF ValInv, ValTypeOK
    <3> HIDE DEF v
    <3>3. Found(m)' /\ NamesAChild(m)'
      BY <2>1, <2>3, <3>1, <3>2 DEF Found, NamesAChild, Writing, RefersTo
    <3> QED BY <2>0, <2>3, <3>1, <3>2, <3>3, QuietStep, Zenon
  <2>4. ASSUME w.todo = {}, Moves(m, "delete"), UNCHANGED <<parents, kids, loose>>
        PROVE  ValInv'
    <3> DEFINE v == [w EXCEPT !.pc = "delete"]
    <3>1. /\ v \in MutationType /\ v.pc = "delete"
          /\ v.alone = w.alone /\ v.capped = w.capped /\ v.rules = w.rules /\ v.rec = w.rec
      BY <2>1 DEF MutationType, Pcs
    <3>2. mutation' = [mutation EXCEPT ![m] = v] /\ mutation'[m] = v
      BY <2>4 DEF Moves, ValInv, ValTypeOK
    <3> HIDE DEF v
    <3>3. Found(m)' /\ NamesAChild(m)'
      BY <2>1, <2>4, <3>1, <3>2 DEF Found, NamesAChild, Writing, RefersTo
    <3> QED BY <2>0, <2>4, <3>1, <3>2, <3>3, QuietStep, Zenon
  <2> QED BY <1>10, <2>2, <2>3, <2>4 DEF DeleteScan
<1>11. ASSUME NEW m \in Mutations, DeleteStore(m) PROVE ValInv'
  <2> DEFINE w == mutation[m]
  <2>0. UNCHANGED <<schema, workload>>
    BY <1>11 DEF DeleteStore
  <2>1. CASE Refuse(m)
    BY <2>0, <2>1, RefusalIsSound
  <2>2. CASE ~Refuse(m)
    <3>1. /\ parents' = parents \ {w.rec}
          /\ loose' = IF w.alone /\ ~w.capped /\ "joins" \in w.rules THEN loose
                      ELSE loose \cup {c \in Children : RefersTo(c, w.rec)}
          /\ Stored(m) /\ UNCHANGED kids
      BY <1>11, <2>2 DEF DeleteStore
    <3>2. w.pc = "delete" /\ Found(m)
      BY <1>11 DEF DeleteStore, At, ValInv
    <3>3. kids' \in [Children -> Bodies \cup {Absent}] /\ loose' \subseteq Children /\ parents' \subseteq Parents
      BY <3>1 DEF ValInv, ValTypeOK
    <3>4. LookupsHold'
      BY <3>1, <3>2 DEF ValInv, LookupsHold, Found, RefersTo
    <3> QED BY <2>0, <3>1, <3>3, <3>4, StoringStep
  <2> QED BY <2>1, <2>2
<1>12. CASE SchemaPut
  <2>1. /\ UNCHANGED <<parents, kids, workload, loose>>
        /\ schema' \in workload.schemas
    BY <1>12, ValidateAssumption DEF SchemaPut, ValInv, ValTypeOK
  <2>2. ASSUME NEW n \in Mutations
        PROVE  /\ mutation'[n] \in MutationType
               /\ \/ mutation'[n].pc = "new"
                  \/ /\ mutation'[n].alone = FALSE /\ mutation'[n].pc = mutation[n].pc
                     /\ mutation'[n].op = mutation[n].op /\ mutation'[n].rec = mutation[n].rec
    <3>1. mutation[n] \in MutationType
      BY DEF ValInv, ValTypeOK
    <3>2. CASE At(n, "new")
      BY <1>12, <3>1, <3>2 DEF SchemaPut, At
    <3>3. CASE ~(At(n, "new"))
      <4>1. mutation'[n] = [mutation[n] EXCEPT !.alone = FALSE]
        BY <1>12, <3>3 DEF SchemaPut
      <4> QED BY <3>1, <4>1, Zenon DEF MutationType
    <3> QED BY <3>2, <3>3, Zenon
  <2>3. mutation' \in [Mutations -> MutationType]
    BY <1>12, <2>2, Zenon DEF SchemaPut
  <2>4. ValTypeOK' /\ LookupsHold'
    BY <2>1, <2>3 DEF ValInv, ValTypeOK, LookupsHold
  <2>5. \A n \in Mutations : Found(n)' /\ NamesAChild(n)'
    BY <2>2, Zenon DEF ValInv, Found, NamesAChild, Writing
  <2> QED BY <2>4, <2>5 DEF ValInv
<1>13. CASE UNCHANGED valVars
  BY <1>13 DEF valVars, ValInv, ValTypeOK, LookupsHold, Found, NamesAChild, RefersTo
<1> QED
  BY <1>1, <1>2, <1>3, <1>4, <1>5, <1>6, <1>7, <1>8, <1>9, <1>10, <1>11, <1>12, <1>13 DEF ValNext

\* Lookup integrity of the child pack, whatever the schemas, the clients and the
\* scheduling of the workers: a lookup leads nowhere only for a reason that
\* LookupsHold names.
THEOREM LookupIntegrity == ValSpec => []LookupsHold
<1>1. ValInv => LookupsHold
  BY DEF ValInv
<1> QED BY <1>1, ValInitSound, ValStepSound, PTL DEF ValSpec
=============================================================================
