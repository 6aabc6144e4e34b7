-------------------------- MODULE PicowalValidate --------------------------
(***************************************************************************)
(* Schema-driven validation of record mutations (src/picowal_validate.c)   *)
(* and the record cases of dispatch_picowal in src/api.c that call it.     *)
(*                                                                         *)
(* One pack of children has a schema document; a field of a child (fk) is  *)
(* a lookup into a pack of parents, which has no schema of its own.        *)
(* Worker threads run mutations concurrently.  The validator takes the     *)
(* database lock for each record it reads and holds nothing until the      *)
(* mutation is stored, so every read is a step.                            *)
(*                                                                         *)
(* An operator whose name ends in _bug is a faulty variant of the next     *)
(* definition; no action uses it.                                          *)
(***************************************************************************)
EXTENDS Naturals, FiniteSets

CONSTANTS
    Parents, Children,   \* record ids of the two packs
    States,              \* values of a child's field that has rules of its own
    Transitions,         \* the schema's "transitions" of that field, pairs of states
    Workloads,           \* the schemas (sets of rules) and bodies clients may write
    Mutations,           \* worker threads, each with one mutation at a time
    ScanCap,             \* PWV_MAX_RECORDS_SCAN
    NoValue              \* a field the body leaves out

Rules == {"fields", "readonly", "joins", "transitions"}
Flaws == {"none", "fields", "json"}     \* the rule a body breaks by itself
Bodies == [there : {TRUE}, fk : Parents \cup {NoValue}, st : States \cup {NoValue}, flaw : Flaws]

ASSUME ValidateAssumption ==
    /\ NoValue \notin Parents \cup Children \cup States
    /\ ScanCap \in Nat
    /\ \A w \in Workloads : w.schemas \subseteq SUBSET Rules /\ w.bodies \subseteq Bodies

VARIABLES
    parents,      \* records of the parent pack
    kids,         \* records of the child pack
    schema,       \* the child pack's document in the schema pack
    mutation,     \* the mutation each worker has in hand
    workload,     \* which of Workloads
    loose         \* history: children whose lookup was not checked, or not alone

valVars == <<parents, kids, schema, mutation, workload, loose>>

Absent == [there |-> FALSE, fk |-> NoValue, st |-> NoValue, flaw |-> "none"]
Writes == {"PUT", "POST", "NEW"}
Idle == [pc |-> "new", op |-> "PUT", rec |-> NoValue, body |-> Absent, rules |-> {},
         todo |-> {}, alone |-> TRUE, capped |-> FALSE]

ValInit ==
    /\ parents \in SUBSET Parents
    /\ kids = [c \in Children |-> Absent]
    /\ workload \in Workloads
    /\ schema \in workload.schemas
    /\ mutation = [m \in Mutations |-> Idle]
    /\ loose = {}

At(m, pc) == mutation[m].pc = pc
Moves(m, pc) == mutation' = [mutation EXCEPT ![m].pc = pc]
\* The client has its answer, and the worker is free; nothing was stored.
Refuse(m) == mutation' = [mutation EXCEPT ![m] = Idle] /\ UNCHANGED <<parents, kids, loose>>
\* The mutation is stored: the others that are under way no longer read one
\* state of the database.
Stored(m) ==
    mutation' = [n \in Mutations |->
        IF n = m THEN Idle
        ELSE IF At(n, "new") THEN mutation[n]
        ELSE [mutation[n] EXCEPT !.alone = FALSE]]

-----------------------------------------------------------------------------
(* PUT, POST and POST without an id, of a child: validate_write.           *)

\* The rules that a body breaks by itself: it is no JSON object; it breaks a
\* rule on its fields (unknown or missing field, type, length, email, regex,
\* a lookup that is no number).
BodyPasses(body, rules) ==
    /\ body.flaw # "json"
    /\ body.flaw = "fields" => "fields" \notin rules

\* A schema without a list of fields checks no write, whatever else it states.
Enforced(rules) == IF "fields" \in rules THEN rules ELSE {}

\* The checks against other records that a write has before it, in order: a
\* rule the schema does not state, or that does not apply, reads nothing.
Checks_bug(w) ==
    {"store"} \cup {r \in w.rules :
        \/ r = "readonly" /\ w.op = "PUT"
        \/ r = "joins" /\ w.body.fk # NoValue /\ w.op # "PUT"
        \/ r = "transitions" /\ w.op # "NEW"}
Checks(w) ==
    {"store"} \cup {r \in w.rules :
        \/ r = "readonly" /\ w.op = "PUT"
        \/ r = "joins" /\ w.body.fk # NoValue
        \/ r = "transitions" /\ w.op # "NEW"}
Order == [readonly |-> 1, joins |-> 2, transitions |-> 3, store |-> 4]
NextCheck(w, done) ==
    CHOOSE r \in Checks(w) : Order[r] > done /\ \A q \in Checks(w) : Order[q] > done => Order[r] <= Order[q]

\* The request arrives; the schema is loaded; what needs no other record is
\* checked.
WriteBegin(m) ==
    /\ At(m, "new")
    /\ \E op \in Writes, c \in Children \cup {NoValue}, body \in workload.bodies :
         /\ (op = "NEW") = (c = NoValue)
         /\ LET w == [Idle EXCEPT !.op = op, !.rec = c, !.body = body, !.rules = Enforced(schema)] IN
            mutation' = [mutation EXCEPT ![m] =
                IF BodyPasses(body, w.rules) THEN [w EXCEPT !.pc = NextCheck(w, 0)] ELSE Idle]
    /\ UNCHANGED <<parents, kids, schema, workload, loose>>

\* A check passes, or the client is told 409.
Check(m, rule, passes) ==
    /\ At(m, rule)
    /\ IF passes THEN Moves(m, NextCheck(mutation[m], Order[rule])) /\ UNCHANGED <<parents, kids, loose>>
       ELSE Refuse(m)
    /\ UNCHANGED <<schema, workload>>

\* validate_readonly_fields: of a record that exists; a field left out is not
\* compared.
SameState(old, body) == body.st = NoValue \/ body.st = old.st
WriteReadonly(m) ==
    LET w == mutation[m] IN
    Check(m, "readonly", kids[w.rec].there => SameState(kids[w.rec], w.body))

\* validate_join_refs
WriteJoins(m) == Check(m, "joins", mutation[m].body.fk \in parents)

\* validate_transitions: a field that the old or the new record lacks is not
\* compared.
MayBecome(old, body) ==
    \/ NoValue \in {old.st, body.st} \/ old.st = body.st
    \/ <<old.st, body.st>> \in Transitions
WriteTransitions(m) ==
    LET w == mutation[m] IN
    Check(m, "transitions", kids[w.rec].there => MayBecome(kids[w.rec], w.body))

\* picowal_db_put_key, create-only unless it is a PUT.  A new record's id is
\* drawn now, and drawn again while it is taken.
StoreIds(w) == IF w.op = "NEW" THEN {c \in Children : ~kids[c].there} ELSE {w.rec}
CreateOnly_bug(w) == FALSE
CreateOnly(w) == w.op # "PUT"
WriteStore(m) ==
    /\ At(m, "store")
    /\ LET w == mutation[m] IN
       \/ \E c \in StoreIds(w) :
            /\ ~(CreateOnly(w) /\ kids[c].there)
            /\ kids' = [kids EXCEPT ![c] = w.body]
            /\ loose' = IF w.alone /\ "joins" \in w.rules THEN loose \ {c} ELSE loose \cup {c}
            /\ Stored(m) /\ UNCHANGED parents
       \/ Refuse(m)       \* EEXIST, or EROFS, ENOSPC, an I/O error
    /\ UNCHANGED <<schema, workload>>

-----------------------------------------------------------------------------
(* DELETE of a record of either pack: validate_delete_refs.  No lookup     *)
(* leads to a child.                                                       *)

ChildDelete(m) ==
    /\ At(m, "new")
    /\ \E c \in Children :
         /\ kids[c].there
         /\ kids' = [kids EXCEPT ![c] = Absent]
    /\ Stored(m)
    /\ UNCHANGED <<parents, schema, workload, loose>>

\* The schemas are listed and loaded: is there one with a lookup into this pack?
DeleteBegin(m) ==
    /\ At(m, "new")
    /\ \E p \in Parents :
         mutation' = [mutation EXCEPT ![m] =
             [Idle EXCEPT !.pc = IF "joins" \in schema THEN "list" ELSE "delete",
                          !.op = "DELETE", !.rec = p, !.rules = schema]]
    /\ UNCHANGED <<parents, kids, schema, workload, loose>>

\* picowal_db_list_records: at most ScanCap of the child pack's records, in the
\* order of the hash index.
DeleteList(m) ==
    /\ At(m, "list")
    /\ LET there == {c \in Children : kids[c].there} IN
       \E found \in SUBSET there :
         /\ found # there => Cardinality(found) = ScanCap
         /\ Cardinality(found) <= ScanCap
         /\ mutation' = [mutation EXCEPT ![m].pc = "scan", ![m].todo = found,
                                         ![m].capped = (found # there)]
    /\ UNCHANGED <<parents, kids, schema, workload, loose>>

\* One child is loaded and its lookup compared.
RefersTo(c, p) == kids[c].there /\ kids[c].fk = p
DeleteScan(m) ==
    /\ At(m, "scan")
    /\ \/ \E c \in mutation[m].todo :
            IF RefersTo(c, mutation[m].rec)
            THEN Refuse(m)
            ELSE /\ mutation' = [mutation EXCEPT ![m].todo = @ \ {c}]
                 /\ UNCHANGED <<parents, kids, loose>>
       \/ /\ mutation[m].todo = {}
          /\ Moves(m, "delete") /\ UNCHANGED <<parents, kids, loose>>
    /\ UNCHANGED <<schema, workload>>

\* picowal_db_delete_key
DeleteStore(m) ==
    /\ At(m, "delete")
    /\ LET w == mutation[m] IN
       \/ /\ w.rec \in parents
          /\ parents' = parents \ {w.rec}
          /\ loose' = IF w.alone /\ ~w.capped /\ "joins" \in w.rules THEN loose
                      ELSE loose \cup {c \in Children : RefersTo(c, w.rec)}
          /\ Stored(m) /\ UNCHANGED kids
       \/ Refuse(m)       \* ENOENT, or EROFS, ENOSPC, an I/O error
    /\ UNCHANGED <<schema, workload>>

-----------------------------------------------------------------------------
\* A parent is written: its pack has no schema.
ParentPut(m) ==
    /\ At(m, "new")
    /\ \E p \in Parents : p \notin parents /\ parents' = parents \cup {p}
    /\ Stored(m)
    /\ UNCHANGED <<kids, schema, workload, loose>>

\* The schema is written: it is a record of a system pack, validated by nothing,
\* and no stored record is looked at again.
SchemaPut ==
    /\ \E s \in workload.schemas \ {schema} : schema' = s
    /\ mutation' = [n \in Mutations |->
         IF At(n, "new") THEN mutation[n] ELSE [mutation[n] EXCEPT !.alone = FALSE]]
    /\ UNCHANGED <<parents, kids, workload, loose>>

ValNext ==
    \/ SchemaPut
    \/ \E m \in Mutations :
         \/ WriteBegin(m) \/ WriteReadonly(m) \/ WriteJoins(m) \/ WriteTransitions(m) \/ WriteStore(m)
         \/ ChildDelete(m) \/ ParentPut(m)
         \/ DeleteBegin(m) \/ DeleteList(m) \/ DeleteScan(m) \/ DeleteStore(m)
ValSpec == ValInit /\ [][ValNext]_valVars

-----------------------------------------------------------------------------
\* Where a mutation is.
Pcs == {"new", "readonly", "joins", "transitions", "store", "list", "scan", "delete"}

MutationType ==
    [pc : Pcs, op : Writes \cup {"DELETE"}, rec : Children \cup Parents \cup {NoValue},
     body : Bodies \cup {Absent}, rules : SUBSET Rules, todo : SUBSET Children,
     alone : BOOLEAN, capped : BOOLEAN]

ValTypeOK ==
    /\ parents \subseteq Parents
    /\ kids \in [Children -> Bodies \cup {Absent}]
    /\ workload \in Workloads /\ schema \in workload.schemas
    /\ mutation \in [Mutations -> MutationType]
    /\ loose \subseteq Children

\* Lookup referential integrity (README.md: validation "enforces ... lookup
\* referential integrity").  A child's lookup leads nowhere only if the child
\* was stored, or its parent deleted, under a schema without the lookup, or
\* with another mutation stored in the middle of its validation, or after a
\* scan that PWV_MAX_RECORDS_SCAN cut short.  Mutations that overlap only in
\* reading, however many, cannot break it.
LookupsHold ==
    \A c \in Children :
        kids[c].there /\ kids[c].fk \notin parents \cup {NoValue} => c \in loose

\* What a stored record may become, in one step, when both its versions have the
\* field: a read-only field keeps its value and another follows the schema's
\* transitions, unless a mutation was stored in the middle of the validation.
\* Only a PUT replaces a record, overlapping or not; a body with a broken rule is
\* never stored.
RulesHold ==
    [][\A c \in Children :
         kids'[c] # kids[c] /\ kids'[c].there =>
             \E m \in Mutations :
                 LET w == mutation[m] IN
                 /\ w.pc = "store" /\ mutation'[m].pc = "new"
                 /\ w.body = kids'[c] /\ BodyPasses(w.body, w.rules)
                 /\ kids[c].there => w.op = "PUT"
                 /\ w.alone => w.rules = Enforced(schema)
                 /\ kids[c].there /\ w.alone /\ kids[c].st # NoValue /\ w.body.st # NoValue =>
                      /\ "readonly" \in w.rules => w.body.st = kids[c].st
                      /\ "transitions" \in w.rules => MayBecome(kids[c], w.body)]_valVars
=============================================================================
