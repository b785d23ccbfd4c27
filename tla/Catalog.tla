------------------------------- MODULE Catalog -------------------------------
(* The administered catalogues, dictionaries, posts, settings and notices,   *)
(* and the audit trail their writes leave. Every write is one request with   *)
(* one transaction, wrapped by audited_write: a success is recorded in the   *)
(* transaction itself, a refusal in a buffer that the middleware stores      *)
(* afterwards in a transaction of its own.                                   *)
EXTENDS Integers, FiniteSets, Sequences, SequencesExt

CONSTANTS
    Requests,
    Slots,          \* primary keys, numbers; one is never given out twice
    Kind,           \* [Slots -> "type", "data", "post", "config" or "notice"]
    Keys,           \* values of the unique columns
    Sort,           \* [Slots -> Nat]: sort_order
    Created,        \* [Slots -> Nat]: created_at
    Tables,         \* contents the tables may start with
    Ops,            \* the requests that may come
    ExportLimit,    \* _EXCEL_MAX_ROWS
    None,
    Unset,          \* a field the payload leaves out
    Faults          \* bound on crashes and failures of the database

VARIABLES
    table,      \* the committed rows
    given,      \* primary keys that some committed row has or had
    op,         \* what each request asks for
    pc,         \* where its handler is
    seen,       \* the row its session keeps in the identity map
    staged,     \* the rows it has written and not committed
    recorded,   \* its success row is in the transaction
    answer,     \* None, "ok" or the code of the refusal
    buffer,     \* a failure event waits for the middleware
    audit,      \* the committed audit rows
    committed,  \* its transaction has been committed
    faults

vars == <<table, given, op, pc, seen, staged, recorded, answer, buffer, audit, committed, faults>>

(* One record serves every table: a column that a table lacks is constant.   *)
Row == [key : Keys, parent : Slots \cup {None}, builtin : BOOLEAN, default : BOOLEAN]

NoOp == [name |-> "none", slot |-> None, kind |-> "post", parent |-> None, keys |-> {}, flag |-> Unset]
Success(r) == [request |-> r, status |-> "success"]
Failure(r) == [request |-> r, status |-> "failure"]
Events == {Success(r) : r \in Requests} \cup {Failure(r) : r \in Requests}
Answers == {"ok", "NOT_FOUND", "DUPLICATE", "DEFAULT_DUPLICATE", "HAS_DATA", "BUILTIN_READONLY",
            "TOO_LARGE", "INTERNAL_ERROR"}

TypeOK ==
    /\ table \in [Slots -> Row \cup {None}]
    /\ given \subseteq Slots
    /\ op \in [Requests -> Ops \cup {NoOp}]
    /\ pc \in [Requests -> {"idle", "check", "clear", "flush", "record", "commit", "store", "done"}]
    /\ seen \in [Requests -> Row \cup {None}]
    /\ \A r \in Requests : DOMAIN staged[r] \subseteq Slots /\ Range(staged[r]) \subseteq Row \cup {None}
    /\ recorded \in [Requests -> BOOLEAN]
    /\ answer \in [Requests -> Answers \cup {None}]
    /\ buffer \in [Requests -> BOOLEAN]
    /\ audit \subseteq Events
    /\ committed \in [Requests -> BOOLEAN]
    /\ faults \in 0 .. Faults

------------------------------------------------------------------------------
(* What the schema says: one row per code and per value of a dictionary, one *)
(* default per dictionary (a unique generated column), no entry without one. *)
Unique(s) == Kind[s] # "notice"

SameKey(s, row, u, other) ==
    /\ s # u /\ Kind[s] = Kind[u] /\ Unique(s) /\ row # None /\ other # None
    /\ row.key = other.key /\ row.parent = other.parent

TwoDefaults(s, row, u, other) ==
    /\ s # u /\ row # None /\ other # None
    /\ row.parent = other.parent /\ row.default /\ other.default

Clash(s, row, u, other) == SameKey(s, row, u, other) \/ TwoDefaults(s, row, u, other)

Entries(t, rows) == {s \in Slots : rows[s] # None /\ rows[s].parent = t}

Orphans(rows) ==
    {s \in Slots : rows[s] # None /\ rows[s].parent # None /\ rows[rows[s].parent] = None}

Consistent(rows) ==
    /\ \A s, u \in Slots : ~Clash(s, rows[s], u, rows[u])
    /\ Orphans(rows) = {}

(* What a request reads: committed rows, and its own writes.                 *)
View(r) == [s \in Slots |-> IF s \in DOMAIN staged[r] THEN staged[r][s] ELSE table[s]]

KeyTaken(r, kind, k) ==
    \E s \in Slots : Kind[s] = kind /\ View(r)[s] # None /\ View(r)[s].key = k

Init ==
    /\ table \in Tables
    /\ given = {s \in Slots : table[s] # None}
    /\ op = [r \in Requests |-> NoOp]
    /\ pc = [r \in Requests |-> "idle"]
    /\ seen = [r \in Requests |-> None]
    /\ staged = [r \in Requests |-> <<>>]
    /\ recorded = [r \in Requests |-> FALSE]
    /\ answer = [r \in Requests |-> None]
    /\ buffer = [r \in Requests |-> FALSE]
    /\ audit = {}
    /\ committed = [r \in Requests |-> FALSE]
    /\ faults = Faults

Kinds == {"type", "data", "post", "config", "notice"}

(* Entries belong to a dictionary, and nothing else belongs to anything or   *)
(* is a default.                                                             *)
Fits(s, row) ==
    IF Kind[s] = "data" THEN row.parent \in Slots /\ Kind[row.parent] = "type"
    ELSE row.parent = None /\ ~row.default

(* What a valid payload is: a creation names its code, and an entry its      *)
(* dictionary; an update names a row and no other code for a dictionary or a *)
(* setting; posts and notices have no flag.                                  *)
Payload(o) ==
    /\ o.slot # None => o.slot \in Slots /\ Kind[o.slot] = o.kind
    /\ o.name = "create" => \E k \in Keys : o.keys = {k}
    /\ (o.name \in {"create", "import", "export"}) = (o.slot = None)
    /\ o.name \in {"import", "export"} => o.kind = "post"
    /\ o.name = "update" =>
          o.keys = {} \/ (o.kind \notin {"type", "config"} /\ \E k \in Keys : o.keys = {k})
    /\ IF o.name = "create" /\ o.kind = "data" THEN o.parent \in Slots /\ Kind[o.parent] = "type"
       ELSE o.parent = None
    /\ o.kind \in {"post", "notice"} /\ o.name # "import" => o.flag = Unset
    /\ o.name = "create" /\ o.kind \notin {"post", "notice"} => o.flag # Unset

Payloads ==
    {o \in [name : {"create", "update", "delete", "import", "export"}, slot : Slots \cup {None},
            kind : Kinds, parent : Slots \cup {None}, keys : SUBSET Keys, flag : BOOLEAN \cup {Unset}] :
        Payload(o)}

ASSUME CatalogAssumption ==
    /\ Slots \subseteq Nat /\ IsFiniteSet(Slots)
    /\ Kind \in [Slots -> Kinds]
    /\ \A t \in Tables :
          /\ t \in [Slots -> Row \cup {None}] /\ Consistent(t)
          /\ \A s \in Slots : t[s] # None => Fits(s, t[s])
    /\ Ops \subseteq Payloads
    /\ Sort \in [Slots -> Nat] /\ Created \in [Slots -> Nat] /\ ExportLimit \in Nat /\ Faults \in Nat
    /\ None \notin Slots /\ None \notin Row /\ None \notin Answers
    /\ Unset \notin BOOLEAN

Goto(r, p) == pc' = [pc EXCEPT ![r] = p]

Asks(r, name, kind) ==
    /\ pc[r] = "idle"
    /\ \E o \in Ops : o.name = name /\ o.kind = kind /\ op' = [op EXCEPT ![r] = o]
    /\ Goto(r, "check")
    /\ UNCHANGED <<table, given, seen, staged, recorded, answer, buffer, audit, committed, faults>>

(* The endpoints.                                                            *)
CreateType(r) == Asks(r, "create", "type")
UpdateType(r) == Asks(r, "update", "type")
DeleteType(r) == Asks(r, "delete", "type")
CreateData(r) == Asks(r, "create", "data")
UpdateData(r) == Asks(r, "update", "data")
DeleteData(r) == Asks(r, "delete", "data")
CreatePost(r) == Asks(r, "create", "post")
UpdatePost(r) == Asks(r, "update", "post")
DeletePost(r) == Asks(r, "delete", "post")
ImportPosts(r) == Asks(r, "import", "post")
ExportPosts(r) == Asks(r, "export", "post")
CreateConfig(r) == Asks(r, "create", "config")
UpdateConfig(r) == Asks(r, "update", "config")
DeleteConfig(r) == Asks(r, "delete", "config")
CreateNotice(r) == Asks(r, "create", "notice")
UpdateNotice(r) == Asks(r, "update", "notice")
DeleteNotice(r) == Asks(r, "delete", "notice")

Receive(r) ==
    \/ CreateType(r) \/ UpdateType(r) \/ DeleteType(r)
    \/ CreateData(r) \/ UpdateData(r) \/ DeleteData(r)
    \/ CreatePost(r) \/ UpdatePost(r) \/ DeletePost(r) \/ ImportPosts(r) \/ ExportPosts(r)
    \/ CreateConfig(r) \/ UpdateConfig(r) \/ DeleteConfig(r)
    \/ CreateNotice(r) \/ UpdateNotice(r) \/ DeleteNotice(r)

------------------------------------------------------------------------------
(* How a request fails. The transaction is rolled back before the answer is  *)
(* made. audited_write keeps an event for an AppError and an IntegrityError  *)
(* of the service, and for nothing else.                                     *)
Fail(r, code, event) ==
    /\ staged' = [staged EXCEPT ![r] = <<>>]
    /\ recorded' = [recorded EXCEPT ![r] = FALSE]
    /\ answer' = [answer EXCEPT ![r] = code]
    /\ buffer' = [buffer EXCEPT ![r] = event]
    /\ Goto(r, "store")

(* Faulty variant: only the errors that a service raises itself are kept.    *)
Refuse_AppErrorsOnly(r, code) == Fail(r, code, pc[r] = "check")

Refuse(r, code) == Fail(r, code, TRUE)
Break(r) == Fail(r, "INTERNAL_ERROR", FALSE)

Proceed(r, p) == Goto(r, p) /\ UNCHANGED <<staged, recorded, answer, buffer>>

(* The checks a service makes before it writes: what it refuses, and why.    *)
Old(r) == IF op[r].slot = None THEN None ELSE View(r)[op[r].slot]
Missing(r) == op[r].slot # None /\ Old(r) = None

TypeRefusal(r) ==
    IF op[r].name = "create" /\ (\E k \in op[r].keys : KeyTaken(r, "type", k)) THEN "DUPLICATE"
    ELSE IF op[r].name = "delete" /\ Old(r).builtin THEN "BUILTIN_READONLY"
    ELSE IF op[r].name = "delete" /\ Entries(op[r].slot, View(r)) # {} THEN "HAS_DATA"
    ELSE "none"

DataRefusal(r) ==
    IF op[r].name = "create" /\ View(r)[op[r].parent] = None THEN "NOT_FOUND" ELSE "none"

CodeTaken(r) ==
    \E k \in op[r].keys : KeyTaken(r, "post", k) /\ (op[r].name = "create" \/ Old(r).key # k)

ExportTooLarge(r) ==
    op[r].name = "export" /\ Cardinality({s \in Slots : Kind[s] = "post" /\ table[s] # None}) > ExportLimit

(* An import whose file is larger than the limit (flag FALSE) or a zip bomb  *)
(* (flag TRUE), or has a faulty line (no keys).                              *)
UploadTooLarge(r) == op[r].name = "import" /\ op[r].flag = FALSE
ImportTooLarge(r) == op[r].name = "import" /\ op[r].flag = TRUE
FaultyFile(r) == op[r].keys = {}

PostRefusal(r) ==
    IF ExportTooLarge(r) \/ ImportTooLarge(r) THEN "TOO_LARGE"
    ELSE IF op[r].name \in {"create", "update"} /\ CodeTaken(r) THEN "DUPLICATE"
    ELSE "none"

ConfigRefusal(r) ==
    IF op[r].name = "create" /\ (\E k \in op[r].keys : KeyTaken(r, "config", k)) THEN "DUPLICATE"
    ELSE IF op[r].name = "delete" /\ Old(r).builtin THEN "BUILTIN_READONLY"
    ELSE "none"

Refusal(r) ==
    IF Missing(r) THEN "NOT_FOUND"
    ELSE IF op[r].kind = "type" THEN TypeRefusal(r)
    ELSE IF op[r].kind = "data" THEN DataRefusal(r)
    ELSE IF op[r].kind = "post" THEN PostRefusal(r)
    ELSE IF op[r].kind = "config" THEN ConfigRefusal(r)
    ELSE "none"

(* An import with a faulty line, or with a code that is taken, is answered   *)
(* with the list of errors: it writes nothing and counts as a success.       *)
NothingToImport(r) ==
    op[r].name = "import" /\ (FaultyFile(r) \/ \E k \in op[r].keys : KeyTaken(r, "post", k))

AfterCheck(r) ==
    IF op[r].name \in {"delete", "export"} \/ NothingToImport(r) THEN "record"
    ELSE IF op[r].kind = "data" /\ op[r].flag = TRUE THEN "clear"
    ELSE "flush"

(* import_posts reads the upload before it enters audited_write: a file over *)
(* the limit is refused there, and no event is kept of it.                   *)
RefuseUpload(r) ==
    /\ pc[r] = "check" /\ UploadTooLarge(r)
    /\ Fail(r, "TOO_LARGE", FALSE)
    /\ UNCHANGED <<table, given, op, seen, audit, committed, faults>>

Check(r) ==
    /\ pc[r] = "check" /\ ~UploadTooLarge(r)
    /\ seen' = [seen EXCEPT ![r] = IF op[r].slot = None THEN None ELSE table[op[r].slot]]
    /\ IF Refusal(r) # "none" THEN Refuse(r, Refusal(r)) ELSE Proceed(r, AfterCheck(r))
    /\ UNCHANGED <<table, given, op, audit, committed, faults>>

------------------------------------------------------------------------------
(* Writes wait for the row locks of others: the rows they touch, the index   *)
(* entries they would collide with, and both ends of a foreign key.          *)
(* (External: InnoDB at READ COMMITTED.)                                     *)
Inserts(new) == {s \in DOMAIN new : new[s] # None /\ table[s] = None}

Waits(r, new) ==
    \E q \in Requests \ {r} :
        \/ DOMAIN new \cap DOMAIN staged[q] # {}
        \/ \E s \in DOMAIN new, u \in DOMAIN staged[q] :
              Clash(s, new[s], u, staged[q][u]) \/ Clash(s, new[s], u, table[u])
        \/ \E s \in Inserts(new) : new[s].parent \in DOMAIN staged[q]
        \/ \E s \in Inserts(staged[q]) : staged[q][s].parent \in DOMAIN new

(* What the request reads once it has written the rows.                      *)
After(r, new) == [s \in Slots |-> IF s \in DOMAIN new THEN new[s] ELSE View(r)[s]]

(* Faulty variant: no index for the default, and no foreign key.             *)
Broken_KeysOnly(r, new) ==
    IF \E s \in DOMAIN new, u \in Slots : SameKey(s, new[s], u, View(r)[u]) THEN "DUPLICATE" ELSE "none"

(* Faulty variant: one constraint is registered under no code.               *)
Broken_Unregistered(r, new) ==
    LET rows == After(r, new)
    IN  IF Consistent(rows) THEN "none"
        ELSE IF \E s, u \in Slots : SameKey(s, rows[s], u, rows[u]) THEN "DUPLICATE" ELSE "CONFLICT"

(* The constraint that a write breaks, by the code it is registered under.   *)
Broken(r, new) ==
    LET rows == After(r, new)
    IN  IF \E s \in DOMAIN new, u \in Slots : SameKey(s, rows[s], u, rows[u]) THEN "DUPLICATE"
        ELSE IF \E s \in DOMAIN new, u \in Slots : TwoDefaults(s, rows[s], u, rows[u])
             THEN "DEFAULT_DUPLICATE"
        ELSE IF Orphans(rows) # {} THEN "HAS_DATA"
        ELSE "none"

Stage(r, new) ==
    staged' = [staged EXCEPT ![r] = [s \in DOMAIN @ \cup DOMAIN new |->
                                        IF s \in DOMAIN new THEN new[s] ELSE @[s]]]

(* clear_other_defaults: a bulk UPDATE before the row itself is written.     *)
OtherDefaults(r) ==
    LET t == IF op[r].name = "create" THEN op[r].parent ELSE seen[r].parent
    IN  {s \in Entries(t, View(r)) : View(r)[s].default /\ s # op[r].slot}

(* The rows that a flush inserts or updates. An UPDATE names the columns     *)
(* whose new value differs from the one in the identity map, and no others.  *)
FreeSlots(kind) ==
    {s \in Slots : Kind[s] = kind /\ s \notin given /\ \A q \in Requests : s \notin DOMAIN staged[q]}

(* Faulty variant: the flag of the payload does not reach the row.           *)
NewRow_NotDefault(o, k) ==
    [key |-> k, parent |-> o.parent, builtin |-> o.kind # "data" /\ o.flag = TRUE, default |-> FALSE]

NewRow(o, k) ==
    [key |-> k, parent |-> o.parent,
     builtin |-> o.kind # "data" /\ o.flag = TRUE, default |-> o.kind = "data" /\ o.flag = TRUE]

(* Faulty variant: codes that are taken are left out, the rest is imported.  *)
Insertions_SkippingTaken(r) ==
    LET free == {k \in op[r].keys : op[r].kind = "data" \/ ~KeyTaken(r, op[r].kind, k)}
    IN  {new \in UNION {[S -> {NewRow(op[r], k) : k \in free}] : S \in SUBSET FreeSlots(op[r].kind)} :
            Cardinality(DOMAIN new) = Cardinality(free) /\ {new[s].key : s \in DOMAIN new} = free}

Insertions(r) ==
    {new \in UNION {[S -> {NewRow(op[r], k) : k \in op[r].keys}] : S \in SUBSET FreeSlots(op[r].kind)} :
        /\ Cardinality(DOMAIN new) = Cardinality(op[r].keys)
        /\ {new[s].key : s \in DOMAIN new} = op[r].keys
        /\ \A s \in DOMAIN new, u \in FreeSlots(op[r].kind) : u < s => u \in DOMAIN new}

Wanted(o, row) ==
    [key |-> IF o.keys = {} THEN row.key ELSE CHOOSE k \in o.keys : TRUE,
     parent |-> row.parent,
     builtin |-> IF o.kind = "data" \/ o.flag = Unset THEN row.builtin ELSE o.flag,
     default |-> IF o.kind # "data" \/ o.flag = Unset THEN row.default ELSE o.flag]

Updated(r) ==
    LET wanted == Wanted(op[r], seen[r])
        row == View(r)[op[r].slot]
    IN  [key |-> IF wanted.key # seen[r].key THEN wanted.key ELSE row.key,
         parent |-> row.parent,
         builtin |-> IF wanted.builtin # seen[r].builtin THEN wanted.builtin ELSE row.builtin,
         default |-> IF wanted.default # seen[r].default THEN wanted.default ELSE row.default]

Update(r) ==
    IF Wanted(op[r], seen[r]) = seen[r] THEN <<>> ELSE [s \in {op[r].slot} |-> Updated(r)]

(* What the next write of a request may be. A deletion is not flushed by the *)
(* service: it reaches the database with the flush before the audit row.     *)
Removal(r) ==
    IF op[r].name = "delete" /\ View(r)[op[r].slot] # None
    THEN [s \in {op[r].slot} |-> None] ELSE <<>>

Pending(r) ==
    IF pc[r] = "clear" THEN {[s \in OtherDefaults(r) |-> [View(r)[s] EXCEPT !.default = FALSE]]}
    ELSE IF pc[r] # "flush" THEN {Removal(r)}
    ELSE IF op[r].name = "update" THEN {Update(r)}
    ELSE Insertions(r)

Clear(r) ==
    /\ pc[r] = "clear"
    /\ \E new \in Pending(r) : ~Waits(r, new) /\ Stage(r, new)
    /\ Goto(r, "flush")
    /\ UNCHANGED <<table, given, op, seen, recorded, answer, buffer, audit, committed, faults>>

(* The flush inside the service, and the refresh of an updated row: one that *)
(* has been deleted meanwhile is an error that nothing expects.              *)
Vanished(r) == op[r].name = "update" /\ View(r)[op[r].slot] = None

Written(r, new) ==
    /\ ~Waits(r, new)
    /\ IF Broken(r, new) # "none" THEN Refuse(r, Broken(r, new))
       ELSE Stage(r, new) /\ Goto(r, "record") /\ UNCHANGED <<recorded, answer, buffer>>

Flush(r) ==
    /\ pc[r] = "flush"
    /\ IF Vanished(r) THEN Break(r) ELSE \E new \in Pending(r) : Written(r, new)
    /\ UNCHANGED <<table, given, op, seen, audit, committed, faults>>

------------------------------------------------------------------------------
(* emit_rbac_write of a success. persist_audit_in_session flushes first: a   *)
(* deletion reaches the database here, outside the handlers of               *)
(* audited_write. The row of the event may fail alone, in its savepoint.     *)
(* The answer leaves before the dependency commits.                          *)
Recorded(r, ok) ==
    /\ recorded' = [recorded EXCEPT ![r] = ok]
    /\ Stage(r, Removal(r)) /\ Goto(r, "commit")
    /\ answer' = [answer EXCEPT ![r] = "ok"]
    /\ UNCHANGED buffer

Record(r) ==
    /\ pc[r] = "record" /\ ~Waits(r, Removal(r))
    /\ IF Broken(r, Removal(r)) # "none"
       THEN Fail(r, Broken(r, Removal(r)), FALSE) /\ UNCHANGED faults
       ELSE \/ Recorded(r, TRUE) /\ UNCHANGED faults
            \/ faults > 0 /\ faults' = faults - 1 /\ Recorded(r, FALSE)
    /\ UNCHANGED <<table, given, op, seen, audit, committed>>

Commit(r) ==
    /\ pc[r] = "commit"
    /\ table' = View(r)
    /\ given' = given \cup DOMAIN staged[r]
    /\ audit' = audit \cup (IF recorded[r] THEN {Success(r)} ELSE {})
    /\ committed' = [committed EXCEPT ![r] = TRUE]
    /\ staged' = [staged EXCEPT ![r] = <<>>]
    /\ Goto(r, "store")
    /\ UNCHANGED <<op, seen, recorded, answer, buffer, faults>>

(* Faulty variant: the success is on record whatever becomes of the commit.  *)
CommitFails_StaysOnRecord(r) ==
    /\ pc[r] = "commit" /\ faults > 0 /\ faults' = faults - 1
    /\ staged' = [staged EXCEPT ![r] = <<>>]
    /\ recorded' = [recorded EXCEPT ![r] = FALSE]
    /\ audit' = audit \cup (IF recorded[r] THEN {Success(r)} ELSE {})
    /\ Goto(r, "store")
    /\ UNCHANGED <<table, given, op, seen, answer, buffer, committed>>

(* The commit fails after the answer: nothing of the request is left.        *)
CommitFails(r) ==
    /\ pc[r] = "commit" /\ faults > 0 /\ faults' = faults - 1
    /\ staged' = [staged EXCEPT ![r] = <<>>]
    /\ recorded' = [recorded EXCEPT ![r] = FALSE]
    /\ Goto(r, "store")
    /\ UNCHANGED <<table, given, op, seen, answer, buffer, audit, committed>>

(* flush_audit_events: the middleware stores what was buffered, in a session *)
(* of its own, before the client sees the refusal; a failure is only logged. *)
Store(r) ==
    /\ pc[r] = "store"
    /\ audit' = audit \cup (IF buffer[r] THEN {Failure(r)} ELSE {})
    /\ buffer' = [buffer EXCEPT ![r] = FALSE]
    /\ Goto(r, "done")
    /\ UNCHANGED <<table, given, op, seen, staged, recorded, answer, committed, faults>>

StoreFails(r) ==
    /\ pc[r] = "store" /\ buffer[r] /\ faults > 0 /\ faults' = faults - 1
    /\ buffer' = [buffer EXCEPT ![r] = FALSE]
    /\ Goto(r, "done")
    /\ UNCHANGED <<table, given, op, seen, staged, recorded, answer, audit, committed>>

(* A deadlock or a lock wait that takes too long, or a lost connection: an   *)
(* OperationalError, which audited_write does not expect.                    *)
WaitFails(r) ==
    /\ pc[r] \in {"clear", "flush", "record"} /\ ~Vanished(r) /\ Pending(r) # {}
    /\ \A new \in Pending(r) : Waits(r, new)
    /\ Break(r)
    /\ UNCHANGED <<table, given, op, seen, audit, committed, faults>>

StatementFails(r) ==
    /\ pc[r] \in {"check", "clear", "flush", "record"} /\ ~UploadTooLarge(r) /\ faults > 0 /\ faults' = faults - 1
    /\ Break(r)
    /\ UNCHANGED <<table, given, op, seen, audit, committed>>

(* The process dies: open transactions are rolled back, buffers are lost.    *)
Crash ==
    LET open == {r \in Requests : pc[r] \notin {"idle", "done"}}
    IN  /\ open # {} /\ faults > 0 /\ faults' = faults - 1
        /\ staged' = [r \in Requests |-> <<>>]
        /\ recorded' = [r \in Requests |-> recorded[r] /\ r \notin open]
        /\ buffer' = [r \in Requests |-> FALSE]
        /\ pc' = [r \in Requests |-> IF r \in open THEN "done" ELSE pc[r]]
        /\ UNCHANGED <<table, given, op, seen, answer, audit, committed>>

Next ==
    \/ \E r \in Requests :
          \/ Receive(r) \/ RefuseUpload(r) \/ Check(r) \/ Clear(r) \/ Flush(r) \/ Record(r) \/ Commit(r) \/ Store(r)
          \/ CommitFails(r) \/ StoreFails(r) \/ WaitFails(r) \/ StatementFails(r)
    \/ Crash

Spec == Init /\ [][Next]_vars

------------------------------------------------------------------------------
(* The lists: which row comes before which. For posts, resolve_sort turns an *)
(* allowed field into an ORDER BY whose last column is the primary key; rows *)
(* that an order does not tell apart come in an order of their own in each   *)
(* query.                                                                    *)
ListTypes(s, u) == s < u
ListConfigs(s, u) == s < u
ListNotices(s, u) == u < s

ListData(s, u) ==
    \/ table[s].parent < table[u].parent
    \/ table[s].parent = table[u].parent /\ (Sort[s] < Sort[u] \/ (Sort[s] = Sort[u] /\ s < u))

Fields == {"default", "id", "sort_order", "created_at"}

Column(by, s) == IF by = "id" THEN s ELSE IF by = "created_at" THEN Created[s] ELSE Sort[s]

(* Faulty variant: no column breaks the ties.                                *)
ListPosts_NoTieBreak(by, asc, s, u) ==
    IF asc THEN Column(by, s) < Column(by, u) ELSE Column(by, u) < Column(by, s)

ListPosts(by, asc, s, u) ==
    \/ IF by = "default" \/ asc THEN Column(by, s) < Column(by, u) ELSE Column(by, u) < Column(by, s)
    \/ Column(by, s) = Column(by, u) /\ s < u

Rows(kind) == {s \in Slots : Kind[s] = kind /\ table[s] # None}

Sorted(rows, before) ==
    {q \in SetToSeqs(rows) : \A i, j \in DOMAIN q : i < j => <<q[j], q[i]>> \notin before}

TotalPages(total, size) == IF size > 0 THEN (total + size - 1) \div size ELSE 0

Page(q, page, size) ==
    LET first == (page - 1) * size + 1
    IN  {q[i] : i \in first .. (first + size - 1) \cap DOMAIN q}

------------------------------------------------------------------------------
(* However checks, clearings and writes of several requests interleave, no   *)
(* two rows share a code, no dictionary has two defaults and no entry has    *)
(* lost its dictionary (dict/service.py:129): checks read outside any lock.  *)
RowsAreConsistent == TypeOK /\ Consistent(table)

(* The trail tells the truth: a success is on record only when its request   *)
(* has been committed, a failure only when it has not, and a change is off   *)
(* the record only when a failure of the database or a crash came between    *)
(* (middleware.py:203: the trail is written around the answer and the        *)
(* commit, in two different transactions).                                   *)
AuditTellsTheTruth ==
    /\ \A e \in audit : (e.status = "success") = committed[e.request]
    /\ faults = Faults =>
          \A r \in Requests : committed[r] => Success(r) \in audit

(* A request that has passed its guards and its validation, and is refused,  *)
(* has the refusal on record before the client sees it. Not so: a deletion   *)
(* which meets the foreign key in the flush of the audit itself              *)
(* (rbac_audit.py:57); an upload over the limit, refused before the trail is *)
(* entered (post/api.py:151); errors that are not the request's.             *)
RefusalsAreOnRecord ==
    \A r \in Requests :
        /\ faults = Faults /\ pc[r] = "done"
        /\ answer[r] \notin {"ok", "INTERNAL_ERROR"}
        /\ ~(op[r].name = "delete" /\ answer[r] = "HAS_DATA")
        /\ ~UploadTooLarge(r)
        => Failure(r) \in audit

(* The trail is true, and of the refusals only those two are missing from it.*)
AuditIsTrue == AuditTellsTheTruth /\ RefusalsAreOnRecord

(* A request that loses a race is told what the check would have told it,    *)
(* had it come later: the codes registered for the constraints are those of  *)
(* the checks (errors.py:158). A dictionary that others filled and protected *)
(* meanwhile is refused for its entries, where the check puts its protection *)
(* first. Entries have no such check, and that of an import gives a list of  *)
(* errors.                                                                   *)
RacesAnswerLikeChecks ==
    [][\A r \in Requests :
          /\ pc[r] \in {"flush", "record"} /\ pc'[r] = "store"
          /\ op[r].kind # "data" /\ op[r].name # "import" /\ answer'[r] # "INTERNAL_ERROR"
          => \/ answer'[r] = Refusal(r)'
             \/ answer'[r] = "HAS_DATA" /\ Refusal(r)' = "BUILTIN_READONLY"]_vars

(* A dictionary loses its last default only to a request that takes the flag *)
(* away or deletes the entry, or that set an entry as default which it had   *)
(* read as default already: the bulk UPDATE has run, and no column differs   *)
(* from the identity map (dict/service.py:139).                              *)
HasDefault(t, rows) == \E s \in Entries(t, rows) : rows[s].default

DefaultsAreNotLost ==
    [][\A t \in Slots :
          HasDefault(t, table) /\ ~HasDefault(t, table') =>
              \E r \in Requests :
                  /\ committed'[r] /\ ~committed[r] /\ op[r].kind = "data"
                  /\ \/ op[r].name = "delete"
                     \/ op[r].name = "update" /\ op[r].flag = FALSE
                     \/ op[r].name = "update" /\ op[r].flag = TRUE /\ seen[r].default]_vars

(* An import writes all its posts or none, and none when one of the codes    *)
(* was taken, even by a request that came between its check and its flush    *)
(* (post/service.py:141).                                                    *)
ImportIsAllOrNothing ==
    [][\A r \in Requests :
          op[r].name = "import" /\ committed'[r] /\ ~committed[r] =>
              {table'[s].key : s \in {u \in Slots : table'[u] # table[u]}} \in {{}, op[r].keys}]_vars

(* Neither a default without its predecessor's clearing nor half an import   *)
(* is left behind: the two parts above.                                      *)
NothingIsHalfDone == DefaultsAreNotLost /\ ImportIsAllOrNothing

(* Each page is a query of its own, and may put rows that tie in any order.  *)
EachOnce(rows, before, size) ==
    LET n == TotalPages(Cardinality(rows), size)
    IN  \A query \in [1 .. n + 1 -> Sorted(rows, before)], s \in rows :
            Cardinality({p \in 1 .. n : s \in Page(query[p], p, size)}) = 1
                /\ Page(query[n + 1], n + 1, size) = {}

ListsCoverOnce(size) ==
    /\ EachOnce(Rows("type"), {x \in Slots \X Slots : ListTypes(x[1], x[2])}, size)
    /\ EachOnce(Rows("data"), {x \in Rows("data") \X Rows("data") : ListData(x[1], x[2])}, size)
    /\ EachOnce(Rows("config"), {x \in Slots \X Slots : ListConfigs(x[1], x[2])}, size)
    /\ EachOnce(Rows("notice"), {x \in Slots \X Slots : ListNotices(x[1], x[2])}, size)
    /\ \A by \in Fields, asc \in BOOLEAN :
          EachOnce(Rows("post"), {x \in Slots \X Slots : ListPosts(by, asc, x[1], x[2])}, size)

(* Turning the pages of a list shows every row exactly once, for every sort  *)
(* field, direction and page size, although each page is a query of its own. *)
PagesCoverOnce == \A size \in 1 .. 3 : ListsCoverOnce(size)
==============================================================================
