---------------------------- MODULE CatalogProofs ----------------------------
(***************************************************************************)
(* Safety of Catalog for every number of requests: the rows they write,    *)
(* their audit trail, what one answers when another gets there first, and  *)
(* the lists.                                                              *)
(***************************************************************************)
EXTENDS Catalog, FiniteSetTheorems, TLAPS

-----------------------------------------------------------------------------
(* The inductive invariant.                                                *)

\* What is committed: a row has a primary key that was given out and belongs
\* where its table says.
TableOK ==
    /\ table \in [Slots -> Row \cup {None}]
    /\ given \subseteq Slots
    /\ \A s \in Slots : table[s] # None => s \in given /\ Fits(s, table[s])
    /\ Consistent(table)

\* What r has written: rows of the table it asks for; a row that is not new
\* stays with its dictionary, and a new one has a fresh primary key.
WritesOK(r) ==
    /\ DOMAIN staged[r] \subseteq Slots
    /\ \A s \in DOMAIN staged[r] :
          /\ staged[r][s] \in Row \cup {None}
          /\ Kind[s] = op[r].kind
          /\ staged[r][s] # None => Fits(s, staged[r][s])
          /\ staged[r][s] # None /\ table[s] # None => staged[r][s].parent = table[s].parent
          /\ staged[r][s] # None /\ table[s] = None => s \notin given

\* The locks: r and q have written different rows, none that would collide,
\* and none of r's new rows belongs to a row that q has written.
Apart(r, q) ==
    /\ DOMAIN staged[r] \cap DOMAIN staged[q] = {}
    /\ \A s \in DOMAIN staged[r], u \in DOMAIN staged[q] : ~Clash(s, staged[r][s], u, staged[q][u])
    /\ \A s \in Inserts(staged[r]) : staged[r][s].parent \notin DOMAIN staged[q]

RowsOK ==
    /\ TableOK
    /\ DOMAIN staged = Requests
    /\ \A r \in Requests : WritesOK(r) /\ Consistent(View(r))
    /\ \A r, q \in Requests : r # q => Apart(r, q)

-----------------------------------------------------------------------------
(* Rows and writes.                                                        *)

LEMMA EmptyDomain == DOMAIN <<>> = {}
  OBVIOUS

LEMMA RowFields ==
  ASSUME NEW row \in Row
  PROVE  /\ row # None
         /\ row.key \in Keys /\ row.parent \in Slots \cup {None}
         /\ row.builtin \in BOOLEAN /\ row.default \in BOOLEAN
  BY CatalogAssumption DEF Row

LEMMA FieldsOfRow ==
  ASSUME NEW k, NEW p, NEW b, NEW d, NEW row,
         row = [key |-> k, parent |-> p, builtin |-> b, default |-> d]
  PROVE  row.key = k /\ row.parent = p /\ row.builtin = b /\ row.default = d
  OBVIOUS

LEMMA ClashSym ==
  ASSUME NEW s, NEW a, NEW u, NEW b
  PROVE  Clash(s, a, u, b) <=> Clash(u, b, s, a)
  BY DEF Clash, SameKey, TwoDefaults, Unique

\* A deleted row collides with nothing.
LEMMA NoneClashes ==
  ASSUME NEW s, NEW u, NEW b
  PROVE  ~Clash(s, None, u, b) /\ ~Clash(u, b, s, None)
  BY DEF Clash, SameKey, TwoDefaults

\* What Consistent says of two rows, and of one and the row it belongs to.
LEMMA ConsistentMeans ==
  ASSUME NEW rows
  PROVE  Consistent(rows) <=>
            /\ \A s, u \in Slots : ~Clash(s, rows[s], u, rows[u])
            /\ \A s \in Slots : rows[s] # None /\ rows[s].parent # None => rows[rows[s].parent] # None
  BY DEF Consistent, Orphans

LEMMA ViewOf ==
  ASSUME NEW r \in Requests, NEW s \in Slots
  PROVE  /\ s \in DOMAIN staged[r] => View(r)[s] = staged[r][s]
         /\ s \notin DOMAIN staged[r] => View(r)[s] = table[s]
  BY DEF View

LEMMA ViewType ==
  ASSUME RowsOK, NEW r \in Requests
  PROVE  View(r) \in [Slots -> Row \cup {None}]
  BY DEF RowsOK, TableOK, WritesOK, View

\* A row of the table and what a request sees of it belong to the same row.
LEMMA ParentsStay ==
  ASSUME RowsOK, NEW r \in Requests, NEW s \in Slots, table[s] # None, View(r)[s] # None
  PROVE  View(r)[s].parent = table[s].parent
  BY ViewOf DEF RowsOK, WritesOK

\* The row a row belongs to is a primary key.
LEMMA ParentIsSlot ==
  ASSUME RowsOK, NEW r \in Requests, NEW s \in Slots, View(r)[s] # None, View(r)[s].parent # None
  PROVE  View(r)[s].parent \in Slots
  BY ViewType, RowFields

LEMMA SameRows ==
  ASSUME NEW a, NEW b, \A s \in Slots : a[s] = b[s],
         \A s \in Slots : a[s] # None /\ a[s].parent # None => a[s].parent \in Slots,
         Consistent(a)
  PROVE  Consistent(b)
  <1>1. \A s, u \in Slots : ~Clash(s, b[s], u, b[u])
    BY ConsistentMeans
  <1>2. ASSUME NEW s \in Slots, b[s] # None, b[s].parent # None  PROVE b[b[s].parent] # None
    BY <1>2, ConsistentMeans
  <1> QED  BY <1>1, <1>2, ConsistentMeans

-----------------------------------------------------------------------------
(* The three things that happen to the writes of a request.                *)

\* Rows that r may write.
Fresh(r, new) ==
    /\ DOMAIN new \subseteq Slots
    /\ \A s \in DOMAIN new :
          /\ new[s] \in Row \cup {None}
          /\ Kind[s] = op[r].kind
          /\ new[s] # None => Fits(s, new[s])
          /\ new[s] # None /\ table[s] # None => new[s].parent = table[s].parent
          /\ new[s] # None /\ table[s] = None => s \notin given

LEMMA Staging ==
  ASSUME NEW r \in Requests, NEW new, DOMAIN staged = Requests, Stage(r, new)
  PROVE  /\ DOMAIN staged' = Requests
         /\ \A q \in Requests \ {r} : staged'[q] = staged[q]
         /\ DOMAIN staged'[r] = DOMAIN staged[r] \cup DOMAIN new
         /\ \A s \in DOMAIN new : staged'[r][s] = new[s]
         /\ \A s \in DOMAIN staged[r] \ DOMAIN new : staged'[r][s] = staged[r][s]
  BY DEF Stage

\* A write that had to wait for nobody collides with no row of another.
LEMMA NoWait ==
  ASSUME NEW r \in Requests, NEW new, ~Waits(r, new), NEW q \in Requests \ {r}
  PROVE  /\ DOMAIN new \cap DOMAIN staged[q] = {}
         /\ \A s \in DOMAIN new, u \in DOMAIN staged[q] : ~Clash(s, new[s], u, staged[q][u])
         /\ \A s \in Inserts(new) : new[s].parent \notin DOMAIN staged[q]
         /\ \A s \in Inserts(staged[q]) : staged[q][s].parent \notin DOMAIN new
  BY DEF Waits

LEMMA StageKeepsApart ==
  ASSUME RowsOK, NEW r \in Requests, NEW new, ~Waits(r, new), Stage(r, new),
         UNCHANGED table, NEW q \in Requests \ {r}
  PROVE  Apart(r, q)' /\ Apart(q, r)'
  <1> DEFINE mine == staged[r]
             now == staged'[r]
             other == staged[q]
  <1>1. /\ staged'[q] = other
        /\ DOMAIN now = DOMAIN mine \cup DOMAIN new
        /\ \A s \in DOMAIN new : now[s] = new[s]
        /\ \A s \in DOMAIN mine \ DOMAIN new : now[s] = mine[s]
    BY Staging DEF RowsOK
  <1>2. Apart(r, q) /\ Apart(q, r)
    BY DEF RowsOK
  <1>3. DOMAIN now \cap DOMAIN other = {}
    BY <1>1, <1>2, NoWait DEF Apart
  <1>4. ASSUME NEW s \in DOMAIN now, NEW u \in DOMAIN other
        PROVE  ~Clash(s, now[s], u, other[u]) /\ ~Clash(u, other[u], s, now[s])
    <2>1. ~Clash(s, now[s], u, other[u])
      BY <1>1, <1>2, NoWait DEF Apart
    <2> QED  BY <2>1, ClashSym
  <1>5. ASSUME NEW s \in DOMAIN now, now[s] # None, table[s] = None
        PROVE  now[s].parent \notin DOMAIN other
    <2>1. CASE s \in DOMAIN new
      BY <1>1, <1>5, <2>1, NoWait DEF Inserts
    <2>2. CASE s \notin DOMAIN new
      BY <1>1, <1>2, <1>5, <2>2 DEF Inserts, Apart
    <2> QED  BY <2>1, <2>2
  <1>6. ASSUME NEW s \in DOMAIN other, other[s] # None, table[s] = None
        PROVE  other[s].parent \notin DOMAIN now
    <2>1. s \in Inserts(other)
      BY <1>6 DEF Inserts
    <2> QED  BY <1>1, <1>2, <2>1, NoWait DEF Apart
  <1> QED  BY <1>1, <1>3, <1>4, <1>5, <1>6 DEF Apart, Inserts

LEMMA StageKeeps ==
  ASSUME RowsOK, NEW r \in Requests, NEW new, Fresh(r, new), ~Waits(r, new),
         Consistent(After(r, new)), Stage(r, new), UNCHANGED <<table, given, op>>
  PROVE  RowsOK'
  <1>1. /\ DOMAIN staged' = Requests
        /\ \A q \in Requests \ {r} : staged'[q] = staged[q]
        /\ DOMAIN staged'[r] = DOMAIN staged[r] \cup DOMAIN new
        /\ \A s \in DOMAIN new : staged'[r][s] = new[s]
        /\ \A s \in DOMAIN staged[r] \ DOMAIN new : staged'[r][s] = staged[r][s]
    BY Staging DEF RowsOK
  <1>2. TableOK'
    BY DEF RowsOK, TableOK, Fits, Consistent, Orphans, Clash, SameKey, TwoDefaults, Unique
  <1>3. ASSUME NEW q \in Requests  PROVE WritesOK(q)'
    <2>1. WritesOK(q) /\ WritesOK(r)
      BY DEF RowsOK
    <2>2. CASE q # r
      BY <1>1, <2>1, <2>2 DEF WritesOK, Fits
    <2>3. CASE q = r
      <3>1. DOMAIN staged'[r] \subseteq Slots
        BY <1>1, <2>1 DEF WritesOK, Fresh
      <3>2. ASSUME NEW s \in DOMAIN staged'[r]
            PROVE  /\ staged'[r][s] \in Row \cup {None}
                   /\ Kind[s] = op[r].kind
                   /\ staged'[r][s] # None => Fits(s, staged'[r][s])
                   /\ staged'[r][s] # None /\ table[s] # None => staged'[r][s].parent = table[s].parent
                   /\ staged'[r][s] # None /\ table[s] = None => s \notin given
        <4>1. CASE s \in DOMAIN new
          BY <1>1, <4>1 DEF Fresh
        <4>2. CASE s \notin DOMAIN new
          BY <1>1, <2>1, <3>2, <4>2 DEF WritesOK
        <4> QED  BY <4>1, <4>2
      <3> QED  BY <2>3, <3>1, <3>2 DEF WritesOK, Fits
    <2> QED  BY <2>2, <2>3
  <1>4. ASSUME NEW q \in Requests  PROVE Consistent(View(q)')
    <2>1. CASE q # r
      <3>1. View(q)' = View(q)
        BY <1>1, <2>1 DEF View
      <3> QED  BY <3>1 DEF RowsOK
    <2>2. CASE q = r
      <3>1. View(r)' = After(r, new)
        <4>1. ASSUME NEW s \in Slots  PROVE View(r)'[s] = After(r, new)[s]
          BY <1>1 DEF View, After
        <4> QED  BY <4>1 DEF View, After
      <3> QED  BY <2>2, <3>1
    <2> QED  BY <2>1, <2>2
  <1>5. ASSUME NEW p \in Requests, NEW q \in Requests, p # q  PROVE Apart(p, q)'
    <2>1. CASE p = r
      BY <1>5, <2>1, StageKeepsApart
    <2>2. CASE q = r
      BY <1>5, <2>2, StageKeepsApart
    <2>3. CASE p # r /\ q # r
      BY <1>1, <1>5, <2>3 DEF RowsOK, Apart, Inserts, Clash, SameKey, TwoDefaults, Unique
    <2> QED  BY <2>1, <2>2, <2>3
  <1>6. \A q \in Requests : Consistent(View(q))'
    BY <1>4 DEF Consistent, Orphans, Clash, SameKey, TwoDefaults, Unique
  <1> QED  BY <1>1, <1>2, <1>3, <1>5, <1>6 DEF RowsOK

\* Locks end with the transaction: whoever has nothing written disturbs nobody.
LEMMA DropKeeps ==
  ASSUME RowsOK, DOMAIN staged' = Requests, UNCHANGED <<table, given>>,
         \A r \in Requests : DOMAIN staged'[r] = {} \/ (staged'[r] = staged[r] /\ op'[r] = op[r])
  PROVE  RowsOK'
  <1>1. TableOK'
    BY DEF RowsOK, TableOK, Fits, Consistent, Orphans, Clash, SameKey, TwoDefaults, Unique
  <1>2. ASSUME NEW q \in Requests  PROVE WritesOK(q)' /\ Consistent(View(q))'
    <2>1. CASE DOMAIN staged'[q] = {}
      <3>1. \A s \in Slots : View(q)'[s] = table[s]
        BY <2>1 DEF View
      <3>2. \A s \in Slots : table[s] # None /\ table[s].parent # None => table[s].parent \in Slots
        BY RowFields DEF RowsOK, TableOK
      <3>3. Consistent(View(q)')
        BY <3>1, <3>2, SameRows DEF RowsOK, TableOK
      <3> QED  BY <2>1, <3>3 DEF WritesOK
    <2>2. CASE staged'[q] = staged[q] /\ op'[q] = op[q]
      <3>1. View(q)' = View(q)
        BY <2>2 DEF View
      <3> QED  BY <2>2, <3>1 DEF RowsOK, WritesOK, Fits
    <2> QED  BY <2>1, <2>2
  <1>3. ASSUME NEW p \in Requests, NEW q \in Requests, p # q  PROVE Apart(p, q)'
    BY <1>3 DEF RowsOK, Apart, Inserts, Clash, SameKey, TwoDefaults, Unique
  <1> QED  BY <1>1, <1>2, <1>3 DEF RowsOK

\* The commit of r under the eyes of q.
LEMMA CommitKeepsView ==
  ASSUME RowsOK, NEW r \in Requests, NEW q \in Requests \ {r},
         table' = View(r), staged'[q] = staged[q]
  PROVE  Consistent(View(q)')
  <1> DEFINE old == View(q)
             new == View(q)'
             mine == View(r)
  <1>1. /\ DOMAIN staged[q] \cap DOMAIN staged[r] = {}
        /\ Apart(q, r) /\ Apart(r, q)
    BY DEF RowsOK, Apart
  <1>2. ASSUME NEW s \in Slots
        PROVE  /\ s \in DOMAIN staged[q] => new[s] = staged[q][s] /\ old[s] = staged[q][s] /\ mine[s] = table[s]
               /\ s \in DOMAIN staged[r] => new[s] = staged[r][s] /\ mine[s] = staged[r][s] /\ old[s] = table[s]
               /\ s \notin DOMAIN staged[q] /\ s \notin DOMAIN staged[r] =>
                     new[s] = table[s] /\ old[s] = table[s] /\ mine[s] = table[s]
    BY <1>1 DEF View
  <1>3. Consistent(old) /\ Consistent(mine)
    BY DEF RowsOK
  <1>4. /\ \A s \in Slots : new[s] = old[s] \/ new[s] = mine[s]
        /\ \A s \in Slots : new[s] # old[s] => s \in DOMAIN staged[r]
        /\ \A s \in Slots : new[s] # mine[s] => s \in DOMAIN staged[q]
    BY <1>2
  <1>5. ASSUME NEW s \in Slots, NEW u \in Slots  PROVE ~Clash(s, new[s], u, new[u])
    <2>1. CASE new[s] = old[s] /\ new[u] = old[u]
      BY <1>3, <2>1, ConsistentMeans
    <2>2. CASE new[s] = mine[s] /\ new[u] = mine[u]
      BY <1>3, <2>2, ConsistentMeans
    <2>3. CASE s \in DOMAIN staged[r] /\ u \in DOMAIN staged[q]
      BY <1>1, <1>2, <2>3 DEF Apart
    <2>4. CASE s \in DOMAIN staged[q] /\ u \in DOMAIN staged[r]
      BY <1>1, <1>2, <2>4 DEF Apart
    <2> QED  BY <1>4, <2>1, <2>2, <2>3, <2>4
  <1>6. ASSUME NEW s \in Slots, new[s] # None, new[s].parent # None  PROVE new[new[s].parent] # None
    <2>1. PICK p \in Slots : new[s].parent = p
      BY <1>4, <1>6, ParentIsSlot
    <2>2. (s \notin DOMAIN staged[q] => mine[s] = new[s]) /\ (s \notin DOMAIN staged[r] => old[s] = new[s])
      BY <1>4
    <2>3. (s \notin DOMAIN staged[q] => mine[p] # None) /\ (s \notin DOMAIN staged[r] => old[p] # None)
      BY <1>3, <1>6, <2>1, <2>2, ConsistentMeans
    <2>4. CASE p \notin DOMAIN staged[r] /\ p \notin DOMAIN staged[q]
      BY <1>1, <1>2, <2>1, <2>3, <2>4
    <2>5. CASE p \in DOMAIN staged[r]
      <3>1. CASE s \notin DOMAIN staged[q]
        BY <1>4, <1>1, <2>1, <2>3, <2>5, <3>1
      <3>2. CASE s \in DOMAIN staged[q] /\ table[s] = None
        BY <1>1, <1>2, <1>6, <2>1, <2>5, <3>2 DEF Apart, Inserts
      <3>3. CASE s \in DOMAIN staged[q] /\ table[s] # None
        <4>1. mine[s] # None /\ mine[s].parent = p
          BY <1>2, <1>6, <2>1, <3>3, ParentsStay
        <4>2. mine[p] # None
          BY <1>3, <2>1, <4>1, CatalogAssumption, ConsistentMeans
        <4> QED  BY <1>2, <2>1, <2>5, <4>2
      <3> QED  BY <3>1, <3>2, <3>3
    <2>6. CASE p \in DOMAIN staged[q]
      <3>1. CASE s \notin DOMAIN staged[r]
        BY <1>4, <1>1, <2>1, <2>3, <2>6, <3>1
      <3>2. CASE s \in DOMAIN staged[r] /\ table[s] = None
        BY <1>1, <1>2, <1>6, <2>1, <2>6, <3>2 DEF Apart, Inserts
      <3>3. CASE s \in DOMAIN staged[r] /\ table[s] # None
        <4>1. old[s] # None /\ old[s].parent = p
          BY <1>2, <1>6, <2>1, <3>3, ParentsStay
        <4>2. old[p] # None
          BY <1>3, <2>1, <4>1, CatalogAssumption, ConsistentMeans
        <4> QED  BY <1>2, <2>1, <2>6, <4>2
      <3> QED  BY <3>1, <3>2, <3>3
    <2> QED  BY <2>1, <2>4, <2>5, <2>6
  <1> HIDE DEF new
  <1>7. Consistent(new)
    BY <1>5, <1>6, ConsistentMeans
  <1> QED  BY <1>7 DEF new

LEMMA CommitKeeps ==
  ASSUME RowsOK, NEW r \in Requests, table' = View(r), given' = given \cup DOMAIN staged[r],
         staged' = [staged EXCEPT ![r] = <<>>], UNCHANGED op
  PROVE  RowsOK'
  <1>1. /\ DOMAIN staged' = Requests /\ DOMAIN staged'[r] = {}
        /\ \A q \in Requests \ {r} : staged'[q] = staged[q]
    BY EmptyDomain DEF RowsOK
  <1>2. \A s \in Slots : /\ s \in DOMAIN staged[r] => table'[s] = staged[r][s]
                         /\ s \notin DOMAIN staged[r] => table'[s] = table[s]
    BY ViewOf
  <1>3. \A q \in Requests \ {r} : DOMAIN staged[q] \cap DOMAIN staged[r] = {}
    BY DEF RowsOK, Apart
  <1>4. TableOK'
    <2>1. table' \in [Slots -> Row \cup {None}]
      BY ViewType
    <2>2. given' \subseteq Slots
      BY DEF RowsOK, TableOK, WritesOK
    <2>3. ASSUME NEW s \in Slots, table'[s] # None  PROVE s \in given' /\ Fits(s, table'[s])
      BY <1>2, <2>3 DEF RowsOK, TableOK, WritesOK
    <2>4. Consistent(table')
      BY DEF RowsOK
    <2>5. Consistent(table)'
      BY <2>4 DEF Consistent, Orphans, Clash, SameKey, TwoDefaults, Unique
    <2> QED  BY <2>1, <2>2, <2>3, <2>5 DEF TableOK, Fits
  <1>5. ASSUME NEW q \in Requests  PROVE WritesOK(q)'
    <2>1. CASE q = r
      BY <1>1, <2>1 DEF WritesOK
    <2>2. CASE q # r
      <3>1. WritesOK(q) /\ staged'[q] = staged[q] /\ op' = op
        BY <1>1, <2>2 DEF RowsOK
      <3>2. \A s \in DOMAIN staged[q] : table'[s] = table[s] /\ (s \notin given => s \notin given')
        BY <1>2, <1>3, <2>2, <3>1 DEF WritesOK
      <3> QED  BY <3>1, <3>2 DEF WritesOK, Fits
    <2> QED  BY <2>1, <2>2
  <1>6. ASSUME NEW q \in Requests  PROVE Consistent(View(q))'
    <2>1. CASE q = r
      <3>1. \A s \in Slots : View(r)'[s] = View(r)[s]
        BY <1>1 DEF View
      <3>2. Consistent(View(r)')
        BY <3>1, SameRows, ParentIsSlot DEF RowsOK
      <3> QED  BY <2>1, <3>2 DEF Consistent, Orphans, Clash, SameKey, TwoDefaults, Unique
    <2>2. CASE q # r
      <3>1. Consistent(View(q)')
        BY <1>1, <2>2, CommitKeepsView
      <3> QED  BY <3>1 DEF Consistent, Orphans, Clash, SameKey, TwoDefaults, Unique
    <2> QED  BY <2>1, <2>2
  <1>7. ASSUME NEW p \in Requests, NEW q \in Requests, p # q  PROVE Apart(p, q)'
    <2>1. CASE p = r \/ q = r
      BY <1>1, <2>1 DEF Apart, Inserts
    <2>2. CASE p # r /\ q # r
      <3>1. Apart(p, q) /\ staged'[p] = staged[p] /\ staged'[q] = staged[q]
        BY <1>1, <1>7, <2>2 DEF RowsOK
      <3>2. \A s \in DOMAIN staged[p] : s \in Slots /\ table'[s] = table[s]
        BY <1>2, <1>3, <2>2 DEF RowsOK, WritesOK
      <3> QED  BY <3>1, <3>2 DEF Apart, Inserts, Clash, SameKey, TwoDefaults, Unique
    <2> QED  BY <2>1, <2>2
  <1> QED  BY <1>1, <1>4, <1>5, <1>6, <1>7 DEF RowsOK

-----------------------------------------------------------------------------
(* The requests: what each asks for, and what it has read.                 *)

SetsDefault(r) == op[r].kind = "data" /\ op[r].flag = TRUE

\* Past its check, the row that a request names was there when it was read; it
\* may be gone by now, but no other row has its primary key.
Known(r) ==
    seen[r] # None =>
        /\ op[r].slot \in given
        /\ Fits(op[r].slot, seen[r])
        /\ table[op[r].slot] # None => table[op[r].slot].parent = seen[r].parent

\* Nothing is written before the flush, but for the clearing of defaults.
FlowOK(r) ==
    /\ IF pc[r] = "idle" THEN seen[r] = None ELSE op[r] \in Ops
    /\ pc[r] = "clear" => SetsDefault(r)
    /\ pc[r] \in {"clear", "flush"} => op[r].name \in {"create", "update", "import"}
    /\ pc[r] \notin {"flush", "record", "commit"} => DOMAIN staged[r] = {}
    /\ pc[r] = "flush" /\ ~SetsDefault(r) => DOMAIN staged[r] = {}
    /\ pc[r] = "record" /\ op[r].name = "delete" => DOMAIN staged[r] = {}
    /\ pc[r] \in {"clear", "flush", "record", "commit"} /\ op[r].slot # None => seen[r] # None

FlowTypes ==
    /\ op \in [Requests -> Ops \cup {NoOp}]
    /\ pc \in [Requests -> {"idle", "check", "clear", "flush", "record", "commit", "store", "done"}]
    /\ seen \in [Requests -> Row \cup {None}]

RequestsOK == FlowTypes /\ \A r \in Requests : Known(r) /\ FlowOK(r)

LEMMA OpFields ==
  ASSUME NEW o \in Ops
  PROVE  /\ o.name \in {"create", "update", "delete", "import", "export"}
         /\ o.slot \in Slots \cup {None} /\ o.kind \in Kinds /\ o.parent \in Slots \cup {None}
         /\ o.keys \subseteq Keys /\ o.flag \in BOOLEAN \cup {Unset}
         /\ Payload(o)
  BY CatalogAssumption DEF Payloads

\* The row that a request names is one of the table it asks for.
LEMMA SlotOfOp ==
  ASSUME NEW o \in Ops, o.name \in {"update", "delete"}
  PROVE  o.slot \in Slots /\ Kind[o.slot] = o.kind
  BY OpFields, CatalogAssumption DEF Payload

LEMMA NewRowFits ==
  ASSUME NEW o \in Ops, o.name \in {"create", "import"}, NEW k \in o.keys,
         NEW s \in Slots, Kind[s] = o.kind
  PROVE  NewRow(o, k) \in Row /\ NewRow(o, k) # None /\ Fits(s, NewRow(o, k))
         /\ NewRow(o, k).key = k /\ NewRow(o, k).parent = o.parent
         /\ (NewRow(o, k).default <=> (o.kind = "data" /\ o.flag = TRUE))
  <1> DEFINE b == o.kind # "data" /\ o.flag = TRUE
             d == o.kind = "data" /\ o.flag = TRUE
  <1>1. PICK kk, p, bb, dd : kk = k /\ p = o.parent /\ bb = b /\ dd = d
    OBVIOUS
  <1>2. bb \in BOOLEAN /\ dd \in BOOLEAN /\ kk \in Keys /\ p \in Slots \cup {None}
    BY <1>1, OpFields
  <1>3. NewRow(o, k) = [key |-> kk, parent |-> p, builtin |-> bb, default |-> dd]
    BY <1>1 DEF NewRow
  <1>4. /\ NewRow(o, k).key = kk /\ NewRow(o, k).parent = p
        /\ NewRow(o, k).builtin = bb /\ NewRow(o, k).default = dd
    BY <1>3
  <1>5. NewRow(o, k) \in Row
    BY <1>2, <1>3 DEF Row
  <1>6. IF o.kind = "data" THEN p \in Slots /\ Kind[p] = "type" ELSE p = None
    BY <1>1, OpFields DEF Payload
  <1>7. ~d \/ o.kind = "data"
    OBVIOUS
  <1> HIDE DEF b, d
  <1>8. Fits(s, NewRow(o, k))
    BY <1>1, <1>4, <1>6, <1>7, <1>2 DEF Fits
  <1>9. dd <=> d
    BY <1>1
  <1> QED  BY <1>1, <1>4, <1>5, <1>8, <1>9, RowFields DEF d

\* The columns that an update names have the value it wants, the others stay.
LEMMA UpdatedRow ==
  ASSUME NEW r \in Requests, op[r] \in Ops, op[r].name = "update", seen[r] \in Row,
         View(r)[op[r].slot] \in Row
  PROVE  /\ Updated(r) \in Row
         /\ Updated(r).parent = View(r)[op[r].slot].parent
         /\ \/ Updated(r).key = View(r)[op[r].slot].key
            \/ op[r].keys = {Updated(r).key} /\ Updated(r).key # seen[r].key
         /\ SetsDefault(r) /\ ~seen[r].default => Updated(r).default
         /\ op[r].kind # "data" \/ op[r].flag = Unset =>
               (Updated(r).default <=> View(r)[op[r].slot].default)
  <1> DEFINE o == op[r]
             row == View(r)[o.slot]
             old == seen[r]
             want == Wanted(o, old)
  <1>1. /\ row.key \in Keys /\ row.parent \in Slots \cup {None}
        /\ row.builtin \in BOOLEAN /\ row.default \in BOOLEAN
        /\ old.key \in Keys /\ old.builtin \in BOOLEAN /\ old.default \in BOOLEAN
    BY RowFields
  <1>2. /\ o.flag \in BOOLEAN \cup {Unset}
        /\ o.keys = {} \/ \E k \in Keys : o.keys = {k}
    BY OpFields DEF Payload
  <1>3. PICK wk, wb, wd : /\ wk = (IF o.keys = {} THEN old.key ELSE CHOOSE k \in o.keys : TRUE)
                          /\ wb = (IF o.kind = "data" \/ o.flag = Unset THEN old.builtin ELSE o.flag)
                          /\ wd = (IF o.kind # "data" \/ o.flag = Unset THEN old.default ELSE o.flag)
    OBVIOUS
  <1>4. /\ wk \in Keys /\ wb \in BOOLEAN /\ wd \in BOOLEAN
        /\ wk = old.key \/ o.keys = {wk}
        /\ o.kind # "data" \/ o.flag = Unset => wd = old.default
        /\ o.kind = "data" /\ o.flag = TRUE => wd = TRUE
    <2>1. wk \in Keys /\ (wk = old.key \/ o.keys = {wk})
      <3>1. CASE o.keys = {}
        BY <1>1, <1>3, <3>1
      <3>2. CASE o.keys # {}
        <4>1. PICK k \in Keys : o.keys = {k}
          BY <1>2, <3>2
        <4>2. wk = CHOOSE x \in {k} : TRUE
          BY <1>3, <4>1
        <4> QED  BY <4>1, <4>2
      <3> QED  BY <3>1, <3>2
    <2>2. wb \in BOOLEAN /\ wd \in BOOLEAN
      BY <1>1, <1>2, <1>3
    <2>3. /\ o.kind # "data" \/ o.flag = Unset => wd = old.default
          /\ o.kind = "data" /\ o.flag = TRUE => wd = TRUE
      BY <1>3, CatalogAssumption
    <2> QED  BY <2>1, <2>2, <2>3
  <1>5. want = [key |-> wk, parent |-> old.parent, builtin |-> wb, default |-> wd]
    BY <1>3 DEF Wanted
  <1>6. want.key = wk /\ want.builtin = wb /\ want.default = wd
    BY <1>5
  <1> HIDE DEF want
  <1>7. PICK uk, ub, ud : /\ uk = (IF wk # old.key THEN wk ELSE row.key)
                          /\ ub = (IF wb # old.builtin THEN wb ELSE row.builtin)
                          /\ ud = (IF wd # old.default THEN wd ELSE row.default)
    OBVIOUS
  <1>8. Updated(r) = [key |-> uk, parent |-> row.parent, builtin |-> ub, default |-> ud]
    BY <1>6, <1>7 DEF Updated, want
  <1>9. uk \in Keys /\ ub \in BOOLEAN /\ ud \in BOOLEAN
    BY <1>1, <1>4, <1>7
  <1>10. Updated(r) \in Row
    BY <1>1, <1>8, <1>9 DEF Row
  <1>11. /\ Updated(r).key = uk /\ Updated(r).parent = row.parent
         /\ Updated(r).builtin = ub /\ Updated(r).default = ud
    BY <1>8
  <1>12. uk = row.key \/ (o.keys = {uk} /\ uk # old.key)
    BY <1>4, <1>7
  <1>13. o.kind # "data" \/ o.flag = Unset => ud = row.default
    BY <1>4, <1>7
  <1>14. o.kind = "data" /\ o.flag = TRUE /\ ~old.default => ud = TRUE
    BY <1>1, <1>4, <1>7
  <1>15. (ud = row.default => (ud <=> row.default)) /\ (ud = TRUE => ud)
    OBVIOUS
  <1> QED  BY <1>10, <1>11, <1>12, <1>13, <1>14, <1>15 DEF SetsDefault

-----------------------------------------------------------------------------
(* What is written fits the schema.                                        *)

\* The bulk UPDATE of clear_other_defaults, column by column.
Undefaulted(r) == [s \in OtherDefaults(r) |-> [View(r)[s] EXCEPT !.default = FALSE]]

LEMMA UndefaultedRow ==
  ASSUME NEW row \in Row, NEW no \in BOOLEAN, NEW new, new = [row EXCEPT !.default = no]
  PROVE  /\ new \in Row /\ new # None
         /\ new.key = row.key /\ new.parent = row.parent /\ new.default = no
  <1>1. /\ row = [key |-> row.key, parent |-> row.parent, builtin |-> row.builtin, default |-> row.default]
        /\ row.key \in Keys /\ row.parent \in Slots \cup {None} /\ row.builtin \in BOOLEAN
    BY DEF Row
  <1>2. new = [key |-> row.key, parent |-> row.parent, builtin |-> row.builtin, default |-> no]
    BY <1>1
  <1>3. new \in Row
    BY <1>1, <1>2 DEF Row
  <1>4. new.key = row.key /\ new.parent = row.parent /\ new.default = no
    BY <1>2, FieldsOfRow
  <1> QED  BY <1>3, <1>4, RowFields

LEMMA ClearFits ==
  ASSUME RowsOK, RequestsOK, NEW r \in Requests, pc[r] = "clear"
  PROVE  Fresh(r, Undefaulted(r)) /\ Consistent(After(r, Undefaulted(r)))
  <1> DEFINE new == Undefaulted(r)
             now == View(r)
             rows == After(r, new)
  <1>1. DOMAIN new = OtherDefaults(r) /\ OtherDefaults(r) \subseteq Slots
    BY DEF OtherDefaults, Undefaulted, Entries
  <1>2. DOMAIN staged[r] = {} /\ op[r].kind = "data"
    BY DEF RequestsOK, FlowOK, SetsDefault
  <1>3. ASSUME NEW s \in DOMAIN new
        PROVE  /\ s \in Slots /\ now[s] = table[s] /\ now[s] \in Row /\ now[s] # None
               /\ new[s] \in Row /\ new[s] # None
               /\ new[s].key = now[s].key /\ new[s].parent = now[s].parent /\ ~new[s].default
               /\ Kind[s] = "data"
    <2>1. s \in Slots /\ now[s] # None /\ now[s].default
      BY <1>1, <1>3 DEF OtherDefaults, Entries
    <2>2. now[s] = table[s] /\ now[s] \in Row
      BY <1>2, <2>1, ViewOf, ViewType
    <2>3. PICK no : no = FALSE /\ new[s] = [now[s] EXCEPT !.default = no]
      BY <1>1, <1>3 DEF Undefaulted
    <2>4. Fits(s, now[s])
      BY <2>1, <2>2 DEF RowsOK, TableOK
    <2>5. /\ new[s] \in Row /\ new[s] # None
          /\ new[s].key = now[s].key /\ new[s].parent = now[s].parent /\ ~new[s].default
      <3> DEFINE row == now[s]
                 row2 == new[s]
      <3>1. no \in BOOLEAN /\ row \in Row /\ row2 = [row EXCEPT !.default = no]
        BY <2>1, <2>2, <2>3
      <3> HIDE DEF row, row2
      <3>2. /\ row2 \in Row /\ row2 # None
            /\ row2.key = row.key /\ row2.parent = row.parent /\ row2.default = no
        BY <3>1, UndefaultedRow
      <3>3. no = FALSE
        BY <2>3
      <3>4. ~row2.default
        BY <3>2, <3>3, Zenon
      <3> QED  BY <3>2, <3>4 DEF row, row2
    <2>6. Kind[s] = "data"
      BY <2>1, <2>4, RowFields DEF Fits
    <2> QED  BY <2>1, <2>2, <2>5, <2>6
  <1>4. Fresh(r, new)
    <2>1. ASSUME NEW s \in DOMAIN new  PROVE Fits(s, new[s]) /\ Kind[s] = op[r].kind /\ table[s] # None
      BY <1>2, <1>3, <2>1 DEF Fits, RowsOK, TableOK
    <2> QED  BY <1>1, <1>3, <2>1 DEF Fresh
  <1>5. Consistent(now)
    BY DEF RowsOK
  <1>6. ASSUME NEW s \in Slots
        PROVE  /\ rows[s] = None <=> now[s] = None
               /\ now[s] # None => rows[s].key = now[s].key /\ rows[s].parent = now[s].parent
                                   /\ (rows[s].default => now[s].default)
    BY <1>3 DEF After
  <1> HIDE DEF rows
  <1>7. ASSUME NEW s \in Slots, NEW u \in Slots  PROVE ~Clash(s, rows[s], u, rows[u])
    BY <1>5, <1>6, ConsistentMeans DEF Clash, SameKey, TwoDefaults
  <1>8. ASSUME NEW s \in Slots, rows[s] # None, rows[s].parent # None  PROVE rows[rows[s].parent] # None
    BY <1>5, <1>6, <1>8, ConsistentMeans, ParentIsSlot
  <1>9. Consistent(rows)
    BY <1>7, <1>8, ConsistentMeans
  <1> QED  BY <1>4, <1>9 DEF rows

\* A write that breaks no constraint.
LEMMA NotBroken ==
  ASSUME RowsOK, NEW r \in Requests, NEW new, Broken(r, new) = "none"
  PROVE  Consistent(After(r, new))
  <1> DEFINE rows == After(r, new)
  <1>1. /\ \A s \in DOMAIN new, u \in Slots : ~SameKey(s, rows[s], u, rows[u])
        /\ \A s \in DOMAIN new, u \in Slots : ~TwoDefaults(s, rows[s], u, rows[u])
        /\ Orphans(rows) = {}
    BY DEF Broken
  <1>2. ASSUME NEW s \in Slots, NEW u \in Slots  PROVE ~Clash(s, rows[s], u, rows[u])
    <2>1. CASE s \in DOMAIN new
      BY <1>1, <2>1 DEF Clash
    <2>2. CASE u \in DOMAIN new
      BY <1>1, <2>2, ClashSym DEF Clash
    <2>3. CASE s \notin DOMAIN new /\ u \notin DOMAIN new
      <3>1. rows[s] = View(r)[s] /\ rows[u] = View(r)[u]
        BY <2>3 DEF After
      <3> QED  BY <3>1, ConsistentMeans DEF RowsOK
    <2> QED  BY <2>1, <2>2, <2>3
  <1> QED  BY <1>1, <1>2 DEF Consistent

LEMMA UpdateFits ==
  ASSUME RowsOK, RequestsOK, NEW r \in Requests, pc[r] = "flush", op[r].name = "update", ~Vanished(r)
  PROVE  Fresh(r, Update(r))
  <1> DEFINE s == op[r].slot
             row == View(r)[s]
             new == Updated(r)
  <1>1. op[r] \in Ops /\ s \in Slots /\ Kind[s] = op[r].kind /\ row \in Row /\ row # None
    BY SlotOfOp, ViewType, RowFields DEF RequestsOK, FlowOK, Vanished
  <1>2. seen[r] \in Row
    BY <1>1, CatalogAssumption DEF RequestsOK, FlowOK, FlowTypes, Known
  <1>3. new \in Row /\ new # None /\ new.parent = row.parent
    BY <1>1, <1>2, UpdatedRow, RowFields
  <1>4. Kind[s] # "data" => (new.default <=> row.default)
    BY <1>1, <1>2, UpdatedRow
  <1>5. Fits(s, row)
    BY <1>1, ViewOf DEF RowsOK, TableOK, WritesOK
  <1> HIDE DEF new
  <1>6. Fits(s, new)
    BY <1>3, <1>4, <1>5 DEF Fits
  <1>7. table[s] # None => new.parent = table[s].parent
    BY <1>1, <1>3, ParentsStay
  <1>8. table[s] = None => s \notin given
    BY <1>1, ViewOf DEF RowsOK, WritesOK
  <1>9. CASE Update(r) = <<>>
    BY <1>9, EmptyDomain DEF Fresh
  <1>10. CASE Update(r) = [u \in {s} |-> new]
    BY <1>1, <1>3, <1>6, <1>7, <1>8, <1>10 DEF Fresh
  <1> QED  BY <1>9, <1>10 DEF Update, new

\* The rows that an INSERT makes, of a creation or of an import.
LEMMA InsertionRows ==
  ASSUME RowsOK, NEW r \in Requests, op[r] \in Ops, op[r].name \in {"create", "import"},
         NEW new \in Insertions(r)
  PROVE  /\ DOMAIN new \subseteq FreeSlots(op[r].kind)
         /\ \A s \in DOMAIN new :
               /\ s \in Slots /\ Kind[s] = op[r].kind /\ s \notin given /\ table[s] = None
               /\ \E k \in op[r].keys : new[s] = NewRow(op[r], k)
               /\ new[s] \in Row /\ new[s] # None /\ Fits(s, new[s]) /\ new[s].parent = op[r].parent
               /\ new[s].default <=> SetsDefault(r)
         /\ {new[s].key : s \in DOMAIN new} = op[r].keys
         /\ Cardinality(DOMAIN new) = Cardinality(op[r].keys)
  <1>1. PICK S \in SUBSET FreeSlots(op[r].kind) : new \in [S -> {NewRow(op[r], k) : k \in op[r].keys}]
    BY DEF Insertions
  <1>2. DOMAIN new = S
    BY <1>1
  <1>3. ASSUME NEW s \in DOMAIN new
        PROVE  /\ s \in Slots /\ Kind[s] = op[r].kind /\ s \notin given /\ table[s] = None
               /\ \E k \in op[r].keys : new[s] = NewRow(op[r], k)
    BY <1>1, <1>2, <1>3 DEF FreeSlots, RowsOK, TableOK
  <1>4. ASSUME NEW s \in DOMAIN new
        PROVE  /\ new[s] \in Row /\ new[s] # None /\ Fits(s, new[s]) /\ new[s].parent = op[r].parent
               /\ new[s].default <=> SetsDefault(r)
    <2>1. PICK k \in op[r].keys : new[s] = NewRow(op[r], k)
      BY <1>3
    <2>2. /\ NewRow(op[r], k) \in Row /\ NewRow(op[r], k) # None /\ Fits(s, NewRow(op[r], k))
          /\ NewRow(op[r], k).parent = op[r].parent
          /\ NewRow(op[r], k).default <=> (op[r].kind = "data" /\ op[r].flag = TRUE)
      <3> DEFINE o == op[r]
      <3>1. o \in Ops /\ o.name \in {"create", "import"} /\ k \in o.keys /\ s \in Slots /\ Kind[s] = o.kind
        BY <1>3, <2>1
      <3> HIDE DEF o
      <3>2. /\ NewRow(o, k) \in Row /\ NewRow(o, k) # None /\ Fits(s, NewRow(o, k))
            /\ NewRow(o, k).parent = o.parent
            /\ NewRow(o, k).default <=> (o.kind = "data" /\ o.flag = TRUE)
        BY <3>1, NewRowFits
      <3> QED  BY <3>2 DEF o
    <2> QED  BY <2>1, <2>2 DEF SetsDefault
  <1>5. /\ {new[s].key : s \in DOMAIN new} = op[r].keys
        /\ Cardinality(DOMAIN new) = Cardinality(op[r].keys)
    BY DEF Insertions
  <1> QED  BY <1>1, <1>2, <1>3, <1>4, <1>5

LEMMA RemovalFits ==
  ASSUME RowsOK, RequestsOK, NEW r \in Requests, pc[r] = "record"
  PROVE  Fresh(r, Removal(r))
  <1>1. CASE Removal(r) = <<>>
    BY <1>1, EmptyDomain DEF Fresh
  <1>2. CASE Removal(r) # <<>>
    <2>1. op[r].name = "delete" /\ Removal(r) = [s \in {op[r].slot} |-> None] /\ op[r] \in Ops
      BY <1>2 DEF Removal, RequestsOK, FlowOK
    <2> QED  BY <2>1, SlotOfOp DEF Fresh
  <1> QED  BY <1>1, <1>2

-----------------------------------------------------------------------------
(* Every step does one of these things to the rows.                        *)

\* Requests write nothing, and drop what they have written or keep it.
NoWrite ==
    /\ UNCHANGED <<table, given>> /\ DOMAIN staged' = Requests
    /\ \A q \in Requests : DOMAIN staged'[q] = {} \/ (staged'[q] = staged[q] /\ op'[q] = op[q])

Writes(r) ==
    \E new : /\ Fresh(r, new) /\ ~Waits(r, new) /\ Consistent(After(r, new)) /\ Stage(r, new)
             /\ UNCHANGED <<table, given, op>>

LEMMA FailDrops ==
  ASSUME RowsOK, NEW r \in Requests, NEW code, NEW event, Fail(r, code, event), UNCHANGED <<table, given, op>>
  PROVE  NoWrite
  BY EmptyDomain DEF RowsOK, Fail, NoWrite

LEMMA ReceiveWrites ==
  ASSUME RowsOK, RequestsOK, NEW r \in Requests, Receive(r)
  PROVE  NoWrite
  <1>1. pc[r] = "idle" /\ (\E o \in Ops : op' = [op EXCEPT ![r] = o]) /\ UNCHANGED <<table, given, staged>>
    BY DEF Receive, CreateType, UpdateType, DeleteType, CreateData, UpdateData, DeleteData, CreatePost,
           UpdatePost, DeletePost, ImportPosts, ExportPosts, CreateConfig, UpdateConfig, DeleteConfig,
           CreateNotice, UpdateNotice, DeleteNotice, Asks
  <1>2. DOMAIN staged[r] = {} /\ op \in [Requests -> Ops \cup {NoOp}]
    BY <1>1 DEF RequestsOK, FlowOK, FlowTypes
  <1> QED  BY <1>1, <1>2 DEF RowsOK, NoWrite

LEMMA ClearWrites ==
  ASSUME RowsOK, RequestsOK, NEW r \in Requests, Clear(r)
  PROVE  Writes(r)
  <1>1. pc[r] = "clear" /\ Pending(r) = {Undefaulted(r)}
    BY DEF Clear, Pending, Undefaulted
  <1>2. ~Waits(r, Undefaulted(r)) /\ Stage(r, Undefaulted(r)) /\ UNCHANGED <<table, given, op>>
    BY <1>1 DEF Clear
  <1> QED  BY <1>1, <1>2, ClearFits DEF Writes

\* What a flush may write.
LEMMA PendingFits ==
  ASSUME RowsOK, RequestsOK, NEW r \in Requests, pc[r] = "flush", ~Vanished(r), NEW new \in Pending(r)
  PROVE  Fresh(r, new)
  <1>1. CASE op[r].name = "update"
    <2>1. new = Update(r)
      BY <1>1 DEF Pending
    <2> QED  BY <1>1, <2>1, UpdateFits
  <1>2. CASE op[r].name # "update"
    <2>1. new \in Insertions(r) /\ op[r] \in Ops /\ op[r].name \in {"create", "import"}
      BY <1>2 DEF Pending, RequestsOK, FlowOK
    <2> QED  BY <2>1, InsertionRows DEF Fresh
  <1> QED  BY <1>1, <1>2

LEMMA FlushWrites ==
  ASSUME RowsOK, RequestsOK, NEW r \in Requests, Flush(r)
  PROVE  NoWrite \/ Writes(r)
  <1>1. pc[r] = "flush" /\ UNCHANGED <<table, given, op>>
    BY DEF Flush
  <1>2. CASE Vanished(r)
    BY <1>1, <1>2, FailDrops DEF Flush, Break
  <1>3. CASE ~Vanished(r)
    <2>1. PICK new \in Pending(r) : Written(r, new)
      BY <1>3 DEF Flush
    <2>2. CASE Broken(r, new) # "none"
      BY <1>1, <2>1, <2>2, FailDrops DEF Written, Refuse
    <2>3. CASE Broken(r, new) = "none"
      BY <1>1, <1>3, <2>1, <2>3, PendingFits, NotBroken DEF Written, Writes
    <2> QED  BY <2>2, <2>3
  <1> QED  BY <1>2, <1>3

LEMMA RecordWrites ==
  ASSUME RowsOK, RequestsOK, NEW r \in Requests, Record(r)
  PROVE  NoWrite \/ Writes(r)
  <1>1. pc[r] = "record" /\ UNCHANGED <<table, given, op>> /\ ~Waits(r, Removal(r))
    BY DEF Record
  <1>2. CASE Broken(r, Removal(r)) # "none"
    BY <1>1, <1>2, FailDrops DEF Record
  <1>3. CASE Broken(r, Removal(r)) = "none"
    <2>1. Stage(r, Removal(r))
      BY <1>3 DEF Record, Recorded
    <2> QED  BY <1>1, <1>3, <2>1, RemovalFits, NotBroken DEF Writes
  <1> QED  BY <1>2, <1>3

\* The step of one request, or a crash, or nothing.
LEMMA StepWrites ==
  ASSUME RowsOK, RequestsOK, [Next]_vars
  PROVE  NoWrite \/ (\E r \in Requests : Writes(r) \/ Commit(r))
  <1>1. CASE UNCHANGED vars
    BY <1>1 DEF vars, NoWrite, RowsOK
  <1>2. CASE Crash
    BY <1>2, EmptyDomain DEF Crash, NoWrite
  <1>3. ASSUME NEW r \in Requests,
               Receive(r) \/ Check(r) \/ Clear(r) \/ Flush(r) \/ Record(r) \/ Commit(r)
        PROVE  NoWrite \/ Writes(r) \/ Commit(r)
    <2>1. CASE Check(r)
      <3>1. Proceed(r, AfterCheck(r)) => UNCHANGED staged
        BY DEF Proceed
      <3> QED  BY <2>1, <3>1, FailDrops DEF Check, Refuse, NoWrite, RowsOK
    <2> QED  BY <1>3, <2>1, ReceiveWrites, ClearWrites, FlushWrites, RecordWrites
  <1>4. ASSUME NEW r \in Requests,
               Store(r) \/ CommitFails(r) \/ StoreFails(r) \/ WaitFails(r) \/ StatementFails(r) \/ RefuseUpload(r)
        PROVE  NoWrite
    <2>1. CASE Store(r) \/ StoreFails(r)
      BY <2>1 DEF Store, StoreFails, NoWrite, RowsOK
    <2>2. CASE CommitFails(r)
      BY <2>2, EmptyDomain DEF CommitFails, NoWrite, RowsOK
    <2>3. CASE WaitFails(r) \/ StatementFails(r) \/ RefuseUpload(r)
      BY <2>3, FailDrops DEF WaitFails, StatementFails, RefuseUpload, Break
    <2> QED  BY <1>4, <2>1, <2>2, <2>3
  <1> QED  BY <1>1, <1>2, <1>3, <1>4 DEF Next

LEMMA StepKeepsRows ==
  ASSUME RowsOK, RequestsOK, [Next]_vars
  PROVE  RowsOK'
  <1>1. CASE NoWrite
    BY <1>1, DropKeeps DEF NoWrite
  <1>2. ASSUME NEW r \in Requests, Writes(r)  PROVE RowsOK'
    BY <1>2, StageKeeps DEF Writes
  <1>3. ASSUME NEW r \in Requests, Commit(r)  PROVE RowsOK'
    BY <1>3, CommitKeeps DEF Commit
  <1> QED  BY <1>1, <1>2, <1>3, StepWrites

-----------------------------------------------------------------------------
(* The course of a request.                                                *)

LEMMA TableKeepsParents ==
  ASSUME RowsOK, RequestsOK, [Next]_vars, NEW s \in given, table'[s] # None
  PROVE  s \in given' /\ table[s] # None /\ table'[s].parent = table[s].parent
  <1>1. CASE UNCHANGED <<table, given>>
    <2>1. table[s] # None
      BY <1>1
    <2> QED  BY <1>1, <2>1
  <1>2. ASSUME NEW r \in Requests, Commit(r)
        PROVE  s \in given' /\ table[s] # None /\ table'[s].parent = table[s].parent
    <2>1. table' = View(r) /\ given' = given \cup DOMAIN staged[r] /\ s \in Slots
      BY <1>2 DEF Commit, RowsOK, TableOK
    <2>2. table[s] # None
      BY <2>1, ViewOf DEF RowsOK, WritesOK
    <2> QED  BY <2>1, <2>2, ParentsStay
  <1> QED  BY <1>1, <1>2, StepWrites DEF NoWrite, Writes

LEMMA KnownStays ==
  ASSUME RowsOK, RequestsOK, [Next]_vars, NEW q \in Requests, op'[q] = op[q], seen'[q] = seen[q]
  PROVE  Known(q)'
  <1>1. SUFFICES ASSUME seen[q] # None  PROVE Known(q)'
    BY DEF Known
  <1>2. op[q].slot \in given /\ Fits(op[q].slot, seen[q])
        /\ (table[op[q].slot] # None => table[op[q].slot].parent = seen[q].parent)
    BY <1>1 DEF RequestsOK, Known
  <1>3. given \subseteq given'
    BY StepWrites DEF NoWrite, Writes, Commit
  <1> QED  BY <1>2, <1>3, TableKeepsParents DEF Known, Fits

\* What a check reads, unless it refuses.
LEMMA CheckReads ==
  ASSUME RowsOK, RequestsOK, NEW r \in Requests, Check(r)
  PROVE  /\ seen' \in [Requests -> Row \cup {None}]
         /\ seen'[r] = IF op[r].slot = None THEN None ELSE table[op[r].slot]
         /\ Known(r)'
         /\ op[r].slot # None /\ ~Missing(r) => seen'[r] # None
  <1>1. /\ op[r] \in Ops /\ op[r].slot \in Slots \cup {None} /\ DOMAIN staged[r] = {}
        /\ UNCHANGED <<table, given, op>>
    BY OpFields DEF Check, RequestsOK, FlowOK
  <1>2. /\ seen' \in [Requests -> Row \cup {None}]
        /\ seen'[r] = IF op[r].slot = None THEN None ELSE table[op[r].slot]
    BY <1>1 DEF Check, RequestsOK, FlowTypes, RowsOK, TableOK
  <1>3. Known(r)'
    <2>1. seen'[r] # None => op[r].slot \in Slots /\ seen'[r] = table[op[r].slot]
      BY <1>1, <1>2
    <2> QED  BY <1>1, <2>1 DEF Known, RowsOK, TableOK, Fits
  <1>4. ASSUME op[r].slot # None, ~Missing(r)  PROVE seen'[r] # None
    <2>1. Old(r) = table[op[r].slot]
      BY <1>1, <1>4, ViewOf DEF Old
    <2> QED  BY <1>2, <1>4, <2>1 DEF Missing
  <1> QED  BY <1>2, <1>3, <1>4

\* A step that leaves the other requests alone.
LEMMA OneMoves ==
  ASSUME RowsOK, RequestsOK, [Next]_vars, NEW r \in Requests, FlowTypes', Known(r)', FlowOK(r)',
         \A q \in Requests \ {r} : /\ pc'[q] = pc[q] /\ op'[q] = op[q] /\ seen'[q] = seen[q]
                                   /\ staged'[q] = staged[q]
  PROVE  RequestsOK'
  <1>1. ASSUME NEW q \in Requests \ {r}  PROVE Known(q)' /\ FlowOK(q)'
    <2>1. Known(q)'
      BY <1>1, KnownStays
    <2>2. FlowOK(q)
      BY DEF RequestsOK
    <2>3. FlowOK(q)'
      BY <1>1, <2>2 DEF FlowOK, SetsDefault
    <2> QED  BY <2>1, <2>3
  <1> QED  BY <1>1 DEF RequestsOK

LEMMA ReceiveFlows ==
  ASSUME RowsOK, RequestsOK, [Next]_vars, NEW r \in Requests, Receive(r)
  PROVE  RequestsOK'
  <1>1. /\ pc[r] = "idle" /\ pc' = [pc EXCEPT ![r] = "check"] /\ UNCHANGED <<table, given, seen, staged>>
        /\ \E o \in Ops : op' = [op EXCEPT ![r] = o]
    BY DEF Receive, CreateType, UpdateType, DeleteType, CreateData, UpdateData, DeleteData, CreatePost,
           UpdatePost, DeletePost, ImportPosts, ExportPosts, CreateConfig, UpdateConfig, DeleteConfig,
           CreateNotice, UpdateNotice, DeleteNotice, Asks, Goto
  <1>2. FlowTypes' /\ pc'[r] = "check" /\ op'[r] \in Ops
    BY <1>1 DEF RequestsOK, FlowTypes
  <1>3. seen[r] = None /\ DOMAIN staged[r] = {}
    BY <1>1 DEF RequestsOK, FlowOK
  <1>4. Known(r)' /\ FlowOK(r)'
    BY <1>1, <1>2, <1>3 DEF Known, FlowOK
  <1>5. \A q \in Requests \ {r} : /\ pc'[q] = pc[q] /\ op'[q] = op[q] /\ seen'[q] = seen[q]
                                  /\ staged'[q] = staged[q]
    BY <1>1 DEF RequestsOK, FlowTypes
  <1> QED  BY <1>2, <1>4, <1>5, OneMoves

LEMMA FailFlows ==
  ASSUME RowsOK, RequestsOK, [Next]_vars, NEW r \in Requests, NEW code, NEW event, Fail(r, code, event),
         pc[r] # "idle", UNCHANGED <<op, seen>>
  PROVE  RequestsOK'
  <1>1. FlowTypes' /\ pc'[r] = "store" /\ DOMAIN staged'[r] = {}
    BY EmptyDomain DEF Fail, Goto, RequestsOK, FlowTypes, RowsOK
  <1>2. Known(r)'
    BY KnownStays
  <1>3. FlowOK(r)'
    BY <1>1 DEF RequestsOK, FlowOK
  <1>4. \A q \in Requests \ {r} : pc'[q] = pc[q] /\ staged'[q] = staged[q]
    BY DEF Fail, Goto, RequestsOK, FlowTypes, RowsOK
  <1> QED  BY <1>1, <1>2, <1>3, <1>4, OneMoves

LEMMA CheckFlows ==
  ASSUME RowsOK, RequestsOK, [Next]_vars, NEW r \in Requests, Check(r)
  PROVE  RequestsOK'
  <1>1. /\ pc[r] = "check" /\ op[r] \in Ops /\ DOMAIN staged[r] = {} /\ op' = op
        /\ \A q \in Requests \ {r} : seen'[q] = seen[q]
    BY DEF Check, RequestsOK, FlowOK, FlowTypes
  <1>2. CASE Refusal(r) # "none"
    <2>1. Fail(r, Refusal(r), TRUE)
      BY <1>2 DEF Check, Refuse
    <2>2. FlowTypes' /\ pc'[r] = "store" /\ DOMAIN staged'[r] = {}
      BY <1>1, <2>1, CheckReads, EmptyDomain DEF Fail, Goto, RequestsOK, FlowTypes, RowsOK
    <2>3. Known(r)' /\ FlowOK(r)'
      BY <1>1, <2>2, CheckReads DEF FlowOK
    <2>4. \A q \in Requests \ {r} : pc'[q] = pc[q] /\ staged'[q] = staged[q]
      BY <2>1 DEF Fail, Goto, RequestsOK, FlowTypes, RowsOK
    <2> QED  BY <1>1, <2>2, <2>3, <2>4, OneMoves
  <1>3. CASE Refusal(r) = "none"
    <2>1. pc' = [pc EXCEPT ![r] = AfterCheck(r)] /\ staged' = staged
      BY <1>3 DEF Check, Proceed, Goto
    <2>2. ~Missing(r)
      BY <1>3 DEF Refusal
    <2>3. /\ AfterCheck(r) \in {"record", "clear", "flush"}
          /\ AfterCheck(r) = "clear" => SetsDefault(r)
          /\ AfterCheck(r) \in {"clear", "flush"} => op[r].name \in {"create", "update", "import"}
      BY <1>1, OpFields DEF AfterCheck, SetsDefault
    <2>4. FlowTypes' /\ pc'[r] = AfterCheck(r)
      BY <1>1, <2>1, <2>3, CheckReads DEF RequestsOK, FlowTypes
    <2>5. Known(r)' /\ FlowOK(r)'
      BY <1>1, <2>1, <2>2, <2>3, <2>4, CheckReads DEF FlowOK, SetsDefault
    <2>6. \A q \in Requests \ {r} : pc'[q] = pc[q] /\ staged'[q] = staged[q]
      BY <2>1 DEF RequestsOK, FlowTypes
    <2> QED  BY <1>1, <2>4, <2>5, <2>6, OneMoves
  <1> QED  BY <1>2, <1>3

\* Clear, Flush and Record, when they write and go on.
LEMMA WriteFlows ==
  ASSUME RowsOK, RequestsOK, [Next]_vars, NEW r \in Requests, NEW new, NEW next, Stage(r, new), Goto(r, next),
         UNCHANGED <<op, seen>>,
         \/ pc[r] = "clear" /\ next = "flush"
         \/ pc[r] = "flush" /\ next = "record"
         \/ pc[r] = "record" /\ next = "commit"
  PROVE  RequestsOK'
  <1>1. FlowTypes' /\ pc'[r] = next
    BY DEF Goto, RequestsOK, FlowTypes
  <1>2. Known(r)'
    BY KnownStays
  <1>3. FlowOK(r)'
    BY <1>1 DEF RequestsOK, FlowOK, SetsDefault
  <1>4. \A q \in Requests \ {r} : pc'[q] = pc[q] /\ staged'[q] = staged[q]
    BY Staging DEF Goto, RequestsOK, FlowTypes, RowsOK
  <1> QED  BY <1>1, <1>2, <1>3, <1>4, OneMoves

\* Commit and the steps after it.
LEMMA EndFlows ==
  ASSUME RowsOK, RequestsOK, [Next]_vars, NEW r \in Requests, NEW next \in {"store", "done"}, Goto(r, next),
         pc[r] # "idle", UNCHANGED <<op, seen>>, DOMAIN staged'[r] = {},
         \A q \in Requests \ {r} : staged'[q] = staged[q]
  PROVE  RequestsOK'
  <1>1. FlowTypes' /\ pc'[r] = next
    BY DEF Goto, RequestsOK, FlowTypes
  <1>2. Known(r)'
    BY KnownStays
  <1>3. FlowOK(r)'
    BY <1>1 DEF RequestsOK, FlowOK
  <1>4. \A q \in Requests \ {r} : pc'[q] = pc[q]
    BY DEF Goto, RequestsOK, FlowTypes
  <1> QED  BY <1>1, <1>2, <1>3, <1>4, OneMoves

LEMMA CrashFlows ==
  ASSUME RowsOK, RequestsOK, [Next]_vars, Crash
  PROVE  RequestsOK'
  <1>1. FlowTypes' /\ UNCHANGED <<op, seen, table, given>>
    BY DEF Crash, RequestsOK, FlowTypes
  <1>2. ASSUME NEW q \in Requests  PROVE Known(q)' /\ FlowOK(q)'
    <2>1. DOMAIN staged'[q] = {} /\ pc'[q] \in {"idle", "done"} /\ (pc'[q] = "idle" <=> pc[q] = "idle")
      BY EmptyDomain DEF Crash
    <2> QED  BY <1>1, <2>1, KnownStays DEF RequestsOK, FlowOK
  <1> QED  BY <1>1, <1>2 DEF RequestsOK

LEMMA StepKeepsRequests ==
  ASSUME RowsOK, RequestsOK, [Next]_vars
  PROVE  RequestsOK'
  <1>1. CASE UNCHANGED vars
    BY <1>1 DEF vars, RequestsOK, FlowTypes, FlowOK, Known, Fits, SetsDefault
  <1>2. CASE Crash
    BY <1>2, CrashFlows
  <1>3. ASSUME NEW r \in Requests, Receive(r) \/ Check(r)  PROVE RequestsOK'
    BY <1>3, ReceiveFlows, CheckFlows
  <1>4. ASSUME NEW r \in Requests, Clear(r)  PROVE RequestsOK'
    BY <1>4, WriteFlows DEF Clear
  <1>5. ASSUME NEW r \in Requests, Flush(r)  PROVE RequestsOK'
    <2>1. pc[r] = "flush" /\ UNCHANGED <<op, seen>>
      BY <1>5 DEF Flush
    <2>2. CASE Vanished(r)
      BY <1>5, <2>1, <2>2, FailFlows DEF Flush, Break
    <2>3. CASE ~Vanished(r)
      <3>1. PICK new \in Pending(r) : Written(r, new)
        BY <1>5, <2>3 DEF Flush
      <3>2. CASE Broken(r, new) # "none"
        BY <2>1, <3>1, <3>2, FailFlows DEF Written, Refuse
      <3>3. CASE Broken(r, new) = "none"
        BY <2>1, <3>1, <3>3, WriteFlows DEF Written
      <3> QED  BY <3>2, <3>3
    <2> QED  BY <2>2, <2>3
  <1>6. ASSUME NEW r \in Requests, Record(r)  PROVE RequestsOK'
    <2>1. pc[r] = "record" /\ UNCHANGED <<op, seen>>
      BY <1>6 DEF Record
    <2>2. CASE Broken(r, Removal(r)) # "none"
      BY <1>6, <2>1, <2>2, FailFlows DEF Record
    <2>3. CASE Broken(r, Removal(r)) = "none"
      <3>1. Stage(r, Removal(r)) /\ Goto(r, "commit")
        BY <1>6, <2>3 DEF Record, Recorded
      <3> QED  BY <2>1, <3>1, WriteFlows
    <2> QED  BY <2>2, <2>3
  <1>7. ASSUME NEW r \in Requests, Commit(r) \/ CommitFails(r)  PROVE RequestsOK'
    <2>1. /\ staged' = [staged EXCEPT ![r] = <<>>] /\ Goto(r, "store") /\ pc[r] = "commit"
          /\ UNCHANGED <<op, seen>>
      BY <1>7 DEF Commit, CommitFails
    <2> QED  BY <2>1, EndFlows, EmptyDomain DEF RowsOK
  <1>8. ASSUME NEW r \in Requests, Store(r) \/ StoreFails(r)  PROVE RequestsOK'
    <2>1. Goto(r, "done") /\ pc[r] = "store" /\ UNCHANGED <<op, seen, staged>>
      BY <1>8 DEF Store, StoreFails
    <2>2. DOMAIN staged[r] = {}
      BY <2>1 DEF RequestsOK, FlowOK
    <2> QED  BY <2>1, <2>2, EndFlows
  <1>9. ASSUME NEW r \in Requests, WaitFails(r) \/ StatementFails(r) \/ RefuseUpload(r)  PROVE RequestsOK'
    BY <1>9, FailFlows DEF WaitFails, StatementFails, RefuseUpload, Break
  <1> QED  BY <1>1, <1>2, <1>3, <1>4, <1>5, <1>6, <1>7, <1>8, <1>9 DEF Next

LEMMA InitRows == Init => RowsOK /\ RequestsOK
  <1> SUFFICES ASSUME Init  PROVE RowsOK /\ RequestsOK
    OBVIOUS
  <1>1. DOMAIN staged = Requests /\ \A r \in Requests : DOMAIN staged[r] = {}
    BY EmptyDomain DEF Init
  <1>2. TableOK
    <2>1. /\ table \in [Slots -> Row \cup {None}] /\ Consistent(table)
          /\ \A s \in Slots : table[s] # None => Fits(s, table[s])
      BY CatalogAssumption DEF Init
    <2> QED  BY <2>1 DEF Init, TableOK
  <1>3. ASSUME NEW r \in Requests  PROVE WritesOK(r) /\ Consistent(View(r))
    <2>1. \A s \in Slots : View(r)[s] = table[s]
      BY <1>1 DEF View
    <2>2. \A s \in Slots : table[s] # None /\ table[s].parent # None => table[s].parent \in Slots
      BY <1>2, RowFields DEF TableOK
    <2>3. Consistent(View(r))
      BY <1>2, <2>1, <2>2, SameRows DEF TableOK
    <2> QED  BY <1>1, <2>3 DEF WritesOK
  <1>4. \A r, q \in Requests : r # q => Apart(r, q)
    BY <1>1 DEF Apart, Inserts
  <1>5. RequestsOK
    BY <1>1 DEF Init, RequestsOK, FlowTypes, FlowOK, Known
  <1> QED  BY <1>1, <1>2, <1>3, <1>4, <1>5 DEF RowsOK

-----------------------------------------------------------------------------
(* Types, and the rows that are committed.                                 *)

OutcomeTypes ==
    /\ recorded \in [Requests -> BOOLEAN]
    /\ answer \in [Requests -> Answers \cup {None}]
    /\ buffer \in [Requests -> BOOLEAN]
    /\ audit \subseteq Events
    /\ committed \in [Requests -> BOOLEAN]
    /\ faults \in 0 .. Faults

RefusalCodes == {"NOT_FOUND", "DUPLICATE", "DEFAULT_DUPLICATE", "HAS_DATA", "BUILTIN_READONLY", "TOO_LARGE"}

LEMMA RefusalType ==
  ASSUME NEW r \in Requests
  PROVE  Refusal(r) \in RefusalCodes \cup {"none"}
  <1>1. /\ TypeRefusal(r) \in RefusalCodes \cup {"none"}
        /\ DataRefusal(r) \in RefusalCodes \cup {"none"}
        /\ PostRefusal(r) \in RefusalCodes \cup {"none"}
        /\ ConfigRefusal(r) \in RefusalCodes \cup {"none"}
    BY DEF TypeRefusal, DataRefusal, PostRefusal, ConfigRefusal, RefusalCodes
  <1> QED  BY <1>1 DEF Refusal, RefusalCodes

LEMMA BrokenType ==
  ASSUME NEW r \in Requests, NEW new
  PROVE  Broken(r, new) \in RefusalCodes \cup {"none"}
  BY DEF Broken, RefusalCodes

LEMMA FailTypes ==
  ASSUME OutcomeTypes, NEW r \in Requests, NEW code \in Answers, NEW event \in BOOLEAN, Fail(r, code, event),
         UNCHANGED <<audit, committed>>, faults' \in 0 .. Faults
  PROVE  OutcomeTypes'
  <1>1. PICK no : no = FALSE
    OBVIOUS
  <1>2. recorded' = [recorded EXCEPT ![r] = no] /\ no \in BOOLEAN
    BY <1>1 DEF Fail
  <1> QED  BY <1>2 DEF Fail, OutcomeTypes

LEMMA FewerFaults ==
  ASSUME OutcomeTypes, faults' = faults \/ (faults > 0 /\ faults' = faults - 1)
  PROVE  /\ faults' \in 0 .. Faults
         /\ faults' = Faults => faults = Faults
         /\ faults' = faults \/ faults' # Faults
  BY CatalogAssumption DEF OutcomeTypes

LEMMA StepKeepsOutcomes ==
  ASSUME OutcomeTypes, [Next]_vars
  PROVE  OutcomeTypes'
  <1> USE CatalogAssumption
  <1>1. PICK no, yes : no = FALSE /\ yes = TRUE
    OBVIOUS
  <1>2. CASE UNCHANGED vars
    BY <1>2 DEF vars, OutcomeTypes
  <1>3. CASE Crash
    <2>1. faults' \in 0 .. Faults /\ UNCHANGED <<answer, audit, committed>>
      BY <1>3 DEF Crash, OutcomeTypes
    <2>2. buffer' = [r \in Requests |-> no]
      BY <1>1, <1>3 DEF Crash
    <2>3. recorded' \in [Requests -> BOOLEAN]
      <3> DEFINE kept(r) == recorded[r] /\ r \notin {q \in Requests : pc[q] \notin {"idle", "done"}}
      <3>1. \A r \in Requests : kept(r) \in BOOLEAN
        OBVIOUS
      <3>2. recorded' = [r \in Requests |-> kept(r)]
        BY <1>3 DEF Crash
      <3> HIDE DEF kept
      <3> QED  BY <3>1, <3>2
    <2> QED  BY <1>1, <2>1, <2>2, <2>3 DEF OutcomeTypes
  <1>4. ASSUME NEW r \in Requests, Receive(r) \/ Clear(r)  PROVE OutcomeTypes'
    <2>1. UNCHANGED <<recorded, answer, buffer, audit, committed, faults>>
      BY <1>4 DEF Receive, CreateType, UpdateType, DeleteType, CreateData, UpdateData, DeleteData, CreatePost,
           UpdatePost, DeletePost, ImportPosts, ExportPosts, CreateConfig, UpdateConfig, DeleteConfig,
           CreateNotice, UpdateNotice, DeleteNotice, Asks, Clear
    <2> QED  BY <2>1 DEF OutcomeTypes
  <1>5. ASSUME NEW r \in Requests, Check(r)  PROVE OutcomeTypes'
    <2>1. CASE Refusal(r) # "none"
      BY <1>5, <2>1, RefusalType, FailTypes DEF Check, Refuse, RefusalCodes, Answers, OutcomeTypes
    <2>2. CASE Refusal(r) = "none"
      BY <1>5, <2>2 DEF Check, Proceed, OutcomeTypes
    <2> QED  BY <2>1, <2>2
  <1>6. ASSUME NEW r \in Requests, Flush(r)  PROVE OutcomeTypes'
    <2>1. UNCHANGED <<audit, committed, faults>>
      BY <1>6 DEF Flush
    <2>2. CASE Vanished(r)
      BY <1>6, <2>1, <2>2, FailTypes DEF Flush, Break, Answers, OutcomeTypes
    <2>3. CASE ~Vanished(r)
      <3>1. PICK new \in Pending(r) : Written(r, new)
        BY <1>6, <2>3 DEF Flush
      <3>2. CASE Broken(r, new) # "none"
        BY <2>1, <3>1, <3>2, BrokenType, FailTypes DEF Written, Refuse, RefusalCodes, Answers, OutcomeTypes
      <3>3. CASE Broken(r, new) = "none"
        BY <2>1, <3>1, <3>3 DEF Written, OutcomeTypes
      <3> QED  BY <3>2, <3>3
    <2> QED  BY <2>2, <2>3
  <1>7. ASSUME NEW r \in Requests, Record(r)  PROVE OutcomeTypes'
    <2>1. UNCHANGED <<audit, committed>> /\ faults' \in 0 .. Faults
      BY <1>7, FewerFaults DEF Record
    <2>2. CASE Broken(r, Removal(r)) # "none"
      BY <1>7, <2>1, <2>2, BrokenType, FailTypes DEF Record, RefusalCodes, Answers
    <2>3. CASE Broken(r, Removal(r)) = "none"
      <3>1. PICK ok \in BOOLEAN : recorded' = [recorded EXCEPT ![r] = ok]
        BY <1>7, <2>3 DEF Record, Recorded
      <3>2. answer' = [answer EXCEPT ![r] = "ok"] /\ buffer' = buffer
        BY <1>7, <2>3 DEF Record, Recorded
      <3> QED  BY <2>1, <3>1, <3>2 DEF OutcomeTypes, Answers
    <2> QED  BY <2>2, <2>3
  <1>8. ASSUME NEW r \in Requests, Commit(r)  PROVE OutcomeTypes'
    <2>1. committed' = [committed EXCEPT ![r] = yes] /\ UNCHANGED <<recorded, answer, buffer, faults>>
      BY <1>1, <1>8 DEF Commit
    <2>2. audit' \subseteq Events
      BY <1>8 DEF Commit, OutcomeTypes, Events
    <2> QED  BY <1>1, <2>1, <2>2 DEF OutcomeTypes
  <1>9. ASSUME NEW r \in Requests, CommitFails(r)  PROVE OutcomeTypes'
    <2>1. /\ recorded' = [recorded EXCEPT ![r] = no] /\ UNCHANGED <<answer, buffer, audit, committed>>
          /\ faults' \in 0 .. Faults
      BY <1>1, <1>9, FewerFaults DEF CommitFails
    <2> QED  BY <1>1, <2>1 DEF OutcomeTypes
  <1>10. ASSUME NEW r \in Requests, Store(r) \/ StoreFails(r)  PROVE OutcomeTypes'
    <2>1. /\ buffer' = [buffer EXCEPT ![r] = no] /\ UNCHANGED <<recorded, answer, committed>>
          /\ faults' \in 0 .. Faults
      BY <1>1, <1>10, FewerFaults DEF Store, StoreFails
    <2>2. audit' \subseteq Events
      BY <1>10 DEF Store, StoreFails, OutcomeTypes, Events
    <2> QED  BY <1>1, <2>1, <2>2 DEF OutcomeTypes
  <1>11. ASSUME NEW r \in Requests, WaitFails(r) \/ StatementFails(r) \/ RefuseUpload(r)  PROVE OutcomeTypes'
    <2>1. /\ \E code \in {"INTERNAL_ERROR", "TOO_LARGE"} : Fail(r, code, FALSE)
          /\ UNCHANGED <<audit, committed>> /\ faults' \in 0 .. Faults
      BY <1>11, FewerFaults DEF WaitFails, StatementFails, RefuseUpload, Break, OutcomeTypes
    <2> QED  BY <2>1, FailTypes DEF Answers
  <1> QED  BY <1>2, <1>3, <1>4, <1>5, <1>6, <1>7, <1>8, <1>9, <1>10, <1>11 DEF Next

LEMMA RowsImpliesTypes == RowsOK /\ RequestsOK /\ OutcomeTypes => RowsAreConsistent
  <1> SUFFICES ASSUME RowsOK, RequestsOK, OutcomeTypes  PROVE RowsAreConsistent
    OBVIOUS
  <1>1. TypeOK
    <2>1. \A r \in Requests : DOMAIN staged[r] \subseteq Slots /\ Range(staged[r]) \subseteq Row \cup {None}
      BY DEF RowsOK, WritesOK, Range
    <2>2. table \in [Slots -> Row \cup {None}] /\ given \subseteq Slots
      BY DEF RowsOK, TableOK
    <2> QED  BY <2>1, <2>2 DEF TypeOK, RequestsOK, FlowTypes, OutcomeTypes
  <1>2. Consistent(table)
    BY DEF RowsOK, TableOK
  <1> QED  BY <1>1, <1>2 DEF RowsAreConsistent

LEMMA InitOutcomes == Init => OutcomeTypes
  BY CatalogAssumption DEF Init, OutcomeTypes

CatalogInv == RowsOK /\ RequestsOK /\ OutcomeTypes

LEMMA CatalogInvariant == Spec => []CatalogInv
  <1>1. Init => CatalogInv
    BY InitRows, InitOutcomes DEF CatalogInv
  <1>2. CatalogInv /\ [Next]_vars => CatalogInv'
    BY StepKeepsRows, StepKeepsRequests, StepKeepsOutcomes DEF CatalogInv
  <1> QED  BY <1>1, <1>2, PTL DEF Spec

\* Whatever the requests are, however many, in whatever order their checks,
\* clearings and writes come and whatever fails: no two rows share a code, no
\* dictionary has two defaults, no entry has lost its dictionary.
THEOREM RowsStayConsistent == Spec => []RowsAreConsistent
  <1>1. CatalogInv => RowsAreConsistent
    BY RowsImpliesTypes DEF CatalogInv
  <1> QED  BY <1>1, CatalogInvariant, PTL

-----------------------------------------------------------------------------
(* The audit trail.                                                        *)

\* A refusal that must be on record, once the middleware has stored it.
Owed(r) ==
    /\ answer[r] \notin {"ok", "INTERNAL_ERROR"}
    /\ ~(op[r].name = "delete" /\ answer[r] = "HAS_DATA") /\ ~UploadTooLarge(r)

\* The two transactions of the trail: a success comes with the commit; a
\* failure waits in the buffer until the request is over.
TrailOK(r) ==
    /\ Success(r) \in audit => committed[r]
    /\ Failure(r) \in audit => ~committed[r] /\ pc[r] = "done"
    /\ committed[r] => pc[r] \in {"store", "done"} /\ ~buffer[r]
    /\ buffer[r] => pc[r] = "store"
    /\ pc[r] = "commit" => answer[r] = "ok"
    /\ faults = Faults =>
          /\ pc[r] = "commit" => recorded[r]
          /\ committed[r] => Success(r) \in audit
          /\ Owed(r) /\ pc[r] = "store" => buffer[r]
          /\ Owed(r) /\ pc[r] = "done" => Failure(r) \in audit

TrailInv == \A r \in Requests : TrailOK(r)

LEMMA EventsDiffer ==
  ASSUME NEW r, NEW q
  PROVE  /\ Success(r) # Failure(q)
         /\ r # q => Success(r) # Success(q) /\ Failure(r) # Failure(q)
         /\ Success(r).status = "success" /\ Success(r).request = r
         /\ Failure(r).status = "failure" /\ Failure(r).request = r
  BY DEF Success, Failure

LEMMA TrailImpliesProperty == CatalogInv /\ TrailInv => AuditIsTrue
  <1> SUFFICES ASSUME CatalogInv, TrailInv  PROVE AuditIsTrue
    OBVIOUS
  <1>1. ASSUME NEW e \in audit  PROVE (e.status = "success") = committed[e.request]
    <2>1. PICK r \in Requests : e = Success(r) \/ e = Failure(r)
      BY <1>1 DEF CatalogInv, OutcomeTypes, Events
    <2>2. committed[r] \in BOOLEAN
      BY DEF CatalogInv, OutcomeTypes
    <2>3. CASE e = Success(r)
      <3>1. e.status = "success" /\ e.request = r /\ committed[r]
        BY <1>1, <2>3, EventsDiffer DEF TrailInv, TrailOK
      <3> QED  BY <2>2, <3>1
    <2>4. CASE e = Failure(r)
      <3>1. e.status # "success" /\ e.request = r /\ ~committed[r]
        BY <1>1, <2>4, EventsDiffer DEF TrailInv, TrailOK
      <3> QED  BY <2>2, <3>1
    <2> QED  BY <2>1, <2>3, <2>4
  <1>2. AuditTellsTheTruth
    BY <1>1 DEF AuditTellsTheTruth, TrailInv, TrailOK
  <1>3. RefusalsAreOnRecord
    BY DEF RefusalsAreOnRecord, TrailInv, TrailOK, Owed, UploadTooLarge
  <1> QED  BY <1>2, <1>3 DEF AuditIsTrue

LEMMA NothingBreaksNothing ==
  ASSUME RowsOK, NEW r \in Requests, NEW new, DOMAIN new = {}
  PROVE  Broken(r, new) = "none"
  <1>1. \A s \in Slots : After(r, new)[s] = View(r)[s]
    BY DEF After
  <1>2. Consistent(After(r, new))
    BY <1>1, SameRows, ParentIsSlot DEF RowsOK
  <1> QED  BY <1>2 DEF Broken, Consistent

\* The flush before the audit row can only fail for a deletion, and only by the
\* foreign key.
LEMMA RemovalBreaks ==
  ASSUME RowsOK, RequestsOK, NEW r \in Requests, pc[r] = "record", Broken(r, Removal(r)) # "none"
  PROVE  op[r].name = "delete" /\ Broken(r, Removal(r)) = "HAS_DATA"
  <1> DEFINE new == Removal(r)
             rows == After(r, new)
  <1>1. CASE new = <<>>
    BY <1>1, EmptyDomain, NothingBreaksNothing
  <1>2. CASE new # <<>>
    <2>1. op[r].name = "delete" /\ new = [s \in {op[r].slot} |-> None]
      BY <1>2 DEF Removal
    <2>2. \A s \in DOMAIN new : new[s] = None
      BY <2>1
    <2>3. \A s \in DOMAIN new : s \in Slots => rows[s] = None
      BY <2>2 DEF After
    <2>4. op[r].slot \in Slots
      BY <2>1, SlotOfOp DEF RequestsOK, FlowOK
    <2>5. \A s \in DOMAIN new : rows[s] = None
      BY <2>1, <2>3, <2>4
    <2> QED  BY <2>1, <2>5 DEF Broken, SameKey, TwoDefaults
  <1> QED  BY <1>1, <1>2

\* A step in which r alone moves.
LEMMA TrailOfOthers ==
  ASSUME TrailInv, NEW r \in Requests, NEW q \in Requests \ {r},
         /\ pc'[q] = pc[q] /\ op'[q] = op[q] /\ answer'[q] = answer[q] /\ recorded'[q] = recorded[q]
         /\ buffer'[q] = buffer[q] /\ committed'[q] = committed[q],
         Success(q) \in audit' <=> Success(q) \in audit,
         Failure(q) \in audit' <=> Failure(q) \in audit,
         faults' = Faults => faults = Faults
  PROVE  TrailOK(q)'
  BY DEF TrailInv, TrailOK, Owed, UploadTooLarge, Success, Failure

LEMMA FailKeepsTrail ==
  ASSUME CatalogInv, TrailInv, NEW r \in Requests, NEW code, NEW event, Fail(r, code, event),
         pc[r] \in {"check", "clear", "flush", "record"}, UNCHANGED <<op, audit, committed>>,
         faults' = Faults => faults = Faults,
         \/ event = TRUE
         \/ code = "INTERNAL_ERROR"
         \/ op[r].name = "delete" /\ code = "HAS_DATA"
         \/ UploadTooLarge(r)
         \/ faults' # Faults
  PROVE  TrailInv'
  <1>1. /\ pc'[r] = "store" /\ answer'[r] = code /\ buffer'[r] = event
        /\ \A q \in Requests \ {r} : /\ pc'[q] = pc[q] /\ answer'[q] = answer[q] /\ recorded'[q] = recorded[q]
                                     /\ buffer'[q] = buffer[q]
    BY DEF Fail, Goto, CatalogInv, RequestsOK, FlowTypes, OutcomeTypes
  <1>2. ~committed[r] /\ Success(r) \notin audit /\ Failure(r) \notin audit
    BY DEF TrailInv, TrailOK
  <1>3. event = TRUE => buffer'[r]
    BY <1>1
  <1>4. TrailOK(r)'
    BY <1>1, <1>2, <1>3 DEF TrailOK, Owed, UploadTooLarge, Success, Failure
  <1>5. ASSUME NEW q \in Requests \ {r}  PROVE TrailOK(q)'
    BY <1>1, TrailOfOthers DEF Success, Failure
  <1> QED  BY <1>4, <1>5 DEF TrailInv

\* A request that goes on inside its service, or is received.
LEMMA GoingOnKeepsTrail ==
  ASSUME CatalogInv, TrailInv, NEW r \in Requests, NEW next \in {"check", "clear", "flush", "record"},
         Goto(r, next), pc[r] \in {"idle", "check", "clear", "flush"},
         \A q \in Requests \ {r} : op'[q] = op[q],
         UNCHANGED <<answer, recorded, buffer, audit, committed, faults>>
  PROVE  TrailInv'
  <1>1. pc'[r] = next /\ \A q \in Requests \ {r} : pc'[q] = pc[q]
    BY DEF Goto, CatalogInv, RequestsOK, FlowTypes
  <1>2. ~committed[r] /\ Success(r) \notin audit /\ Failure(r) \notin audit /\ ~buffer[r]
    BY DEF TrailInv, TrailOK
  <1>3. TrailOK(r)'
    BY <1>1, <1>2 DEF TrailOK, Success, Failure
  <1>4. ASSUME NEW q \in Requests \ {r}  PROVE TrailOK(q)'
    BY <1>1, TrailOfOthers DEF Success, Failure
  <1> QED  BY <1>3, <1>4 DEF TrailInv

LEMMA RecordKeepsTrail ==
  ASSUME CatalogInv, TrailInv, NEW r \in Requests, Record(r)
  PROVE  TrailInv'
  <1>1. pc[r] = "record" /\ UNCHANGED <<op, audit, committed>> /\ (faults' = Faults => faults = Faults)
    BY FewerFaults DEF Record, CatalogInv
  <1>2. CASE Broken(r, Removal(r)) # "none"
    BY <1>1, <1>2, FailKeepsTrail, RemovalBreaks DEF Record, CatalogInv
  <1>3. CASE Broken(r, Removal(r)) = "none"
    <2>1. PICK ok \in BOOLEAN : Recorded(r, ok) /\ (ok \/ faults' # Faults)
      <3>1. CASE Recorded(r, TRUE)
        BY <3>1
      <3>2. CASE Recorded(r, FALSE) /\ faults > 0 /\ faults' = faults - 1
        <4>1. faults' # Faults
          BY <3>2, CatalogAssumption DEF CatalogInv, OutcomeTypes
        <4> QED  BY <3>2, <4>1
      <3> QED  BY <1>3, <3>1, <3>2 DEF Record
    <2>2. /\ recorded'[r] = ok /\ pc'[r] = "commit" /\ answer'[r] = "ok" /\ buffer' = buffer
          /\ \A q \in Requests \ {r} : pc'[q] = pc[q] /\ answer'[q] = answer[q] /\ recorded'[q] = recorded[q]
      BY <2>1 DEF Recorded, Goto, CatalogInv, RequestsOK, FlowTypes, OutcomeTypes
    <2>3. ~committed[r] /\ Success(r) \notin audit /\ Failure(r) \notin audit /\ ~buffer[r]
      BY <1>1 DEF TrailInv, TrailOK
    <2>4. faults' = Faults => recorded'[r]
      BY <2>1, <2>2
    <2>5. TrailOK(r)'
      BY <1>1, <2>2, <2>3, <2>4 DEF TrailOK, Success, Failure
    <2>6. ASSUME NEW q \in Requests \ {r}  PROVE TrailOK(q)'
      BY <1>1, <2>2, TrailOfOthers DEF Success, Failure
    <2> QED  BY <2>5, <2>6 DEF TrailInv
  <1> QED  BY <1>2, <1>3

LEMMA CommitKeepsTrail ==
  ASSUME CatalogInv, TrailInv, NEW r \in Requests, Commit(r)
  PROVE  TrailInv'
  <1>1. /\ pc[r] = "commit" /\ pc'[r] = "store" /\ committed'[r]
        /\ \A q \in Requests \ {r} : pc'[q] = pc[q] /\ committed'[q] = committed[q]
        /\ UNCHANGED <<op, recorded, answer, buffer, faults>>
        /\ audit' = audit \cup (IF recorded[r] THEN {Success(r)} ELSE {})
    BY DEF Commit, Goto, CatalogInv, RequestsOK, FlowTypes, OutcomeTypes
  <1>2. /\ answer[r] = "ok" /\ ~buffer[r] /\ Failure(r) \notin audit
        /\ faults = Faults => recorded[r]
    BY <1>1 DEF TrailInv, TrailOK
  <1>3. /\ \A q \in Requests : Failure(q) \in audit' <=> Failure(q) \in audit
        /\ \A q \in Requests \ {r} : Success(q) \in audit' <=> Success(q) \in audit
        /\ recorded[r] => Success(r) \in audit'
    BY <1>1, EventsDiffer
  <1>4. TrailOK(r)'
    BY <1>1, <1>2, <1>3 DEF TrailOK, Owed, UploadTooLarge, Success, Failure
  <1>5. ASSUME NEW q \in Requests \ {r}  PROVE TrailOK(q)'
    BY <1>1, <1>3, TrailOfOthers DEF Success, Failure
  <1> QED  BY <1>4, <1>5 DEF TrailInv

LEMMA CommitFailsKeepsTrail ==
  ASSUME CatalogInv, TrailInv, NEW r \in Requests, CommitFails(r)
  PROVE  TrailInv'
  <1>1. /\ pc[r] = "commit" /\ pc'[r] = "store"
        /\ \A q \in Requests \ {r} : pc'[q] = pc[q] /\ recorded'[q] = recorded[q]
        /\ UNCHANGED <<op, answer, buffer, audit, committed>> /\ faults' # Faults
    BY CatalogAssumption DEF CommitFails, Goto, CatalogInv, RequestsOK, FlowTypes, OutcomeTypes
  <1>2. ~committed[r] /\ ~buffer[r] /\ Failure(r) \notin audit /\ Success(r) \notin audit
    BY <1>1 DEF TrailInv, TrailOK
  <1>3. TrailOK(r)'
    BY <1>1, <1>2 DEF TrailOK, Success, Failure
  <1>4. ASSUME NEW q \in Requests \ {r}  PROVE TrailOK(q)'
    BY <1>1, TrailOfOthers DEF Success, Failure
  <1> QED  BY <1>3, <1>4 DEF TrailInv

LEMMA StoreKeepsTrail ==
  ASSUME CatalogInv, TrailInv, NEW r \in Requests, Store(r) \/ StoreFails(r)
  PROVE  TrailInv'
  <1>1. /\ pc[r] = "store" /\ pc'[r] = "done" /\ ~buffer'[r]
        /\ \A q \in Requests \ {r} : pc'[q] = pc[q] /\ buffer'[q] = buffer[q]
        /\ UNCHANGED <<op, recorded, answer, committed>>
    BY DEF Store, StoreFails, Goto, CatalogInv, RequestsOK, FlowTypes, OutcomeTypes
  <1>2. /\ faults' = Faults => faults = Faults /\ (buffer[r] => Failure(r) \in audit')
        /\ Failure(r) \in audit' => buffer[r] \/ Failure(r) \in audit
        /\ \A q \in Requests : Success(q) \in audit' <=> Success(q) \in audit
        /\ \A q \in Requests \ {r} : Failure(q) \in audit' <=> Failure(q) \in audit
    BY CatalogAssumption, EventsDiffer DEF Store, StoreFails, CatalogInv, OutcomeTypes
  <1>3. TrailOK(r)'
    <2>1. TrailOK(r)
      BY DEF TrailInv
    <2> QED  BY <1>1, <1>2, <2>1 DEF TrailOK, Owed, UploadTooLarge, Success, Failure
  <1>4. ASSUME NEW q \in Requests \ {r}  PROVE TrailOK(q)'
    BY <1>1, <1>2, TrailOfOthers DEF Success, Failure
  <1> QED  BY <1>3, <1>4 DEF TrailInv

LEMMA CrashKeepsTrail ==
  ASSUME CatalogInv, TrailInv, Crash
  PROVE  TrailInv'
  <1>1. /\ UNCHANGED <<op, answer, audit, committed>> /\ faults' # Faults
        /\ \A q \in Requests : /\ ~buffer'[q]
                               /\ pc'[q] = (IF pc[q] \notin {"idle", "done"} THEN "done" ELSE pc[q])
    BY CatalogAssumption DEF Crash, CatalogInv, OutcomeTypes
  <1>2. ASSUME NEW q \in Requests  PROVE TrailOK(q)'
    <2>1. TrailOK(q)
      BY DEF TrailInv
    <2> QED  BY <1>1, <2>1 DEF TrailOK, Success, Failure
  <1> QED  BY <1>2 DEF TrailInv

LEMMA StepKeepsTrail ==
  ASSUME CatalogInv, TrailInv, [Next]_vars
  PROVE  TrailInv'
  <1>1. CASE UNCHANGED vars
    BY <1>1 DEF vars, TrailInv, TrailOK, Owed, UploadTooLarge, Success, Failure
  <1>2. CASE Crash
    BY <1>2, CrashKeepsTrail
  <1>3. ASSUME NEW r \in Requests, Receive(r)  PROVE TrailInv'
    <2>1. /\ pc[r] = "idle" /\ Goto(r, "check") /\ \E o \in Ops : op' = [op EXCEPT ![r] = o]
          /\ UNCHANGED <<answer, recorded, buffer, audit, committed, faults>>
      BY <1>3 DEF Receive, CreateType, UpdateType, DeleteType, CreateData, UpdateData, DeleteData, CreatePost,
             UpdatePost, DeletePost, ImportPosts, ExportPosts, CreateConfig, UpdateConfig, DeleteConfig,
             CreateNotice, UpdateNotice, DeleteNotice, Asks
    <2>2. \A q \in Requests \ {r} : op'[q] = op[q]
      BY <2>1 DEF CatalogInv, RequestsOK, FlowTypes
    <2> QED  BY <2>1, <2>2, GoingOnKeepsTrail
  <1>4. ASSUME NEW r \in Requests, Check(r)  PROVE TrailInv'
    <2>1. pc[r] = "check" /\ UNCHANGED <<op, audit, committed, faults>>
      BY <1>4 DEF Check
    <2>2. CASE Refusal(r) # "none"
      BY <1>4, <2>1, <2>2, FailKeepsTrail DEF Check, Refuse
    <2>3. CASE Refusal(r) = "none"
      <3>1. Goto(r, AfterCheck(r)) /\ AfterCheck(r) \in {"record", "clear", "flush"}
            /\ UNCHANGED <<recorded, answer, buffer>>
        BY <1>4, <2>3 DEF Check, Proceed, AfterCheck
      <3> QED  BY <2>1, <3>1, GoingOnKeepsTrail
    <2> QED  BY <2>2, <2>3
  <1>5. ASSUME NEW r \in Requests, Clear(r)  PROVE TrailInv'
    BY <1>5, GoingOnKeepsTrail DEF Clear
  <1>6. ASSUME NEW r \in Requests, Flush(r)  PROVE TrailInv'
    <2>1. pc[r] = "flush" /\ UNCHANGED <<op, audit, committed, faults>>
      BY <1>6 DEF Flush
    <2>2. CASE Vanished(r)
      BY <1>6, <2>1, <2>2, FailKeepsTrail DEF Flush, Break
    <2>3. CASE ~Vanished(r)
      <3>1. PICK new \in Pending(r) : Written(r, new)
        BY <1>6, <2>3 DEF Flush
      <3>2. CASE Broken(r, new) # "none"
        BY <2>1, <3>1, <3>2, FailKeepsTrail DEF Written, Refuse
      <3>3. CASE Broken(r, new) = "none"
        BY <2>1, <3>1, <3>3, GoingOnKeepsTrail DEF Written
      <3> QED  BY <3>2, <3>3
    <2> QED  BY <2>2, <2>3
  <1>7. ASSUME NEW r \in Requests, WaitFails(r) \/ StatementFails(r)  PROVE TrailInv'
    <2>1. /\ Fail(r, "INTERNAL_ERROR", FALSE) /\ pc[r] \in {"check", "clear", "flush", "record"}
          /\ UNCHANGED <<op, audit, committed>>
      BY <1>7 DEF WaitFails, StatementFails, Break
    <2>2. faults' = Faults => faults = Faults
      BY <1>7, FewerFaults DEF WaitFails, StatementFails, CatalogInv
    <2> QED  BY <2>1, <2>2, FailKeepsTrail
  <1>8. ASSUME NEW r \in Requests, RefuseUpload(r)  PROVE TrailInv'
    BY <1>8, FailKeepsTrail DEF RefuseUpload
  <1> QED  BY <1>1, <1>2, <1>3, <1>4, <1>5, <1>6, <1>7, <1>8, RecordKeepsTrail, CommitKeepsTrail,
              CommitFailsKeepsTrail, StoreKeepsTrail DEF Next

\* A success is on record only with its change, a failure only without one;
\* while nothing fails no change is off the record, and no refusal but that of a
\* deletion which meets the foreign key and that of an upload over the limit.
THEOREM TrailIsTrue == Spec => []AuditIsTrue
  <1>1. Init => TrailInv
    BY CatalogAssumption DEF Init, TrailInv, TrailOK, Owed, UploadTooLarge
  <1>2. CatalogInv /\ TrailInv /\ [Next]_vars => TrailInv'
    BY StepKeepsTrail
  <1> QED  BY <1>1, <1>2, CatalogInvariant, TrailImpliesProperty, PTL DEF Spec

-----------------------------------------------------------------------------
(* Defaults and imports.                                                   *)

\* The dictionary whose defaults a request clears.
Target(r) == IF op[r].name = "create" THEN op[r].parent ELSE seen[r].parent

\* What r may have written over row s: it deletes it, updates the row it names,
\* or clears another entry of its dictionary.
Overwrites(r, s, row) ==
    \/ op[r].name = "delete" /\ row = None
    \/ /\ op[r].name = "update" /\ s = op[r].slot /\ row # None
       /\ SetsDefault(r) /\ ~seen[r].default => row.default
       /\ op[r].kind # "data" \/ op[r].flag = Unset => (row.default <=> table[s].default)
    \/ /\ op[r].name \in {"create", "update"} /\ SetsDefault(r) /\ s # op[r].slot /\ row # None
       /\ table[s].parent = Target(r)

\* Who clears the defaults of others has written its own when it comes to the
\* commit, unless it had read it as the default.
SetItself(r) ==
    \/ op[r].name = "update" /\ seen[r].default
    \/ \E s \in DOMAIN staged[r] :
          staged[r][s] # None /\ staged[r][s].default /\ staged[r][s].parent = Target(r)

WholeImport(r) ==
    /\ {staged[r][s].key : s \in DOMAIN staged[r]} = op[r].keys
    /\ \A s \in DOMAIN staged[r] : table[s] = None /\ staged[r][s] # None

HalfOK(r) ==
    /\ \A s \in DOMAIN staged[r] : table[s] # None => Overwrites(r, s, staged[r][s])
    /\ pc[r] = "flush" => op[r].slot \notin DOMAIN staged[r]
    /\ pc[r] \in {"record", "commit"} /\ SetsDefault(r) /\ op[r].name # "delete" => SetItself(r)
    /\ op[r].name = "import" => DOMAIN staged[r] = {} \/ WholeImport(r)

HalfInv == \A r \in Requests : HalfOK(r)

\* A request that does not move, while the rows it has written stay.
LEMMA HalfOfOthers ==
  ASSUME HalfInv, NEW q \in Requests,
         pc'[q] = pc[q] /\ op'[q] = op[q] /\ seen'[q] = seen[q] /\ staged'[q] = staged[q],
         \A s \in DOMAIN staged[q] : table'[s] = table[s]
  PROVE  HalfOK(q)'
  <1>1. HalfOK(q)
    BY DEF HalfInv
  <1>2. SetItself(q) => SetItself(q)'
    BY DEF SetItself, Target
  <1>3. WholeImport(q) => WholeImport(q)'
    BY DEF WholeImport
  <1>4. \A s \in DOMAIN staged[q] : Overwrites(q, s, staged[q][s]) => Overwrites(q, s, staged[q][s])'
    BY DEF Overwrites, SetsDefault, Target
  <1> QED  BY <1>1, <1>2, <1>3, <1>4 DEF HalfOK, SetsDefault

LEMMA NothingWritten ==
  ASSUME NEW q \in Requests, DOMAIN staged'[q] = {}, pc'[q] \notin {"record", "commit"}
  PROVE  HalfOK(q)'
  BY DEF HalfOK

\* How the writes of a request grow.
LEMMA WriteKeepsHalf ==
  ASSUME CatalogInv, HalfInv, NEW r \in Requests, NEW new, Stage(r, new), UNCHANGED <<table, op, seen>>,
         \A s \in DOMAIN new : table[s] # None => Overwrites(r, s, new[s])
  PROVE  /\ \A s \in DOMAIN staged'[r] : table[s] # None => Overwrites(r, s, staged'[r][s])
         /\ DOMAIN new = {} /\ SetItself(r) => SetItself(r)'
         /\ \A s \in DOMAIN new : new[s] # None /\ new[s].default /\ new[s].parent = Target(r) => SetItself(r)'
         /\ DOMAIN new = {} /\ WholeImport(r) => WholeImport(r)'
  <1>1. /\ DOMAIN staged'[r] = DOMAIN staged[r] \cup DOMAIN new
        /\ \A s \in DOMAIN new : staged'[r][s] = new[s]
        /\ \A s \in DOMAIN staged[r] \ DOMAIN new : staged'[r][s] = staged[r][s]
    BY Staging DEF CatalogInv, RowsOK
  <1>2. ASSUME NEW s \in DOMAIN staged'[r], table[s] # None  PROVE Overwrites(r, s, staged'[r][s])
    BY <1>1, <1>2 DEF HalfInv, HalfOK
  <1>3. Target(r)' = Target(r)
    BY DEF Target
  <1>4. DOMAIN new = {} /\ SetItself(r) => SetItself(r)'
    BY <1>1, <1>3 DEF SetItself
  <1>5. ASSUME NEW s \in DOMAIN new, new[s] # None, new[s].default, new[s].parent = Target(r)
        PROVE  SetItself(r)'
    BY <1>1, <1>3, <1>5 DEF SetItself
  <1>6. ASSUME DOMAIN new = {}, WholeImport(r)  PROVE WholeImport(r)'
    <2>1. DOMAIN staged'[r] = DOMAIN staged[r] /\ \A s \in DOMAIN staged[r] : staged'[r][s] = staged[r][s]
      BY <1>1, <1>6
    <2> QED  BY <1>6, <2>1 DEF WholeImport
  <1> QED  BY <1>2, <1>4, <1>5, <1>6

LEMMA ClearKeepsHalf ==
  ASSUME CatalogInv, HalfInv, NEW r \in Requests, Clear(r)
  PROVE  HalfOK(r)'
  <1> DEFINE new == Undefaulted(r)
  <1>1. /\ pc[r] = "clear" /\ pc'[r] = "flush" /\ Stage(r, new) /\ UNCHANGED <<table, op, seen>>
    BY DEF Clear, Pending, Undefaulted, Goto, CatalogInv, RequestsOK, FlowTypes
  <1>2. /\ SetsDefault(r) /\ op[r] \in Ops /\ op[r].name \in {"create", "update"} /\ DOMAIN staged[r] = {}
    BY <1>1, OpFields DEF CatalogInv, RequestsOK, FlowOK, SetsDefault, Payload
  <1>3. ASSUME NEW s \in DOMAIN new
        PROVE  s # op[r].slot /\ new[s] # None /\ table[s].parent = Target(r)
    <2>1. s \in OtherDefaults(r) /\ new[s] = [View(r)[s] EXCEPT !.default = FALSE]
      BY DEF Undefaulted
    <2>2. s \in Slots /\ View(r)[s] # None /\ View(r)[s].parent = Target(r) /\ s # op[r].slot
      BY <2>1 DEF OtherDefaults, Entries, Target
    <2>3. View(r)[s] = table[s]
      BY <1>2, <2>2, ViewOf
    <2>4. new[s] \in Row \cup {None} /\ Fresh(r, new)
      BY <1>1, ClearFits DEF CatalogInv, Fresh
    <2>5. new[s] # None
      <3>1. PICK no : no = FALSE /\ new[s] = [View(r)[s] EXCEPT !.default = no]
        BY <2>1
      <3> DEFINE row == View(r)[s]
                 row2 == new[s]
      <3>2. row \in Row /\ row2 = [row EXCEPT !.default = no]
        BY <2>2, <3>1, ViewType DEF CatalogInv
      <3> HIDE DEF row, row2
      <3>3. row2 # None
        BY <3>1, <3>2, UndefaultedRow
      <3> QED  BY <3>3 DEF row2
    <2> QED  BY <2>2, <2>3, <2>5
  <1> HIDE DEF new
  <1>4. \A s \in DOMAIN new : Overwrites(r, s, new[s])
    BY <1>2, <1>3 DEF Overwrites
  <1>5. \A s \in DOMAIN staged'[r] : table[s] # None => Overwrites(r, s, staged'[r][s])
    BY <1>1, <1>4, WriteKeepsHalf
  <1>6. DOMAIN staged'[r] = DOMAIN new
    BY <1>1, <1>2, Staging DEF CatalogInv, RowsOK
  <1> QED  BY <1>1, <1>2, <1>3, <1>5, <1>6 DEF HalfOK, Overwrites, SetsDefault, Target

LEMMA UpdateKeepsHalf ==
  ASSUME CatalogInv, HalfInv, NEW r \in Requests, pc[r] = "flush", op[r].name = "update", ~Vanished(r),
         Stage(r, Update(r)), pc'[r] = "record", UNCHANGED <<table, op, seen>>
  PROVE  HalfOK(r)'
  <1> DEFINE s == op[r].slot
             new == Updated(r)
             writes == Update(r)
  <1>1. op[r] \in Ops /\ s \in Slots /\ Kind[s] = op[r].kind /\ View(r)[s] \in Row /\ View(r)[s] = table[s]
    BY SlotOfOp, ViewType, ViewOf, RowFields
       DEF CatalogInv, RequestsOK, FlowOK, Vanished, HalfInv, HalfOK
  <1>2. seen[r] \in Row /\ table[s] # None /\ table[s].parent = seen[r].parent
    BY <1>1, CatalogAssumption, RowFields DEF CatalogInv, RequestsOK, FlowOK, FlowTypes, Known
  <1>3. new \in Row /\ new # None /\ new.parent = Target(r)
    BY <1>1, <1>2, UpdatedRow, RowFields DEF Target
  <1>4. SetsDefault(r) /\ ~seen[r].default => new.default
    BY <1>1, <1>2, UpdatedRow
  <1>5. op[r].kind # "data" \/ op[r].flag = Unset => (new.default <=> table[s].default)
    BY <1>1, <1>2, UpdatedRow
  <1>6. SetsDefault(r) /\ ~seen[r].default => writes = [u \in {s} |-> new]
    <2>1. ASSUME SetsDefault(r), ~seen[r].default  PROVE Wanted(op[r], seen[r]) # seen[r]
      <3>1. Wanted(op[r], seen[r]).default = op[r].flag
        BY <2>1, CatalogAssumption DEF Wanted, SetsDefault
      <3> QED  BY <2>1, <3>1 DEF SetsDefault
    <2> QED  BY <2>1 DEF Update
  <1>7. writes = <<>> \/ writes = [u \in {s} |-> new]
    BY DEF Update
  <1> HIDE DEF new, writes
  <1>8. ASSUME NEW u \in DOMAIN writes  PROVE u = s /\ writes[u] = new
    BY <1>7, <1>8, EmptyDomain
  <1>9. \A u \in DOMAIN writes : Overwrites(r, u, writes[u])
    BY <1>3, <1>4, <1>5, <1>8 DEF Overwrites
  <1>10. Stage(r, writes)
    BY DEF writes
  <1>11. \A u \in DOMAIN staged'[r] : table[u] # None => Overwrites(r, u, staged'[r][u])
    BY <1>9, <1>10, WriteKeepsHalf
  <1>12. SetsDefault(r) /\ ~seen[r].default => SetItself(r)'
    <2>1. ASSUME SetsDefault(r), ~seen[r].default  PROVE SetItself(r)'
      <3>1. s \in DOMAIN writes /\ writes[s] = new
        BY <1>6, <2>1
      <3> QED  BY <1>3, <1>4, <1>9, <1>10, <2>1, <3>1, WriteKeepsHalf
    <2> QED  BY <2>1
  <1>13. SetsDefault(r) /\ seen[r].default => SetItself(r)'
    BY DEF SetItself
  <1> QED  BY <1>11, <1>12, <1>13 DEF HalfOK, Overwrites, SetsDefault, Target

LEMMA InsertKeepsHalf ==
  ASSUME CatalogInv, HalfInv, NEW r \in Requests, pc[r] = "flush", op[r].name # "update",
         NEW new \in Insertions(r), Stage(r, new), pc'[r] = "record", UNCHANGED <<table, op, seen>>
  PROVE  HalfOK(r)'
  <1>1. op[r] \in Ops /\ op[r].name \in {"create", "import"}
    BY DEF CatalogInv, RequestsOK, FlowOK
  <1>2. /\ \A s \in DOMAIN new :
              /\ table[s] = None /\ new[s] # None /\ new[s].parent = op[r].parent
              /\ new[s].default <=> SetsDefault(r)
        /\ {new[s].key : s \in DOMAIN new} = op[r].keys
    BY <1>1, InsertionRows DEF CatalogInv
  <1>3. \A u \in DOMAIN staged'[r] : table[u] # None => Overwrites(r, u, staged'[r][u])
    BY <1>2, WriteKeepsHalf
  <1>4. ASSUME SetsDefault(r)  PROVE SetItself(r)'
    <2>1. op[r].name = "create" /\ op[r].keys # {}
      BY <1>1, <1>4, OpFields DEF Payload, SetsDefault
    <2>2. PICK s \in DOMAIN new : TRUE
      BY <1>2, <2>1
    <2> QED  BY <1>2, <1>4, <2>1, <2>2, WriteKeepsHalf DEF Target
  <1>5. ASSUME op[r].name = "import"  PROVE WholeImport(r)'
    <2>1. DOMAIN staged[r] = {}
      BY <1>1, <1>5, OpFields DEF CatalogInv, RequestsOK, FlowOK, Payload, SetsDefault
    <2>2. DOMAIN staged'[r] = DOMAIN new /\ \A s \in DOMAIN new : staged'[r][s] = new[s]
      BY <2>1, Staging DEF CatalogInv, RowsOK
    <2> QED  BY <1>2, <2>2 DEF WholeImport
  <1> QED  BY <1>3, <1>4, <1>5 DEF HalfOK, Overwrites, SetsDefault, Target

LEMMA RecordKeepsHalf ==
  ASSUME CatalogInv, HalfInv, NEW r \in Requests, pc[r] = "record", Stage(r, Removal(r)),
         pc'[r] = "commit", UNCHANGED <<table, op, seen>>
  PROVE  HalfOK(r)'
  <1> DEFINE new == Removal(r)
  <1>1. \A s \in DOMAIN new : op[r].name = "delete" /\ new[s] = None
    BY EmptyDomain DEF Removal
  <1>2. op[r].name # "delete" => DOMAIN new = {}
    BY <1>1
  <1>3. Stage(r, new)
    OBVIOUS
  <1> HIDE DEF new
  <1>4. \A u \in DOMAIN staged'[r] : table[u] # None => Overwrites(r, u, staged'[r][u])
    BY <1>1, <1>3, WriteKeepsHalf DEF Overwrites
  <1>5. SetsDefault(r) /\ op[r].name # "delete" => SetItself(r)'
    BY <1>2, <1>3, WriteKeepsHalf DEF HalfInv, HalfOK
  <1>6. op[r].name = "import" => DOMAIN staged'[r] = {} \/ WholeImport(r)'
    <2>1. op[r].name = "import" => DOMAIN new = {} /\ DOMAIN staged'[r] = DOMAIN staged[r]
      BY <1>2, <1>3, Staging DEF CatalogInv, RowsOK
    <2> QED  BY <1>3, <2>1, WriteKeepsHalf DEF HalfInv, HalfOK
  <1> QED  BY <1>4, <1>5, <1>6 DEF HalfOK, Overwrites, SetsDefault, Target

\* The check itself writes nothing; what has no flush clears no default.
LEMMA CheckKeepsHalf ==
  ASSUME CatalogInv, HalfInv, NEW r \in Requests, Check(r)
  PROVE  HalfOK(r)'
  <1>1. op[r] \in Ops /\ DOMAIN staged[r] = {} /\ op' = op
    BY DEF Check, CatalogInv, RequestsOK, FlowOK
  <1>2. CASE Refusal(r) # "none"
    <2>1. pc'[r] = "store" /\ DOMAIN staged'[r] = {}
      BY <1>2, EmptyDomain DEF Check, Refuse, Fail, Goto, CatalogInv, RowsOK, RequestsOK, FlowTypes
    <2> QED  BY <2>1, NothingWritten
  <1>3. CASE Refusal(r) = "none"
    <2>1. pc'[r] = AfterCheck(r) /\ DOMAIN staged'[r] = {}
      BY <1>1, <1>3 DEF Check, Proceed, Goto, CatalogInv, RequestsOK, FlowTypes
    <2>2. AfterCheck(r) \in {"record", "clear", "flush"}
      BY DEF AfterCheck
    <2>3. AfterCheck(r) = "record" => op[r].name = "delete" \/ ~SetsDefault(r)
      BY <1>1, OpFields DEF AfterCheck, NothingToImport, SetsDefault, Payload
    <2> QED  BY <1>1, <2>1, <2>2, <2>3 DEF HalfOK, SetsDefault
  <1> QED  BY <1>2, <1>3

LEMMA StepKeepsHalf ==
  ASSUME CatalogInv, HalfInv, [Next]_vars
  PROVE  HalfInv'
  <1> SUFFICES ASSUME NEW q \in Requests  PROVE HalfOK(q)'
    BY DEF HalfInv
  <1> USE DEF CatalogInv
  <1>1. CASE UNCHANGED <<pc, op, seen, staged, table>>
    BY <1>1, HalfOfOthers
  <1>2. CASE Crash
    <2>1. DOMAIN staged'[q] = {} /\ pc'[q] \notin {"record", "commit"}
      BY <1>2, EmptyDomain DEF Crash
    <2> QED  BY <2>1, NothingWritten
  <1>3. ASSUME NEW r \in Requests \ {q},
               Receive(r) \/ Check(r) \/ Clear(r) \/ Flush(r) \/ Record(r) \/ Commit(r) \/ Store(r)
                 \/ CommitFails(r) \/ StoreFails(r) \/ WaitFails(r) \/ StatementFails(r) \/ RefuseUpload(r)
        PROVE  HalfOK(q)'
    <2>1. pc'[q] = pc[q] /\ op'[q] = op[q] /\ seen'[q] = seen[q] /\ staged'[q] = staged[q]
      BY <1>3 DEF RowsOK, RequestsOK, FlowTypes, Receive, CreateType, UpdateType, DeleteType, CreateData,
             UpdateData, DeleteData, CreatePost, UpdatePost, DeletePost, ImportPosts, ExportPosts,
             CreateConfig, UpdateConfig, DeleteConfig, CreateNotice, UpdateNotice, DeleteNotice, Asks,
             Check, Clear, Flush, Record, Commit, Store, CommitFails, StoreFails, WaitFails, StatementFails, RefuseUpload,
             Fail, Refuse, Break, Proceed, Goto, Written, Recorded, Stage
    <2>2. \A s \in DOMAIN staged[q] : table'[s] = table[s]
      <3>1. CASE Commit(r)
        <4>1. \A s \in DOMAIN staged[q] : s \in Slots /\ s \notin DOMAIN staged[r]
          BY DEF RowsOK, WritesOK, Apart
        <4> QED  BY <3>1, <4>1, ViewOf DEF Commit
      <3>2. CASE ~Commit(r)
        <4>1. table' = table
          BY <1>3, <3>2 DEF Receive, CreateType, UpdateType, DeleteType, CreateData,
             UpdateData, DeleteData, CreatePost, UpdatePost, DeletePost, ImportPosts, ExportPosts,
             CreateConfig, UpdateConfig, DeleteConfig, CreateNotice, UpdateNotice, DeleteNotice, Asks,
             Check, Clear, Flush, Record, Store, CommitFails, StoreFails, WaitFails, StatementFails, RefuseUpload
        <4> QED  BY <4>1
      <3> QED  BY <3>1, <3>2
    <2> QED  BY <2>1, <2>2, HalfOfOthers
  <1>4. CASE Receive(q)
    <2>1. pc[q] = "idle" /\ pc'[q] = "check" /\ staged' = staged
      BY <1>4 DEF RequestsOK, FlowTypes, Receive, CreateType, UpdateType, DeleteType, CreateData,
             UpdateData, DeleteData, CreatePost, UpdatePost, DeletePost, ImportPosts, ExportPosts,
             CreateConfig, UpdateConfig, DeleteConfig, CreateNotice, UpdateNotice, DeleteNotice, Asks, Goto
    <2>2. DOMAIN staged'[q] = {}
      BY <2>1 DEF RequestsOK, FlowOK
    <2> QED  BY <2>1, <2>2, NothingWritten
  <1>5. CASE Check(q)
    BY <1>5, CheckKeepsHalf
  <1>6. CASE Clear(q)
    BY <1>6, ClearKeepsHalf
  <1>7. ASSUME NEW code, NEW event, Fail(q, code, event)  PROVE HalfOK(q)'
    <2>1. pc'[q] = "store" /\ DOMAIN staged'[q] = {}
      BY <1>7, EmptyDomain DEF Fail, Goto, RowsOK, RequestsOK, FlowTypes
    <2> QED  BY <2>1, NothingWritten
  <1>8. CASE Flush(q)
    <2>1. pc[q] = "flush" /\ UNCHANGED <<table, op, seen>>
      BY <1>8 DEF Flush
    <2>2. CASE Vanished(q)
      BY <1>7, <1>8, <2>2 DEF Flush, Break
    <2>3. CASE ~Vanished(q)
      <3>1. PICK new \in Pending(q) : Written(q, new)
        BY <1>8, <2>3 DEF Flush
      <3>2. CASE Broken(q, new) # "none"
        BY <1>7, <3>1, <3>2 DEF Written, Refuse
      <3>3. CASE Broken(q, new) = "none"
        <4>1. Stage(q, new) /\ pc'[q] = "record"
          BY <3>1, <3>3 DEF Written, Goto, RequestsOK, FlowTypes
        <4>2. IF op[q].name = "update" THEN new = Update(q) ELSE new \in Insertions(q)
          BY <2>1 DEF Pending
        <4> QED  BY <2>1, <2>3, <4>1, <4>2, UpdateKeepsHalf, InsertKeepsHalf
      <3> QED  BY <3>2, <3>3
    <2> QED  BY <2>2, <2>3
  <1>9. CASE Record(q)
    <2>1. CASE Broken(q, Removal(q)) # "none"
      BY <1>7, <1>9, <2>1 DEF Record
    <2>2. CASE Broken(q, Removal(q)) = "none"
      <3>1. /\ pc[q] = "record" /\ Stage(q, Removal(q)) /\ pc'[q] = "commit" /\ UNCHANGED <<table, op, seen>>
        BY <1>9, <2>2 DEF Record, Recorded, Goto, RequestsOK, FlowTypes
      <3> QED  BY <3>1, RecordKeepsHalf
    <2> QED  BY <2>1, <2>2
  <1>10. CASE Commit(q) \/ CommitFails(q)
    <2>1. pc'[q] = "store" /\ DOMAIN staged'[q] = {}
      BY <1>10, EmptyDomain DEF Commit, CommitFails, Goto, RowsOK, RequestsOK, FlowTypes
    <2> QED  BY <2>1, NothingWritten
  <1>11. CASE Store(q) \/ StoreFails(q)
    <2>1. pc'[q] = "done" /\ DOMAIN staged'[q] = {}
      BY <1>11 DEF Store, StoreFails, Goto, RequestsOK, FlowTypes, FlowOK
    <2> QED  BY <2>1, NothingWritten
  <1>12. CASE WaitFails(q) \/ StatementFails(q) \/ RefuseUpload(q)
    BY <1>7, <1>12 DEF WaitFails, StatementFails, RefuseUpload, Break
  <1> QED  BY <1>1, <1>2, <1>3, <1>4, <1>5, <1>6, <1>8, <1>9, <1>10, <1>11, <1>12 DEF Next, vars

LEMMA OnlyCommits ==
  ASSUME CatalogInv, [Next]_vars, NEW r \in Requests, committed'[r], ~committed[r]
  PROVE  Commit(r)
  <1>1. ASSUME NEW q \in Requests, Commit(q)  PROVE q = r
    BY <1>1 DEF Commit, CatalogInv, OutcomeTypes
  <1>2. ASSUME NEW q \in Requests,
               Receive(q) \/ Check(q) \/ Clear(q) \/ Flush(q) \/ Record(q) \/ Store(q)
                 \/ CommitFails(q) \/ StoreFails(q) \/ WaitFails(q) \/ StatementFails(q) \/ RefuseUpload(q)
        PROVE  committed' = committed
    BY <1>2 DEF Receive, CreateType, UpdateType, DeleteType, CreateData,
             UpdateData, DeleteData, CreatePost, UpdatePost, DeletePost, ImportPosts, ExportPosts,
             CreateConfig, UpdateConfig, DeleteConfig, CreateNotice, UpdateNotice, DeleteNotice, Asks,
             Check, Clear, Flush, Record, Store, CommitFails, StoreFails, WaitFails, StatementFails, RefuseUpload
  <1>3. UNCHANGED vars \/ Crash => committed' = committed
    BY DEF vars, Crash
  <1> QED  BY <1>1, <1>2, <1>3 DEF Next

\* An entry that was the default and is not any more after the commit of r.
LEMMA LostDefault ==
  ASSUME CatalogInv, HalfInv, NEW r \in Requests, Commit(r), NEW t \in Slots,
         HasDefault(t, table), ~HasDefault(t, table')
  PROVE  /\ op[r].kind = "data"
         /\ \/ op[r].name = "delete"
            \/ op[r].name = "update" /\ op[r].flag = FALSE
            \/ op[r].name = "update" /\ op[r].flag = TRUE /\ seen[r].default
  <1>1. PICK s \in Slots : table[s] # None /\ table[s].parent = t /\ table[s].default
    BY DEF HasDefault, Entries
  <1>2. \A u \in Slots : /\ u \in DOMAIN staged[r] => table'[u] = staged[r][u]
                         /\ u \notin DOMAIN staged[r] => table'[u] = table[u]
    BY ViewOf DEF Commit
  <1>3. \A u \in Slots : ~(table'[u] # None /\ table'[u].parent = t /\ table'[u].default)
    BY DEF HasDefault, Entries
  <1>4. s \in DOMAIN staged[r] /\ Overwrites(r, s, staged[r][s])
    BY <1>1, <1>2, <1>3 DEF HalfInv, HalfOK
  <1>5. Kind[s] = "data" /\ op[r].kind = "data" /\ op[r] \in Ops
    BY <1>1, <1>4 DEF CatalogInv, RowsOK, TableOK, WritesOK, Fits, Commit, RequestsOK, FlowOK
  <1>6. CASE op[r].name = "delete"
    BY <1>5, <1>6
  <1>7. CASE op[r].name = "update" /\ s = op[r].slot /\ staged[r][s] # None
    <2>1. staged[r][s].parent = t /\ ~staged[r][s].default
      BY <1>1, <1>2, <1>3, <1>4, <1>7 DEF CatalogInv, RowsOK, WritesOK
    <2>2. SetsDefault(r) => seen[r].default
      BY <1>4, <1>7, <2>1 DEF Overwrites
    <2>3. op[r].flag # Unset
      BY <1>1, <1>4, <1>7, <2>1 DEF Overwrites
    <2>4. op[r].flag = TRUE \/ op[r].flag = FALSE
      BY <1>5, <2>3, OpFields
    <2> QED  BY <1>5, <1>7, <2>2, <2>4 DEF SetsDefault
  <1>8. CASE op[r].name \in {"create", "update"} /\ SetsDefault(r) /\ table[s].parent = Target(r)
    <2>1. SetItself(r)
      BY <1>8 DEF Commit, HalfInv, HalfOK
    <2>2. ASSUME NEW u \in DOMAIN staged[r], staged[r][u] # None, staged[r][u].default,
                 staged[r][u].parent = Target(r)
          PROVE  FALSE
      <3>1. u \in Slots /\ table'[u] = staged[r][u]
        BY <1>2 DEF CatalogInv, RowsOK, WritesOK
      <3> QED  BY <1>1, <1>3, <1>8, <2>2, <3>1
    <2> QED  BY <1>5, <1>8, <2>1, <2>2 DEF SetItself, SetsDefault
  <1> QED  BY <1>4, <1>6, <1>7, <1>8 DEF Overwrites

LEMMA StepLosesNoDefault ==
  ASSUME CatalogInv, TrailInv, HalfInv, [Next]_vars, NEW t \in Slots,
         HasDefault(t, table), ~HasDefault(t, table')
  PROVE  \E r \in Requests :
            /\ committed'[r] /\ ~committed[r] /\ op[r].kind = "data"
            /\ \/ op[r].name = "delete"
               \/ op[r].name = "update" /\ op[r].flag = FALSE
               \/ op[r].name = "update" /\ op[r].flag = TRUE /\ seen[r].default
  <1>1. table' # table
    OBVIOUS
  <1>2. PICK r \in Requests : Commit(r)
    BY <1>1, StepWrites DEF CatalogInv, NoWrite, Writes
  <1>3. committed'[r] /\ ~committed[r]
    BY <1>2 DEF Commit, TrailInv, TrailOK, CatalogInv, OutcomeTypes
  <1> QED  BY <1>2, <1>3, LostDefault

LEMMA StepImportsAllOrNothing ==
  ASSUME CatalogInv, HalfInv, [Next]_vars, NEW r \in Requests, op[r].name = "import",
         committed'[r], ~committed[r]
  PROVE  {table'[s].key : s \in {u \in Slots : table'[u] # table[u]}} \in {{}, op[r].keys}
  <1>1. Commit(r)
    BY OnlyCommits
  <1>2. \A u \in Slots : /\ u \in DOMAIN staged[r] => table'[u] = staged[r][u]
                         /\ u \notin DOMAIN staged[r] => table'[u] = table[u]
    BY <1>1, ViewOf DEF Commit
  <1>3. DOMAIN staged[r] \subseteq Slots
    BY DEF CatalogInv, RowsOK, WritesOK
  <1>4. CASE DOMAIN staged[r] = {}
    BY <1>2, <1>4
  <1>5. CASE WholeImport(r)
    <2>1. {u \in Slots : table'[u] # table[u]} = DOMAIN staged[r]
      BY <1>2, <1>3, <1>5 DEF WholeImport
    <2>2. {table'[s].key : s \in DOMAIN staged[r]} = {staged[r][s].key : s \in DOMAIN staged[r]}
      BY <1>2, <1>3
    <2> QED  BY <1>5, <2>1, <2>2 DEF WholeImport
  <1> QED  BY <1>4, <1>5 DEF HalfInv, HalfOK

\* A dictionary loses its last default only to who takes the flag away, deletes
\* the entry or had read its own as the default; an import is written whole or
\* not at all.
THEOREM NothingIsLeftHalfDone == Spec => NothingIsHalfDone
  <1>1. Init => CatalogInv /\ TrailInv /\ HalfInv
    <2>1. Init => HalfInv
      BY EmptyDomain DEF Init, HalfInv, HalfOK
    <2>2. Init => TrailInv
      BY CatalogAssumption DEF Init, TrailInv, TrailOK, Owed, UploadTooLarge
    <2> QED  BY <2>1, <2>2, InitRows, InitOutcomes DEF CatalogInv
  <1>2. CatalogInv /\ TrailInv /\ HalfInv /\ [Next]_vars => (CatalogInv /\ TrailInv /\ HalfInv)'
    BY StepKeepsRows, StepKeepsRequests, StepKeepsOutcomes, StepKeepsTrail, StepKeepsHalf DEF CatalogInv
  <1>3. CatalogInv /\ TrailInv /\ HalfInv /\ [Next]_vars =>
           [\A t \in Slots :
              HasDefault(t, table) /\ ~HasDefault(t, table') =>
                  \E r \in Requests :
                      /\ committed'[r] /\ ~committed[r] /\ op[r].kind = "data"
                      /\ \/ op[r].name = "delete"
                         \/ op[r].name = "update" /\ op[r].flag = FALSE
                         \/ op[r].name = "update" /\ op[r].flag = TRUE /\ seen[r].default]_vars
    BY StepLosesNoDefault
  <1>4. CatalogInv /\ TrailInv /\ HalfInv /\ [Next]_vars =>
           [\A r \in Requests :
              op[r].name = "import" /\ committed'[r] /\ ~committed[r] =>
                  {table'[s].key : s \in {u \in Slots : table'[u] # table[u]}} \in {{}, op[r].keys}]_vars
    BY StepImportsAllOrNothing
  <1> QED  BY <1>1, <1>2, <1>3, <1>4, PTL
           DEF Spec, NothingIsHalfDone, DefaultsAreNotLost, ImportIsAllOrNothing

-----------------------------------------------------------------------------
(* Races.                                                                  *)

LEMMA SameRefusal ==
  ASSUME NEW r \in Requests, View(r)' = View(r), UNCHANGED <<table, op>>
  PROVE  Refusal(r)' = Refusal(r)
  BY DEF Refusal, Missing, Old, TypeRefusal, DataRefusal, PostRefusal, ConfigRefusal, KeyTaken, Entries,
         ExportTooLarge, ImportTooLarge, CodeTaken

LEMMA RollbackShowsTable ==
  ASSUME RowsOK, NEW r \in Requests, DOMAIN staged[r] = {}, DOMAIN staged'[r] = {}, UNCHANGED table
  PROVE  View(r)' = View(r)
  <1>1. \A s \in Slots : View(r)'[s] = View(r)[s]
    BY DEF View
  <1> QED  BY <1>1 DEF View

\* What the check says of a creation or of an update whose code is taken.
LEMMA CheckSaysDuplicate ==
  ASSUME NEW r \in Requests, op[r] \in Ops, op[r].kind \in {"type", "post", "config"}, ~Missing(r),
         NEW k \in op[r].keys, KeyTaken(r, op[r].kind, k),
         \/ op[r].name = "create"
         \/ op[r].name = "update" /\ op[r].kind = "post" /\ Old(r).key # k
  PROVE  Refusal(r) = "DUPLICATE"
  BY DEF Refusal, TypeRefusal, PostRefusal, ConfigRefusal, CodeTaken, ExportTooLarge, ImportTooLarge

LEMMA CreationRaces ==
  ASSUME CatalogInv, NEW r \in Requests, pc[r] = "flush", op[r].name = "create", op[r].kind # "data",
         NEW new \in Insertions(r), Broken(r, new) # "none"
  PROVE  Broken(r, new) = Refusal(r)
  <1> DEFINE rows == After(r, new)
  <1>1. op[r] \in Ops /\ op[r].parent = None /\ op[r].slot = None /\ ~SetsDefault(r)
    BY OpFields DEF CatalogInv, RequestsOK, FlowOK, Payload, SetsDefault
  <1>2. \A s \in DOMAIN new : /\ s \in Slots /\ Kind[s] = op[r].kind
                              /\ new[s] # None /\ new[s].parent = None /\ ~new[s].default
                              /\ new[s].key \in op[r].keys
    BY <1>1, InsertionRows DEF CatalogInv
  <1>3. \A s, u \in DOMAIN new : s = u
    <2>1. PICK k : op[r].keys = {k}
      BY <1>1, OpFields DEF Payload
    <2>2. Cardinality(DOMAIN new) = 1
      <3>1. Cardinality(DOMAIN new) = Cardinality(op[r].keys)
        BY <1>1, InsertionRows DEF CatalogInv
      <3>2. Cardinality({k}) = 1
        BY FS_Singleton
      <3> QED  BY <2>1, <3>1, <3>2
    <2>3. IsFiniteSet(DOMAIN new)
      BY <1>2, CatalogAssumption, FS_Subset
    <2> QED  BY <2>2, <2>3, FS_Singleton
  <1>4. \A s \in Slots : /\ s \in DOMAIN new => rows[s] = new[s]
                         /\ s \notin DOMAIN new => rows[s] = View(r)[s]
    BY DEF After
  <1>5. Orphans(rows) = {}
    <2>1. ASSUME NEW s \in Slots, rows[s] # None, rows[s].parent # None  PROVE rows[rows[s].parent] # None
      BY <1>2, <1>4, <2>1, ConsistentMeans, ParentIsSlot DEF CatalogInv, RowsOK
    <2> QED  BY <2>1 DEF Orphans
  <1>6. \A s \in DOMAIN new, u \in Slots : ~TwoDefaults(s, rows[s], u, rows[u])
    BY <1>2, <1>4 DEF TwoDefaults
  <1>7. Broken(r, new) = "DUPLICATE"
    BY <1>5, <1>6 DEF Broken
  <1>8. PICK s \in DOMAIN new, u \in Slots : SameKey(s, rows[s], u, rows[u])
    BY <1>5, <1>6 DEF Broken
  <1>9. /\ u \notin DOMAIN new /\ View(r)[u] # None /\ View(r)[u].key = new[s].key
        /\ Kind[u] = op[r].kind /\ op[r].kind # "notice"
    BY <1>2, <1>3, <1>4, <1>8 DEF SameKey, Unique
  <1>10. KeyTaken(r, op[r].kind, new[s].key) /\ new[s].key \in op[r].keys
    BY <1>2, <1>9 DEF KeyTaken
  <1>11. op[r].kind \in {"type", "post", "config"} /\ ~Missing(r)
    BY <1>1, <1>9, OpFields DEF Kinds, Missing
  <1> QED  BY <1>1, <1>7, <1>10, <1>11, CheckSaysDuplicate

LEMMA UpdateRaces ==
  ASSUME CatalogInv, NEW r \in Requests, pc[r] = "flush", op[r].name = "update", op[r].kind # "data",
         ~Vanished(r), Broken(r, Update(r)) # "none"
  PROVE  Broken(r, Update(r)) = Refusal(r)
  <1> DEFINE s == op[r].slot
             new == Update(r)
             upd == Updated(r)
             rows == After(r, new)
             row == View(r)[s]
  <1>1. /\ op[r] \in Ops /\ s \in Slots /\ Kind[s] = op[r].kind /\ row \in Row /\ row # None
        /\ ~SetsDefault(r) /\ DOMAIN staged[r] = {}
    BY SlotOfOp, ViewType, RowFields DEF CatalogInv, RequestsOK, FlowOK, Vanished, SetsDefault
  <1>2. seen[r] \in Row
    BY <1>1, CatalogAssumption DEF CatalogInv, RequestsOK, FlowOK, FlowTypes
  <1>3. row.parent = None /\ ~row.default
    BY <1>1, ViewOf DEF CatalogInv, RowsOK, TableOK, Fits
  <1>4. /\ upd # None /\ upd.parent = None /\ ~upd.default
        /\ upd.key = row.key \/ (op[r].keys = {upd.key} /\ upd.key # seen[r].key)
    BY <1>1, <1>2, <1>3, UpdatedRow, RowFields
  <1>5. new = [u \in {s} |-> upd]
    BY EmptyDomain, NothingBreaksNothing DEF Update, CatalogInv
  <1> HIDE DEF new, upd
  <1>6. \A u \in Slots : rows[u] = IF u = s THEN upd ELSE View(r)[u]
    BY <1>5 DEF After
  <1>7. Orphans(rows) = {}
    <2>1. ASSUME NEW u \in Slots, rows[u] # None, rows[u].parent # None  PROVE rows[rows[u].parent] # None
      BY <1>4, <1>6, <2>1, ConsistentMeans, ParentIsSlot DEF CatalogInv, RowsOK
    <2> QED  BY <2>1 DEF Orphans
  <1>8. \A v \in DOMAIN new, u \in Slots : ~TwoDefaults(v, rows[v], u, rows[u])
    BY <1>1, <1>4, <1>5, <1>6 DEF TwoDefaults
  <1>9. Broken(r, new) = "DUPLICATE"
    BY <1>7, <1>8 DEF Broken, new
  <1>10. PICK u \in Slots : SameKey(s, rows[s], u, rows[u])
    BY <1>5, <1>7, <1>8 DEF Broken, new
  <1>11. /\ u # s /\ Kind[u] = op[r].kind /\ op[r].kind # "notice"
         /\ View(r)[u] # None /\ View(r)[u].key = upd.key /\ View(r)[u].parent = None
    BY <1>1, <1>4, <1>6, <1>10 DEF SameKey, Unique
  <1>12. row.key # upd.key
    <2>1. ~SameKey(s, row, u, View(r)[u])
      BY <1>1, ConsistentMeans DEF CatalogInv, RowsOK, Clash
    <2> QED  BY <1>1, <1>3, <1>11, <2>1 DEF SameKey, Unique
  <1>13. op[r].keys = {upd.key} /\ op[r].kind = "post"
    BY <1>1, <1>4, <1>11, <1>12, OpFields DEF Payload, Kinds
  <1>14. KeyTaken(r, "post", upd.key) /\ Old(r).key # upd.key /\ ~Missing(r)
    BY <1>1, <1>11, <1>12, <1>13, CatalogAssumption DEF KeyTaken, Old, Missing
  <1> QED  BY <1>1, <1>9, <1>13, <1>14, CheckSaysDuplicate DEF new

\* A deletion that meets the foreign key in the flush of the audit.
LEMMA DeletionRaces ==
  ASSUME CatalogInv, NEW r \in Requests, pc[r] = "record", op[r].kind # "data",
         Broken(r, Removal(r)) # "none"
  PROVE  Refusal(r) \in {"HAS_DATA", "BUILTIN_READONLY"}
  <1> DEFINE s == op[r].slot
             new == Removal(r)
             rows == After(r, new)
  <1>1. op[r].name = "delete" /\ Broken(r, new) = "HAS_DATA" /\ op[r] \in Ops /\ DOMAIN staged[r] = {}
    BY RemovalBreaks DEF CatalogInv, RequestsOK, FlowOK
  <1>2. s \in Slots /\ Kind[s] = op[r].kind
    BY <1>1, SlotOfOp
  <1>3. View(r)[s] # None /\ new = [u \in {s} |-> None]
    BY EmptyDomain, NothingBreaksNothing DEF Removal, CatalogInv
  <1>4. \A u \in Slots : rows[u] = IF u = s THEN None ELSE View(r)[u]
    BY <1>3 DEF After
  <1>5. PICK u \in Slots : rows[u] # None /\ rows[u].parent # None /\ rows[rows[u].parent] = None
    BY <1>1 DEF Broken, Orphans
  <1> HIDE DEF new, rows
  <1>6. View(r)[u] # None /\ View(r)[u] = rows[u] /\ View(r)[u].parent \in Slots
    BY <1>4, <1>5, ParentIsSlot DEF CatalogInv
  <1>7. View(r)[u].parent = s
    BY <1>4, <1>5, <1>6, ConsistentMeans DEF CatalogInv, RowsOK
  <1>8. Kind[s] = "type"
    <2>1. Fits(u, View(r)[u])
      BY <1>1, <1>6, ViewOf DEF CatalogInv, RowsOK, TableOK
    <2> QED  BY <1>2, <1>7, <2>1, CatalogAssumption DEF Fits
  <1>9. Entries(s, View(r)) # {}
    BY <1>6, <1>7 DEF Entries
  <1>10. ~Missing(r)
    BY <1>2, <1>3, CatalogAssumption DEF Missing, Old
  <1> QED  BY <1>1, <1>2, <1>8, <1>9, <1>10 DEF Refusal, TypeRefusal

\* Who moves r from its flush or its record to the middleware.
LEMMA WhoRefuses ==
  ASSUME CatalogInv, [Next]_vars, NEW r \in Requests, pc[r] \in {"flush", "record"}, pc'[r] = "store",
         answer'[r] # "INTERNAL_ERROR"
  PROVE  \/ Flush(r) /\ ~Vanished(r) /\ \E new \in Pending(r) :
               Broken(r, new) # "none" /\ Fail(r, Broken(r, new), TRUE)
         \/ Record(r) /\ Broken(r, Removal(r)) # "none" /\ Fail(r, Broken(r, Removal(r)), FALSE)
  <1> USE DEF CatalogInv
  <1>1. ~UNCHANGED vars /\ ~Crash
    BY DEF vars, Crash
  <1>2. ASSUME NEW q \in Requests \ {r},
               Receive(q) \/ Check(q) \/ Clear(q) \/ Flush(q) \/ Record(q) \/ Commit(q) \/ Store(q)
                 \/ CommitFails(q) \/ StoreFails(q) \/ WaitFails(q) \/ StatementFails(q) \/ RefuseUpload(q)
        PROVE  FALSE
    <2>1. pc'[r] = pc[r]
      BY <1>2 DEF RequestsOK, FlowTypes, Receive, CreateType, UpdateType, DeleteType, CreateData,
             UpdateData, DeleteData, CreatePost, UpdatePost, DeletePost, ImportPosts, ExportPosts,
             CreateConfig, UpdateConfig, DeleteConfig, CreateNotice, UpdateNotice, DeleteNotice, Asks,
             Check, Clear, Flush, Record, Commit, Store, CommitFails, StoreFails, WaitFails, StatementFails, RefuseUpload,
             Fail, Refuse, Break, Proceed, Goto, Written, Recorded
    <2> QED  BY <2>1
  <1>3. ~Receive(r) /\ ~Check(r) /\ ~Clear(r) /\ ~Commit(r) /\ ~Store(r) /\ ~CommitFails(r) /\ ~StoreFails(r)
    BY DEF Receive, CreateType, UpdateType, DeleteType, CreateData,
             UpdateData, DeleteData, CreatePost, UpdatePost, DeletePost, ImportPosts, ExportPosts,
             CreateConfig, UpdateConfig, DeleteConfig, CreateNotice, UpdateNotice, DeleteNotice, Asks,
             Check, Clear, Commit, Store, CommitFails, StoreFails
  <1>4. ~Break(r)
    BY DEF Break, Fail, OutcomeTypes
  <1>5. CASE Flush(r)
    <2>1. ~Vanished(r)
      BY <1>4, <1>5 DEF Flush
    <2>2. PICK new \in Pending(r) : Written(r, new)
      BY <1>5, <2>1 DEF Flush
    <2>3. Broken(r, new) # "none"
      BY <2>2 DEF Written, Goto, RequestsOK, FlowTypes
    <2> QED  BY <1>5, <2>1, <2>2, <2>3 DEF Written, Refuse
  <1>6. CASE Record(r)
    <2>1. Broken(r, Removal(r)) # "none"
      BY <1>6 DEF Record, Recorded, Goto, RequestsOK, FlowTypes
    <2> QED  BY <1>6, <2>1 DEF Record
  <1>7. ~WaitFails(r) /\ ~StatementFails(r) /\ ~RefuseUpload(r)
    BY <1>4 DEF WaitFails, StatementFails, RefuseUpload
  <1> QED  BY <1>1, <1>2, <1>3, <1>5, <1>6, <1>7 DEF Next

LEMMA StepAnswersLikeCheck ==
  ASSUME CatalogInv, [Next]_vars, NEW r \in Requests, pc[r] \in {"flush", "record"}, pc'[r] = "store",
         op[r].kind # "data", op[r].name # "import", answer'[r] # "INTERNAL_ERROR"
  PROVE  \/ answer'[r] = Refusal(r)'
         \/ answer'[r] = "HAS_DATA" /\ Refusal(r)' = "BUILTIN_READONLY"
  <1> USE DEF CatalogInv
  <1>1. ASSUME NEW code, NEW event, Fail(r, code, event), Flush(r) \/ (Record(r) /\ op[r].name = "delete")
        PROVE  answer'[r] = code /\ Refusal(r)' = Refusal(r)
    <2>1. DOMAIN staged[r] = {} /\ UNCHANGED <<table, op>>
      BY <1>1 DEF Flush, Record, RequestsOK, FlowOK, SetsDefault
    <2>2. DOMAIN staged'[r] = {} /\ answer'[r] = code
      BY <1>1, EmptyDomain DEF Fail, RowsOK, OutcomeTypes
    <2>3. View(r)' = View(r)
      BY <2>1, <2>2, RollbackShowsTable
    <2> QED  BY <2>1, <2>2, <2>3, SameRefusal
  <1>2. ASSUME Flush(r), ~Vanished(r), NEW new \in Pending(r), Broken(r, new) # "none",
               Fail(r, Broken(r, new), TRUE)
        PROVE  answer'[r] = Refusal(r)'
    <2>1. pc[r] = "flush" /\ op[r].name \in {"create", "update"}
      BY <1>2 DEF Flush, RequestsOK, FlowOK
    <2>2. IF op[r].name = "update" THEN new = Update(r) ELSE new \in Insertions(r)
      BY <1>2, <2>1 DEF Pending
    <2>3. Broken(r, new) = Refusal(r)
      BY <1>2, <2>1, <2>2, CreationRaces, UpdateRaces
    <2> QED  BY <1>1, <1>2, <2>3
  <1>3. ASSUME Record(r), Broken(r, Removal(r)) # "none", Fail(r, Broken(r, Removal(r)), FALSE)
        PROVE  answer'[r] = "HAS_DATA" /\ Refusal(r)' \in {"HAS_DATA", "BUILTIN_READONLY"}
    <2>1. pc[r] = "record"
      BY <1>3 DEF Record
    <2>2. op[r].name = "delete" /\ Broken(r, Removal(r)) = "HAS_DATA"
      BY <1>3, <2>1, RemovalBreaks
    <2>3. Refusal(r) \in {"HAS_DATA", "BUILTIN_READONLY"}
      BY <1>3, <2>1, DeletionRaces
    <2> QED  BY <1>1, <1>3, <2>2, <2>3
  <1> QED  BY <1>2, <1>3, WhoRefuses

\* A request that loses a race is told what the check would tell it, had it come
\* later; only a dictionary that was filled and then protected is refused for
\* its entries, where the check names the protection.
THEOREM LosersHearTheCheck == Spec => RacesAnswerLikeChecks
  <1>1. CatalogInv /\ [Next]_vars =>
           [\A r \in Requests :
              /\ pc[r] \in {"flush", "record"} /\ pc'[r] = "store"
              /\ op[r].kind # "data" /\ op[r].name # "import" /\ answer'[r] # "INTERNAL_ERROR"
              => \/ answer'[r] = Refusal(r)'
                 \/ answer'[r] = "HAS_DATA" /\ Refusal(r)' = "BUILTIN_READONLY"]_vars
    BY StepAnswersLikeCheck
  <1> QED  BY <1>1, CatalogInvariant, PTL DEF Spec, RacesAnswerLikeChecks

-----------------------------------------------------------------------------
(* Lists in pages.                                                         *)

\* A sequence of all the rows has each at one place.
LEMMA EachAtOnePlace ==
  ASSUME NEW rows, IsFiniteSet(rows), NEW q \in SetToSeqs(rows)
  PROVE  /\ Cardinality(rows) \in Nat
         /\ q \in [1 .. Cardinality(rows) -> rows] /\ DOMAIN q = 1 .. Cardinality(rows)
         /\ \A i, j \in 1 .. Cardinality(rows) : q[i] = q[j] => i = j
         /\ \A s \in rows : \E i \in 1 .. Cardinality(rows) : q[i] = s
  <1> DEFINE n == Cardinality(rows)
  <1>1. n \in Nat
    BY FS_CardinalityType
  <1>2. q \in [1 .. n -> rows] /\ \A i, j \in 1 .. n : i # j => q[i] # q[j]
    BY DEF SetToSeqs
  <1>3. q \in Injection(1 .. n, rows)
    BY <1>2 DEF Injection, IsInjective
  <1>4. Cardinality(1 .. n) = n
    BY <1>1, FS_Interval
  <1>5. q \in Surjection(1 .. n, rows)
    BY <1>3, <1>4, FS_Injection
  <1> QED  BY <1>1, <1>2, <1>5 DEF Surjection

\* An order that tells any two rows apart.
Total(rows, before) ==
    \A s, u \in rows :
        /\ s # u => <<s, u>> \in before \/ <<u, s>> \in before
        /\ ~(<<s, u>> \in before /\ <<u, s>> \in before)

\* The place of a row is that after all the rows which come before it.
LEMMA PlaceOfRow ==
  ASSUME NEW rows, IsFiniteSet(rows), NEW before, Total(rows, before),
         NEW q \in Sorted(rows, before), NEW k \in 1 .. Cardinality(rows)
  PROVE  Cardinality({u \in rows : <<u, q[k]>> \in before}) = k - 1
  <1> DEFINE n == Cardinality(rows)
             U == {u \in rows : <<u, q[k]>> \in before}
             D == 1 .. (k - 1)
             f == [j \in D |-> q[j]]
  <1>1. q \in SetToSeqs(rows) /\ \A i, j \in DOMAIN q : i < j => <<q[j], q[i]>> \notin before
    BY DEF Sorted
  <1>2. /\ n \in Nat /\ q \in [1 .. n -> rows] /\ DOMAIN q = 1 .. n
        /\ \A i, j \in 1 .. n : q[i] = q[j] => i = j
        /\ \A s \in rows : \E i \in 1 .. n : q[i] = s
    BY <1>1, EachAtOnePlace
  <1>3. ASSUME NEW i \in 1 .. n  PROVE <<q[i], q[k]>> \in before <=> i < k
    <2>1. CASE i < k
      <3>1. q[i] # q[k] /\ <<q[k], q[i]>> \notin before
        BY <1>1, <1>2, <2>1
      <3> QED  BY <1>2, <2>1, <3>1 DEF Total
    <2>2. CASE i = k
      BY <1>2, <2>2 DEF Total
    <2>3. CASE i > k
      BY <1>1, <1>2, <2>3
    <2> QED  BY <1>2, <2>1, <2>2, <2>3
  <1>4. \A j \in D : j \in 1 .. n /\ j < k
    BY <1>2
  <1>5. f \in [D -> U]
    BY <1>2, <1>3, <1>4
  <1>6. f \in Surjection(D, U)
    <2>1. ASSUME NEW u \in U  PROVE \E j \in D : f[j] = u
      <3>1. PICK i \in 1 .. n : q[i] = u
        BY <1>2
      <3>2. i \in D
        BY <1>2, <1>3, <3>1
      <3> QED  BY <3>1, <3>2
    <2> QED  BY <1>5, <2>1 DEF Surjection
  <1>7. f \in Injection(D, U)
    BY <1>2, <1>4, <1>5 DEF Injection, IsInjective
  <1>8. IsFiniteSet(D) /\ Cardinality(D) = k - 1
    <2>1. 1 \in Int /\ k - 1 \in Int /\ k >= 1
      BY <1>2
    <2>2. IsFiniteSet(D) /\ Cardinality(D) = IF 1 > k - 1 THEN 0 ELSE (k - 1) - 1 + 1
      BY <2>1, FS_Interval
    <2> QED  BY <2>1, <2>2
  <1> HIDE DEF f
  <1> QED  BY <1>6, <1>7, <1>8, FS_Surjection

\* A place is on one of the n pages, and none is on the page after the last.
First(page, size) == (page - 1) * size + 1

OnePage(N, n, size) ==
    /\ n \in Nat /\ First(n + 1, size) \in Int
    /\ \A m \in 1 .. N : \E p \in 1 .. n : \A x \in 1 .. n :
          (m \in First(x, size) .. First(x, size) + size - 1) <=> x = p
    /\ \A m \in 1 .. N : m < First(n + 1, size)

LEMMA Division ==
  ASSUME NEW a \in Nat, NEW b \in Nat \ {0}
  PROVE  a \div b \in Nat /\ (a \div b) * b <= a /\ a < (a \div b) * b + b
  OBVIOUS

LEMMA Multiples ==
  ASSUME NEW a \in Nat, NEW b \in Nat, NEW s \in Nat, a <= b
  PROVE  a * s <= b * s
  OBVIOUS

LEMMA NextMultiple ==
  ASSUME NEW a \in Int, NEW s \in Int
  PROVE  (a + 1) * s = a * s + s /\ (a - 1) * s = a * s - s /\ a * s \in Int
  OBVIOUS

LEMMA PageOfPlace ==
  ASSUME NEW N \in Nat, NEW size \in Nat \ {0}
  PROVE  OnePage(N, TotalPages(N, size), size)
  <1> DEFINE n == TotalPages(N, size)
  <1>1. n = (N + size - 1) \div size
    BY DEF TotalPages
  <1>2. N + size - 1 \in Nat
    OBVIOUS
  <1>3. n \in Nat /\ n * size \in Int /\ n * size <= N + size - 1 /\ N + size - 1 < n * size + size
    BY <1>1, <1>2, Division, NextMultiple
  <1> HIDE DEF n
  <1>4. First(n + 1, size) = n * size + 1
    BY <1>3, NextMultiple DEF First
  <1>5. ASSUME NEW m \in 1 .. N
        PROVE  \E p \in 1 .. n : \A x \in 1 .. n : (m \in First(x, size) .. First(x, size) + size - 1) <=> x = p
    <2>1. m + size - 1 \in Nat
      OBVIOUS
    <2>2. PICK p : p = (m + size - 1) \div size
      OBVIOUS
    <2>3. p \in Nat /\ p * size \in Int /\ p * size <= m + size - 1 /\ m + size - 1 < p * size + size
      BY <2>1, <2>2, Division, NextMultiple
    <2>4. p # 0
      <3>1. p = 0 => p * size = 0
        OBVIOUS
      <3> QED  BY <2>3, <3>1
    <2>5. p <= n
      <3>1. CASE n + 1 <= p
        <4>1. (n + 1) * size <= p * size /\ (n + 1) * size = n * size + size
          BY <1>3, <2>3, <3>1, Multiples, NextMultiple
        <4> QED  BY <1>3, <2>3, <4>1
      <3> QED  BY <1>3, <2>3, <3>1
    <2>6. ASSUME NEW x \in 1 .. n
          PROVE  (m \in First(x, size) .. First(x, size) + size - 1) <=> x = p
      <3>1. x \in Nat /\ x * size \in Int /\ First(x, size) = x * size - size + 1
        BY <1>3, NextMultiple DEF First
      <3>2. (m \in First(x, size) .. First(x, size) + size - 1) <=> x * size - size < m /\ m <= x * size
        BY <3>1
      <3>3. CASE x = p
        BY <2>3, <3>1, <3>2, <3>3
      <3>4. CASE x < p
        <4>1. x <= p - 1 /\ p - 1 \in Nat
          BY <2>3, <3>1, <3>4
        <4>2. x * size <= (p - 1) * size /\ (p - 1) * size = p * size - size
          BY <2>3, <3>1, <4>1, Multiples, NextMultiple
        <4> QED  BY <2>3, <3>1, <3>2, <3>4, <4>2
      <3>5. CASE x > p
        <4>1. p <= x - 1 /\ x - 1 \in Nat
          BY <2>3, <3>1, <3>5
        <4>2. p * size <= (x - 1) * size /\ (x - 1) * size = x * size - size
          BY <2>3, <3>1, <4>1, Multiples, NextMultiple
        <4> QED  BY <2>3, <3>1, <3>2, <3>5, <4>2
      <3> QED  BY <2>3, <3>1, <3>3, <3>4, <3>5
    <2> QED  BY <1>3, <2>3, <2>4, <2>5, <2>6
  <1>6. First(n + 1, size) \in Int /\ \A m \in 1 .. N : m < First(n + 1, size)
    BY <1>3, <1>4
  <1> QED  BY <1>3, <1>5, <1>6 DEF OnePage, n

LEMMA PagesShowEachOnce ==
  ASSUME NEW rows, IsFiniteSet(rows), NEW before, Total(rows, before), NEW size \in Nat \ {0}
  PROVE  EachOnce(rows, before, size)
  <1> DEFINE N == Cardinality(rows)
             n == TotalPages(N, size)
  <1>1. N \in Nat
    BY FS_CardinalityType
  <1>2. n \in Nat
    BY <1>1, PageOfPlace DEF OnePage
  <1> HIDE DEF n
  <1>3. SUFFICES ASSUME NEW query \in [1 .. n + 1 -> Sorted(rows, before)], NEW s \in rows
                 PROVE  /\ Cardinality({p \in 1 .. n : s \in Page(query[p], p, size)}) = 1
                        /\ Page(query[n + 1], n + 1, size) = {}
    BY DEF EachOnce, n
  <1> DEFINE m == 1 + Cardinality({u \in rows : <<u, s>> \in before})
  <1>4. ASSUME NEW p \in 1 .. n + 1
        PROVE  /\ DOMAIN query[p] = 1 .. N
               /\ m \in 1 .. N
               /\ \A i \in 1 .. N : query[p][i] = s <=> i = m
    <2> DEFINE q == query[p]
    <2>1. q \in Sorted(rows, before)
      OBVIOUS
    <2>2. q \in SetToSeqs(rows)
      BY <2>1 DEF Sorted
    <2>3. DOMAIN q = 1 .. N /\ (\A i, j \in 1 .. N : q[i] = q[j] => i = j) /\ \E i \in 1 .. N : q[i] = s
      BY <2>2, EachAtOnePlace
    <2>4. PICK k \in 1 .. N : q[k] = s
      BY <2>3
    <2>5. Cardinality({u \in rows : <<u, q[k]>> \in before}) = k - 1
      BY <2>1, PlaceOfRow
    <2>6. m = k
      BY <1>1, <2>4, <2>5
    <2> QED  BY <2>3, <2>4, <2>6
  <1> HIDE DEF m
  <1>5. ASSUME NEW p \in 1 .. n
        PROVE  s \in Page(query[p], p, size) <=> m \in First(p, size) .. First(p, size) + size - 1
    <2>1. p \in 1 .. n + 1
      BY <1>2
    <2> QED  BY <1>4, <2>1 DEF Page, First
  <1>6. m \in 1 .. N
    BY <1>2, <1>4
  <1>7. PICK p \in 1 .. n : \A x \in 1 .. n :
                (m \in First(x, size) .. First(x, size) + size - 1) <=> x = p
    BY <1>1, <1>6, PageOfPlace DEF n, OnePage
  <1>8. {x \in 1 .. n : s \in Page(query[x], x, size)} = {p}
    BY <1>5, <1>7
  <1>9. Page(query[n + 1], n + 1, size) = {}
    <2>1. n + 1 \in 1 .. n + 1
      BY <1>2
    <2>2. DOMAIN query[n + 1] = 1 .. N
      BY <1>4, <2>1
    <2>3. First(n + 1, size) \in Int /\ \A i \in 1 .. N : i < First(n + 1, size)
      BY <1>1, PageOfPlace DEF n, OnePage
    <2>4. Page(query[n + 1], n + 1, size) =
             {query[n + 1][i] : i \in First(n + 1, size) .. (First(n + 1, size) + size - 1) \cap DOMAIN query[n + 1]}
      BY DEF Page, First
    <2>5. ASSUME NEW a \in Int, NEW b \in Int, \A i \in 1 .. N : i < a  PROVE a .. b \cap 1 .. N = {}
      BY <1>1, <2>5
    <2>6. First(n + 1, size) .. (First(n + 1, size) + size - 1) \cap 1 .. N = {}
      BY <2>3, <2>5
    <2> QED  BY <2>2, <2>4, <2>6
  <1> QED  BY <1>8, <1>9, FS_Singleton

\* The orders of the lists tell any two rows apart.
LEMMA OrdersAreTotal ==
  ASSUME RowsOK
  PROVE  /\ Total(Rows("type"), {x \in Slots \X Slots : ListTypes(x[1], x[2])})
         /\ Total(Rows("data"), {x \in Rows("data") \X Rows("data") : ListData(x[1], x[2])})
         /\ Total(Rows("config"), {x \in Slots \X Slots : ListConfigs(x[1], x[2])})
         /\ Total(Rows("notice"), {x \in Slots \X Slots : ListNotices(x[1], x[2])})
         /\ \A by \in Fields, asc \in BOOLEAN :
               Total(Rows("post"), {x \in Slots \X Slots : ListPosts(by, asc, x[1], x[2])})
  <1>1. \A kind : Rows(kind) \subseteq Slots
    BY DEF Rows
  <1>2. \A s \in Slots : s \in Nat /\ Sort[s] \in Nat /\ Created[s] \in Nat
    BY CatalogAssumption
  <1>3. ASSUME NEW s \in Slots, NEW u \in Slots
        PROVE  /\ s # u => (ListTypes(s, u) \/ ListTypes(u, s)) /\ (ListConfigs(s, u) \/ ListConfigs(u, s))
                           /\ (ListNotices(s, u) \/ ListNotices(u, s))
               /\ ~(ListTypes(s, u) /\ ListTypes(u, s)) /\ ~(ListConfigs(s, u) /\ ListConfigs(u, s))
               /\ ~(ListNotices(s, u) /\ ListNotices(u, s))
    BY <1>2 DEF ListTypes, ListConfigs, ListNotices
  <1>4. ASSUME NEW s \in Rows("data"), NEW u \in Rows("data")
        PROVE  /\ s # u => ListData(s, u) \/ ListData(u, s)
               /\ ~(ListData(s, u) /\ ListData(u, s))
    <2>1. s \in Slots /\ u \in Slots /\ table[s].parent \in Nat /\ table[u].parent \in Nat
      BY CatalogAssumption DEF Rows, RowsOK, TableOK, Fits
    <2> QED  BY <1>2, <2>1 DEF ListData
  <1>5. ASSUME NEW s \in Slots, NEW u \in Slots, NEW by \in Fields, NEW asc \in BOOLEAN
        PROVE  /\ s # u => ListPosts(by, asc, s, u) \/ ListPosts(by, asc, u, s)
               /\ ~(ListPosts(by, asc, s, u) /\ ListPosts(by, asc, u, s))
    <2>1. Column(by, s) \in Nat /\ Column(by, u) \in Nat
      BY <1>2 DEF Column
    <2> QED  BY <1>2, <2>1 DEF ListPosts
  <1>6. \A s, u : /\ <<s, u>>[1] = s /\ <<s, u>>[2] = u
    OBVIOUS
  <1> QED  BY <1>1, <1>3, <1>4, <1>5, <1>6 DEF Total

LEMMA ListsShowEachOnce ==
  ASSUME CatalogInv, NEW size \in Nat \ {0}
  PROVE  ListsCoverOnce(size)
  <1>1. \A kind : IsFiniteSet(Rows(kind))
    BY CatalogAssumption, FS_Subset DEF Rows
  <1>2. RowsOK
    BY DEF CatalogInv
  <1> QED  BY <1>1, <1>2, OrdersAreTotal, PagesShowEachOnce DEF ListsCoverOnce

\* Turning the pages of a list, each with a query of its own, shows every row
\* once, whatever rows there are: for the sizes that the runs try ...
THEOREM EveryRowIsListedOnce == Spec => []PagesCoverOnce
  <1>1. CatalogInv => PagesCoverOnce
    BY ListsShowEachOnce DEF PagesCoverOnce
  <1> QED  BY <1>1, CatalogInvariant, PTL

\* ... and for every page size.
THEOREM EveryPageSizeListsOnce == Spec => [](\A size \in Nat \ {0} : ListsCoverOnce(size))
  <1>1. CatalogInv => \A size \in Nat \ {0} : ListsCoverOnce(size)
    BY ListsShowEachOnce
  <1> QED  BY <1>1, CatalogInvariant, PTL
=============================================================================
