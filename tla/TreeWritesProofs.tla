-------------------------- MODULE TreeWritesProofs --------------------------
(***************************************************************************)
(* Safety of TreeWrites for every number of rows and requests: types,      *)
(* buttons without children and, as long as no tree is deeper than the     *)
(* descendant query looks, the absence of cycles and the implementation of *)
(* Forest.                                                                 *)
(***************************************************************************)
EXTENDS TreeWrites, TLAPS

-----------------------------------------------------------------------------
(* The inductive invariant.                                                *)

Under == {"located", "ready", "written"}
Updates(p) == phase[p] # "idle" /\ call[p].op = "update"
Creates(p) == phase[p] # "idle" /\ call[p].op = "create"

\* A request under way has its parameters, and is where it may be.
Fits(c) ==
    /\ c \in Call
    /\ c.op = "create" => /\ c.to \in Nodes \cup {Root} /\ c.type \in Types
                          /\ tree = "dept" => c.type = "page"
    /\ c.op # "create" => /\ c.node \in used /\ c.saw \in Row
                          /\ tree = "dept" => c.type = None
CallOK(p) ==
    LET c == call[p]
    IN  /\ Fits(c)
        /\ phase[p] \in {"queued", "locked", "located"} => TakesLock(c)
        /\ phase[p] = "written" /\ c.op = "create" => c.node \in Nodes \ used
        /\ phase[p] = "written" /\ Parent(p) \in Nodes => Parent(p) \in used
CallsOK == \A p \in Requests : phase[p] # "idle" => CallOK(p)

\* Past the queue a request that takes the lock holds it.
LockHeld ==
    \A p \in Requests :
        phase[p] \notin {"idle", "queued"} /\ TakesLock(call[p]) => lock = p

\* No two requests insert the same id.
IdsDiffer ==
    \A p, q \in Requests :
        /\ phase[p] = "written" /\ phase[q] = "written"
        /\ call[p].op = "create" /\ call[q].op = "create"
        /\ call[p].node = call[q].node
        => p = q

\* Parents are ids that were given; departments have no type.
RowsOK ==
    \A n \in Stored : /\ rows[n].parent \in used \cup {Root}
                      /\ tree = "dept" => rows[n].type = "page"

\* What was checked under the lock stays true until the commit.
TargetOK(p) ==
    LET c == call[p]
    IN  /\ TakesLock(c) /\ c.to \in Nodes =>
              c.to \in Stored /\ (tree = "menu" => rows[c.to].type = "page")
        /\ c.op = "update" /\ c.type = "button" => Children({c.node}) = {}
        /\ phase[p] # "located" /\ c.op = "update" => c.to # c.node
TargetsOK == \A p \in Requests : phase[p] \in Under => TargetOK(p)

Inv == /\ TypeOK /\ CallsOK /\ LockHeld /\ IdsDiffer
       /\ RowsOK /\ TargetsOK /\ ButtonsAreLeaves

-----------------------------------------------------------------------------
(* Cycles.  The descendant query stops at MaxDepth: the moves are safe as  *)
(* long as it returns a set that has all children of its members.          *)

ClosedBelow(T) == Children(T) \subseteq T
QueryIsComplete == \A n \in Nodes : ClosedBelow(Below(n))

\* A move under way goes outside some closed set around the row it moves.
Moves(p) ==
    phase[p] \in {"ready", "written"} /\ call[p].op = "update" /\ call[p].to \in Nodes
MoveSafe(p) ==
    Moves(p) =>
        \E T \in SUBSET Nodes :
            call[p].node \in T /\ call[p].to \notin T /\ ClosedBelow(T)
MovesSafe == \A p \in Requests : MoveSafe(p)

-----------------------------------------------------------------------------
(* Initial states and the steps that leave the rows alone.                 *)

LEMMA InitEstablishes == Init => Inv
  <1> SUFFICES ASSUME Init PROVE Inv  OBVIOUS
  <1>1. Stored = {}
    BY DEF Init, Stored
  <1>2. TypeOK
    BY <1>1 DEF Init, TypeOK, Phases, Stored, Row
  <1>3. CallsOK /\ LockHeld /\ IdsDiffer /\ TargetsOK
    BY DEF Init, CallsOK, LockHeld, IdsDiffer, TargetsOK, Under
  <1>4. RowsOK /\ ButtonsAreLeaves
    BY <1>1 DEF RowsOK, ButtonsAreLeaves
  <1> QED  BY <1>2, <1>3, <1>4 DEF Inv

\* A step of p that leaves rows and ids alone disturbs nothing that is said
\* of another request.
LEMMA OthersKeep ==
  ASSUME Inv, NEW p \in Requests, UNCHANGED <<tree, rows, used>>,
         phase' \in [Requests -> Phases], call' \in [Requests -> Call \cup {None}],
         \A q \in Requests \ {p} : phase'[q] = phase[q] /\ call'[q] = call[q]
  PROVE  \A q \in Requests \ {p} :
            /\ phase'[q] # "idle" => CallOK(q)'
            /\ phase'[q] \in Under => TargetOK(q)'
  <1> SUFFICES ASSUME NEW q \in Requests \ {p}
               PROVE  /\ phase'[q] # "idle" => CallOK(q)'
                      /\ phase'[q] \in Under => TargetOK(q)'
    OBVIOUS
  <1>1. phase'[q] = phase[q] /\ call'[q] = call[q]
    OBVIOUS
  <1>2. Parent(q)' = Parent(q)
    BY <1>1 DEF Parent, NewParent
  <1>3. TakesLock(call[q])' = TakesLock(call[q]) /\ Stored' = Stored
    BY <1>1 DEF TakesLock, Stored
  <1>4. ASSUME NEW S PROVE Children(S)' = Children(S)
    BY DEF Children, Stored
  <1>5. phase'[q] # "idle" => CallOK(q)'
    BY <1>1, <1>2, <1>3 DEF Inv, CallsOK, CallOK, Fits, TakesLock
  <1>6. phase'[q] \in Under => TargetOK(q)'
    BY <1>1, <1>3, <1>4 DEF Inv, TargetsOK, TargetOK, TakesLock
  <1> QED  BY <1>5, <1>6

LEMMA RowsKeep ==
  ASSUME Inv, UNCHANGED <<tree, rows, used>>
  PROVE  RowsOK' /\ ButtonsAreLeaves'
  BY DEF Inv, RowsOK, ButtonsAreLeaves, Stored

\* The end of a transaction without effect.
LEMMA LeaveKeeps ==
  ASSUME Inv, NEW p \in Requests, Leave(p), UNCHANGED <<tree, rows, used>>
  PROVE  Inv'
  <1>1. phase' = [phase EXCEPT ![p] = "idle"] /\ call' = [call EXCEPT ![p] = None]
    BY DEF Leave
  <1>2. phase' \in [Requests -> Phases] /\ call' \in [Requests -> Call \cup {None}]
    BY <1>1 DEF Inv, TypeOK, Phases
  <1>3. phase'[p] = "idle" /\ \A q \in Requests \ {p} : phase'[q] = phase[q] /\ call'[q] = call[q]
    BY <1>1 DEF Inv, TypeOK
  <1>4. TypeOK'
    BY <1>2 DEF Inv, TypeOK, Leave, Unlock, Stored
  <1>5. CallsOK' /\ TargetsOK'
    BY <1>2, <1>3, OthersKeep DEF CallsOK, TargetsOK, Under
  <1>6. LockHeld'
    BY <1>3 DEF Inv, LockHeld, TakesLock, Leave, Unlock
  <1>7. IdsDiffer'
    BY <1>3 DEF Inv, IdsDiffer
  <1> QED  BY <1>4, <1>5, <1>6, <1>7, RowsKeep DEF Inv

\* p takes a step, and possibly the lock, and leaves the rows alone.
OnlyMoves(p) ==
    /\ phase' \in [Requests -> Phases]
    /\ call' \in [Requests -> Call \cup {None}]
    /\ \A q \in Requests \ {p} : phase'[q] = phase[q] /\ call'[q] = call[q]
    /\ lock' \in Requests \cup {None}
    /\ lock' = lock \/ (lock = None /\ lock' = p)
    /\ UNCHANGED <<tree, rows, used>>

\* A step of p with the rows left alone preserves the invariant when p's own
\* part of it holds.
LEMMA StepKeeps ==
  ASSUME Inv, NEW p \in Requests, OnlyMoves(p),
         phase'[p] = "written" /\ call'[p].op = "create" =>
             \A q \in Requests \ {p} : phase[q] = "written" /\ call[q].op = "create" =>
                 call[q].node # call'[p].node,
         phase'[p] # "idle" => CallOK(p)',
         phase'[p] \in Under => TargetOK(p)',
         phase'[p] \notin {"idle", "queued"} /\ TakesLock(call'[p]) => lock' = p
  PROVE  Inv'
  <1>1. /\ phase' \in [Requests -> Phases] /\ call' \in [Requests -> Call \cup {None}]
        /\ \A q \in Requests \ {p} : phase'[q] = phase[q] /\ call'[q] = call[q]
        /\ UNCHANGED <<tree, rows, used>>
        /\ lock' = lock \/ (lock = None /\ lock' = p)
    BY DEF OnlyMoves
  <1>2. TypeOK'
    BY <1>1 DEF OnlyMoves, Inv, TypeOK, Stored
  <1>3. CallsOK' /\ TargetsOK'
    BY <1>1, OthersKeep DEF CallsOK, TargetsOK
  <1>4. LockHeld'
    <2>1. ASSUME NEW q \in Requests, phase'[q] \notin {"idle", "queued"}, TakesLock(call[q])'
          PROVE  lock' = q
      <3>1. CASE q = p
        BY <1>1, <2>1, <3>1 DEF TakesLock
      <3>2. CASE q # p
        BY <1>1, <2>1, <3>2, NamesAssumption DEF Inv, LockHeld, TakesLock
      <3> QED  BY <3>1, <3>2
    <2> QED  BY <2>1 DEF LockHeld
  <1>5. IdsDiffer'
    BY <1>1 DEF Inv, IdsDiffer
  <1> QED  BY <1>1, <1>2, <1>3, <1>4, <1>5, RowsKeep DEF Inv

\* A new request.
LEMMA StartKeeps ==
  ASSUME Inv, NEW p \in Requests, Start(p)
  PROVE  Inv'
  <1>1. PICK c \in Call : Enter(p, c) /\ Fits(c)
    <2>1. CASE \E to \in Nodes \cup {Root}, type \in Types : StartCreate(p, to, type)
      <3>1. PICK to \in Nodes \cup {Root}, type \in Types : StartCreate(p, to, type)
        BY <2>1
      <3> DEFINE c == [op |-> "create", node |-> None, to |-> to, type |-> type, saw |-> None]
      <3>2. c \in Call
        BY DEF Call
      <3>3. Fits(c)
        BY <3>1, <3>2 DEF StartCreate, Fits
      <3> QED  BY <3>1, <3>2, <3>3 DEF StartCreate
    <2>2. CASE \E n \in Nodes, to \in Nodes \cup {Root, None}, type \in Types \cup {None} :
                  StartUpdate(p, n, to, type)
      <3>1. PICK n \in Nodes, to \in Nodes \cup {Root, None}, type \in Types \cup {None} :
                  StartUpdate(p, n, to, type)
        BY <2>2
      <3>2. n \in used /\ rows[n] \in Row
        BY <3>1 DEF StartUpdate, Inv, TypeOK
      <3> DEFINE c == [op |-> "update", node |-> n, to |-> to, type |-> type, saw |-> rows[n]]
      <3>3. c \in Call
        BY <3>2 DEF Call
      <3>4. Fits(c)
        BY <3>1, <3>2, <3>3 DEF StartUpdate, Fits
      <3> QED  BY <3>1, <3>3, <3>4 DEF StartUpdate
    <2>3. CASE \E n \in Nodes : StartDelete(p, n)
      <3>1. PICK n \in Nodes : StartDelete(p, n)
        BY <2>3
      <3>2. n \in used /\ rows[n] \in Row
        BY <3>1 DEF StartDelete, Inv, TypeOK
      <3> DEFINE c == [op |-> "delete", node |-> n, to |-> None, type |-> None, saw |-> rows[n]]
      <3>3. c \in Call
        BY <3>2 DEF Call
      <3>4. Fits(c)
        BY <3>2, <3>3 DEF Fits
      <3> QED  BY <3>1, <3>3, <3>4 DEF StartDelete
    <2> QED  BY <2>1, <2>2, <2>3 DEF Start
  <1> DEFINE f == IF TakesLock(c) THEN "queued" ELSE "ready"
  <1>2. /\ f \in Phases /\ f # "written" /\ f # "idle"
        /\ phase' = [phase EXCEPT ![p] = f] /\ call' = [call EXCEPT ![p] = c]
        /\ UNCHANGED <<tree, rows, used, lock>>
    BY <1>1 DEF Enter, Phases
  <1>3. call'[p] = c /\ phase'[p] = f
    BY <1>2 DEF Inv, TypeOK
  <1>4. CallOK(p)'
    BY <1>1, <1>2, <1>3 DEF CallOK, Fits, TakesLock
  <1>5. f \in Under => TargetOK(p)'
    <2>1. ASSUME ~TakesLock(c), c.op = "update" PROVE c.type # "button" /\ c.to # c.node
      BY <1>1, <2>1, NamesAssumption DEF Fits, Call, TakesLock, Inv, TypeOK
    <2> QED  BY <1>2, <1>3, <2>1 DEF Under, TargetOK, TakesLock
  <1>6. OnlyMoves(p)
    <2> HIDE DEF f
    <2>1. phase' \in [Requests -> Phases] /\ call' \in [Requests -> Call \cup {None}]
      BY <1>2 DEF Inv, TypeOK
    <2>2. \A q \in Requests \ {p} : phase'[q] = phase[q] /\ call'[q] = call[q]
      BY <1>2 DEF Inv, TypeOK
    <2>3. UNCHANGED <<tree, rows, used>> /\ lock' = lock /\ lock' \in Requests \cup {None}
      BY <1>2 DEF Inv, TypeOK
    <2> QED  BY <2>1, <2>2, <2>3 DEF OnlyMoves
  <1>7. phase'[p] # "written" /\ phase'[p] # "idle"
    BY <1>2, <1>3
  <1>8. phase'[p] \notin {"idle", "queued"} => ~TakesLock(call'[p])
    BY <1>2, <1>3 DEF TakesLock
  <1> QED  BY <1>3, <1>4, <1>5, <1>6, <1>7, <1>8, StepKeeps

\* The facts of p's step that a change of its phase alone needs.
LEMMA PhaseStep ==
  ASSUME Inv, NEW p \in Requests, phase[p] # "idle", NEW f \in Phases,
         phase' = [phase EXCEPT ![p] = f], UNCHANGED <<tree, rows, used, call>>,
         lock' = lock \/ (lock = None /\ lock' = p)
  PROVE  /\ OnlyMoves(p) /\ phase'[p] = f /\ call'[p] = call[p]
         /\ TakesLock(call'[p]) = TakesLock(call[p])
         /\ TakesLock(call[p])' = TakesLock(call[p])
         /\ Fits(call[p])' = Fits(call[p]) /\ Fits(call[p])
         /\ Parent(p)' = Parent(p) /\ (Stored = Stored')
         /\ \A S : Children(S)' = Children(S)
  <1>1. phase' \in [Requests -> Phases] /\ call' \in [Requests -> Call \cup {None}]
    BY DEF Inv, TypeOK
  <1>2. phase'[p] = f /\ \A q \in Requests \ {p} : phase'[q] = phase[q] /\ call'[q] = call[q]
    BY DEF Inv, TypeOK
  <1>3. lock' \in Requests \cup {None}
    BY DEF Inv, TypeOK
  <1>4. OnlyMoves(p)
    BY <1>1, <1>2, <1>3 DEF OnlyMoves
  <1>5. Fits(call[p])
    BY DEF Inv, CallsOK, CallOK
  <1>6. Fits(call[p])' /\ Parent(p)' = Parent(p)
    BY <1>5 DEF Fits, Parent, NewParent
  <1>7. TakesLock(call'[p]) = TakesLock(call[p]) /\ TakesLock(call[p])' = TakesLock(call[p])
    BY <1>2 DEF TakesLock
  <1>8. Stored = Stored' /\ \A S : Children(S)' = Children(S)
    BY DEF Stored, Children
  <1> QED  BY <1>2, <1>4, <1>5, <1>6, <1>7, <1>8

LEMMA AcquireKeeps ==
  ASSUME Inv, NEW p \in Requests, Acquire(p)
  PROVE  Inv'
  <1>1. /\ OnlyMoves(p) /\ phase'[p] = "locked" /\ call'[p] = call[p]
        /\ TakesLock(call'[p]) = TakesLock(call[p])
        /\ TakesLock(call[p])' = TakesLock(call[p])
        /\ Fits(call[p])'
    BY PhaseStep DEF Acquire, Phases
  <1>2. CallOK(p)'
    BY <1>1 DEF Acquire, Inv, CallsOK, CallOK
  <1> QED  BY <1>1, <1>2, StepKeeps DEF Acquire, Under

LEMMA LocateKeeps ==
  ASSUME Inv, NEW p \in Requests, Locate(p)
  PROVE  Inv'
  <1>1. /\ OnlyMoves(p) /\ phase'[p] = "located" /\ call'[p] = call[p]
        /\ TakesLock(call'[p]) = TakesLock(call[p])
        /\ TakesLock(call[p])' = TakesLock(call[p])
        /\ Fits(call[p])' /\ Fits(call[p])
        /\ (Stored = Stored') /\ Children({call[p].node})' = Children({call[p].node})
    BY PhaseStep DEF Locate, Phases
  <1>2. CallOK(p)'
    BY <1>1 DEF Locate, Inv, CallsOK, CallOK
  <1>3. TargetOK(p)'
    BY <1>1 DEF Locate, Located, TargetOK
  <1>4. lock' = p
    BY DEF Locate, Inv, LockHeld, CallsOK, CallOK
  <1> QED  BY <1>1, <1>2, <1>3, <1>4, StepKeeps

LEMMA CheckCycleKeeps ==
  ASSUME Inv, NEW p \in Requests, CheckCycle(p)
  PROVE  Inv'
  <1>1. /\ OnlyMoves(p) /\ phase'[p] = "ready" /\ call'[p] = call[p]
        /\ TakesLock(call'[p]) = TakesLock(call[p])
        /\ TakesLock(call[p])' = TakesLock(call[p])
        /\ Fits(call[p])' /\ Fits(call[p])
        /\ (Stored = Stored') /\ Children({call[p].node})' = Children({call[p].node})
    BY PhaseStep DEF CheckCycle, Phases
  <1>2. CallOK(p)'
    BY <1>1 DEF CallOK
  <1>3. TargetOK(p)'
    <2>1. TargetOK(p) /\ TakesLock(call[p])
      BY DEF CheckCycle, Inv, TargetsOK, Under, CallsOK, CallOK
    <2>2. ASSUME call[p].op = "update" PROVE call[p].to # call[p].node
      <3>1. call[p].to \in Nodes => call[p].to # call[p].node
        BY <2>2 DEF CheckCycle, CycleFree, Below
      <3>2. call[p].node \in Nodes
        BY <1>1, <2>2 DEF Fits, Inv, TypeOK
      <3> QED  BY <3>1, <3>2
    <2> QED  BY <1>1, <2>1, <2>2 DEF CheckCycle, TargetOK
  <1>4. lock' = p
    BY DEF CheckCycle, Inv, LockHeld, CallsOK, CallOK
  <1> QED  BY <1>1, <1>2, <1>3, <1>4, StepKeeps

\* Refused and Abort.
LEMMA EndsKeep ==
  ASSUME Inv, NEW p \in Requests, Refused(p) \/ Abort(p)
  PROVE  Inv'
  BY LeaveKeeps DEF Refused, Abort

LEMMA WriteKeeps ==
  ASSUME Inv, NEW p \in Requests, Write(p)
  PROVE  Inv'
  <1> DEFINE b == call[p]
             c == call'[p]
  <1>1. Fits(b) /\ TargetOK(p) /\ (TakesLock(b) => lock = p)
    BY DEF Write, Inv, CallsOK, CallOK, TargetsOK, Under, LockHeld
  <1>2. /\ c \in Call /\ call' \in [Requests -> Call \cup {None}]
        /\ c.op = b.op /\ c.to = b.to /\ c.type = b.type /\ c.saw = b.saw
        /\ c.op # "create" => c = b
        /\ c.op = "create" => c.node \in Nodes \ used /\ NotWritten(p, c.node)
        /\ \A q \in Requests \ {p} : call'[q] = call[q]
    <2>1. CASE ChangeRow(p)
      BY <1>1, <2>1 DEF ChangeRow, Fits, Inv, TypeOK
    <2>2. CASE \E n \in Nodes : InsertRow(p, n)
      <3>1. PICK n \in Nodes : InsertRow(p, n)
        BY <2>2
      <3>2. c = [b EXCEPT !.node = n]
        BY <3>1 DEF InsertRow, Inv, TypeOK
      <3>3. /\ c \in Call /\ c.node = n
            /\ c.op = b.op /\ c.to = b.to /\ c.type = b.type /\ c.saw = b.saw
        BY <1>1, <3>2 DEF Fits, Call
      <3>4. /\ call' \in [Requests -> Call \cup {None}]
            /\ \A q \in Requests \ {p} : call'[q] = call[q]
        BY <3>1, <3>2, <3>3 DEF InsertRow, Inv, TypeOK
      <3> QED  BY <3>1, <3>3, <3>4 DEF InsertRow
    <2> QED  BY <2>1, <2>2 DEF Write
  <1>3. /\ phase' \in [Requests -> Phases] /\ phase'[p] = "written"
        /\ \A q \in Requests \ {p} : phase'[q] = phase[q]
        /\ UNCHANGED <<tree, rows, used, lock>> /\ lock' \in Requests \cup {None}
    BY DEF Write, Inv, TypeOK, Phases
  <1>4. OnlyMoves(p)
    BY <1>2, <1>3 DEF OnlyMoves
  <1>5. ASSUME NEW q \in Requests \ {p}, c.op = "create",
               phase[q] = "written", call[q].op = "create"
        PROVE  call[q].node # c.node
    BY <1>2, <1>5 DEF NotWritten, Writes
  <1>6. CallOK(p)'
    <2>1. Fits(call[p])'
      BY <1>1, <1>2, <1>3 DEF Fits
    <2>2. Parent(p)' = Parent(p)
      BY <1>2 DEF Parent, NewParent
    <2>3. Parent(p) \in Nodes => Parent(p) \in used
      BY DEF Write, ForeignKeys, Inv, TypeOK
    <2> QED  BY <1>2, <1>3, <2>1, <2>2, <2>3 DEF CallOK
  <1>7. TargetOK(p)'
    <2>1. TakesLock(call[p])' => TakesLock(b)
      BY <1>2, <1>3 DEF TakesLock
    <2>2. Stored' = Stored /\ \A S : Children(S)' = Children(S)
      BY <1>3 DEF Stored, Children
    <2>3. phase[p] = "ready"
      BY DEF Write
    <2> QED  BY <1>1, <1>2, <1>3, <2>1, <2>2, <2>3 DEF TargetOK
  <1>8. TakesLock(c) => lock' = p
    BY <1>1, <1>2, <1>3 DEF TakesLock
  <1> QED  BY <1>3, <1>4, <1>5, <1>6, <1>7, <1>8, StepKeeps

-----------------------------------------------------------------------------
(* Commit.                                                                 *)

\* What is known of a transaction that commits.
LEMMA AtCommit ==
  ASSUME Inv, NEW p \in Requests, Commit(p)
  PROVE  /\ Fits(call[p]) /\ TargetOK(p) /\ phase[p] = "written"
         /\ TakesLock(call[p]) => lock = p
         /\ call[p].op = "create" => call[p].node \in Nodes \ used
         /\ call[p].op # "create" => call[p].node \in used
         /\ Parent(p) \in Nodes => Parent(p) \in used
         /\ used' = used \cup {call[p].node} /\ used' \subseteq Nodes
         /\ rows' = Rewritten(p) /\ tree' = tree
         /\ phase' \in [Requests -> Phases] /\ call' \in [Requests -> Call \cup {None}]
         /\ phase'[p] = "idle"
         /\ \A q \in Requests \ {p} : phase'[q] = phase[q] /\ call'[q] = call[q]
         /\ \A q \in Requests \ {p} : lock = q => lock' = q
         /\ lock' \in Requests \cup {None}
  <1>1. /\ phase[p] = "written" /\ used' = used \cup {call[p].node}
        /\ rows' = Rewritten(p) /\ tree' = tree /\ Leave(p)
    BY DEF Commit
  <1>2. CallOK(p) /\ TargetOK(p) /\ (TakesLock(call[p]) => lock = p)
    BY <1>1 DEF Inv, CallsOK, TargetsOK, LockHeld, Under
  <1>3. /\ Fits(call[p]) /\ (call[p].op = "create" => call[p].node \in Nodes \ used)
        /\ call[p].op # "create" => call[p].node \in used
        /\ Parent(p) \in Nodes => Parent(p) \in used
    BY <1>1, <1>2 DEF CallOK, Fits
  <1>4. used' \subseteq Nodes
    BY <1>1, <1>3 DEF Inv, TypeOK
  <1>5. /\ phase' \in [Requests -> Phases] /\ call' \in [Requests -> Call \cup {None}]
        /\ phase'[p] = "idle"
        /\ \A q \in Requests \ {p} : phase'[q] = phase[q] /\ call'[q] = call[q]
    BY <1>1 DEF Leave, Inv, TypeOK, Phases
  <1>6. lock' \in Requests \cup {None} /\ \A q \in Requests \ {p} : lock = q => lock' = q
    BY <1>1 DEF Leave, Unlock, Inv, TypeOK
  <1> QED  BY <1>1, <1>2, <1>3, <1>4, <1>5, <1>6

\* What is left to show of a commit: its rows, and what others have checked.
LEMMA CommitKeepsIf ==
  ASSUME Inv, NEW p \in Requests, Commit(p),
         Stored' \subseteq used', rows' \in [Stored' -> Row], RowsOK', ButtonsAreLeaves',
         \A q \in Requests \ {p} : phase[q] \in Under => TargetOK(q)'
  PROVE  Inv'
  <1>1. TypeOK'
    BY AtCommit DEF TypeOK, Inv
  <1>2. ASSUME NEW q \in Requests \ {p}, phase[q] # "idle" PROVE CallOK(q)'
    <2>1. /\ call'[q] = call[q] /\ phase'[q] = phase[q] /\ tree' = tree
          /\ used' = used \cup {call[p].node}
      BY AtCommit
    <2>2. CallOK(q)
      BY <1>2 DEF Inv, CallsOK
    <2>3. Fits(call[q])'
      BY <2>1, <2>2 DEF CallOK, Fits
    <2>4. TakesLock(call[q])' = TakesLock(call[q])
      BY <2>1 DEF TakesLock
    <2>5. phase[q] = "written" /\ call[q].op = "create" => call[q].node \in Nodes \ used'
      BY <2>1, <2>2, AtCommit DEF CallOK, Inv, IdsDiffer
    <2>6. Parent(q)' = Parent(q)
      BY <2>1 DEF Parent, NewParent
    <2> QED  BY <2>1, <2>2, <2>3, <2>4, <2>5, <2>6 DEF CallOK
  <1>3. CallsOK'
    BY <1>2, AtCommit DEF CallsOK
  <1>4. LockHeld'
    BY AtCommit DEF Inv, LockHeld, TakesLock
  <1>5. IdsDiffer'
    BY AtCommit DEF Inv, IdsDiffer
  <1>6. TargetsOK'
    BY AtCommit DEF TargetsOK, Under
  <1> QED  BY <1>1, <1>3, <1>4, <1>5, <1>6 DEF Inv

\* The rows after each kind of statement.
LEMMA RowsAfterCreate ==
  ASSUME Inv, NEW p \in Requests, Commit(p), call[p].op = "create"
  PROVE  /\ Stored' = Stored \cup {call[p].node} /\ call[p].node \notin Stored
         /\ \A m \in Stored : rows'[m] = rows[m]
         /\ rows'[call[p].node] = Inserted(p) /\ Inserted(p) \in Row
         /\ rows' \in [Stored' -> Row]
         /\ Inserted(p).parent = call[p].to /\ Inserted(p).type = call[p].type
         /\ call[p].to \in used \cup {Root} /\ call[p].node \notin used \cup {Root}
  <1>1. /\ rows' = Rewritten(p) /\ call[p].node \in Nodes \ used
        /\ Parent(p) \in Nodes => Parent(p) \in used
        /\ Fits(call[p])
    BY AtCommit
  <1>2. Stored' = Stored \cup {call[p].node} /\ call[p].node \notin Stored
    BY <1>1 DEF Stored, Rewritten, StoredAfter, Inv, TypeOK
  <1>3. Inserted(p) \in Row /\ Inserted(p).parent = call[p].to /\ Inserted(p).type = call[p].type
    BY <1>1 DEF Inserted, Row, Fits
  <1>4. /\ \A m \in Stored : rows'[m] = rows[m]
        /\ rows'[call[p].node] = Inserted(p)
    BY <1>1, <1>2 DEF Rewritten, StoredAfter
  <1>5. \A m \in Stored : rows[m] \in Row
    BY DEF Inv, TypeOK
  <1>6. rows' \in [Stored' -> Row]
    BY <1>1, <1>2, <1>3, <1>4, <1>5 DEF Rewritten, StoredAfter
  <1>7. call[p].to \in used \cup {Root} /\ call[p].node \notin used \cup {Root}
    BY <1>1, NamesAssumption DEF Parent, Fits
  <1> QED  BY <1>2, <1>3, <1>4, <1>6, <1>7

LEMMA RowsAfterUpdate ==
  ASSUME Inv, NEW p \in Requests, Commit(p), call[p].op = "update"
  PROVE  /\ Stored' = Stored /\ call[p].node \in used /\ used' = used
         /\ \A m \in Stored \ {call[p].node} : rows'[m] = rows[m]
         /\ call[p].node \in Stored => rows'[call[p].node] = Updated(p, rows[call[p].node])
         /\ rows' \in [Stored' -> Row]
         /\ \A old \in Row :
               /\ Updated(p, old) \in Row
               /\ Updated(p, old).parent = old.parent
                  \/ (Updated(p, old).parent = call[p].to /\ call[p].to \in used \cup {Root})
               /\ Updated(p, old).type = old.type
                  \/ (Updated(p, old).type = call[p].type /\ call[p].type \in Types)
  <1>1. /\ rows' = Rewritten(p) /\ call[p].node \in used /\ used' = used \cup {call[p].node}
        /\ Parent(p) \in Nodes => Parent(p) \in used
        /\ Fits(call[p])
    BY AtCommit
  <1>2. Stored' = Stored /\ call[p].node \in used /\ used' = used
    BY <1>1 DEF Stored, Rewritten, StoredAfter
  <1>3. ASSUME NEW old \in Row
        PROVE  /\ Updated(p, old) \in Row
               /\ Updated(p, old).parent = old.parent
                  \/ (Updated(p, old).parent = call[p].to /\ call[p].to \in used \cup {Root})
               /\ Updated(p, old).type = old.type
                  \/ (Updated(p, old).type = call[p].type /\ call[p].type \in Types)
    <2>1. NewParent(p) = None \/ (NewParent(p) = call[p].to /\ call[p].to \in used \cup {Root})
      BY <1>1 DEF NewParent, Parent, Fits, Call
    <2>2. NewType(p) = None \/ (NewType(p) = call[p].type /\ call[p].type \in Types)
      BY <1>1 DEF NewType, Fits, Call
    <2>3. used \subseteq Nodes
      BY DEF Inv, TypeOK
    <2> QED  BY <2>1, <2>2, <2>3 DEF Updated, Row
  <1>4. /\ \A m \in Stored \ {call[p].node} : rows'[m] = rows[m]
        /\ call[p].node \in Stored => rows'[call[p].node] = Updated(p, rows[call[p].node])
    BY <1>1, <1>2 DEF Rewritten, StoredAfter
  <1>5. \A m \in Stored : rows[m] \in Row
    BY DEF Inv, TypeOK
  <1>6. rows' \in [Stored' -> Row]
    BY <1>1, <1>2, <1>3, <1>4, <1>5 DEF Rewritten, StoredAfter
  <1> QED  BY <1>2, <1>3, <1>4, <1>6

LEMMA RowsAfterDelete ==
  ASSUME Inv, NEW p \in Requests, Commit(p), call[p].op = "delete"
  PROVE  /\ Stored' = Stored \ {call[p].node} /\ used' = used
         /\ \A m \in Stored' : rows'[m] = rows[m]
         /\ rows' \in [Stored' -> Row]
  <1>1. /\ rows' = Rewritten(p) /\ call[p].node \in used /\ used' = used \cup {call[p].node}
    BY AtCommit
  <1>2. Stored' = Stored \ {call[p].node} /\ used' = used
    BY <1>1 DEF Stored, Rewritten, StoredAfter
  <1>3. \A m \in Stored' : rows'[m] = rows[m]
    BY <1>1, <1>2 DEF Rewritten, StoredAfter
  <1>4. \A m \in Stored : rows[m] \in Row
    BY DEF Inv, TypeOK
  <1> QED  BY <1>1, <1>2, <1>3, <1>4 DEF Rewritten, StoredAfter

\* A request that writes beside the holder of the lock creates a row at the
\* root or below a department, or changes a menu without moving it below
\* another one and without making it a button.
LEMMA BesideTheLock ==
  ASSUME Inv, NEW p \in Requests, ~TakesLock(call[p]), Fits(call[p])
  PROVE  \/ call[p].op = "create" /\ tree = "dept" /\ call[p].type = "page"
         \/ call[p].op = "create" /\ call[p].to = Root
         \/ /\ call[p].op = "update" /\ call[p].to \notin Nodes
            /\ call[p].type # "button"
  BY NamesAssumption DEF TakesLock, Fits, Call, Inv, TypeOK

LEMMA CommitCreateKeeps ==
  ASSUME Inv, NEW p \in Requests, Commit(p), call[p].op = "create"
  PROVE  Inv'
  <1> DEFINE l == call[p].node
  <1>1. /\ Fits(call[p]) /\ TargetOK(p) /\ (TakesLock(call[p]) => lock = p)
        /\ tree' = tree /\ used' = used \cup {l}
        /\ \A q \in Requests \ {p} : phase'[q] = phase[q] /\ call'[q] = call[q]
    BY AtCommit
  <1>2. /\ Stored' = Stored \cup {l} /\ l \notin Stored
        /\ \A m \in Stored : rows'[m] = rows[m]
        /\ rows'[l].parent = call[p].to /\ rows'[l].type = call[p].type
        /\ rows' \in [Stored' -> Row]
        /\ call[p].to \in used \cup {Root} /\ l \notin used \cup {Root}
    BY RowsAfterCreate
  <1>3. \A m \in Stored : rows[m].parent \in used \cup {Root}
    BY DEF Inv, RowsOK
  <1>4. Stored \subseteq used
    BY DEF Inv, TypeOK
  <1>5. Stored' \subseteq used'
    BY <1>1, <1>2, <1>4
  <1>6. RowsOK'
    BY <1>1, <1>2 DEF Inv, RowsOK, Fits
  <1>7. ButtonsAreLeaves'
    <2>1. ASSUME NEW n \in Stored', rows'[n].parent \in Stored'
          PROVE  rows'[rows'[n].parent].type = "page"
      <3>1. CASE n \in Stored
        BY <1>2, <1>3, <2>1, <3>1 DEF Inv, ButtonsAreLeaves
      <3>2. CASE n = l
        <4>1. call[p].to \in Stored /\ rows'[call[p].to] = rows[call[p].to]
          BY <1>2, <2>1, <3>2
        <4>2. CASE tree = "dept"
          BY <1>2, <3>2, <4>1, <4>2 DEF Inv, RowsOK
        <4>3. CASE tree = "menu"
          BY <1>1, <1>2, <1>4, <3>2, <4>1, <4>3, NamesAssumption
          DEF TargetOK, TakesLock, Inv, TypeOK
        <4> QED  BY <4>2, <4>3 DEF Inv, TypeOK
      <3> QED  BY <1>2, <2>1, <3>1, <3>2
    <2> QED  BY <2>1 DEF ButtonsAreLeaves
  <1>8. ASSUME NEW q \in Requests \ {p}, phase[q] \in Under PROVE TargetOK(q)'
    <2>1. TargetOK(q) /\ CallOK(q) /\ (TakesLock(call[q]) => lock = q)
      BY <1>8 DEF Inv, TargetsOK, CallsOK, LockHeld, Under
    <2>2. TakesLock(call[q])' = TakesLock(call[q])
      BY <1>1 DEF TakesLock
    <2>3. TakesLock(call[q]) => call[p].to = Root \/ tree = "dept"
      BY <1>1, <2>1, BesideTheLock DEF TakesLock
    <2>4. call[q].op = "update" /\ call[q].type = "button" => TakesLock(call[q]) /\ tree = "menu"
      BY <2>1, NamesAssumption DEF CallOK, Fits, TakesLock, Inv, TypeOK
    <2>5. call[q].op = "update" => call[q].node # Root
      BY <2>1, NamesAssumption DEF CallOK, Fits, Inv, TypeOK
    <2>6. call[q].op = "update" /\ call[q].type = "button" => Children({call[q].node})' = {}
      BY <1>1, <1>2, <2>1, <2>3, <2>4, <2>5 DEF Children, TargetOK
    <2> QED  BY <1>1, <1>2, <2>1, <2>2, <2>6 DEF TargetOK
  <1> QED  BY <1>2, <1>5, <1>6, <1>7, <1>8, CommitKeepsIf

LEMMA CommitUpdateKeeps ==
  ASSUME Inv, NEW p \in Requests, Commit(p), call[p].op = "update"
  PROVE  Inv'
  <1> DEFINE n == call[p].node
             to == call[p].to
  <1>1. /\ Fits(call[p]) /\ TargetOK(p) /\ (TakesLock(call[p]) => lock = p)
        /\ tree' = tree /\ phase[p] = "written"
        /\ \A q \in Requests \ {p} : phase'[q] = phase[q] /\ call'[q] = call[q]
    BY AtCommit
  <1>2. /\ Stored' = Stored /\ used' = used /\ n \in used
        /\ \A m \in Stored \ {n} : rows'[m] = rows[m]
        /\ rows' \in [Stored' -> Row]
    BY RowsAfterUpdate
  <1>3. ASSUME n \in Stored
        PROVE  /\ \/ rows'[n].parent = rows[n].parent
                  \/ rows'[n].parent = to /\ to \in used \cup {Root}
               /\ \/ rows'[n].type = rows[n].type
                  \/ rows'[n].type = call[p].type /\ call[p].type \in Types
    <2>1. rows[n] \in Row
      BY <1>3 DEF Inv, TypeOK
    <2> QED  BY <1>3, <2>1, RowsAfterUpdate
  <1>4. Stored' \subseteq used'
    BY <1>2 DEF Inv, TypeOK
  <1>5. RowsOK'
    <2>1. tree = "dept" => call[p].type \notin Types
      BY <1>1, NamesAssumption DEF Fits, Types
    <2> QED  BY <1>1, <1>2, <1>3, <2>1 DEF Inv, RowsOK
  <1>6. \A m \in Stored : rows[m].parent = n => rows'[n].type = "page" \/ n \notin Stored
    <2>1. ASSUME NEW m \in Stored, rows[m].parent = n, n \in Stored
          PROVE  rows'[n].type = "page"
      <3>1. rows[n].type = "page"
        BY <2>1 DEF Inv, ButtonsAreLeaves
      <3>2. call[p].type # "button"
        BY <1>1, <2>1 DEF TargetOK, Children
      <3> QED  BY <1>3, <2>1, <3>1, <3>2 DEF Types
    <2> QED  BY <2>1
  <1>7. to \in Stored => rows'[to].type = "page"
    <2>1. CASE tree = "dept"
      BY <1>1, <1>2, <1>5, <2>1 DEF RowsOK
    <2>2. CASE tree = "menu"
      BY <1>1, <1>2, <2>2 DEF TargetOK, TakesLock, Inv, TypeOK
    <2> QED  BY <2>1, <2>2 DEF Inv, TypeOK
  <1>8. ButtonsAreLeaves'
    <2>1. ASSUME NEW m \in Stored, rows'[m].parent \in Stored
          PROVE  rows'[rows'[m].parent].type = "page"
      <3>1. CASE rows'[m].parent = to
        BY <1>7, <2>1, <3>1
      <3>2. CASE rows'[m].parent = rows[m].parent
        BY <1>2, <1>6, <2>1, <3>2 DEF Inv, ButtonsAreLeaves
      <3> QED  BY <1>2, <1>3, <2>1, <3>1, <3>2
    <2> QED  BY <1>2, <2>1 DEF ButtonsAreLeaves
  <1>9. ASSUME NEW q \in Requests \ {p}, phase[q] \in Under PROVE TargetOK(q)'
    <2>1. TargetOK(q) /\ CallOK(q) /\ (TakesLock(call[q]) => lock = q)
      BY <1>9 DEF Inv, TargetsOK, CallsOK, LockHeld, Under
    <2>2. TakesLock(call[q])' = TakesLock(call[q])
      BY <1>1 DEF TakesLock
    <2>3. TakesLock(call[q]) => to \notin Nodes /\ call[p].type # "button"
      BY <1>1, <2>1, BesideTheLock
    <2>4. call[q].op = "update" /\ call[q].type = "button" => TakesLock(call[q]) /\ tree = "menu"
      BY <2>1, NamesAssumption DEF CallOK, Fits, TakesLock, Inv, TypeOK
    <2>5. call[q].op = "update" => call[q].node \in Nodes
      BY <2>1 DEF CallOK, Fits, Inv, TypeOK
    <2>6. call[q].op = "update" /\ call[q].type = "button" => Children({call[q].node})' = {}
      <3>1. ASSUME NEW m \in Stored, call[q].op = "update", call[q].type = "button",
                   rows'[m].parent = call[q].node
            PROVE  rows[m].parent = call[q].node
        BY <1>2, <1>3, <2>3, <2>4, <2>5, <3>1
      <3> QED  BY <1>1, <1>2, <2>1, <3>1 DEF Children, TargetOK
    <2>7. TakesLock(call[q]) /\ call[q].to \in Nodes =>
              call[q].to \in Stored /\ (tree = "menu" => rows'[call[q].to].type = "page")
      BY <1>2, <1>3, <2>1, <2>3 DEF TargetOK, Types
    <2> QED  BY <1>1, <1>2, <2>1, <2>2, <2>6, <2>7 DEF TargetOK
  <1> QED  BY <1>2, <1>4, <1>5, <1>8, <1>9, CommitKeepsIf

LEMMA CommitDeleteKeeps ==
  ASSUME Inv, NEW p \in Requests, Commit(p), call[p].op = "delete"
  PROVE  Inv'
  <1>1. /\ lock = p /\ tree' = tree
        /\ \A q \in Requests \ {p} : phase'[q] = phase[q] /\ call'[q] = call[q]
    BY AtCommit DEF TakesLock
  <1>2. /\ Stored' = Stored \ {call[p].node} /\ used' = used
        /\ \A m \in Stored' : rows'[m] = rows[m]
        /\ rows' \in [Stored' -> Row]
    BY RowsAfterDelete
  <1>3. Stored' \subseteq used' /\ RowsOK' /\ ButtonsAreLeaves'
    BY <1>1, <1>2 DEF Inv, TypeOK, RowsOK, ButtonsAreLeaves
  <1>4. ASSUME NEW q \in Requests \ {p}, phase[q] \in Under PROVE TargetOK(q)'
    <2>1. TargetOK(q) /\ CallOK(q) /\ ~TakesLock(call[q])
      BY <1>1, <1>4 DEF Inv, TargetsOK, CallsOK, LockHeld, Under
    <2>2. ~TakesLock(call[q])'
      BY <1>1, <2>1 DEF TakesLock
    <2>3. ~(call[q].op = "update" /\ call[q].type = "button")
      BY <2>1, NamesAssumption DEF CallOK, Fits, TakesLock, Inv, TypeOK
    <2> QED  BY <1>1, <2>1, <2>2, <2>3 DEF TargetOK
  <1> QED  BY <1>2, <1>3, <1>4, CommitKeepsIf

LEMMA CommitKeeps ==
  ASSUME Inv, NEW p \in Requests, Commit(p)
  PROVE  Inv'
  <1>1. call[p].op \in {"create", "update", "delete"}
    BY AtCommit DEF Fits, Call
  <1> QED  BY <1>1, CommitCreateKeeps, CommitUpdateKeeps, CommitDeleteKeeps

-----------------------------------------------------------------------------
(* Theorems.                                                               *)

LEMMA NextKeeps == Inv /\ [Next]_vars => Inv'
  <1> SUFFICES ASSUME Inv, [Next]_vars PROVE Inv'
    OBVIOUS
  <1>1. CASE Next
    <2>1. PICK p \in Requests :
             \/ Start(p) \/ Acquire(p) \/ Locate(p) \/ CheckCycle(p)
             \/ Write(p) \/ Commit(p) \/ Refused(p) \/ Abort(p)
      BY <1>1 DEF Next
    <2> QED
      BY <2>1, StartKeeps, AcquireKeeps, LocateKeeps, CheckCycleKeeps, WriteKeeps,
         CommitKeeps, EndsKeep
  <1>2. CASE UNCHANGED vars
    BY <1>2 DEF vars, Inv, TypeOK, CallsOK, CallOK, Fits, LockHeld, IdsDiffer, RowsOK,
                TargetsOK, TargetOK, ButtonsAreLeaves, Stored, Children, TakesLock,
                Parent, NewParent
  <1> QED  BY <1>1, <1>2

\* The inductive invariant of the tree writes holds in every reachable state.
THEOREM Invariance == Spec => []Inv
  BY InitEstablishes, NextKeeps, PTL DEF Spec

\* Every variable keeps its type.
THEOREM TypeCorrect == Spec => []TypeOK
  <1>1. Inv => TypeOK
    BY DEF Inv
  <1> QED  BY <1>1, Invariance, PTL

\* MenuService keeps buttons without children, however creations, moves and
\* changes of type overlap.
THEOREM ButtonsStayLeaves == Spec => []ButtonsAreLeaves
  <1>1. Inv => ButtonsAreLeaves
    BY DEF Inv
  <1> QED  BY <1>1, Invariance, PTL

-----------------------------------------------------------------------------
(* Cycles: proofs.                                                         *)

LEMMA MoversHoldTheLock ==
  ASSUME Inv, NEW q \in Requests, Moves(q)
  PROVE  /\ lock = q /\ TakesLock(call[q]) /\ TargetOK(q) /\ Fits(call[q])
         /\ call[q].to \in Stored /\ call[q].node \in Nodes /\ call[q].node # call[q].to
  <1>1. CallOK(q) /\ TargetOK(q)
    BY DEF Moves, Inv, CallsOK, TargetsOK, Under
  <1>2. Fits(call[q]) /\ call[q].node \in Nodes
    BY <1>1 DEF Moves, CallOK, Fits, Inv, TypeOK
  <1>3. TakesLock(call[q])
    BY NamesAssumption DEF Moves, TakesLock, Inv, TypeOK
  <1> QED  BY <1>1, <1>2, <1>3 DEF Moves, TargetOK, Inv, LockHeld

\* A move stays safe while others write beside the lock.
LEMMA CommitKeepsMoves ==
  ASSUME Inv, NEW p \in Requests, Commit(p), NEW q \in Requests \ {p}, MoveSafe(q)
  PROVE  MoveSafe(q)'
  <1> SUFFICES ASSUME Moves(q)
               PROVE  \E T \in SUBSET Nodes : /\ call[q].node \in T /\ call[q].to \notin T
                                              /\ ClosedBelow(T)'
    <2>1. phase'[q] = phase[q] /\ call'[q] = call[q]
      BY AtCommit
    <2> QED  BY <2>1 DEF MoveSafe, Moves
  <1>1. PICK T \in SUBSET Nodes : /\ call[q].node \in T /\ call[q].to \notin T
                                  /\ ClosedBelow(T)
    BY DEF MoveSafe
  <1>2. lock = q /\ call[q].to \in Stored
    BY MoversHoldTheLock
  <1>3. Fits(call[p]) /\ ~TakesLock(call[p]) /\ used' \subseteq Nodes
    BY <1>2, AtCommit
  <1>4. CASE call[p].op = "create"
    <2>0. PICK l \in Nodes : l = call[p].node
      BY <1>4, AtCommit
    <2>1. /\ Stored' = Stored \cup {l} /\ l \notin Stored
          /\ \A m \in Stored : rows'[m] = rows[m]
          /\ rows'[l].parent = call[p].to
          /\ call[p].to \in used \cup {Root} /\ l \notin used \cup {Root}
      BY <1>4, <2>0, RowsAfterCreate
    <2>2. \A m \in Stored : rows[m].parent # l
      BY <2>1 DEF Inv, RowsOK
    <2>3. l # call[q].to
      BY <1>2, <2>1
    <2>4. ClosedBelow(T \cup {l})'
      BY <1>1, <2>1, <2>2 DEF ClosedBelow, Children
    <2> QED  BY <1>1, <2>3, <2>4
  <1>5. CASE call[p].op = "update"
    <2> DEFINE n == call[p].node
    <2>1. /\ Stored' = Stored
          /\ \A m \in Stored \ {n} : rows'[m] = rows[m]
          /\ n \in Stored => rows'[n] = Updated(p, rows[n]) /\ rows[n] \in Row
      BY <1>5, RowsAfterUpdate DEF Inv, TypeOK
    <2>2. call[p].to \notin Nodes
      BY <1>3, <1>5, BesideTheLock
    <2>3. ClosedBelow(T)'
      <3>1. ASSUME NEW m \in Stored, rows'[m].parent \in T PROVE rows[m].parent \in T
        <4>1. CASE m = n
          BY <1>5, <2>1, <2>2, <3>1, <4>1, RowsAfterUpdate
        <4>2. CASE m # n
          BY <2>1, <3>1, <4>2
        <4> QED  BY <4>1, <4>2
      <3> QED  BY <1>1, <2>1, <3>1 DEF ClosedBelow, Children
    <2> QED  BY <1>1, <2>3
  <1>6. CASE call[p].op = "delete"
    BY <1>3, <1>6 DEF TakesLock
  <1> QED  BY <1>3, <1>4, <1>5, <1>6 DEF Fits, Call

\* A step other than a commit: a move becomes safe when it is checked.
LEMMA StepKeepsMoves ==
  ASSUME Inv, MovesSafe, QueryIsComplete, NEW p \in Requests,
         \/ Start(p) \/ Acquire(p) \/ Locate(p) \/ CheckCycle(p)
         \/ Write(p) \/ Refused(p) \/ Abort(p)
  PROVE  MovesSafe'
  <1>1. rows' = rows
    BY DEF Start, StartCreate, StartUpdate, StartDelete, Enter, Acquire, Locate,
           CheckCycle, Write, Refused, Abort
  <1>2. ASSUME NEW q \in Requests, phase'[q] = phase[q], call'[q] = call[q]
        PROVE  MoveSafe(q)'
    BY <1>1, <1>2 DEF MovesSafe, MoveSafe, Moves, ClosedBelow, Children, Stored
  <1>3. \A q \in Requests \ {p} : phase'[q] = phase[q] /\ call'[q] = call[q]
    BY DEF Start, StartCreate, StartUpdate, StartDelete, Enter, Acquire, Locate,
           CheckCycle, Write, InsertRow, ChangeRow, Refused, Abort, Leave, Inv, TypeOK
  <1>4. MoveSafe(p)'
    <2>1. CASE Start(p)
      <3>1. PICK c : Enter(p, c)
        BY <2>1 DEF Start, StartCreate, StartUpdate, StartDelete
      <3>2. /\ phase'[p] = (IF TakesLock(c) THEN "queued" ELSE "ready") /\ call'[p] = c
            /\ tree' = tree
        BY <3>1 DEF Enter, Inv, TypeOK
      <3>3. c.op = "update" /\ c.to \in Nodes => TakesLock(c)
        BY NamesAssumption DEF TakesLock, Inv, TypeOK
      <3> QED  BY <3>2, <3>3 DEF MoveSafe, Moves
    <2>2. CASE CheckCycle(p)
      <3>1. phase'[p] = "ready" /\ call'[p] = call[p]
        BY <2>2 DEF CheckCycle, Inv, TypeOK
      <3>2. ASSUME call[p].op = "update", call[p].to \in Nodes
            PROVE  \E T \in SUBSET Nodes : /\ call[p].node \in T /\ call[p].to \notin T
                                           /\ ClosedBelow(T)'
        <4>1. call[p].node \in Nodes
          BY <2>2, <3>2 DEF CheckCycle, Inv, TypeOK, CallsOK, CallOK, Fits
        <4>2. PICK T : T = Below(call[p].node) \cap Nodes
          OBVIOUS
        <4>3. call[p].node \in T /\ call[p].to \notin T
          BY <2>2, <3>2, <4>1, <4>2 DEF CheckCycle, CycleFree, Below
        <4>4. Children(Below(call[p].node)) \subseteq Below(call[p].node)
          BY <4>1 DEF QueryIsComplete, ClosedBelow
        <4>5. Stored \subseteq Nodes
          BY DEF Inv, TypeOK
        <4>6. ClosedBelow(T)'
          BY <1>1, <4>2, <4>4, <4>5 DEF ClosedBelow, Children, Stored
        <4> QED  BY <4>2, <4>3, <4>6
      <3> QED  BY <3>1, <3>2 DEF MoveSafe, Moves
    <2>3. CASE Write(p)
      <3>1. phase[p] = "ready" /\ phase'[p] = "written"
        BY <2>3 DEF Write, Inv, TypeOK
      <3>2. call'[p].op = "update" => call'[p] = call[p]
        <4>1. call[p] \in Call
          BY <3>1 DEF Inv, CallsOK, CallOK, Fits
        <4>2. CASE ChangeRow(p)
          BY <4>2 DEF ChangeRow
        <4>3. CASE \E n \in Nodes : InsertRow(p, n)
          <5>1. PICK n \in Nodes : InsertRow(p, n)
            BY <4>3
          <5>2. call'[p] = [call[p] EXCEPT !.node = n]
            BY <5>1 DEF InsertRow, Inv, TypeOK
          <5>3. call'[p].op = "create"
            BY <4>1, <5>1, <5>2 DEF InsertRow, Call
          <5> QED  BY <5>3
        <4> QED  BY <2>3, <4>2, <4>3 DEF Write
      <3> QED  BY <1>1, <3>1, <3>2 DEF MovesSafe, MoveSafe, Moves, ClosedBelow, Children, Stored
    <2>4. CASE Acquire(p) \/ Locate(p)
      BY <2>4 DEF Acquire, Locate, MoveSafe, Moves, Inv, TypeOK
    <2>5. CASE Refused(p) \/ Abort(p)
      BY <2>5 DEF Refused, Abort, Leave, MoveSafe, Moves, Inv, TypeOK
    <2> QED  BY <2>1, <2>2, <2>3, <2>4, <2>5
  <1> QED  BY <1>2, <1>3, <1>4 DEF MovesSafe

\* No commit closes a cycle.
LEMMA CommitKeepsAcyclic ==
  ASSUME Inv, MovesSafe, Acyclic, NEW p \in Requests, Commit(p)
  PROVE  Acyclic'
  <1> SUFFICES ASSUME NEW S \in SUBSET Stored', S # {}
               PROVE  \E m \in S : rows'[m].parent \notin S
    BY DEF Acyclic
  <1>1. Fits(call[p]) /\ phase[p] = "written"
    BY AtCommit
  <1>2. ASSUME NEW R \in SUBSET Stored, R # {} PROVE \E m \in R : rows[m].parent \notin R
    BY <1>2 DEF Acyclic
  <1>3. CASE call[p].op = "create"
    <2>1. PICK l : l = call[p].node
      OBVIOUS
    <2>2. /\ Stored' = Stored \cup {l} /\ l \notin Stored
          /\ \A m \in Stored : rows'[m] = rows[m]
          /\ rows'[l].parent = call[p].to
          /\ call[p].to \in used \cup {Root} /\ l \notin used \cup {Root}
      BY <1>3, <2>1, RowsAfterCreate
    <2>3. CASE S = {l}
      BY <2>2, <2>3
    <2>4. CASE S # {l}
      <3>1. PICK m \in S \ {l} : rows[m].parent \notin S \ {l}
        <4>1. S \ {l} \in SUBSET Stored /\ S \ {l} # {}
          BY <2>2, <2>4
        <4> QED  BY <1>2, <4>1
      <3>2. rows[m].parent # l /\ rows'[m] = rows[m]
        BY <2>2, <3>1 DEF Inv, RowsOK
      <3> QED  BY <3>1, <3>2
    <2> QED  BY <2>3, <2>4
  <1>4. CASE call[p].op = "update"
    <2>1. PICK n : n = call[p].node
      OBVIOUS
    <2>2. /\ Stored' = Stored
          /\ \A m \in Stored \ {n} : rows'[m] = rows[m]
      BY <1>4, <2>1, RowsAfterUpdate
    <2>3. n \in Stored => \/ rows'[n].parent = rows[n].parent
                          \/ rows'[n].parent = call[p].to /\ call[p].to \in used \cup {Root}
      <3>1. n \in Stored => rows[n] \in Row
        BY DEF Inv, TypeOK
      <3> QED  BY <1>4, <2>1, <3>1, RowsAfterUpdate
    <2>4. PICK m \in S : rows[m].parent \notin S
      BY <1>2, <2>2
    <2>5. CASE rows'[m].parent = rows[m].parent
      BY <2>4, <2>5
    <2>6. CASE m = n /\ rows'[n].parent = call[p].to /\ call[p].to \notin S
      BY <2>6
    <2>7. CASE m = n /\ rows'[n].parent = call[p].to /\ call[p].to \in S
      <3>1. Moves(p)
        BY <1>1, <1>4, <2>2, <2>7 DEF Moves, Inv, TypeOK
      <3>2. PICK T \in SUBSET Nodes : n \in T /\ call[p].to \notin T /\ Children(T) \subseteq T
        BY <2>1, <3>1 DEF MovesSafe, MoveSafe, ClosedBelow
      <3>3. PICK k \in S \ T : rows[k].parent \notin S \ T
        BY <1>2, <2>2, <2>7, <3>2
      <3>4. rows'[k] = rows[k] /\ rows[k].parent \notin T
        BY <2>2, <3>2, <3>3 DEF Children
      <3> QED  BY <3>3, <3>4
    <2> QED  BY <2>2, <2>3, <2>4, <2>5, <2>6, <2>7
  <1>5. CASE call[p].op = "delete"
    BY <1>2, <1>5, RowsAfterDelete
  <1> QED  BY <1>1, <1>3, <1>4, <1>5 DEF Fits, Call

LEMMA NextKeepsAcyclic ==
  Inv /\ QueryIsComplete /\ MovesSafe /\ Acyclic /\ [Next]_vars => MovesSafe' /\ Acyclic'
  <1> SUFFICES ASSUME Inv, QueryIsComplete, MovesSafe, Acyclic, [Next]_vars
               PROVE  MovesSafe' /\ Acyclic'
    OBVIOUS
  <1>1. ASSUME rows' = rows PROVE Acyclic'
    BY <1>1 DEF Acyclic, Stored
  <1>2. CASE Next
    <2>1. PICK p \in Requests :
             \/ Start(p) \/ Acquire(p) \/ Locate(p) \/ CheckCycle(p)
             \/ Write(p) \/ Commit(p) \/ Refused(p) \/ Abort(p)
      BY <1>2 DEF Next
    <2>2. CASE Commit(p)
      <3>1. MoveSafe(p)'
        BY <2>2, AtCommit DEF MoveSafe, Moves
      <3>2. \A q \in Requests \ {p} : MoveSafe(q)'
        BY <2>2, CommitKeepsMoves DEF MovesSafe
      <3> QED  BY <2>2, <3>1, <3>2, CommitKeepsAcyclic DEF MovesSafe
    <2>3. CASE ~Commit(p)
      <3>1. rows' = rows
        BY <2>1, <2>3 DEF Start, StartCreate, StartUpdate, StartDelete, Enter, Acquire,
                          Locate, CheckCycle, Write, Refused, Abort
      <3> QED  BY <1>1, <2>1, <2>3, <3>1, StepKeepsMoves
    <2> QED  BY <2>2, <2>3
  <1>3. CASE UNCHANGED vars
    BY <1>1, <1>3 DEF vars, MovesSafe, MoveSafe, Moves, ClosedBelow, Children, Stored
  <1> QED  BY <1>2, <1>3

\* Moves, creations and removals never close a cycle together, provided that
\* the recursive query always returns all descendants (its cut-off at MaxDepth
\* never bites).
THEOREM NoCycles == Spec /\ []QueryIsComplete => []Acyclic
  <1>1. Init => MovesSafe /\ Acyclic
    <2> SUFFICES ASSUME Init PROVE MovesSafe /\ Acyclic
      OBVIOUS
    <2>1. Stored = {}
      BY DEF Init, Stored
    <2>2. MovesSafe
      BY DEF Init, MovesSafe, MoveSafe, Moves
    <2> QED  BY <2>1, <2>2 DEF Acyclic
  <1> QED  BY <1>1, Invariance, NextKeepsAcyclic, PTL DEF Spec
-----------------------------------------------------------------------------
(* The forest.  A written row refers to a row that no other transaction    *)
(* has written, and a row about to be removed has no children: the foreign *)
(* keys are checked once, at the write, and the row locks keep what they   *)
(* found until the commit.                                                 *)

FKHolds(p) ==
    phase[p] = "written" =>
        /\ \A n \in Nodes : n = Parent(p) => n \in Stored /\ NotWritten(p, n)
        /\ call[p].op = "delete" => \A m \in Stored : rows[m].parent # call[p].node
FKsHold == \A p \in Requests : FKHolds(p)

\* The write establishes it, and respects it for the others.
LEMMA WriteKeepsFKs ==
  ASSUME Inv, FKsHold, NEW p \in Requests, Write(p)
  PROVE  FKsHold'
  <1>1. /\ phase[p] = "ready" /\ phase'[p] = "written"
        /\ ForeignKeys(p) /\ (Parent(p) \in Nodes => NotWritten(p, Parent(p)))
        /\ rows' = rows /\ used' = used
        /\ \A q \in Requests \ {p} : phase'[q] = phase[q]
    BY DEF Write, Inv, TypeOK
  <1>2. \A q \in Requests \ {p} : call'[q] = call[q]
    BY DEF Write, InsertRow, ChangeRow, Inv, TypeOK
  <1>3. \/ call' = call /\ ChangeRow(p)
        \/ /\ \E n \in Nodes \ used : call'[p] = [call[p] EXCEPT !.node = n]
           /\ call[p].op = "create"
    BY DEF Write, ChangeRow, InsertRow, Inv, TypeOK
  <1>4. call[p] \in Call
    BY <1>1 DEF Inv, CallsOK, CallOK, Fits
  <1>5. call'[p].op = call[p].op /\ Parent(p)' = Parent(p)
    <2>1. CASE call' = call
      BY <2>1 DEF Parent, NewParent
    <2>2. ASSUME NEW n \in Nodes, call'[p] = [call[p] EXCEPT !.node = n], call[p].op = "create"
          PROVE  call'[p].op = call[p].op /\ Parent(p)' = Parent(p)
      BY <1>4, <2>2 DEF Parent, Call
    <2> QED  BY <1>3, <2>1, <2>2
  <1>6. \A q \in Requests \ {p} : Parent(q)' = Parent(q)
    BY <1>2 DEF Parent, NewParent
  <1>7. ASSUME NEW q \in Requests \ {p}, NEW n PROVE Writes(q, n)' <=> Writes(q, n)
    BY <1>1, <1>2 DEF Writes, Changes, NewParent, NewType
  <1>8. FKHolds(p)'
    <2>1. ASSUME NEW n \in Nodes, n = Parent(p) PROVE n \in Stored /\ NotWritten(p, n)'
      <3>1. n \in Stored /\ NotWritten(p, n)
        BY <1>1, <2>1 DEF ForeignKeys
      <3> QED  BY <1>7, <3>1 DEF NotWritten
    <2>2. call'[p].op = "delete" => \A m \in Stored : rows[m].parent # call'[p].node
      BY <1>1, <1>3, <1>5 DEF ForeignKeys, Children
    <2> QED  BY <1>1, <1>5, <2>1, <2>2 DEF FKHolds, Stored
  <1>9. ASSUME NEW q \in Requests \ {p} PROVE FKHolds(q)'
    <2>1. FKHolds(q)
      BY DEF FKsHold
    <2>2. ASSUME phase[q] = "written", NEW n \in Nodes, n = Parent(q) PROVE ~Writes(p, n)'
      <3>1. Refers(q, n) /\ n \in used
        BY <2>2 DEF Refers, Inv, CallsOK, CallOK
      <3>2. CASE call' = call /\ ChangeRow(p)
        <4>1. Writes(p, n)' => call[p].node = n /\ (call[p].op = "update" => Changes(p))
          BY <3>2 DEF Writes, Changes, NewParent, NewType
        <4>2. call[p].node = n => call[p].op # "delete" /\ ~Changes(p)
          BY <3>1, <3>2 DEF ChangeRow, RowFree
        <4> QED  BY <3>2, <4>1, <4>2 DEF ChangeRow
      <3>3. ASSUME NEW l \in Nodes \ used, call'[p] = [call[p] EXCEPT !.node = l]
            PROVE  ~Writes(p, n)'
        BY <1>4, <3>1, <3>3 DEF Writes, Call
      <3> QED  BY <1>3, <3>2, <3>3
    <2>3. ASSUME phase[q] = "written", NEW n \in Nodes, n = Parent(q)
          PROVE  n \in Stored /\ NotWritten(q, n)'
      <3>1. n \in Stored /\ NotWritten(q, n)
        BY <2>1, <2>3 DEF FKHolds
      <3>2. ~Writes(p, n)'
        BY <2>2, <2>3
      <3> QED  BY <1>7, <3>1, <3>2 DEF NotWritten
    <2> QED  BY <1>1, <1>2, <1>6, <2>1, <2>3 DEF FKHolds, Stored
  <1> QED  BY <1>8, <1>9 DEF FKsHold

\* A commit takes away no row that another one refers to, and puts none below
\* a row about to be removed.
LEMMA CommitKeepsFKs ==
  ASSUME Inv, FKsHold, NEW p \in Requests, Commit(p)
  PROVE  FKsHold'
  <1>1. /\ phase[p] = "written" /\ phase'[p] = "idle" /\ Fits(call[p])
        /\ \A q \in Requests \ {p} : phase'[q] = phase[q] /\ call'[q] = call[q]
        /\ call[p].op = "create" => call[p].node \in Nodes \ used
    BY AtCommit
  <1>2. \A q \in Requests \ {p} : Parent(q)' = Parent(q)
    BY <1>1 DEF Parent, NewParent
  <1>3. ASSUME NEW q \in Requests, NEW n, Writes(q, n)' PROVE Writes(q, n)
    BY <1>1, <1>3 DEF Writes, Changes, NewParent, NewType
  <1>4. ASSUME NEW q \in Requests \ {p}, phase[q] = "written" PROVE FKHolds(q)'
    <2>1. FKHolds(q) /\ FKHolds(p)
      BY DEF FKsHold
    <2>2. ASSUME NEW n \in Nodes, n = Parent(q)
          PROVE  n \in Stored' /\ NotWritten(q, n)'
      <3>1. n \in Stored /\ NotWritten(q, n)
        BY <1>4, <2>1, <2>2 DEF FKHolds
      <3>2. NotWritten(q, n)'
        BY <1>3, <3>1 DEF NotWritten
      <3>3. call[p].op = "delete" => call[p].node # n
        BY <1>1, <3>1 DEF NotWritten, Writes
      <3>4. n \in Stored'
        BY <1>1, <3>1, <3>3, RowsAfterCreate, RowsAfterUpdate, RowsAfterDelete DEF Fits, Call
      <3> QED  BY <3>2, <3>4
    <2>3. ASSUME call[q].op = "delete" PROVE \A m \in Stored' : rows'[m].parent # call[q].node
      <3>1. PICK n : n = call[q].node
        OBVIOUS
      <3>2. \A m \in Stored : rows[m].parent # n
        BY <1>4, <2>1, <2>3, <3>1 DEF FKHolds
      <3>3. Writes(q, n) /\ n \in used /\ n \in Nodes
        BY <1>4, <2>3, <3>1 DEF Writes, Inv, CallsOK, CallOK, Fits, TypeOK
      <3>4. Parent(p) # n
        BY <1>1, <2>1, <3>3 DEF FKHolds, NotWritten
      <3>5. CASE call[p].op = "create"
        <4>1. /\ Stored' = Stored \cup {call[p].node}
              /\ \A m \in Stored : rows'[m] = rows[m]
              /\ rows'[call[p].node].parent = call[p].to
          BY <3>5, RowsAfterCreate
        <4>2. call[p].to # n
          BY <3>4, <3>5 DEF Parent
        <4> QED  BY <3>1, <3>2, <4>1, <4>2
      <3>6. CASE call[p].op = "update"
        <4>1. PICK k : k = call[p].node
          OBVIOUS
        <4>2. /\ Stored' = Stored
              /\ \A m \in Stored \ {k} : rows'[m] = rows[m]
              /\ k \in Stored => rows'[k] = Updated(p, rows[k])
          BY <3>6, <4>1, RowsAfterUpdate
        <4>3. \A old \in Row : Updated(p, old).parent \in {old.parent, NewParent(p)}
          BY DEF Updated, Row
        <4>4. \A m \in Stored : rows[m] \in Row
          BY DEF Inv, TypeOK
        <4>5. NewParent(p) # n
          BY <3>4, <3>6 DEF Parent
        <4>6. \A m \in Stored : rows'[m].parent # n
          BY <3>2, <4>2, <4>3, <4>4, <4>5
        <4> QED  BY <3>1, <4>2, <4>6
      <3>7. CASE call[p].op = "delete"
        <4>1. Stored' \subseteq Stored /\ \A m \in Stored' : rows'[m] = rows[m]
          BY <3>7, RowsAfterDelete
        <4> QED  BY <3>1, <3>2, <4>1
      <3> QED  BY <1>1, <3>5, <3>6, <3>7 DEF Fits, Call
    <2> QED  BY <1>1, <1>2, <2>2, <2>3 DEF FKHolds
  <1>5. ASSUME NEW q \in Requests, q = p \/ phase[q] # "written" PROVE FKHolds(q)'
    BY <1>1, <1>5 DEF FKHolds
  <1> QED  BY <1>4, <1>5 DEF FKsHold

LEMMA NextKeepsFKs == Inv /\ FKsHold /\ [Next]_vars => FKsHold'
  <1> SUFFICES ASSUME Inv, FKsHold, [Next]_vars PROVE FKsHold'
    OBVIOUS
  <1>1. ASSUME NEW p \in Requests, rows' = rows, phase'[p] # "written",
               \A q \in Requests \ {p} : phase'[q] = phase[q] /\ call'[q] = call[q]
        PROVE  FKsHold'
    <2>1. \A q \in Requests \ {p} : Parent(q)' = Parent(q)
      BY <1>1 DEF Parent, NewParent
    <2>2. ASSUME NEW q \in Requests, NEW n, Writes(q, n)' PROVE Writes(q, n)
      BY <1>1, <2>2 DEF Writes, Changes, NewParent, NewType
    <2>4. ASSUME NEW q \in Requests \ {p} PROVE FKHolds(q)'
      <3>1. FKHolds(q)
        BY DEF FKsHold
      <3>2. \A n \in Nodes : NotWritten(q, n) => NotWritten(q, n)'
        BY <2>2 DEF NotWritten
      <3> QED  BY <1>1, <2>1, <3>1, <3>2 DEF FKHolds, Stored
    <2>5. FKHolds(p)'
      BY <1>1 DEF FKHolds
    <2> QED  BY <2>4, <2>5 DEF FKsHold
  <1>2. CASE Next
    <2>1. PICK p \in Requests :
             \/ Start(p) \/ Acquire(p) \/ Locate(p) \/ CheckCycle(p)
             \/ Write(p) \/ Commit(p) \/ Refused(p) \/ Abort(p)
      BY <1>2 DEF Next
    <2>2. CASE Start(p)
      <3>1. PICK c : Enter(p, c)
        BY <2>2 DEF Start, StartCreate, StartUpdate, StartDelete
      <3> QED  BY <1>1, <3>1 DEF Enter, Inv, TypeOK
    <2>3. CASE Acquire(p) \/ Locate(p) \/ CheckCycle(p)
      BY <1>1, <2>3 DEF Acquire, Locate, CheckCycle, Inv, TypeOK
    <2>4. CASE Refused(p) \/ Abort(p)
      BY <1>1, <2>4 DEF Refused, Abort, Leave, Inv, TypeOK
    <2> QED  BY <2>1, <2>2, <2>3, <2>4, WriteKeepsFKs, CommitKeepsFKs
  <1>3. CASE UNCHANGED vars
    BY <1>3 DEF vars, FKsHold, FKHolds, Stored, Children, Parent, NewParent, NotWritten,
                Writes, Changes, NewType
  <1> QED  BY <1>2, <1>3

\* A commit is a step of the forest, or changes no parent.
LEMMA CommitIsAForestStep ==
  ASSUME Inv, FKsHold, MovesSafe, NEW p \in Requests, Commit(p)
  PROVE  [Forests!Next]_(Forests!vars)
  <1> SUFFICES ASSUME NEW l, NEW to, l = call[p].node, to = call[p].to
               PROVE  [Forests!Next]_(Forests!vars)
    OBVIOUS
  <1> DEFINE parentOf == [m \in Stored |-> rows[m].parent]
  <1>1. /\ Fits(call[p]) /\ phase[p] = "written" /\ FKHolds(p)
        /\ call[p].op = "create" => l \in Nodes \ used
        /\ used' = used \cup {l} /\ MoveSafe(p)
    BY AtCommit DEF FKsHold, MovesSafe
  <1>2. Stored \subseteq Nodes /\ \A m \in Stored : rows[m] \in Row
    BY DEF Inv, TypeOK
  <1>3. CASE call[p].op = "create"
    <2>1. /\ Stored' = Stored \cup {l} /\ l \notin Stored
          /\ \A m \in Stored : rows'[m] = rows[m]
          /\ rows'[l].parent = to
      BY <1>3, RowsAfterCreate
    <2>2. to \in Nodes \cup {Root} /\ to \in Stored \cup {Root}
      BY <1>1, <1>3 DEF Fits, FKHolds, Parent
    <2>3. [m \in Stored' |-> rows'[m].parent]
            = [m \in Stored \cup {l} |-> IF m = l THEN to ELSE parentOf[m]]
      BY <2>1
    <2>4. Forests!Add(l, to)
      BY <1>1, <1>3, <2>2, <2>3 DEF Forests!Add, Forests!Rows
    <2>5. Forests!Next
      BY <1>1, <1>3, <2>2, <2>4 DEF Forests!Next
    <2> QED  BY <2>5
  <1>4. CASE call[p].op = "update"
    <2>1. /\ Stored' = Stored /\ used' = used
          /\ \A m \in Stored \ {l} : rows'[m] = rows[m]
          /\ l \in Stored => rows'[l] = Updated(p, rows[l])
      BY <1>4, RowsAfterUpdate
    <2>2. CASE l \notin Stored \/ NewParent(p) = None
      <3>1. \A m \in Stored : rows'[m].parent = rows[m].parent
        BY <1>2, <2>1, <2>2 DEF Updated, Row
      <3> QED  BY <2>1, <3>1 DEF Forests!vars
    <2>3. CASE l \in Stored /\ NewParent(p) # None
      <3>1. to = NewParent(p) /\ to \in Nodes \cup {Root} /\ Parent(p) = to
        BY <1>1, <1>4, <2>3 DEF NewParent, Parent, Fits, Call
      <3>2. rows'[l].parent = to
        BY <1>2, <2>1, <2>3, <3>1 DEF Updated, Row
      <3>3. [m \in Stored' |-> rows'[m].parent] = [parentOf EXCEPT ![l] = to]
        BY <2>1, <3>2
      <3>4. Forests!Outside(to, l)
        <4>1. CASE to = Root
          BY <4>1 DEF Forests!Outside
        <4>2. CASE to \in Nodes
          <5>1. PICK T \in SUBSET Nodes : l \in T /\ to \notin T /\ Children(T) \subseteq T
            BY <1>1, <1>4, <4>2 DEF MoveSafe, Moves, ClosedBelow
          <5>2. to \in Stored
            BY <1>1, <3>1, <4>2 DEF FKHolds
          <5>3. Forests!ClosedDown(T \cap Stored)
            BY <5>1 DEF Forests!ClosedDown, Forests!Rows, Children
          <5> QED  BY <2>3, <5>1, <5>2, <5>3 DEF Forests!Outside, Forests!Rows
        <4> QED  BY <3>1, <4>1, <4>2
      <3>5. Forests!Move(l, to)
        BY <2>1, <2>3, <3>3, <3>4 DEF Forests!Move, Forests!Rows
      <3>6. Forests!Next
        BY <1>2, <2>3, <3>1, <3>5 DEF Forests!Next
      <3> QED  BY <3>6
    <2> QED  BY <2>2, <2>3
  <1>5. CASE call[p].op = "delete"
    <2>1. /\ Stored' = Stored \ {l} /\ used' = used
          /\ \A m \in Stored' : rows'[m] = rows[m]
      BY <1>5, RowsAfterDelete
    <2>2. [m \in Stored' |-> rows'[m].parent] = [m \in Stored \ {l} |-> parentOf[m]]
      BY <2>1
    <2>3. CASE l \notin Stored
      BY <2>1, <2>2, <2>3 DEF Forests!vars
    <2>4. CASE l \in Stored
      <3>1. \A m \in Stored : parentOf[m] # l
        BY <1>1, <1>5 DEF FKHolds
      <3>2. Forests!Remove(l)
        BY <2>1, <2>2, <2>4, <3>1 DEF Forests!Remove, Forests!Leaf, Forests!Rows
      <3>3. Forests!Next
        BY <1>2, <2>4, <3>2 DEF Forests!Next
      <3> QED  BY <3>3
    <2> QED  BY <2>3, <2>4
  <1> QED  BY <1>1, <1>3, <1>4, <1>5 DEF Fits, Call

\* Behind locks and stale reads, departments and menus are a forest changed
\* one row at a time, provided that the recursive query always returns all
\* descendants.
THEOREM TreesAreForests == Spec /\ []QueryIsComplete => ImplementsForest
  <1>1. Init => MovesSafe /\ Acyclic /\ FKsHold
    <2> SUFFICES ASSUME Init PROVE MovesSafe /\ Acyclic /\ FKsHold
      OBVIOUS
    <2>1. Stored = {}
      BY DEF Init, Stored
    <2>2. MovesSafe /\ FKsHold
      BY DEF Init, MovesSafe, MoveSafe, Moves, FKsHold, FKHolds
    <2> QED  BY <2>1, <2>2 DEF Acyclic
  <1>2. Init => Forests!Init
    BY DEF Init, Forests!Init, Stored
  <1>3. Inv /\ FKsHold /\ MovesSafe /\ [Next]_vars => [Forests!Next]_(Forests!vars)
    <2> SUFFICES ASSUME Inv, FKsHold, MovesSafe, [Next]_vars
                 PROVE  [Forests!Next]_(Forests!vars)
      OBVIOUS
    <2>1. CASE UNCHANGED <<rows, used>>
      BY <2>1 DEF Forests!vars, Stored
    <2>2. CASE \E p \in Requests : Commit(p)
      BY <2>2, CommitIsAForestStep
    <2>3. ASSUME NEW p \in Requests,
                 \/ Start(p) \/ Acquire(p) \/ Locate(p) \/ CheckCycle(p)
                 \/ Write(p) \/ Refused(p) \/ Abort(p)
          PROVE  UNCHANGED <<rows, used>>
      BY <2>3 DEF Start, StartCreate, StartUpdate, StartDelete, Enter, Acquire,
                  Locate, CheckCycle, Write, Refused, Abort
    <2> QED  BY <2>1, <2>2, <2>3 DEF Next, vars
  <1> QED
    BY <1>1, <1>2, <1>3, Invariance, NextKeepsAcyclic, NextKeepsFKs, PTL
    DEF Spec, ImplementsForest, Forests!Spec
=============================================================================
