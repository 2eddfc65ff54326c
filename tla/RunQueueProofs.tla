-------------------------- MODULE RunQueueProofs ---------------------------
(***************************************************************************)
(* Every state of the queue has the right type, there is at most one run   *)
(* per item, every row keeps one place in the queue its document names,    *)
(* and the runs that a project's queue started stay within its limit, for  *)
(* every set of projects and items, every limit and any number of crashes, *)
(* shutdowns, failed writes, moves, parked and returned runs.              *)
(*                                                                         *)
(* ClaimInvariant (RunQueue) is inductive. Most actions leave what it      *)
(* reads alone: they are Quiet. The others claim a row, record an outcome, *)
(* create a run or stop the process, and are taken one by one. The second  *)
(* half, about places and the limit, builds on it.                         *)
(***************************************************************************)
EXTENDS RunQueue, FiniteSetTheorems, TLAPS

-----------------------------------------------------------------------------
(* Type correctness.                                                       *)

LEMMA IdleType ==
    Idle \in [pc : PassPoints, todo : SUBSET Items, id : Items, claimed : Row]
  <1>1. (CHOOSE i \in Items : TRUE) \in Items
    BY RunQueueAssumption
  <1>2. (CHOOSE p \in Projects : TRUE) \in Projects
    BY RunQueueAssumption
  <1>3. [column |-> CHOOSE p \in Projects : TRUE,
         project |-> CHOOSE p \in Projects : TRUE,
         position |-> 0, state |-> "queued", startedAt |-> 0] \in Row
    BY <1>2 DEF Row, States
  <1> QED
    BY <1>1, <1>3 DEF Idle, PassPoints

\* Saving a row keeps the table's rows, and touches no other row.
LEMMA SaveRow ==
    ASSUME NEW T, DOMAIN T \subseteq Items, T \in [DOMAIN T -> Row],
           NEW i, NEW row \in Row
    PROVE  /\ DOMAIN Save(T, i, row) = DOMAIN T
           /\ Save(T, i, row) \in [DOMAIN T -> Row]
           /\ \A j \in DOMAIN T : j # i => Save(T, i, row)[j] = T[j]
           /\ i \in DOMAIN T => Save(T, i, row)[i].state = row.state
  BY DEF Save, Row

\* Trimming keeps rows as they are, and drops only started ones.
LEMMA TrimRows ==
    ASSUME NEW T, NEW S, DOMAIN T \subseteq Items, T \in [DOMAIN T -> S], NEW p
    PROVE  /\ DOMAIN Trim(T, p) \subseteq DOMAIN T
           /\ Trim(T, p) \in [DOMAIN Trim(T, p) -> S]
           /\ \A j \in DOMAIN Trim(T, p) : Trim(T, p)[j] = T[j]
           /\ \A j \in DOMAIN T \ DOMAIN Trim(T, p) : T[j].state = "started"
  BY DEF Trim

LEMMA StoredType ==
    ASSUME TypeOK, NEW i, NEW claimed \in Row
    PROVE  Stored(i, claimed) \in Row
  BY DEF Stored, TypeOK

\* The rows after a start was recorded.
LEMMA StartedRows ==
    ASSUME TypeOK, NEW i, NEW claimed \in Row, Started(i, claimed)
    PROVE  /\ DOMAIN items' \subseteq DOMAIN items
           /\ items' \in [DOMAIN items' -> Row]
           /\ \A j \in DOMAIN items' : j # i => items'[j] = items[j]
           /\ i \in DOMAIN items' => items'[i].state = "started"
           /\ \A j \in DOMAIN items \ DOMAIN items' :
                 j = i \/ items[j].state = "started"
           /\ clock' \in Nat
  <1> DEFINE row == [Stored(i, claimed) EXCEPT !.state = "started",
                                               !.startedAt = clock + 1]
             T == Save(items, i, row)
  <1>0. Stored(i, claimed) \in Row /\ clock + 1 \in Nat
    BY StoredType DEF TypeOK
  <1>1. row \in Row
    BY <1>0 DEF Row, States
  <1>2. /\ DOMAIN T = DOMAIN items /\ T \in [DOMAIN items -> Row]
        /\ \A j \in DOMAIN items : j # i => T[j] = items[j]
        /\ i \in DOMAIN items => T[i].state = row.state
    <2>1. DOMAIN items \subseteq Items /\ items \in [DOMAIN items -> Row]
      BY DEF TypeOK
    <2> HIDE DEF row
    <2> QED
      BY <2>1, <1>1, SaveRow
  <1>3. row.state = "started"
    BY <1>0 DEF Row
  <1>4. items' = Trim(T, Stored(i, claimed).project) /\ clock' = clock + 1
    BY DEF Started, Update
  <1>5. DOMAIN T \subseteq Items /\ T \in [DOMAIN T -> Row]
    BY <1>2 DEF TypeOK
  <1> HIDE DEF T, row
  <1>6. /\ DOMAIN items' \subseteq DOMAIN T
        /\ items' \in [DOMAIN items' -> Row]
        /\ \A j \in DOMAIN items' : items'[j] = T[j]
        /\ \A j \in DOMAIN T \ DOMAIN items' : T[j].state = "started"
    BY <1>4, <1>5, TrimRows
  <1> QED
    BY <1>2, <1>3, <1>4, <1>6 DEF TypeOK

\* The rows after a start failed.
LEMMA FailedRows ==
    ASSUME TypeOK, NEW i, NEW claimed \in Row, Fail(i, claimed)
    PROVE  /\ DOMAIN items' = DOMAIN items
           /\ items' \in [DOMAIN items -> Row]
           /\ \A j \in DOMAIN items : j # i => items'[j] = items[j]
           /\ i \in DOMAIN items => items'[i].state = "failed"
           /\ clock' = clock
  <1> DEFINE row == [Stored(i, claimed) EXCEPT !.state = "failed",
                                 !.startedAt = Stored(i, claimed).startedAt]
  <1>0. Stored(i, claimed) \in Row
    BY StoredType
  <1>1. row \in Row /\ row.state = "failed"
    BY <1>0 DEF Row, States
  <1>2. items' = Save(items, i, row) /\ clock' = clock
    BY DEF Fail, Update
  <1> HIDE DEF row
  <1> QED
    BY <1>1, <1>2, SaveRow DEF TypeOK

\* A project move changes where rows are, never their state.
LEMMA MovedRows ==
    ASSUME TypeOK, NEW from \in Projects, NEW to \in Projects, MoveRows(from, to)
    PROVE  /\ DOMAIN items' = DOMAIN items
           /\ items' \in [DOMAIN items -> Row]
           /\ \A j \in DOMAIN items : items'[j].state = items[j].state
  <1> DEFINE before(i) == {j \in List(from) : items[j].position < items[i].position}
  <1>1. PICK n \in 0..MaxPosition :
           items' = [i \in DOMAIN items |->
                  IF i \in List(from)
                  THEN [items[i] EXCEPT !.column = to, !.project = to,
                           !.position = n + 1 + Cardinality(before(i))]
                  ELSE items[i]]
    BY DEF MoveRows
  <1>2. ASSUME NEW i PROVE Cardinality(before(i)) \in Nat
    <2>1. before(i) \subseteq Items
      BY DEF List, TypeOK
    <2>2. IsFiniteSet(before(i))
      BY <2>1, RunQueueAssumption, FS_Subset
    <2> QED
      BY <2>2, FS_CardinalityType
  <1>3. n \in Nat
    BY RunQueueAssumption
  <1> HIDE DEF before
  <1>4. \A i \in DOMAIN items : n + 1 + Cardinality(before(i)) \in Nat
    BY <1>2, <1>3
  <1>5. DOMAIN items \subseteq Items /\ items \in [DOMAIN items -> Row]
    BY DEF TypeOK
  <1>6. \A i \in DOMAIN items : items'[i] \in Row /\ items'[i].state = items[i].state
    <2> TAKE i \in DOMAIN items
    <2>1. items[i] \in Row
      BY <1>5
    <2>2. CASE i \in List(from)
      <3>1. items'[i] = [items[i] EXCEPT !.column = to, !.project = to,
                           !.position = n + 1 + Cardinality(before(i))]
        BY <1>1, <2>2 DEF before
      <3> QED
        BY <3>1, <2>1, <1>4 DEF Row
    <2>3. CASE i \notin List(from)
      BY <2>1, <2>3, <1>1
    <2> QED
      BY <2>2, <2>3
  <1>7. DOMAIN items' = DOMAIN items /\ items' = [i \in DOMAIN items |-> items'[i]]
    BY <1>1
  <1> QED
    BY <1>5, <1>6, <1>7

\* Where a pass may stand, and what the three ways of moving it on give.
PassRecord == [pc : PassPoints, todo : SUBSET Items, id : Items, claimed : Row]

LEMMA PassMoves ==
    ASSUME TypeOK, NEW p \in Projects
    PROVE  /\ NextItem(p) => /\ pass' \in [Projects -> PassRecord]
                             /\ pass'[p].pc = "loop"
                             /\ \A q \in Projects : q # p => pass'[q] = pass[q]
           /\ EndPass(p) => /\ pass' \in [Projects -> PassRecord]
                            /\ pass'[p].pc = "none"
                            /\ \A q \in Projects : q # p => pass'[q] = pass[q]
           /\ \A i \in Items, row \in Row :
                 Launch(p, i, row) => /\ pass' \in [Projects -> PassRecord]
                                      /\ pass'[p].pc \in {"authorize", "start"}
                                      /\ pass'[p].id = i
                                      /\ \A q \in Projects : q # p => pass'[q] = pass[q]
  <1>1. Idle \in PassRecord /\ Idle.pc = "none"
    BY IdleType DEF PassRecord, Idle
  <1>2. pass \in [Projects -> PassRecord]
    BY DEF TypeOK, PassRecord
  <1>3. ASSUME NEW pc \in PassPoints, NEW todo \in SUBSET Items
        PROVE  /\ [Idle EXCEPT !.pc = pc, !.todo = todo] \in PassRecord
               /\ [Idle EXCEPT !.pc = pc, !.todo = todo].pc = pc
    BY <1>1 DEF PassRecord
  <1>4. pass[p].todo \in SUBSET Items
    BY <1>2 DEF PassRecord
  <1>5. ASSUME NextItem(p)
        PROVE  /\ pass' \in [Projects -> PassRecord]
               /\ pass'[p].pc = "loop"
               /\ \A q \in Projects : q # p => pass'[q] = pass[q]
    <2>1. "loop" \in PassPoints
      BY DEF PassPoints
    <2> QED
      BY <1>2, <1>3, <1>4, <1>5, <2>1 DEF NextItem
  <1>6. ASSUME EndPass(p)
        PROVE  /\ pass' \in [Projects -> PassRecord]
               /\ pass'[p].pc = "none"
               /\ \A q \in Projects : q # p => pass'[q] = pass[q]
    BY <1>1, <1>2, <1>6 DEF EndPass
  <1>7. ASSUME NEW i \in Items, NEW row \in Row, Launch(p, i, row)
        PROVE  /\ pass' \in [Projects -> PassRecord]
               /\ pass'[p].pc \in {"authorize", "start"}
               /\ pass'[p].id = i
               /\ \A q \in Projects : q # p => pass'[q] = pass[q]
    <2> DEFINE next == [pc |-> IF i \in McpItems THEN "authorize" ELSE "start",
                        todo |-> pass[p].todo \ {i}, id |-> i, claimed |-> row]
    <2>1. next \in PassRecord
      BY <1>4 DEF PassRecord, PassPoints, Attempting
    <2>2. pass' = [pass EXCEPT ![p] = next]
      BY <1>7 DEF Launch
    <2> QED
      BY <1>2, <2>1, <2>2
  <1> QED
    BY <1>5, <1>6, <1>7

LEMMA TypeInit == Init => TypeOK
  <1> SUFFICES ASSUME Init PROVE TypeOK
    OBVIOUS
  <1>1. DOMAIN items = {} /\ DOMAIN runs = {}
    BY DEF Init
  <1>2. pass \in [Projects -> [pc : PassPoints, todo : SUBSET Items, id : Items,
                               claimed : Row]]
    BY IdleType DEF Init
  <1> QED
    BY <1>1, <1>2 DEF Init, TypeOK, Row, Run

\* The parts of TypeOK an action can touch one at a time.
ItemsOK == DOMAIN items \subseteq Items /\ items \in [DOMAIN items -> Row]
RunsOK  == DOMAIN runs \subseteq RunIds /\ runs \in [DOMAIN runs -> Run]
PassOK  == pass \in [Projects -> PassRecord]
RestOK  ==
    /\ registered \subseteq Projects
    /\ rebound \in [Projects -> Projects \cup {NoProject}]
    /\ mode \in {"up", "closing", "down", "recovering"}
    /\ authorize \in BOOLEAN /\ dirty \in BOOLEAN
    /\ dirtyProjects \subseteq Projects
    /\ reserved \subseteq RunIds /\ created \in [Items -> Nat]
    /\ lost \subseteq Items /\ unsaved \subseteq Items /\ clock \in Nat
    /\ restarts \in Nat /\ edits \in Nat

LEMMA TypeParts == TypeOK <=> ItemsOK /\ RunsOK /\ PassOK /\ RestOK
  BY DEF TypeOK, ItemsOK, RunsOK, PassOK, RestOK, PassRecord

LEMMA TypePartsNext == TypeOK' <=> ItemsOK' /\ RunsOK' /\ PassOK' /\ RestOK'
  BY DEF TypeOK, ItemsOK, RunsOK, PassOK, RestOK, PassRecord

LEMMA ChangedType == ASSUME TypeOK, Changed PROVE dirty' \in BOOLEAN
  BY DEF TypeOK, Changed

LEMMA OwnerType ==
    ASSUME TypeOK, Owner PROVE TypeOK'
  <1> USE DEF ItemsOK, RunsOK, PassOK, RestOK, RunIds, project, memory, history,
               bounds, tables
  <1> USE TypeParts
  <1>1. ASSUME NEW p \in Projects, NEW i \in Items, Add(p, i) PROVE TypeOK'
    <2>1. ItemsOK'
      BY <1>1 DEF Add, Row, States
    <2> QED
      BY <1>1, <2>1, TypePartsNext, ChangedType DEF Add
  <1>2. ASSUME NEW i \in Items, Remove(i) PROVE TypeOK'
    BY <1>2, TypePartsNext, ChangedType DEF Remove
  <1>3. ASSUME NEW i \in Items, Retry(i) PROVE TypeOK'
    <2>1. [items[i] EXCEPT !.state = "queued"] \in Row
      BY <1>3 DEF Retry, Row, States
    <2>2. ItemsOK'
      BY <1>3, <2>1, SaveRow DEF Retry
    <2> QED
      BY <1>3, <2>2, TypePartsNext, ChangedType DEF Retry
  <1>4. ASSUME NEW i \in Items, NEW j \in Items, Move(i, j) PROVE TypeOK'
    <2>1. i \in DOMAIN items /\ j \in DOMAIN items
      BY <1>4 DEF Move, InState, List
    <2>2. /\ [items[i] EXCEPT !.position = items[j].position] \in Row
          /\ [items[j] EXCEPT !.position = items[i].position] \in Row
      BY <2>1 DEF Row
    <2>3. ItemsOK'
      <3>1. items' = [items EXCEPT ![i].position = items[j].position,
                                   ![j].position = items[i].position]
        BY <1>4 DEF Move
      <3>2. i # j
        BY <1>4, <2>1 DEF Move, Row
      <3>3. \A k \in DOMAIN items : items'[k] \in Row
        BY <2>1, <2>2, <3>1, <3>2
      <3> QED
        BY <3>1, <3>3
    <2> QED
      BY <1>4, <2>3, TypePartsNext, ChangedType DEF Move
  <1>5. ASSUME NEW p \in Projects, NEW q \in Projects, Rebind(p, q) PROVE TypeOK'
    BY <1>5, TypePartsNext DEF Rebind
  <1>6. ASSUME NEW p \in Projects, NEW q \in Projects, MoveProject(p, q)
        PROVE TypeOK'
    <2>1. ItemsOK'
      BY <1>6, MovedRows DEF MoveProject
    <2> QED
      BY <1>6, <2>1, TypePartsNext, ChangedType DEF MoveProject
  <1>7. ASSUME NEW r \in RunIds, ReturnRun(r) PROVE TypeOK'
    <2>1. RunsOK'
      BY <1>7 DEF ReturnRun, Run, Statuses
    <2> QED
      BY <1>7, <2>1, TypePartsNext, ChangedType DEF ReturnRun
  <1>8. ASSUME NEW r \in RunIds, DeleteRun(r) PROVE TypeOK'
    BY <1>8, TypePartsNext DEF DeleteRun
  <1>9. ASSUME NEW r \in Direct, NEW p \in Projects, StartDirect(r, p) PROVE TypeOK'
    <2>1. RunsOK'
      BY <1>9 DEF StartDirect, Run, Statuses
    <2> QED
      BY <1>9, <2>1, TypePartsNext, ChangedType DEF StartDirect
  <1> QED
    BY <1>1, <1>2, <1>3, <1>4, <1>5, <1>6, <1>7, <1>8, <1>9 DEF Owner

LEMMA EngineType ==
    ASSUME TypeOK, Engine PROVE TypeOK'
  <1> USE DEF ItemsOK, RunsOK, PassOK, RestOK, RunIds, project, memory, history,
               bounds, tables
  <1> USE TypeParts
  <1>1. ASSUME NEW r \in RunIds, Provision(r) PROVE TypeOK'
    <2>1. r \in DOMAIN runs /\ runs[r] \in Run /\ runs[r].home \in Projects
      BY <1>1 DEF Provision, Run
    <2>2. Current(runs[r].home) \in Projects
      BY <2>1 DEF Current
    <2>3. RunsOK'
      BY <1>1, <2>1, <2>2 DEF Provision, Run, Statuses
    <2> QED
      BY <1>1, <2>3, TypePartsNext, ChangedType DEF Provision
  <1>2. ASSUME NEW r \in RunIds, EndRun(r) PROVE TypeOK'
    <2>1. RunsOK'
      BY <1>2 DEF EndRun, Run, Statuses
    <2> QED
      BY <1>2, <2>1, TypePartsNext, ChangedType DEF EndRun
  <1>3. ASSUME NEW r \in RunIds, NEW status \in Statuses \ {"ended"},
               TurnRun(r, status)
        PROVE TypeOK'
    <2>1. RunsOK'
      BY <1>3 DEF TurnRun, Run, Statuses
    <2> QED
      BY <1>3, <2>1, TypePartsNext, ChangedType DEF TurnRun
  <1> QED
    BY <1>1, <1>2, <1>3 DEF Engine

LEMMA LifecycleType ==
    ASSUME TypeOK, Lifecycle PROVE TypeOK'
  <1> USE DEF ItemsOK, RunsOK, PassOK, RestOK, RunIds, project, memory, history,
               bounds, tables
  <1> USE TypeParts
  <1>1. CASE Close
    BY <1>1, TypePartsNext DEF Close
  <1>2. ASSUME Stop, restarts' \in Nat PROVE TypeOK'
    <2>1. PassOK'
      BY <1>2, IdleType DEF Stop, PassRecord
    <2>2. ItemsOK' /\ RunsOK'
      BY <1>2 DEF Stop
    <2>3. RestOK'
      BY <1>2 DEF Stop
    <2> QED
      BY <2>1, <2>2, <2>3, TypePartsNext
  <1>3. CASE Boot
    BY <1>3, TypePartsNext DEF Boot
  <1>4. CASE Recovered
    BY <1>4, TypePartsNext DEF Recovered
  <1>5. CASE SetAuthorize
    BY <1>5, TypePartsNext, ChangedType DEF SetAuthorize
  <1>6. ASSUME NEW i \in Items, Recover(i) PROVE TypeOK'
    <2>1. items[i] \in Row /\ Started(i, items[i])
      BY <1>6 DEF Recover
    <2>2. ItemsOK' /\ clock' \in Nat
      BY <2>1, StartedRows
    <2> QED
      BY <1>6, <2>2, TypePartsNext DEF Recover
  <1>7. ASSUME NEW p \in Projects, Restore(p) PROVE TypeOK'
    BY <1>7, TypePartsNext DEF Restore
  <1> QED
    BY <1>1, <1>2, <1>3, <1>4, <1>5, <1>6, <1>7 DEF Lifecycle, Closed, Crash

LEMMA PassType ==
    ASSUME TypeOK, NEW p \in Projects, PassStep(p) PROVE TypeOK'
  <1> USE DEF ItemsOK, RunsOK, PassOK, RestOK, RunIds, project, memory, history,
               bounds, tables
  <1> USE TypeParts
  <1>0. /\ pass[p] \in PassRecord /\ pass[p].id \in Items
        /\ pass[p].claimed \in Row /\ pass[p].todo \in SUBSET Items
    BY DEF PassRecord
  <1>1. CASE BeginPass(p)
    <2>1. [Idle EXCEPT !.pc = "loop", !.todo = InState(p, {"starting"})] \in PassRecord
      BY IdleType DEF PassRecord, PassPoints, InState, List
    <2> QED
      BY <1>1, <2>1, TypePartsNext DEF BeginPass, Due
  <1>2. CASE Orphaned(p)
    <2>1. ItemsOK' /\ dirty' \in BOOLEAN
      <3>1. CASE rebound[p] \in registered /\ MoveRows(p, rebound[p]) /\ Changed
        BY <3>1, MovedRows, ChangedType
      <3>2. CASE UNCHANGED <<items, dirty>>
        BY <3>2
      <3>3. CASE /\ items' = [i \in DOMAIN items |->
                       IF i \in InState(p, {"queued"})
                                \cup (InState(p, {"starting"}) \ InFlight)
                       THEN [items[i] EXCEPT !.state = "failed"]
                       ELSE items[i]]
                 /\ UNCHANGED dirty
        BY <3>3 DEF Row, States
      <3> QED
        BY <1>2, <3>1, <3>2, <3>3 DEF Orphaned
    <2> QED
      BY <1>2, <2>1, TypePartsNext DEF Orphaned, Due
  <1>3. CASE Finish(p)
    BY <1>3, PassMoves, TypePartsNext DEF Finish
  <1>4. ASSUME NEW i \in Items, Resume(p, i) PROVE TypeOK'
    <2>1. [pass EXCEPT ![p].todo = @ \ {i}] \in [Projects -> PassRecord]
      BY <1>0 DEF PassRecord
    <2>2. ItemsOK' /\ PassOK' /\ clock' \in Nat
      <3>1. CASE /\ Resumable(p, i) /\ Started(i, items[i])
                 /\ pass' = [pass EXCEPT ![p].todo = @ \ {i}]
        BY <3>1, <2>1, StartedRows DEF Resumable
      <3>2. CASE /\ Resumable(p, i) /\ Launch(p, i, items[i])
                 /\ UNCHANGED <<items, clock>>
        BY <3>2, PassMoves DEF Resumable
      <3>3. CASE /\ pass' = [pass EXCEPT ![p].todo = @ \ {i}]
                 /\ UNCHANGED <<items, clock>>
        BY <3>3, <2>1
      <3> QED
        BY <1>4, <3>1, <3>2, <3>3 DEF Resume
    <2> QED
      BY <1>4, <2>2, TypePartsNext DEF Resume
  <1>5. ASSUME NEW i \in Items, Claim(p, i) PROVE TypeOK'
    <2> DEFINE row == [items[i] EXCEPT !.state = "starting"]
    <2>1. i \in DOMAIN items
      BY <1>5 DEF Claim, NextToStart, InState, List
    <2>2. row \in Row
      BY <2>1 DEF Row, States
    <2>3. items' = Save(items, i, row) /\ Launch(p, i, row)
      BY <1>5 DEF Claim
    <2> HIDE DEF row
    <2>4. ItemsOK' /\ PassOK'
      BY <2>2, <2>3, SaveRow, PassMoves
    <2> QED
      BY <1>5, <2>4, TypePartsNext DEF Claim
  <1>6. ASSUME StartFailed(p) PROVE ItemsOK' /\ PassOK' /\ clock' \in Nat
    BY <1>6, <1>0, FailedRows, StartedRows, PassMoves DEF StartFailed
  <1>7. CASE Authorize(p)
    <2>1. ItemsOK' /\ PassOK' /\ clock' \in Nat
      <3>1. CASE pass' = [pass EXCEPT ![p].pc = "start"] /\ UNCHANGED <<items, clock>>
        BY <3>1, <1>0 DEF PassRecord, PassPoints, Attempting
      <3>2. CASE Fail(pass[p].id, pass[p].claimed) /\ NextItem(p)
        BY <3>2, <1>0, FailedRows, PassMoves
      <3> QED
        BY <1>7, <1>6, <3>1, <3>2 DEF Authorize
    <2> QED
      BY <1>7, <2>1, TypePartsNext DEF Authorize
  <1>8. CASE CreateRun(p)
    <2>1. RunsOK' /\ created' \in [Items -> Nat]
      BY <1>0, <1>8 DEF CreateRun, Run, Row, Statuses
    <2>2. PassOK'
      BY <1>0, <1>8 DEF CreateRun, PassRecord, PassPoints, Attempting
    <2> QED
      BY <1>8, <2>1, <2>2, TypePartsNext, ChangedType DEF CreateRun
  <1>9. CASE RefuseStart(p)
    BY <1>9, <1>6, TypePartsNext DEF RefuseStart
  <1>10. CASE StartReturned(p)
    BY <1>10, <1>0, StartedRows, PassMoves, TypePartsNext DEF StartReturned
  <1>11. CASE StartBroke(p)
    BY <1>11, <1>6, TypePartsNext DEF StartBroke
  <1> QED
    BY <1>1, <1>2, <1>3, <1>4, <1>5, <1>7, <1>8, <1>9, <1>10, <1>11 DEF PassStep

LEMMA TypeStep == ASSUME TypeOK, [Next]_vars PROVE TypeOK'
  <1>1. CASE UNCHANGED vars
    BY <1>1, TypeParts, TypePartsNext
       DEF vars, project, memory, history, bounds, tables,
           ItemsOK, RunsOK, PassOK, RestOK
  <1>2. CASE Poll \/ Drain
    BY <1>2, TypeParts, TypePartsNext
       DEF Poll, Drain, project, memory, history, bounds, tables,
           ItemsOK, RunsOK, PassOK, RestOK
  <1>3. ASSUME NEW p \in Projects, SaveFailed(p) PROVE TypeOK'
    <2>1. EndPass(p) /\ pass[p].id \in Items
      BY <1>3, TypeParts DEF SaveFailed, PassOK, PassRecord
    <2>2. PassOK'
      BY <2>1, PassMoves DEF PassOK
    <2>3. ItemsOK' /\ RunsOK' /\ RestOK'
      BY <1>3, <2>1, TypeParts
         DEF SaveFailed, project, memory, history, bounds, tables,
             ItemsOK, RunsOK, RestOK
    <2> QED
      BY <2>2, <2>3, TypePartsNext
  <1> QED
    BY <1>1, <1>2, <1>3, OwnerType, EngineType, LifecycleType, PassType DEF Next

\* Every state of the queue, its runs and its passes is a state of the right type:
\* saves, trims, moves and passes that wait across each other never mix up rows.
THEOREM TypeCorrect == Spec => []TypeOK
  BY TypeInit, TypeStep, PTL DEF Spec

-----------------------------------------------------------------------------
(* Claims.                                                                 *)

\* Rows keep their state, runs of items neither appear nor go, no pass takes on an
\* item, and the process neither comes up nor stops.
Quiet ==
    /\ DOMAIN items' = DOMAIN items
    /\ \A i \in DOMAIN items : items'[i].state = items[i].state
    /\ \A i \in Items : i \in DOMAIN runs' <=> i \in DOMAIN runs
    /\ \A p \in Projects :
          \/ pass'[p].pc = pass[p].pc /\ pass'[p].id = pass[p].id
          \/ /\ pass[p].pc \in {"none", "loop"}
             /\ \/ pass'[p].pc = "none"
                \/ pass'[p].pc = "loop" /\ mode = "up"
    /\ created' = created /\ lost' = lost /\ unsaved' = unsaved
    /\ reserved \subseteq reserved' /\ (reserved' \ reserved) \cap Items = {}
    /\ \/ mode' = mode
       \/ mode = "up" /\ mode' = "closing"
       \/ mode = "down" /\ mode' = "recovering"

LEMMA QuietKeeps ==
    ASSUME TypeOK, ClaimInvariant, Quiet PROVE ClaimInvariant'
  <1> DEFINE Att(q) == pass[q].pc \in Attempting
  <1>0. /\ DOMAIN items \subseteq Items
        /\ \A q \in Projects : pass[q].id \in Items
    BY TypeParts DEF ItemsOK, PassOK, PassRecord
  <1>1. \A q \in Projects : /\ pass'[q].pc \in Attempting <=> pass[q].pc \in Attempting
                            /\ pass[q].pc \in Attempting =>
                                  pass'[q].pc = pass[q].pc /\ pass'[q].id = pass[q].id
    BY DEF Quiet, Attempting
  <1>2. OnePassPerItem'
    BY <1>1 DEF ClaimInvariant, OnePassPerItem
  <1>3. AttemptsClaimed'
    <2>1. \A p \in Projects : pass'[p].pc \in Attempting =>
             pass'[p].id \in DOMAIN items' /\ items'[pass'[p].id].state = "starting"
      BY <1>1 DEF ClaimInvariant, AttemptsClaimed, Quiet
    <2>2. mode' \in {"down", "recovering"} => \A p \in Projects : pass'[p].pc = "none"
      BY DEF ClaimInvariant, AttemptsClaimed, Quiet
    <2> QED
      BY <2>1, <2>2 DEF AttemptsClaimed
  <1>4. CreatedCounts'
    <2>1. \A p \in Projects : pass'[p].pc = "provision" => created'[pass'[p].id] > 0
      BY <1>1 DEF ClaimInvariant, CreatedCounts, Quiet, Attempting
    <2> QED
      BY <2>1 DEF ClaimInvariant, CreatedCounts, Quiet
  <1>5. UnrecordedNeverRan'
    BY <1>0 DEF ClaimInvariant, UnrecordedNeverRan, Quiet
  <1>6. AtMostOneStart' /\ StartedHadRun' /\ RepeatableNeverRan'
    BY DEF ClaimInvariant, AtMostOneStart, StartedHadRun, RepeatableNeverRan, Quiet
  <1>7. ClaimHasNoRun'
    <2>1. InFlight' = InFlight
      BY <1>1 DEF InFlight
    <2>2. \A p \in Projects : pass'[p].pc \in {"authorize", "start"} =>
              pass'[p].id \in lost' \cup unsaved' \/ pass'[p].id \notin DOMAIN runs'
      BY <1>0, <1>1 DEF ClaimInvariant, ClaimHasNoRun, Quiet, Attempting
    <2> QED
      BY <1>0, <2>1, <2>2 DEF ClaimInvariant, ClaimHasNoRun, Quiet
  <1> QED
    BY <1>2, <1>3, <1>4, <1>5, <1>6, <1>7 DEF ClaimInvariant

LEMMA QuietOwner ==
    ASSUME TypeOK
    PROVE  /\ \A i, j \in Items : Move(i, j) => Quiet
           /\ \A p, q \in Projects : Rebind(p, q) \/ MoveProject(p, q) => Quiet
           /\ \A r \in RunIds : ReturnRun(r) => Quiet
           /\ \A d \in Direct, p \in Projects : StartDirect(d, p) => Quiet
  <1> USE DEF Quiet, project, memory, history, bounds
  <1>1. ASSUME NEW i \in Items, NEW j \in Items, Move(i, j) PROVE Quiet
    <2>1. items \in [DOMAIN items -> Row]
      BY TypeParts DEF ItemsOK
    <2>2. items' = [items EXCEPT ![i].position = items[j].position,
                                 ![j].position = items[i].position]
      BY <1>1 DEF Move
    <2>3. \A k \in DOMAIN items : items'[k].state = items[k].state
      BY <2>1, <2>2 DEF Row
    <2> QED
      BY <1>1, <2>2, <2>3 DEF Move
  <1>2. ASSUME NEW p \in Projects, NEW q \in Projects, Rebind(p, q) PROVE Quiet
    BY <1>2 DEF Rebind
  <1>3. ASSUME NEW p \in Projects, NEW q \in Projects, MoveProject(p, q) PROVE Quiet
    BY <1>3, MovedRows DEF MoveProject
  <1>4. ASSUME NEW r \in RunIds, ReturnRun(r) PROVE Quiet
    BY <1>4 DEF ReturnRun
  <1>5. ASSUME NEW d \in Direct, NEW p \in Projects, StartDirect(d, p) PROVE Quiet
    BY <1>5, RunQueueAssumption DEF StartDirect
  <1> QED
    BY <1>1, <1>2, <1>3, <1>4, <1>5

LEMMA QuietEngine ==
    ASSUME Engine PROVE Quiet
  BY DEF Engine, Provision, EndRun, TurnRun, Quiet, project, memory, history, bounds

LEMMA QuietLifecycle ==
    ASSUME NEW p \in Projects,
           Close \/ Boot \/ SetAuthorize \/ Restore(p) \/ Poll \/ Drain
    PROVE  Quiet
  BY DEF Close, Boot, SetAuthorize, Restore, Poll, Drain, Quiet, project, memory,
         history, bounds, tables

LEMMA QuietPass ==
    ASSUME TypeOK, NEW p \in Projects, BeginPass(p) \/ Finish(p)
    PROVE  Quiet
  <1> USE DEF Quiet, project, memory, history, bounds, tables
  <1>1. pass \in [Projects -> PassRecord] /\ Idle \in PassRecord /\ Idle.pc = "none"
    BY TypeParts, IdleType DEF PassOK, PassRecord, Idle
  <1>2. CASE BeginPass(p)
    <2> DEFINE next == [Idle EXCEPT !.pc = "loop", !.todo = InState(p, {"starting"})]
    <2>1. next.pc = "loop"
      BY <1>1 DEF PassRecord
    <2>2. pass' = [pass EXCEPT ![p] = next] /\ pass[p].pc = "none" /\ mode = "up"
      BY <1>2 DEF BeginPass, Due
    <2> HIDE DEF next
    <2>3. \A q \in Projects :
             \/ pass'[q].pc = pass[q].pc /\ pass'[q].id = pass[q].id
             \/ /\ pass[q].pc \in {"none", "loop"}
                /\ pass'[q].pc = "loop" /\ mode = "up"
      BY <1>1, <2>1, <2>2
    <2> QED
      BY <1>2, <2>3 DEF BeginPass
  <1>3. CASE Finish(p)
    <2>1. pass[p].pc = "loop" /\ EndPass(p)
      BY <1>3 DEF Finish
    <2>2. pass'[p].pc = "none" /\ \A q \in Projects : q # p => pass'[q] = pass[q]
      BY <2>1, PassMoves
    <2> QED
      BY <1>3, <2>1, <2>2 DEF Finish
  <1> QED
    BY <1>2, <1>3

-----------------------------------------------------------------------------
(* The steps that record, claim, create or stop.                           *)

\* No pass attempts item i any more; the attempts of other items go on.
Released(i) ==
    /\ \A q \in Projects : pass'[q].pc \in Attempting =>
          /\ pass'[q].id # i
          /\ pass'[q].pc = pass[q].pc /\ pass'[q].id = pass[q].id
    /\ \A q \in Projects : pass[q].pc \in Attempting /\ pass[q].id # i =>
          pass'[q].pc = pass[q].pc /\ pass'[q].id = pass[q].id
    /\ mode \in {"down", "recovering"} => \A q \in Projects : pass'[q].pc = "none"

LEMMA ReleasedInFlight ==
    ASSUME NEW i, Released(i)
    PROVE  \A j : j # i => (j \in InFlight' <=> j \in InFlight)
  BY DEF Released, InFlight

\* A start is recorded, by its pass, by another one or by the start-up.
LEMMA StartedKeeps ==
    ASSUME TypeOK, ClaimInvariant, NEW i \in DOMAIN items, NEW claimed \in Row,
           Started(i, claimed), items[i].state = "starting", created[i] > 0,
           Released(i), UNCHANGED <<runs, created, lost, unsaved, reserved, mode>>
    PROVE  ClaimInvariant'
  <1>0. /\ DOMAIN items \subseteq Items
        /\ \A q \in Projects : pass[q].id \in Items
    BY TypeParts DEF ItemsOK, PassOK, PassRecord
  <1>1. /\ DOMAIN items' \subseteq DOMAIN items
        /\ \A j \in DOMAIN items' : j # i => items'[j] = items[j]
        /\ i \in DOMAIN items' => items'[i].state = "started"
        /\ \A j \in DOMAIN items \ DOMAIN items' :
              j = i \/ items[j].state = "started"
    BY StartedRows
  <1>2. OnePassPerItem'
    BY DEF ClaimInvariant, OnePassPerItem, Released
  <1>3. AttemptsClaimed'
    BY <1>1 DEF ClaimInvariant, AttemptsClaimed, Released
  <1>4. CreatedCounts'
    BY <1>1 DEF ClaimInvariant, CreatedCounts, Released, Attempting
  <1>5. UnrecordedNeverRan'
    BY <1>1 DEF ClaimInvariant, UnrecordedNeverRan
  <1>6. AtMostOneStart'
    BY DEF ClaimInvariant, AtMostOneStart
  <1>7. StartedHadRun' /\ RepeatableNeverRan'
    BY <1>1 DEF ClaimInvariant, StartedHadRun, RepeatableNeverRan
  <1>8. ClaimHasNoRun'
    BY <1>0, <1>1, ReleasedInFlight
       DEF ClaimInvariant, ClaimHasNoRun, Released, Attempting
  <1> QED
    BY <1>2, <1>3, <1>4, <1>5, <1>6, <1>7, <1>8 DEF ClaimInvariant

\* A start is recorded as failed, of an item that never had a run.
LEMMA FailedKeeps ==
    ASSUME TypeOK, ClaimInvariant, NEW i \in DOMAIN items, NEW claimed \in Row,
           Fail(i, claimed), items[i].state = "starting",
           i \in lost \cup unsaved \/ i \notin DOMAIN runs,
           Released(i), UNCHANGED <<runs, created, lost, unsaved, reserved, mode>>
    PROVE  ClaimInvariant'
  <1>0. /\ DOMAIN items \subseteq Items
        /\ \A q \in Projects : pass[q].id \in Items
    BY TypeParts DEF ItemsOK, PassOK, PassRecord
  <1>1. /\ DOMAIN items' = DOMAIN items
        /\ \A j \in DOMAIN items : j # i => items'[j] = items[j]
        /\ items'[i].state = "failed"
    BY FailedRows
  <1>2. OnePassPerItem'
    BY DEF ClaimInvariant, OnePassPerItem, Released
  <1>3. AttemptsClaimed'
    BY <1>1 DEF ClaimInvariant, AttemptsClaimed, Released
  <1>4. CreatedCounts'
    BY <1>1 DEF ClaimInvariant, CreatedCounts, Released, Attempting
  <1>5. UnrecordedNeverRan'
    BY <1>1 DEF ClaimInvariant, UnrecordedNeverRan
  <1>6. AtMostOneStart'
    BY DEF ClaimInvariant, AtMostOneStart
  <1>7. StartedHadRun' /\ RepeatableNeverRan'
    BY <1>1 DEF ClaimInvariant, StartedHadRun, RepeatableNeverRan,
                UnrecordedNeverRan
  <1>8. ClaimHasNoRun'
    BY <1>0, <1>1, ReleasedInFlight
       DEF ClaimInvariant, ClaimHasNoRun, Released, Attempting
  <1> QED
    BY <1>2, <1>3, <1>4, <1>5, <1>6, <1>7, <1>8 DEF ClaimInvariant

\* A claim is left as it is by a shutdown, or by a write that failed.
LEMMA LeftKeeps ==
    ASSUME TypeOK, ClaimInvariant, NEW i \in DOMAIN items, Released(i),
           UNCHANGED <<items, runs, created, lost, reserved, mode>>,
           \/ mode = "closing" /\ unsaved' = unsaved
           \/ unsaved' = unsaved \cup {i}
    PROVE  ClaimInvariant'
  <1>0. /\ DOMAIN items \subseteq Items
        /\ \A q \in Projects : pass[q].id \in Items
    BY TypeParts DEF ItemsOK, PassOK, PassRecord
  <1>1. OnePassPerItem' /\ AttemptsClaimed' /\ CreatedCounts'
    BY DEF ClaimInvariant, OnePassPerItem, AttemptsClaimed, CreatedCounts, Released,
           Attempting
  <1>2. UnrecordedNeverRan' /\ AtMostOneStart' /\ StartedHadRun'
    BY DEF ClaimInvariant, UnrecordedNeverRan, AtMostOneStart, StartedHadRun
  <1>3. RepeatableNeverRan'
    BY DEF ClaimInvariant, RepeatableNeverRan
  <1>4. ClaimHasNoRun'
    BY <1>0, ReleasedInFlight
       DEF ClaimInvariant, ClaimHasNoRun, Released, Attempting
  <1> QED
    BY <1>1, <1>2, <1>3, <1>4 DEF ClaimInvariant

\* A waiting or interrupted row is claimed by one pass: it goes in flight.
LEMMA LaunchKeeps ==
    ASSUME TypeOK, ClaimInvariant, NEW p \in Projects, NEW i \in DOMAIN items,
           NEW row \in Row, Launch(p, i, row), pass[p].pc = "loop", mode = "up",
           DOMAIN items' = DOMAIN items, items'[i].state = "starting",
           \A j \in DOMAIN items : j # i => items'[j] = items[j],
           items[i].state \in {"queued", "starting"}, i \notin InFlight,
           i \in lost \cup unsaved \/ i \notin DOMAIN runs,
           UNCHANGED <<runs, created, lost, unsaved, reserved, mode>>
    PROVE  ClaimInvariant'
  <1>0. /\ DOMAIN items \subseteq Items
        /\ \A q \in Projects : pass[q].id \in Items
    BY TypeParts DEF ItemsOK, PassOK, PassRecord
  <1>1. /\ pass'[p].pc \in {"authorize", "start"} /\ pass'[p].id = i
        /\ \A q \in Projects : q # p => pass'[q] = pass[q]
    BY <1>0, PassMoves
  <1>2. InFlight' = InFlight \cup {i}
    BY <1>1 DEF InFlight, Attempting
  <1>3. OnePassPerItem'
    BY <1>1 DEF ClaimInvariant, OnePassPerItem, InFlight
  <1>4. AttemptsClaimed'
    BY <1>1 DEF ClaimInvariant, AttemptsClaimed, InFlight
  <1>5. CreatedCounts'
    BY <1>1 DEF ClaimInvariant, CreatedCounts
  <1>6. UnrecordedNeverRan' /\ AtMostOneStart' /\ StartedHadRun' /\ RepeatableNeverRan'
    BY DEF ClaimInvariant, UnrecordedNeverRan, AtMostOneStart, StartedHadRun,
           RepeatableNeverRan
  <1>7. ClaimHasNoRun'
    BY <1>0, <1>1, <1>2 DEF ClaimInvariant, ClaimHasNoRun
  <1> QED
    BY <1>3, <1>4, <1>5, <1>6, <1>7 DEF ClaimInvariant

\* The catch of attempt() and the return of a start leave the pass without an item.
LEMMA NextItemReleases ==
    ASSUME TypeOK, ClaimInvariant, NEW p \in Projects, pass[p].pc \in Attempting,
           NextItem(p) \/ EndPass(p)
    PROVE  /\ pass[p].id \in DOMAIN items /\ pass[p].claimed \in Row
           /\ items[pass[p].id].state = "starting"
           /\ Released(pass[p].id)
  <1>1. /\ pass'[p].pc \in {"loop", "none"}
        /\ \A q \in Projects : q # p => pass'[q] = pass[q]
    BY PassMoves
  <1>2. pass[p].claimed \in Row
    BY TypeParts DEF PassOK, PassRecord
  <1>3. mode \notin {"down", "recovering"}
    BY DEF ClaimInvariant, AttemptsClaimed, Attempting
  <1> QED
    BY <1>1, <1>2, <1>3
       DEF ClaimInvariant, AttemptsClaimed, OnePassPerItem, Released, Attempting

LEMMA StartFailedKeeps ==
    ASSUME TypeOK, ClaimInvariant, NEW p \in Projects, pass[p].pc \in Attempting,
           StartFailed(p), UNCHANGED <<runs, created, lost, unsaved, reserved, mode>>
    PROVE  ClaimInvariant'
  <1>1. /\ pass[p].id \in DOMAIN items /\ pass[p].claimed \in Row
        /\ items[pass[p].id].state = "starting"
        /\ Released(pass[p].id)
    BY NextItemReleases DEF StartFailed
  <1>2. CASE mode = "closing" /\ UNCHANGED <<items, clock>>
    BY <1>1, <1>2, LeftKeeps
  <1>3. CASE ~RunExists(pass[p].id) /\ Fail(pass[p].id, pass[p].claimed)
    BY <1>1, <1>3, FailedKeeps DEF RunExists
  <1>4. CASE RunExists(pass[p].id) /\ Started(pass[p].id, pass[p].claimed)
    <2>1. created[pass[p].id] > 0
      BY <1>1, <1>4, TypeParts DEF ClaimInvariant, CreatedCounts, RunExists, ItemsOK
    <2> QED
      BY <1>1, <1>4, <2>1, StartedKeeps
  <1> QED
    BY <1>2, <1>3, <1>4 DEF StartFailed

LEMMA PassKeeps ==
    ASSUME TypeOK, ClaimInvariant, NEW p \in Projects, PassStep(p) \/ SaveFailed(p)
    PROVE  ClaimInvariant'
  <1>0. /\ DOMAIN items \subseteq Items /\ items \in [DOMAIN items -> Row]
        /\ pass \in [Projects -> PassRecord]
        /\ \A q \in Projects : pass[q].id \in Items
        /\ created \in [Items -> Nat]
    BY TypeParts DEF ItemsOK, PassOK, PassRecord, RestOK
  <1>1. CASE BeginPass(p) \/ Finish(p)
    BY <1>1, QuietPass, QuietKeeps
  <1>2. CASE Orphaned(p)
    <2>1. CASE rebound[p] \in registered
      <3>1. rebound[p] \in Projects
        BY <2>1, TypeParts DEF RestOK
      <3>2. /\ DOMAIN items' = DOMAIN items
            /\ \A i \in DOMAIN items : items'[i].state = items[i].state
        BY <1>2, <2>1, <3>1, MovedRows DEF Orphaned
      <3>3. Quiet
        BY <1>2, <3>2 DEF Orphaned, Quiet, history
      <3> QED
        BY <3>3, QuietKeeps
    <2>2. CASE rebound[p] \notin registered
      <3> DEFINE gone == InState(p, {"queued"})
                         \cup (InState(p, {"starting"}) \ InFlight)
      <3>1. /\ items' = [i \in DOMAIN items |->
                   IF i \in gone THEN [items[i] EXCEPT !.state = "failed"]
                   ELSE items[i]]
            /\ UNCHANGED <<runs, mode, pass, history>> /\ mode = "up"
        BY <1>2, <2>2 DEF Orphaned, Due
      <3>2. \A i \in gone : /\ i \in DOMAIN items
                            /\ items[i].state \in {"queued", "starting"}
                            /\ items[i].state = "starting" => i \notin InFlight
        BY DEF InState, List
      <3> HIDE DEF gone
      <3>3. /\ DOMAIN items' = DOMAIN items
            /\ \A i \in gone : items'[i].state = "failed"
            /\ \A i \in DOMAIN items \ gone : items'[i] = items[i]
        BY <1>0, <3>1, <3>2 DEF Row
      <3>4. InFlight' = InFlight
        BY <3>1 DEF InFlight
      <3>5. OnePassPerItem' /\ AtMostOneStart'
        BY <3>1 DEF ClaimInvariant, OnePassPerItem, AtMostOneStart, history
      <3>6. AttemptsClaimed'
        BY <3>1, <3>2, <3>3 DEF ClaimInvariant, AttemptsClaimed, InFlight, Attempting
      <3>7. CreatedCounts'
        BY <3>1, <3>3 DEF ClaimInvariant, CreatedCounts, history
      <3>8. UnrecordedNeverRan' /\ StartedHadRun'
        BY <3>1, <3>2, <3>3
           DEF ClaimInvariant, UnrecordedNeverRan, StartedHadRun, history
      <3>9. ClaimHasNoRun'
        BY <3>1, <3>3, <3>4 DEF ClaimInvariant, ClaimHasNoRun, history
      <3>10. RepeatableNeverRan'
        BY <1>0, <3>1, <3>2, <3>3
           DEF ClaimInvariant, RepeatableNeverRan, UnrecordedNeverRan,
               ClaimHasNoRun, history
      <3> QED
        BY <3>5, <3>6, <3>7, <3>8, <3>9, <3>10 DEF ClaimInvariant
    <2> QED
      BY <2>1, <2>2
  <1>3. ASSUME NEW i \in Items, Resume(p, i) PROVE ClaimInvariant'
    <2>1. CASE /\ Resumable(p, i) /\ RunExists(i) /\ Started(i, items[i])
               /\ pass' = [pass EXCEPT ![p].todo = @ \ {i}]
      <3>1. i \in DOMAIN items /\ items[i].state = "starting" /\ items[i] \in Row
        BY <1>0, <2>1 DEF Resumable
      <3>2. \A q \in Projects : pass'[q].pc = pass[q].pc /\ pass'[q].id = pass[q].id
        BY <1>0, <2>1 DEF PassRecord
      <3>3. Released(i)
        <4>1. \A q \in Projects : pass[q].pc \in Attempting => pass[q].id # i
          BY <2>1 DEF Resumable, InFlight
        <4>2. mode = "up"
          BY <1>3 DEF Resume
        <4> QED
          BY <3>2, <4>1, <4>2 DEF Released
      <3>4. created[i] > 0
        <4>1. i \in DOMAIN runs
          BY <2>1 DEF RunExists
        <4> QED
          BY <4>1 DEF ClaimInvariant, CreatedCounts
      <3> QED
        BY <1>3, <2>1, <3>1, <3>3, <3>4, StartedKeeps DEF Resume, project
    <2>2. CASE /\ Resumable(p, i) /\ ~RunExists(i) /\ Launch(p, i, items[i])
               /\ UNCHANGED <<items, clock>>
      <3>1. /\ i \in DOMAIN items /\ items[i].state = "starting" /\ items[i] \in Row
            /\ i \notin InFlight /\ i \notin DOMAIN runs
        BY <1>0, <2>2 DEF Resumable, RunExists
      <3> QED
        BY <1>3, <2>2, <3>1, LaunchKeeps DEF Resume
    <2>3. CASE /\ pass' = [pass EXCEPT ![p].todo = @ \ {i}]
               /\ UNCHANGED <<items, clock>>
      <3>1. \A q \in Projects : pass'[q].pc = pass[q].pc /\ pass'[q].id = pass[q].id
        BY <1>0, <2>3 DEF PassRecord
      <3>2. Quiet
        BY <1>3, <2>3, <3>1 DEF Resume, Quiet, project
      <3> QED
        BY <3>2, QuietKeeps
    <2> QED
      BY <1>3, <2>1, <2>2, <2>3 DEF Resume
  <1>4. ASSUME NEW i \in Items, Claim(p, i) PROVE ClaimInvariant'
    <2> DEFINE row == [items[i] EXCEPT !.state = "starting"]
    <2>1. i \in DOMAIN items /\ items[i].state = "queued"
      BY <1>4 DEF Claim, NextToStart, InState, List
    <2>2. row \in Row /\ row.state = "starting"
      BY <1>0, <2>1 DEF Row, States
    <2>3. /\ items' = Save(items, i, row) /\ Launch(p, i, row)
          /\ pass[p].pc = "loop" /\ mode = "up"
          /\ UNCHANGED <<runs, created, lost, unsaved, reserved, mode>>
      BY <1>4 DEF Claim, history
    <2> HIDE DEF row
    <2>4. /\ DOMAIN items' = DOMAIN items /\ items'[i].state = "starting"
          /\ \A j \in DOMAIN items : j # i => items'[j] = items[j]
      BY <1>0, <2>1, <2>2, <2>3, SaveRow
    <2>5. i \notin InFlight
      BY <2>1 DEF ClaimInvariant, AttemptsClaimed, InFlight
    <2>6. i \in lost \cup unsaved \/ i \notin DOMAIN runs
      BY <2>1 DEF ClaimInvariant, RepeatableNeverRan, CreatedCounts
    <2> QED
      BY <2>1, <2>2, <2>3, <2>4, <2>5, <2>6, LaunchKeeps
  <1>5. CASE Authorize(p)
    <2>1. CASE pass' = [pass EXCEPT ![p].pc = "start"] /\ UNCHANGED <<items, clock>>
      <3>1. /\ pass[p].pc = "authorize"
            /\ UNCHANGED <<runs, created, lost, unsaved, reserved, mode>>
        BY <1>5 DEF Authorize
      <3>2. /\ pass'[p].pc = "start" /\ \A q \in Projects : pass'[q].id = pass[q].id
            /\ \A q \in Projects : q # p => pass'[q].pc = pass[q].pc
        BY <1>0, <2>1 DEF PassRecord
      <3>3. InFlight' = InFlight
        BY <3>1, <3>2 DEF InFlight, Attempting
      <3>4. OnePassPerItem' /\ AttemptsClaimed' /\ CreatedCounts' /\ ClaimHasNoRun'
        BY <2>1, <3>1, <3>2, <3>3
           DEF ClaimInvariant, OnePassPerItem, AttemptsClaimed, CreatedCounts,
               ClaimHasNoRun, Attempting
      <3>5. UnrecordedNeverRan' /\ AtMostOneStart' /\ StartedHadRun' /\ RepeatableNeverRan'
        BY <2>1, <3>1 DEF ClaimInvariant, UnrecordedNeverRan, AtMostOneStart,
                          StartedHadRun, RepeatableNeverRan
      <3> QED
        BY <3>4, <3>5 DEF ClaimInvariant
    <2>2. CASE Fail(pass[p].id, pass[p].claimed) /\ NextItem(p)
      <3>1. pass[p].pc = "authorize"
        BY <1>5 DEF Authorize
      <3>2. pass[p].id \in lost \cup unsaved \/ pass[p].id \notin DOMAIN runs
        BY <3>1 DEF ClaimInvariant, ClaimHasNoRun
      <3>3. /\ pass[p].id \in DOMAIN items /\ pass[p].claimed \in Row
            /\ items[pass[p].id].state = "starting"
            /\ Released(pass[p].id)
        BY <2>2, <3>1, NextItemReleases DEF Attempting
      <3> QED
        BY <1>5, <2>2, <3>2, <3>3, FailedKeeps DEF Authorize
    <2>3. CASE StartFailed(p)
      BY <1>5, <2>3, StartFailedKeeps DEF Authorize, Attempting
    <2> QED
      BY <1>5, <2>1, <2>2, <2>3 DEF Authorize
  <1>6. CASE CreateRun(p)
    <2> DEFINE i == pass[p].id
    <2>1. /\ pass[p].pc = "start" /\ i \notin DOMAIN runs
          /\ DOMAIN runs' = DOMAIN runs \cup {i}
          /\ created' = [created EXCEPT ![i] = @ + 1]
          /\ UNCHANGED <<items, lost, unsaved, reserved, mode>>
      BY <1>6 DEF CreateRun, RunExists
    <2>2. /\ pass'[p].pc = "provision" /\ \A q \in Projects : pass'[q].id = pass[q].id
          /\ \A q \in Projects : q # p => pass'[q].pc = pass[q].pc
      BY <1>0, <1>6 DEF CreateRun, PassRecord
    <2>3. i \in Items /\ i \in DOMAIN items /\ items[i].state = "starting"
      BY <1>0, <2>1 DEF ClaimInvariant, AttemptsClaimed, Attempting
    <2>4. created[i] = 0 \/ i \in lost
      BY <2>1, <2>3 DEF ClaimInvariant, UnrecordedNeverRan
    <2>5. /\ created'[i] = created[i] + 1
          /\ \A j \in Items : j # i => created'[j] = created[j]
      BY <1>0, <2>1, <2>3
    <2>6. InFlight' = InFlight
      BY <2>1, <2>2 DEF InFlight, Attempting
    <2>7. \A q \in Projects : q # p /\ pass[q].pc \in Attempting => pass[q].id # i
      BY <2>1 DEF ClaimInvariant, OnePassPerItem, Attempting
    <2>8. i \in InFlight
      BY <2>1 DEF InFlight, Attempting
    <2> HIDE DEF i
    <2>9. OnePassPerItem' /\ AttemptsClaimed'
      BY <2>1, <2>2, <2>7 DEF ClaimInvariant, OnePassPerItem, AttemptsClaimed,
                              Attempting
    <2>10. CreatedCounts'
      <3>1. \A q \in Projects : pass'[q].pc = "provision" => created'[pass'[q].id] > 0
        BY <1>0, <2>2, <2>3, <2>5 DEF ClaimInvariant, CreatedCounts, i
      <3> QED
        BY <1>0, <2>1, <2>3, <2>5, <3>1 DEF ClaimInvariant, CreatedCounts
    <2>11. UnrecordedNeverRan' /\ RepeatableNeverRan' /\ AtMostOneStart'
      BY <1>0, <2>1, <2>3, <2>4, <2>5
         DEF ClaimInvariant, UnrecordedNeverRan, RepeatableNeverRan, AtMostOneStart
    <2>12. StartedHadRun'
      BY <1>0, <2>1, <2>3, <2>5 DEF ClaimInvariant, StartedHadRun
    <2>13. ClaimHasNoRun'
      BY <2>1, <2>2, <2>6, <2>7, <2>8
         DEF ClaimInvariant, ClaimHasNoRun, Attempting
    <2> QED
      BY <2>9, <2>10, <2>11, <2>12, <2>13 DEF ClaimInvariant
  <1>7. CASE RefuseStart(p) \/ StartBroke(p)
    BY <1>7, StartFailedKeeps DEF RefuseStart, StartBroke, Attempting
  <1>8. CASE StartReturned(p)
    <2>1. /\ pass[p].id \in DOMAIN items /\ pass[p].claimed \in Row
          /\ items[pass[p].id].state = "starting"
          /\ Released(pass[p].id) /\ Started(pass[p].id, pass[p].claimed)
      BY <1>8, NextItemReleases DEF StartReturned, Attempting
    <2>2. created[pass[p].id] > 0
      BY <1>8 DEF StartReturned, ClaimInvariant, CreatedCounts
    <2> QED
      BY <1>8, <2>1, <2>2, StartedKeeps DEF StartReturned
  <1>9. CASE SaveFailed(p)
    <2>1. pass[p].id \in DOMAIN items /\ Released(pass[p].id)
      BY <1>9, NextItemReleases DEF SaveFailed, Attempting
    <2> QED
      BY <1>9, <2>1, LeftKeeps DEF SaveFailed, tables
  <1> QED
    BY <1>1, <1>2, <1>3, <1>4, <1>5, <1>6, <1>7, <1>8, <1>9 DEF PassStep

LEMMA OwnerKeeps ==
    ASSUME TypeOK, ClaimInvariant, Owner PROVE ClaimInvariant'
  <1>0. /\ DOMAIN items \subseteq Items /\ items \in [DOMAIN items -> Row]
        /\ \A q \in Projects : pass[q].id \in Items
    BY TypeParts DEF ItemsOK, PassOK, PassRecord
  <1>1. ASSUME NEW p \in Projects, NEW i \in Items, Add(p, i) PROVE ClaimInvariant'
    <2>1. /\ i \notin reserved /\ reserved' = reserved \cup {i}
          /\ DOMAIN items' = DOMAIN items \cup {i} /\ items'[i].state = "queued"
          /\ \A j \in DOMAIN items : j # i => items'[j] = items[j]
          /\ UNCHANGED <<runs, mode, pass, created, lost, unsaved>>
      BY <1>1 DEF Add
    <2>2. i \notin DOMAIN items /\ created[i] = 0
      BY <2>1 DEF ClaimInvariant, CreatedCounts
    <2>3. InFlight' = InFlight
      BY <2>1 DEF InFlight
    <2>4. OnePassPerItem' /\ AttemptsClaimed' /\ AtMostOneStart'
      BY <2>1, <2>2 DEF ClaimInvariant, OnePassPerItem, AttemptsClaimed, AtMostOneStart
    <2>5. CreatedCounts'
      BY <2>1 DEF ClaimInvariant, CreatedCounts
    <2>6. UnrecordedNeverRan' /\ StartedHadRun' /\ RepeatableNeverRan'
      BY <2>1, <2>2 DEF ClaimInvariant, UnrecordedNeverRan, StartedHadRun,
                        RepeatableNeverRan
    <2>7. ClaimHasNoRun'
      BY <2>1, <2>2, <2>3 DEF ClaimInvariant, ClaimHasNoRun
    <2> QED
      BY <2>4, <2>5, <2>6, <2>7 DEF ClaimInvariant
  <1>2. ASSUME NEW i \in Items, Remove(i) PROVE ClaimInvariant'
    <2>1. /\ items[i].state # "starting"
          /\ DOMAIN items' = DOMAIN items \ {i}
          /\ \A j \in DOMAIN items' : items'[j] = items[j]
          /\ UNCHANGED <<runs, mode, pass, created, lost, unsaved, reserved>>
      BY <1>2 DEF Remove, history
    <2>2. InFlight' = InFlight
      BY <2>1 DEF InFlight
    <2>3. OnePassPerItem' /\ AttemptsClaimed' /\ CreatedCounts'
      BY <2>1 DEF ClaimInvariant, OnePassPerItem, AttemptsClaimed, CreatedCounts
    <2>4. UnrecordedNeverRan' /\ AtMostOneStart' /\ StartedHadRun' /\ RepeatableNeverRan'
      BY <2>1 DEF ClaimInvariant, UnrecordedNeverRan, AtMostOneStart, StartedHadRun,
                  RepeatableNeverRan
    <2>5. ClaimHasNoRun'
      BY <2>1, <2>2 DEF ClaimInvariant, ClaimHasNoRun
    <2> QED
      BY <2>3, <2>4, <2>5 DEF ClaimInvariant
  <1>3. ASSUME NEW i \in Items, Retry(i) PROVE ClaimInvariant'
    <2> DEFINE row == [items[i] EXCEPT !.state = "queued"]
    <2>1. /\ i \in DOMAIN items /\ items[i].state = "failed"
          /\ items' = Save(items, i, row)
          /\ UNCHANGED <<runs, mode, pass, created, lost, unsaved, reserved>>
      BY <1>3 DEF Retry, history
    <2>2. row \in Row /\ row.state = "queued"
      BY <1>0, <2>1 DEF Row, States
    <2> HIDE DEF row
    <2>3. /\ DOMAIN items' = DOMAIN items /\ items'[i].state = "queued"
          /\ \A j \in DOMAIN items : j # i => items'[j] = items[j]
      BY <1>0, <2>1, <2>2, SaveRow
    <2>4. InFlight' = InFlight
      BY <2>1 DEF InFlight
    <2>5. OnePassPerItem' /\ AttemptsClaimed' /\ CreatedCounts'
      BY <2>1, <2>3 DEF ClaimInvariant, OnePassPerItem, AttemptsClaimed, CreatedCounts
    <2>6. UnrecordedNeverRan' /\ AtMostOneStart' /\ StartedHadRun' /\ RepeatableNeverRan'
      BY <2>1, <2>3 DEF ClaimInvariant, UnrecordedNeverRan, AtMostOneStart,
                        StartedHadRun, RepeatableNeverRan
    <2>7. ClaimHasNoRun'
      BY <2>1, <2>3, <2>4 DEF ClaimInvariant, ClaimHasNoRun
    <2> QED
      BY <2>5, <2>6, <2>7 DEF ClaimInvariant
  <1>4. ASSUME NEW r \in RunIds, DeleteRun(r) PROVE ClaimInvariant'
    <2>1. /\ DOMAIN runs' = DOMAIN runs \ {r}
          /\ lost' = lost \cup {i \in DOMAIN items : i = r /\ items[i].state # "started"}
          /\ UNCHANGED <<items, mode, pass, created, unsaved, reserved>>
      BY <1>4 DEF DeleteRun, memory
    <2>2. InFlight' = InFlight
      BY <2>1 DEF InFlight
    <2>3. OnePassPerItem' /\ AttemptsClaimed' /\ CreatedCounts'
      BY <2>1 DEF ClaimInvariant, OnePassPerItem, AttemptsClaimed, CreatedCounts
    <2>4. UnrecordedNeverRan' /\ AtMostOneStart' /\ StartedHadRun' /\ RepeatableNeverRan'
      BY <2>1 DEF ClaimInvariant, UnrecordedNeverRan, AtMostOneStart, StartedHadRun,
                  RepeatableNeverRan
    <2>5. ClaimHasNoRun'
      BY <2>1, <2>2 DEF ClaimInvariant, ClaimHasNoRun
    <2> QED
      BY <2>3, <2>4, <2>5 DEF ClaimInvariant
  <1> QED
    BY <1>1, <1>2, <1>3, <1>4, QuietOwner, QuietKeeps DEF Owner

LEMMA LifecycleKeeps ==
    ASSUME TypeOK, ClaimInvariant, Lifecycle PROVE ClaimInvariant'
  <1>0. /\ DOMAIN items \subseteq Items /\ items \in [DOMAIN items -> Row]
        /\ \A q \in Projects : pass[q].id \in Items
    BY TypeParts DEF ItemsOK, PassOK, PassRecord
  <1>1. CASE Closed \/ Crash
    <2>1. /\ mode' = "down" /\ \A p \in Projects : pass'[p].pc = "none"
          /\ UNCHANGED <<items, runs, created, lost, unsaved, reserved>>
      BY <1>1 DEF Closed, Crash, Stop, Idle, tables, history
    <2>2. OnePassPerItem' /\ AttemptsClaimed' /\ CreatedCounts' /\ ClaimHasNoRun'
      BY <2>1 DEF ClaimInvariant, OnePassPerItem, AttemptsClaimed, CreatedCounts,
                  ClaimHasNoRun, Attempting
    <2>3. UnrecordedNeverRan' /\ AtMostOneStart' /\ StartedHadRun' /\ RepeatableNeverRan'
      BY <2>1 DEF ClaimInvariant, UnrecordedNeverRan, AtMostOneStart, StartedHadRun,
                  RepeatableNeverRan
    <2> QED
      BY <2>2, <2>3 DEF ClaimInvariant
  <1>2. CASE Recovered
    <2>1. /\ mode' = "up" /\ UNCHANGED <<items, runs, pass, created, lost, unsaved, reserved>>
          /\ \A i \in DOMAIN items : items[i].state = "starting" => i \notin DOMAIN runs
      BY <1>2 DEF Recovered, RunExists, tables, history
    <2>2. OnePassPerItem' /\ AttemptsClaimed' /\ CreatedCounts' /\ ClaimHasNoRun'
      BY <2>1 DEF ClaimInvariant, OnePassPerItem, AttemptsClaimed, CreatedCounts,
                  ClaimHasNoRun
    <2>3. UnrecordedNeverRan' /\ AtMostOneStart' /\ StartedHadRun' /\ RepeatableNeverRan'
      BY <2>1 DEF ClaimInvariant, UnrecordedNeverRan, AtMostOneStart, StartedHadRun,
                  RepeatableNeverRan
    <2> QED
      BY <2>2, <2>3 DEF ClaimInvariant
  <1>3. ASSUME NEW i \in Items, Recover(i) PROVE ClaimInvariant'
    <2>1. /\ i \in DOMAIN items /\ items[i].state = "starting" /\ i \in DOMAIN runs
          /\ items[i] \in Row /\ mode = "recovering" /\ Started(i, items[i])
          /\ UNCHANGED <<runs, pass, created, lost, unsaved, reserved, mode>>
      BY <1>0, <1>3 DEF Recover, RunExists, memory
    <2>2. Released(i)
      BY <2>1 DEF Released, ClaimInvariant, AttemptsClaimed, Attempting
    <2>3. created[i] > 0
      BY <2>1 DEF ClaimInvariant, CreatedCounts
    <2> QED
      BY <2>1, <2>2, <2>3, StartedKeeps
  <1>4. CASE Close \/ Boot \/ SetAuthorize \/ \E p \in Projects : Restore(p)
    BY <1>4, RunQueueAssumption, QuietLifecycle, QuietKeeps
  <1> QED
    BY <1>1, <1>2, <1>3, <1>4 DEF Lifecycle

LEMMA ClaimInit == Init => ClaimInvariant
  <1> SUFFICES ASSUME Init PROVE ClaimInvariant
    OBVIOUS
  <1>1. /\ DOMAIN items = {} /\ DOMAIN runs = {} /\ created = [i \in Items |-> 0]
        /\ \A p \in Projects : pass[p].pc = "none"
        /\ mode = "recovering"
    BY DEF Init, Idle
  <1> QED
    BY <1>1 DEF ClaimInvariant, OnePassPerItem, AttemptsClaimed, CreatedCounts,
                UnrecordedNeverRan, AtMostOneStart, StartedHadRun, ClaimHasNoRun,
                RepeatableNeverRan, Attempting

LEMMA ClaimStep ==
    ASSUME TypeOK, ClaimInvariant, [Next]_vars PROVE ClaimInvariant'
  <1>1. CASE UNCHANGED vars
    <2>1. Quiet
      BY <1>1 DEF Quiet, vars, memory, history
    <2> QED
      BY <2>1, QuietKeeps
  <1>2. CASE Poll \/ Drain
    BY <1>2, RunQueueAssumption, QuietLifecycle, QuietKeeps
  <1> QED
    BY <1>1, <1>2, OwnerKeeps, QuietEngine, QuietKeeps, LifecycleKeeps, PassKeeps
       DEF Next

LEMMA ClaimInductive == Spec => [](TypeOK /\ ClaimInvariant)
  <1>1. TypeOK /\ ClaimInvariant /\ [Next]_vars => (TypeOK /\ ClaimInvariant)'
    BY TypeStep, ClaimStep
  <1> QED
    BY <1>1, TypeInit, ClaimInit, PTL DEF Spec

-----------------------------------------------------------------------------
(* The results.                                                            *)

\* For all limits, moves, restarts and failed writes, two passes never start the same
\* item (run-queue.js: passes, inFlight, resume).
THEOREM NoDoublePass == Spec => []OnePassPerItem
  BY ClaimInductive, PTL DEF ClaimInvariant

\* An item gets a second run only after the owner deleted the first one unrecorded
\* (run-queue.js attempt, recover, resume; engine.start's reserved id).
THEOREM StartsAtMostOnce == Spec => []AtMostOneStart
  BY ClaimInductive, PTL DEF ClaimInvariant

\* What may be started again never had a run, so a retry repeats nothing.
THEOREM RetriesRepeatNothing == Spec => []RepeatableNeverRan
  BY ClaimInductive, PTL DEF ClaimInvariant

\* What the list shows as started did start.
THEOREM StartedIsTrue == Spec => []StartedHadRun
  BY ClaimInductive, PTL DEF ClaimInvariant

\* Every run of the queue is created while its row stands as claimed.
THEOREM CreatesOnlyClaims == Spec => CreatedOnlyForClaim
  <1>1. ASSUME TypeOK, ClaimInvariant, [Next]_vars
        PROVE  [\A i \in Items : created'[i] # created[i] =>
                   i \in DOMAIN items /\ items[i].state = "starting"]_vars
    <2>1. ASSUME NEW p \in Projects, CreateRun(p), NEW i \in Items, created'[i] # created[i]
          PROVE  i \in DOMAIN items /\ items[i].state = "starting"
      <3>1. pass[p].pc = "start" /\ i = pass[p].id
        BY <1>1, <2>1, TypeParts DEF CreateRun, RestOK
      <3> QED
        BY <1>1, <3>1 DEF ClaimInvariant, AttemptsClaimed, Attempting
    <2>2. CASE UNCHANGED created
      BY <2>2
    <2>3. (\E p \in Projects : CreateRun(p)) \/ UNCHANGED created
      <3> USE DEF history
      <3>1. Owner => UNCHANGED created
        BY DEF Owner, Add, Remove, Retry, Move, Rebind, MoveProject, ReturnRun,
               DeleteRun, StartDirect
      <3>2. Engine \/ Poll \/ Drain \/ UNCHANGED vars => UNCHANGED created
        BY DEF Engine, Provision, EndRun, TurnRun, Poll, Drain, vars
      <3>3. Lifecycle => UNCHANGED created
        BY DEF Lifecycle, Close, Closed, Crash, Stop, Boot, Recovered, SetAuthorize,
               Recover, Restore
      <3>4. ASSUME NEW p \in Projects, PassStep(p) \/ SaveFailed(p)
            PROVE  CreateRun(p) \/ UNCHANGED created
        BY <3>4 DEF PassStep, SaveFailed, BeginPass, Orphaned, Finish, Resume, Claim,
                    Authorize, RefuseStart, StartReturned, StartBroke
      <3> QED
        BY <1>1, <3>1, <3>2, <3>3, <3>4 DEF Next
    <2> QED
      BY <2>1, <2>2, <2>3
  <1> QED
    BY <1>1, ClaimInductive, PTL DEF Spec, CreatedOnlyForClaim

-----------------------------------------------------------------------------
(* Rows and places.                                                        *)

\* Every row was there before, in the same queue and place.
Stays ==
    /\ DOMAIN items' \subseteq DOMAIN items
    /\ \A i \in DOMAIN items' : /\ items'[i].column = items[i].column
                                /\ items'[i].project = items[i].project
                                /\ items'[i].position = items[i].position

\* No claim is new.
NoClaim ==
    \A i \in DOMAIN items' : items'[i].state = "starting" => items[i].state = "starting"

LEMMA StaysKeeps ==
    ASSUME RowsConsistent, Stays PROVE RowsConsistent'
  BY DEF RowsConsistent, Stays

\* A save that keeps a row's project and position keeps its place.
LEMMA SaveStays ==
    ASSUME ItemsOK, NEW i, NEW row \in Row,
           i \in DOMAIN items => /\ row.project = items[i].project
                                 /\ row.position = items[i].position
    PROVE  /\ DOMAIN Save(items, i, row) = DOMAIN items
           /\ \A j \in DOMAIN items :
                 /\ Save(items, i, row)[j].column = items[j].column
                 /\ Save(items, i, row)[j].project = items[j].project
                 /\ Save(items, i, row)[j].position = items[j].position
  <1>1. CASE i \notin DOMAIN items
    BY <1>1 DEF Save
  <1>2. CASE i \in DOMAIN items
    <2> DEFINE new == [row EXCEPT !.column = items[i].column]
    <2>1. /\ new.column = items[i].column /\ new.project = row.project
          /\ new.position = row.position
      BY DEF Row
    <2>2. Save(items, i, row) = [items EXCEPT ![i] = new]
      BY <1>2 DEF Save
    <2> HIDE DEF new
    <2> QED
      BY <1>2, <2>1, <2>2 DEF ItemsOK
  <1> QED
    BY <1>1, <1>2

LEMMA StartedStays ==
    ASSUME TypeOK, NEW i, NEW claimed \in Row, Started(i, claimed)
    PROVE  Stays /\ NoClaim
  <1> DEFINE row == [Stored(i, claimed) EXCEPT !.state = "started",
                                               !.startedAt = clock + 1]
             T == Save(items, i, row)
  <1>0. Stored(i, claimed) \in Row /\ clock + 1 \in Nat
    BY StoredType DEF TypeOK
  <1>1. /\ row \in Row
        /\ row.project = Stored(i, claimed).project
        /\ row.position = Stored(i, claimed).position
    BY <1>0 DEF Row, States
  <1>2. i \in DOMAIN items => Stored(i, claimed) = items[i]
    BY DEF Stored
  <1> HIDE DEF row
  <1>3. /\ DOMAIN T = DOMAIN items
        /\ \A j \in DOMAIN items : /\ T[j].column = items[j].column
                                   /\ T[j].project = items[j].project
                                   /\ T[j].position = items[j].position
    BY <1>1, <1>2, SaveStays, TypeParts
  <1>4. items' = Trim(T, Stored(i, claimed).project)
    BY DEF Started, Update, row
  <1> HIDE DEF T
  <1>5. DOMAIN items' \subseteq DOMAIN T /\ \A j \in DOMAIN items' : items'[j] = T[j]
    BY <1>4 DEF Trim
  <1>6. Stays
    BY <1>3, <1>5 DEF Stays
  <1>7. /\ \A j \in DOMAIN items' : j # i => items'[j] = items[j]
        /\ i \in DOMAIN items' => items'[i].state = "started"
    BY StartedRows
  <1> QED
    BY <1>6, <1>7 DEF NoClaim

LEMMA FailedStays ==
    ASSUME TypeOK, NEW i, NEW claimed \in Row, Fail(i, claimed)
    PROVE  Stays /\ NoClaim
  <1> DEFINE row == [Stored(i, claimed) EXCEPT !.state = "failed",
                                 !.startedAt = Stored(i, claimed).startedAt]
  <1>0. Stored(i, claimed) \in Row
    BY StoredType
  <1>1. /\ row \in Row
        /\ row.project = Stored(i, claimed).project
        /\ row.position = Stored(i, claimed).position
    BY <1>0 DEF Row, States
  <1>2. i \in DOMAIN items => Stored(i, claimed) = items[i]
    BY DEF Stored
  <1>3. items' = Save(items, i, row)
    BY DEF Fail, Update
  <1> HIDE DEF row
  <1>4. Stays
    BY <1>1, <1>2, <1>3, SaveStays, TypeParts DEF Stays
  <1>5. /\ DOMAIN items' = DOMAIN items
        /\ \A j \in DOMAIN items : j # i => items'[j] = items[j]
        /\ i \in DOMAIN items => items'[i].state = "failed"
    BY FailedRows
  <1> QED
    BY <1>4, <1>5 DEF NoClaim

\* A move to another project lines the rows up, in their order, behind those there.
LEMMA MovedApart ==
    ASSUME TypeOK, RowsConsistent, NEW from \in Projects, NEW to \in Projects,
           MoveRows(from, to)
    PROVE  /\ RowsConsistent'
           /\ DOMAIN items' = DOMAIN items
           /\ \A i \in DOMAIN items :
                 /\ items[i].column = from => items'[i].column = to
                 /\ items[i].column # from => items'[i] = items[i]
  <1> DEFINE before(i) == {j \in List(from) : items[j].position < items[i].position}
             place(i) == Cardinality(before(i))
  <1>0. PICK n \in 0..MaxPosition :
           /\ IsLast(to, n)
           /\ items' = [i \in DOMAIN items |->
                  IF i \in List(from)
                  THEN [items[i] EXCEPT !.column = to, !.project = to,
                           !.position = n + 1 + place(i)]
                  ELSE items[i]]
    BY DEF MoveRows
  <1>1. n \in Nat
    BY RunQueueAssumption
  <1>2. ItemsOK
    BY TypeParts
  <1>3. \A i \in DOMAIN items : items[i].position \in Nat
    BY <1>2 DEF ItemsOK, Row
  <1>4. ASSUME NEW i PROVE IsFiniteSet(before(i)) /\ place(i) \in Nat
    <2>1. before(i) \subseteq Items
      BY <1>2 DEF List, ItemsOK
    <2> QED
      BY <2>1, RunQueueAssumption, FS_Subset, FS_CardinalityType
  <1>5. ASSUME NEW i \in List(from), NEW j \in List(from),
               items[i].position < items[j].position
        PROVE  place(i) < place(j)
    <2>1. before(i) \in SUBSET before(j) /\ i \in before(j) /\ i \notin before(i)
      BY <1>3, <1>5 DEF List
    <2>2. place(i) <= place(j) /\ place(i) # place(j)
      BY <1>4, <2>1, FS_Subset
    <2>3. place(i) \in Nat /\ place(j) \in Nat
      BY <1>4
    <2> HIDE DEF place
    <2> QED
      BY <2>2, <2>3
  <1>6. ASSUME NEW i \in List(from)
        PROVE  /\ items'[i].column = to /\ items'[i].project = to
               /\ items'[i].position = n + 1 + place(i)
    BY <1>0, <1>2, <1>6 DEF List, ItemsOK, Row
  <1>7. ASSUME NEW i \in DOMAIN items, i \notin List(from)
        PROVE  items'[i] = items[i]
    BY <1>0, <1>7
  <1>8. DOMAIN items' = DOMAIN items
    BY <1>0
  <1>9. ASSUME NEW i \in DOMAIN items' PROVE items'[i].column = items'[i].project
    BY <1>6, <1>7, <1>8 DEF RowsConsistent
  <1> HIDE DEF place
  <1>10. ASSUME NEW i \in DOMAIN items', NEW j \in DOMAIN items',
                items'[i].project = items'[j].project,
                items'[i].position = items'[j].position, i \in List(from), i # j
         PROVE  FALSE
    <2>1. place(i) \in Nat /\ place(j) \in Nat
      BY <1>4 DEF place
    <2>2. CASE j \in List(from)
      <3>1. place(i) = place(j)
        BY <1>1, <1>6, <1>10, <2>1, <2>2
      <3>2. items[i].position = items[j].position
        BY <1>3, <1>5, <1>10, <2>1, <2>2, <3>1 DEF List
      <3> QED
        BY <1>10, <2>2, <3>2 DEF RowsConsistent, List
    <2>3. CASE j \notin List(from)
      <3>1. items[j].project = to /\ items[j].position = n + 1 + place(i)
        BY <1>6, <1>7, <1>8, <1>10, <2>3
      <3>2. j \in List(to)
        BY <1>8, <3>1 DEF RowsConsistent, List
      <3>3. items[j].position <= n
        BY <1>0, <3>2 DEF IsLast
      <3> QED
        BY <1>1, <2>1, <3>1, <3>3
    <2> QED
      BY <2>2, <2>3
  <1>11. ASSUME NEW i \in DOMAIN items', NEW j \in DOMAIN items',
                items'[i].project = items'[j].project,
                items'[i].position = items'[j].position
         PROVE  i = j
    <2>1. CASE i \notin List(from) /\ j \notin List(from)
      BY <1>7, <1>8, <1>11, <2>1 DEF RowsConsistent
    <2> QED
      BY <1>10, <1>11, <2>1
  <1> QED
    BY <1>6, <1>7, <1>8, <1>9, <1>11 DEF RowsConsistent, List

LEMMA RowsKept ==
    ASSUME TypeOK, ClaimInvariant, RowsConsistent, [Next]_vars
    PROVE  RowsConsistent'
  <1>0. /\ ItemsOK
        /\ \A p \in Projects : pass[p].claimed \in Row
    BY TypeParts DEF PassOK, PassRecord
  <1>1. ASSUME UNCHANGED items PROVE RowsConsistent'
    BY <1>1 DEF RowsConsistent
  <1>2. ASSUME NEW p \in Projects, NEW i \in Items, Add(p, i) PROVE RowsConsistent'
    <2>1. PICK n \in 0..(MaxPosition - 1) :
             /\ IsLast(p, n)
             /\ items' = [j \in DOMAIN items \cup {i} |->
                             IF j = i THEN [column |-> p, project |-> p,
                                            position |-> n + 1, state |-> "queued",
                                            startedAt |-> 0]
                             ELSE items[j]]
      BY <1>2 DEF Add
    <2>2. i \notin DOMAIN items
      BY <1>2 DEF Add, ClaimInvariant, CreatedCounts
    <2>3. \A j \in DOMAIN items : items[j].project = p =>
             items[j].position \in Nat /\ items[j].position <= n
      BY <1>0, <2>1 DEF RowsConsistent, IsLast, List, ItemsOK, Row
    <2> QED
      BY <2>1, <2>2, <2>3 DEF RowsConsistent
  <1>3. ASSUME NEW i \in Items, Remove(i) PROVE RowsConsistent'
    BY <1>3 DEF Remove, RowsConsistent
  <1>4. ASSUME NEW i \in Items, Retry(i) PROVE RowsConsistent'
    <2> DEFINE row == [items[i] EXCEPT !.state = "queued"]
    <2>1. /\ row \in Row /\ row.project = items[i].project
          /\ row.position = items[i].position
      BY <1>0, <1>4 DEF Retry, ItemsOK, Row, States
    <2>2. items' = Save(items, i, row)
      BY <1>4 DEF Retry
    <2> HIDE DEF row
    <2> QED
      BY <1>0, <2>1, <2>2, SaveStays, StaysKeeps DEF Stays
  <1>5. ASSUME NEW i \in Items, NEW j \in Items, Move(i, j) PROVE RowsConsistent'
    <2>1. /\ i \in DOMAIN items /\ j \in DOMAIN items
          /\ items[i].column = items[j].column
          /\ items' = [items EXCEPT ![i].position = items[j].position,
                                    ![j].position = items[i].position]
      BY <1>5 DEF Move, InState, List
    <2>2. i # j
      BY <1>0, <1>5, <2>1 DEF Move, ItemsOK, Row
    <2>3. /\ DOMAIN items' = DOMAIN items
          /\ \A k \in DOMAIN items : /\ items'[k].column = items[k].column
                                     /\ items'[k].project = items[k].project
          /\ \A k \in DOMAIN items \ {i, j} : items'[k].position = items[k].position
          /\ items'[i].position = items[j].position
          /\ items'[j].position = items[i].position
      BY <1>0, <2>1, <2>2 DEF ItemsOK, Row
    <2> QED
      BY <2>1, <2>3 DEF RowsConsistent
  <1>6. ASSUME NEW p \in Projects, NEW q \in Projects, MoveProject(p, q)
        PROVE  RowsConsistent'
    BY <1>6, MovedApart DEF MoveProject
  <1>7. ASSUME NEW p \in Projects, Orphaned(p) PROVE RowsConsistent'
    <2>1. rebound[p] \in registered => rebound[p] \in Projects
      BY TypeParts DEF RestOK
    <2>2. CASE rebound[p] \in registered /\ MoveRows(p, rebound[p])
      BY <2>1, <2>2, MovedApart
    <2>3. CASE items' = [i \in DOMAIN items |->
                 IF i \in InState(p, {"queued"})
                          \cup (InState(p, {"starting"}) \ InFlight)
                 THEN [items[i] EXCEPT !.state = "failed"]
                 ELSE items[i]]
      BY <1>0, <2>3 DEF RowsConsistent, ItemsOK, Row
    <2> QED
      BY <1>1, <1>7, <2>2, <2>3 DEF Orphaned
  <1>8. ASSUME NEW i \in DOMAIN items, Started(i, items[i]) PROVE RowsConsistent'
    BY <1>0, <1>8, StartedStays, StaysKeeps DEF ItemsOK
  <1>9. ASSUME NEW p \in Projects,
               \/ Started(pass[p].id, pass[p].claimed)
               \/ Fail(pass[p].id, pass[p].claimed)
        PROVE  RowsConsistent'
    BY <1>0, <1>9, StartedStays, FailedStays, StaysKeeps
  <1>10. ASSUME NEW p \in Projects, StartFailed(p) PROVE RowsConsistent'
    BY <1>1, <1>9, <1>10 DEF StartFailed
  <1>11. ASSUME NEW p \in Projects, NEW i \in Items, Claim(p, i)
         PROVE  RowsConsistent'
    <2> DEFINE row == [items[i] EXCEPT !.state = "starting"]
    <2>1. i \in DOMAIN items /\ items' = Save(items, i, row)
      BY <1>11 DEF Claim, NextToStart, InState, List
    <2>2. /\ row \in Row /\ row.project = items[i].project
          /\ row.position = items[i].position
      BY <1>0, <2>1 DEF ItemsOK, Row, States
    <2> HIDE DEF row
    <2> QED
      BY <1>0, <2>1, <2>2, SaveStays, StaysKeeps DEF Stays
  <1>12. ASSUME NEW p \in Projects, NEW i \in Items, Resume(p, i)
         PROVE  RowsConsistent'
    BY <1>1, <1>8, <1>12 DEF Resume, Resumable
  <1>13. ASSUME NEW p \in Projects, PassStep(p) \/ SaveFailed(p) PROVE RowsConsistent'
    BY <1>1, <1>7, <1>9, <1>10, <1>11, <1>12, <1>13
       DEF PassStep, SaveFailed, BeginPass, Finish, Authorize, CreateRun, RefuseStart,
           StartReturned, StartBroke, tables
  <1>14. CASE Owner
    BY <1>1, <1>2, <1>3, <1>4, <1>5, <1>6, <1>14
       DEF Owner, Rebind, ReturnRun, DeleteRun, StartDirect
  <1>15. CASE Lifecycle
    <2>1. ASSUME NEW i \in Items, Recover(i) PROVE RowsConsistent'
      BY <1>8, <2>1 DEF Recover
    <2> QED
      BY <1>1, <1>15, <2>1
         DEF Lifecycle, Close, Closed, Crash, Stop, Boot, Recovered, SetAuthorize,
             Restore, tables
  <1>16. CASE Engine \/ Poll \/ Drain \/ UNCHANGED vars
    BY <1>1, <1>16 DEF Engine, Provision, EndRun, TurnRun, Poll, Drain, vars
  <1> QED
    BY <1>13, <1>14, <1>15, <1>16 DEF Next

-----------------------------------------------------------------------------
(* Slots.                                                                  *)

\* What takes a slot of a project for good: an active run the queue started in its
\* folder, or a claim in its queue.
Slots(p) == (Active(p) \ Direct) \cup InState(p, {"starting"})

\* A project that is registered has not moved.
RegisteredStays == \A p \in registered : rebound[p] = NoProject

\* A run of the queue is counted for the project in whose folder it was started, unless
\* the folder moved.
CountedHome ==
    /\ IsFiniteSet(DOMAIN runs)
    /\ \A r \in DOMAIN runs \ Direct : rebound[runs[r].home] = NoProject =>
          /\ runs[r].phase = "executing" => runs[r].project = runs[r].home
          /\ runs[r].phase = "provisioning" => runs[r].expected = runs[r].home

\* The row a pass starts is in the queue it was claimed from, unless that moved.
ClaimedHere ==
    \A p \in Projects : pass[p].pc \in Attempting =>
        \/ rebound[pass[p].claimed.project] # NoProject
        \/ items[pass[p].id].column = pass[p].claimed.project

WithinLimit ==
    \A p \in registered :
        CountParked[p] /\ Unmoved(p) => Cardinality(Slots(p)) <= Limit[p]

SlotInvariant == RegisteredStays /\ CountedHome /\ ClaimedHere /\ WithinLimit

LEMMA SlotsFinite ==
    ASSUME TypeOK, NEW p
    PROVE  /\ IsFiniteSet(Slots(p)) /\ Cardinality(Slots(p)) \in Nat
           /\ IsFiniteSet(Active(p) \ Direct)
           /\ Cardinality(Active(p) \ Direct) \in Nat
           /\ Cardinality(Active(p) \ Direct) <= Cardinality(Slots(p))
  <1>1. Slots(p) \in SUBSET Items /\ Active(p) \ Direct \in SUBSET Slots(p)
    BY TypeParts DEF Slots, Active, InState, List, ItemsOK, RunsOK, RunIds
  <1>2. IsFiniteSet(Slots(p))
    BY <1>1, RunQueueAssumption, FS_Subset
  <1> QED
    BY <1>1, <1>2, FS_Subset, FS_CardinalityType

LEMMA SlotsFiniteNext ==
    ASSUME TypeOK', NEW p
    PROVE  IsFiniteSet(Slots(p)') /\ Cardinality(Slots(p)') \in Nat
  <1>1. Slots(p)' \in SUBSET Items
    BY TypePartsNext DEF Slots, Active, InState, List, ItemsOK, RunsOK, RunIds
  <1> QED
    BY <1>1, RunQueueAssumption, FS_Subset, FS_CardinalityType

\* What counts for a project that counts parked runs is at least what takes its slots.
LEMMA OccupiedBySlots ==
    ASSUME TypeOK, SlotInvariant, NEW p \in registered, CountParked[p]
    PROVE  /\ Cardinality(Slots(p)) <= OccupiedSlots(p)
           /\ Cardinality(Slots(p)) \in Nat /\ OccupiedSlots(p) \in Nat
  <1> DEFINE counted == {r \in RunsOf(p) : HoldsSlot(runs[r], p)}
                           \cup (InState(p, {"starting"}) \ RunsOf(p))
  <1>1. OccupiedSlots(p) = Cardinality(counted)
    BY DEF OccupiedSlots
  <1>2. IsFiniteSet(counted)
    <2>1. counted \in SUBSET (DOMAIN runs \cup Items)
      BY TypeParts DEF RunsOf, InState, List, ItemsOK
    <2>2. IsFiniteSet(DOMAIN runs) /\ IsFiniteSet(Items)
      BY RunQueueAssumption DEF SlotInvariant, CountedHome
    <2> QED
      BY <2>1, <2>2, FS_Union, FS_Subset
  <1>3. \A r \in RunsOf(p) : HoldsSlot(runs[r], p)
    BY TypeParts DEF RunsOf, HoldsSlot, RunsOK, Run, Statuses
  <1>4. Active(p) \ Direct \subseteq RunsOf(p)
    <2> SUFFICES ASSUME NEW r \in Active(p) \ Direct PROVE r \in RunsOf(p)
      OBVIOUS
    <2>1. /\ r \in DOMAIN runs \ Direct /\ runs[r].home = p /\ runs[r].status # "ended"
          /\ runs[r].phase \in {"executing", "provisioning"}
      BY TypeParts DEF Active, RunsOK, Run
    <2>2. rebound[runs[r].home] = NoProject
      BY <2>1 DEF SlotInvariant, RegisteredStays
    <2> QED
      BY <2>1, <2>2 DEF SlotInvariant, CountedHome, RunsOf
  <1>5. Slots(p) \in SUBSET counted
    BY <1>3, <1>4 DEF Slots
  <1> HIDE DEF counted
  <1> QED
    BY <1>1, <1>2, <1>5, SlotsFinite, FS_Subset, FS_CardinalityType

\* A step that gives no project a slot more keeps the limits.
LEMMA FewerSlots ==
    ASSUME TypeOK, TypeOK', WithinLimit,
           \A p \in registered' : CountParked[p] /\ Unmoved(p)' =>
              p \in registered /\ Unmoved(p) /\ Slots(p)' \subseteq Slots(p)
    PROVE  WithinLimit'
  <1> SUFFICES ASSUME NEW p \in registered', CountParked[p], Unmoved(p)'
               PROVE  Cardinality(Slots(p)') <= Limit[p]
    BY DEF WithinLimit
  <1>1. p \in registered /\ Unmoved(p) /\ Slots(p)' \in SUBSET Slots(p)
    OBVIOUS
  <1>2. Cardinality(Slots(p)) <= Limit[p]
    BY <1>1 DEF WithinLimit
  <1>3. Cardinality(Slots(p)') <= Cardinality(Slots(p))
    BY <1>1, SlotsFinite, FS_Subset
  <1>4. Limit[p] \in Nat
    BY <1>1, RunQueueAssumption, TypeParts DEF RestOK
  <1>5. Cardinality(Slots(p)) \in Nat /\ Cardinality(Slots(p)') \in Nat
    BY SlotsFinite, SlotsFiniteNext
  <1> QED
    BY <1>2, <1>3, <1>4, <1>5

\* A step of the rows and passes that claims nothing and starts nothing.
LEMMA RowsStep ==
    ASSUME TypeOK, TypeOK', ClaimInvariant', SlotInvariant, Stays, NoClaim,
           registered' \subseteq registered, UNCHANGED <<runs, rebound>>,
           \A p \in Projects : pass'[p].pc \in Attempting =>
              /\ pass[p].pc \in Attempting
              /\ pass'[p].id = pass[p].id /\ pass'[p].claimed = pass[p].claimed
    PROVE  SlotInvariant'
  <1>1. RegisteredStays' /\ CountedHome'
    BY DEF SlotInvariant, RegisteredStays, CountedHome
  <1>2. ClaimedHere'
    <2> SUFFICES ASSUME NEW p \in Projects, pass'[p].pc \in Attempting
                 PROVE  \/ rebound'[pass'[p].claimed.project] # NoProject
                        \/ items'[pass'[p].id].column = pass'[p].claimed.project
      BY DEF ClaimedHere
    <2>1. pass'[p].id \in DOMAIN items'
      BY DEF ClaimInvariant, AttemptsClaimed
    <2> QED
      BY <2>1 DEF SlotInvariant, ClaimedHere, Stays
  <1>3. \A p : Slots(p)' \subseteq Slots(p) /\ (Unmoved(p)' <=> Unmoved(p))
    BY DEF Slots, Active, InState, List, Stays, NoClaim, Unmoved
  <1>4. WithinLimit'
    BY <1>3, FewerSlots DEF SlotInvariant
  <1> QED
    BY <1>1, <1>2, <1>4 DEF SlotInvariant

\* A step of the runs that starts and reopens none of the queue's.
LEMMA RunsStep ==
    ASSUME TypeOK, TypeOK', SlotInvariant, UNCHANGED <<items, pass, rebound, registered>>,
           IsFiniteSet(DOMAIN runs'),
           \A r \in DOMAIN runs' \ Direct :
              /\ r \in DOMAIN runs /\ runs'[r].home = runs[r].home
              /\ runs'[r].status # "ended" => runs[r].status # "ended"
              /\ \/ /\ runs'[r].phase = runs[r].phase
                    /\ runs'[r].project = runs[r].project
                    /\ runs'[r].expected = runs[r].expected
                 \/ runs'[r].phase = "executing" /\ runs'[r].project = Current(runs[r].home)
    PROVE  SlotInvariant'
  <1>1. RegisteredStays' /\ ClaimedHere'
    BY DEF SlotInvariant, RegisteredStays, ClaimedHere
  <1>2. CountedHome'
    BY DEF SlotInvariant, CountedHome, Current
  <1>3. \A p : Slots(p)' \subseteq Slots(p) /\ (Unmoved(p)' <=> Unmoved(p))
    BY DEF Slots, Active, InState, List, Unmoved
  <1>4. WithinLimit'
    BY <1>3, FewerSlots DEF SlotInvariant
  <1> QED
    BY <1>1, <1>2, <1>4 DEF SlotInvariant

LEMMA SlotsAdd ==
    ASSUME TypeOK, TypeOK', SlotInvariant, UNCHANGED <<registered, rebound>>,
           NEW home \in Projects, NEW i,
           \A p \in registered : CountParked[p] /\ p # home => Slots(p)' \subseteq Slots(p),
           home \in registered /\ CountParked[home] =>
              /\ Slots(home)' \subseteq Slots(home) \cup {i}
              /\ i \in Slots(home) \/ OccupiedSlots(home) < Limit[home]
    PROVE  WithinLimit'
  <1> SUFFICES ASSUME NEW p \in registered, CountParked[p], Unmoved(p)
               PROVE  Cardinality(Slots(p)') <= Limit[p]
    BY DEF WithinLimit, Unmoved
  <1>1. Cardinality(Slots(p)) <= Limit[p]
    BY DEF SlotInvariant, WithinLimit
  <1>2. Limit[p] \in Nat
    BY RunQueueAssumption, TypeParts DEF RestOK
  <1>3. /\ Cardinality(Slots(p)) \in Nat /\ Cardinality(Slots(p)') \in Nat
        /\ IsFiniteSet(Slots(p))
    BY SlotsFinite, SlotsFiniteNext
  <1>4. CASE Slots(p)' \subseteq Slots(p)
    <2>1. Cardinality(Slots(p)') <= Cardinality(Slots(p))
      BY <1>3, <1>4, FS_Subset
    <2> QED
      BY <1>1, <1>2, <1>3, <2>1
  <1>5. CASE ~(Slots(p)' \subseteq Slots(p))
    <2>1. /\ Slots(p)' \in SUBSET (Slots(p) \cup {i})
          /\ i \notin Slots(p) /\ OccupiedSlots(p) < Limit[p]
      BY <1>5
    <2>2. /\ IsFiniteSet(Slots(p) \cup {i})
          /\ Cardinality(Slots(p) \cup {i}) = Cardinality(Slots(p)) + 1
      BY <1>3, <2>1, FS_AddElement
    <2>3. Cardinality(Slots(p)') <= Cardinality(Slots(p)) + 1
      BY <2>1, <2>2, FS_Subset
    <2>4. Cardinality(Slots(p)) <= OccupiedSlots(p) /\ OccupiedSlots(p) \in Nat
      BY OccupiedBySlots
    <2> QED
      BY <1>2, <1>3, <2>1, <2>3, <2>4
  <1> QED
    BY <1>4, <1>5

LEMMA ClaimSlots ==
    ASSUME TypeOK, TypeOK', ClaimInvariant, RowsConsistent, SlotInvariant,
           NEW p \in Projects, NEW i \in Items, Claim(p, i)
    PROVE  SlotInvariant'
  <1> DEFINE row == [items[i] EXCEPT !.state = "starting"]
  <1>1. /\ i \in DOMAIN items /\ items[i].column = p /\ items[i].project = p
        /\ OccupiedSlots(p) < Limit[p]
        /\ items' = Save(items, i, row) /\ Launch(p, i, row)
        /\ UNCHANGED <<runs, registered, rebound>>
    BY DEF Claim, NextToStart, InState, List, RowsConsistent, project
  <1>2. row \in Row /\ row.project = p /\ row.position = items[i].position
    BY <1>1, TypeParts DEF ItemsOK, Row, States
  <1> HIDE DEF row
  <1>3. DOMAIN items' = DOMAIN items /\ \A j \in DOMAIN items : items'[j].column = items[j].column
    BY <1>1, <1>2, SaveStays, TypeParts
  <1>4. \A j \in DOMAIN items : j # i => items'[j] = items[j]
    BY <1>1, <1>2, SaveRow, TypeParts DEF ItemsOK
  <1>5. /\ pass'[p].id = i /\ pass'[p].claimed = row
        /\ \A q \in Projects : q # p => pass'[q] = pass[q]
    BY <1>1, <1>2, TypeParts DEF Launch, PassOK
  <1>6. RegisteredStays' /\ CountedHome'
    BY <1>1 DEF SlotInvariant, RegisteredStays, CountedHome
  <1>7. ClaimedHere'
    <2> SUFFICES ASSUME NEW q \in Projects, pass'[q].pc \in Attempting
                 PROVE  \/ rebound'[pass'[q].claimed.project] # NoProject
                        \/ items'[pass'[q].id].column = pass'[q].claimed.project
      BY DEF ClaimedHere
    <2>1. CASE q = p
      BY <1>1, <1>2, <1>3, <1>5, <2>1
    <2>2. CASE q # p
      <3>1. pass'[q] = pass[q] /\ pass[q].id \in DOMAIN items
        BY <1>5, <2>2 DEF ClaimInvariant, AttemptsClaimed
      <3> QED
        BY <1>1, <1>3, <3>1 DEF SlotInvariant, ClaimedHere
    <2> QED
      BY <2>1, <2>2
  <1>8. /\ \A q \in Projects \ {p} : Slots(q)' \subseteq Slots(q)
        /\ Slots(p)' \subseteq Slots(p) \cup {i}
    BY <1>1, <1>3, <1>4 DEF Slots, Active, InState, List
  <1>9. registered \subseteq Projects
    BY TypeParts DEF RestOK
  <1>10. WithinLimit'
    BY <1>1, <1>8, <1>9, SlotsAdd
  <1> QED
    BY <1>6, <1>7, <1>10 DEF SlotInvariant

\* The run takes the slot its claim had.
LEMMA CreateSlots ==
    ASSUME TypeOK, TypeOK', ClaimInvariant, SlotInvariant,
           NEW p \in Projects, CreateRun(p)
    PROVE  SlotInvariant'
  <1> DEFINE i == pass[p].id
             home == pass[p].claimed.project
             new == [status |-> "running", phase |-> "provisioning", project |-> NoProject,
                     expected |-> home, home |-> home]
  <1>1. /\ pass[p].pc = "start" /\ i \notin DOMAIN runs
        /\ runs' = [r \in DOMAIN runs \cup {i} |-> IF r = i THEN new ELSE runs[r]]
        /\ pass' = [pass EXCEPT ![p].pc = "provision"]
        /\ UNCHANGED <<items, registered, rebound>>
    BY DEF CreateRun, RunExists, project
  <1>2. i \in Items /\ home \in Projects
    BY TypeParts DEF PassOK, PassRecord, Row
  <1>3. i \in DOMAIN items /\ items[i].state = "starting"
    BY <1>1 DEF ClaimInvariant, AttemptsClaimed, Attempting
  <1>4. rebound[home] # NoProject \/ items[i].column = home
    BY <1>1 DEF SlotInvariant, ClaimedHere, Attempting
  <1> HIDE DEF i, home
  <1>5. \A q \in Projects : pass'[q].id = pass[q].id /\ pass'[q].claimed = pass[q].claimed
    BY <1>1, TypeParts DEF PassOK, PassRecord
  <1>6. \A q \in Projects : pass'[q].pc \in Attempting => pass[q].pc \in Attempting
    BY <1>1, TypeParts DEF PassOK, PassRecord, Attempting
  <1>7. RegisteredStays'
    BY <1>1 DEF SlotInvariant, RegisteredStays
  <1>8. ClaimedHere'
    BY <1>1, <1>5, <1>6 DEF SlotInvariant, ClaimedHere
  <1>9. CountedHome'
    <2>1. IsFiniteSet(DOMAIN runs')
      BY <1>1, FS_AddElement DEF SlotInvariant, CountedHome
    <2>2. ASSUME NEW r \in DOMAIN runs' \ Direct, rebound[runs'[r].home] = NoProject
          PROVE  /\ runs'[r].phase = "executing" => runs'[r].project = runs'[r].home
                 /\ runs'[r].phase = "provisioning" => runs'[r].expected = runs'[r].home
      <3>1. CASE r = i
        BY <1>1, <3>1
      <3>2. CASE r # i
        BY <1>1, <2>2, <3>2 DEF SlotInvariant, CountedHome
      <3> QED
        BY <3>1, <3>2
    <2> QED
      BY <1>1, <2>1, <2>2 DEF CountedHome
  <1>10. \A q : Slots(q)' \subseteq Slots(q) \/ (q = home /\ Slots(q)' \subseteq Slots(q) \cup {i})
    BY <1>1 DEF Slots, Active, InState, List
  <1>11. home \in registered => i \in Slots(home)
    BY <1>2, <1>3, <1>4 DEF SlotInvariant, RegisteredStays, Slots, InState, List
  <1>12. WithinLimit'
    BY <1>1, <1>2, <1>10, <1>11, SlotsAdd
  <1> QED
    BY <1>7, <1>8, <1>9, <1>12 DEF SlotInvariant

\* A return reopens a run only into a free slot of the project it is counted for.
LEMMA ReturnSlots ==
    ASSUME TypeOK, TypeOK', SlotInvariant, NEW r \in RunIds, ReturnRun(r)
    PROVE  SlotInvariant'
  <1>1. /\ r \in DOMAIN runs /\ runs[r].phase = "executing"
        /\ Exists(runs[r].project) => OccupiedSlots(runs[r].project) < Limit[runs[r].project]
        /\ runs' = [runs EXCEPT ![r].status = "running"]
        /\ UNCHANGED <<items, pass, registered, rebound>>
    BY DEF ReturnRun, project
  <1>2. runs \in [DOMAIN runs -> Run] /\ runs[r].home \in Projects
    BY <1>1, TypeParts DEF RunsOK, Run
  <1> PICK home \in Projects : home = runs[r].home
    BY <1>2
  <1>3. /\ DOMAIN runs' = DOMAIN runs
        /\ \A q \in DOMAIN runs :
              /\ runs'[q].home = runs[q].home /\ runs'[q].phase = runs[q].phase
              /\ runs'[q].project = runs[q].project
              /\ runs'[q].expected = runs[q].expected
              /\ q # r => runs'[q].status = runs[q].status
    BY <1>1, <1>2 DEF Run
  <1>4. RegisteredStays' /\ ClaimedHere' /\ CountedHome'
    BY <1>1, <1>3 DEF SlotInvariant, RegisteredStays, ClaimedHere, CountedHome
  <1>5. \A q : q # home \/ r \in Direct => Slots(q)' \subseteq Slots(q)
    BY <1>1, <1>3 DEF Slots, Active, InState, List
  <1>6. Slots(home)' \subseteq Slots(home) \cup {r}
    BY <1>1, <1>3 DEF Slots, Active, InState, List
  <1>7. home \in registered /\ r \notin Direct => OccupiedSlots(home) < Limit[home]
    BY <1>1 DEF SlotInvariant, RegisteredStays, CountedHome, Exists
  <1>8. WithinLimit'
    <2>1. CASE r \in Direct
      BY <1>1, <1>5, <2>1, FewerSlots DEF SlotInvariant, Unmoved
    <2>2. CASE r \notin Direct
      <3>1. \A q \in registered : CountParked[q] /\ q # home => Slots(q)' \subseteq Slots(q)
        BY <1>5
      <3>2. home \in registered /\ CountParked[home] =>
               /\ Slots(home)' \subseteq Slots(home) \cup {r}
               /\ r \in Slots(home) \/ OccupiedSlots(home) < Limit[home]
        BY <1>6, <1>7, <2>2
      <3>3. UNCHANGED <<registered, rebound>>
        BY <1>1
      <3> QED
        BY ONLY TypeOK, TypeOK', SlotInvariant, <1>2, <3>1, <3>2, <3>3, SlotsAdd
    <2> QED
      BY <2>1, <2>2
  <1> QED
    BY <1>4, <1>8 DEF SlotInvariant

LEMMA MoveSlots ==
    ASSUME TypeOK, TypeOK', ClaimInvariant, RowsConsistent, SlotInvariant,
           NEW from \in Projects, NEW to \in Projects, MoveRows(from, to),
           rebound[from] = to, UNCHANGED <<runs, pass, registered, rebound>>
    PROVE  SlotInvariant'
  <1>1. /\ DOMAIN items' = DOMAIN items
        /\ \A i \in DOMAIN items :
              /\ items[i].column = from => items'[i].column = to
              /\ items[i].column # from => items'[i] = items[i]
    BY MovedApart
  <1>2. rebound[from] # NoProject
    BY RunQueueAssumption
  <1>3. RegisteredStays' /\ CountedHome'
    BY DEF SlotInvariant, RegisteredStays, CountedHome
  <1>4. ClaimedHere'
    <2> SUFFICES ASSUME NEW p \in Projects, pass[p].pc \in Attempting,
                        rebound[pass[p].claimed.project] = NoProject
                 PROVE  items'[pass[p].id].column = pass[p].claimed.project
      BY DEF ClaimedHere
    <2>1. pass[p].id \in DOMAIN items
      BY DEF ClaimInvariant, AttemptsClaimed
    <2> QED
      BY <1>1, <1>2, <2>1 DEF SlotInvariant, ClaimedHere
  <1>5. \A p \in registered : Unmoved(p) => Slots(p)' \subseteq Slots(p)
    <2> SUFFICES ASSUME NEW p \in registered, Unmoved(p)
                 PROVE  Slots(p)' \subseteq Slots(p)
      OBVIOUS
    <2>1. p # to
      BY DEF Unmoved
    <2> QED
      BY <1>1, <2>1, MovedRows DEF Slots, Active, InState, List
  <1>6. WithinLimit'
    BY <1>5, FewerSlots DEF SlotInvariant, Unmoved
  <1> QED
    BY <1>3, <1>4, <1>6 DEF SlotInvariant

LEMMA RebindSlots ==
    ASSUME TypeOK, TypeOK', SlotInvariant,
           NEW from \in Projects, NEW to \in Projects, Rebind(from, to)
    PROVE  SlotInvariant'
  <1>1. /\ rebound[from] = NoProject /\ rebound[to] = NoProject
        /\ registered' = (registered \ {from}) \cup {to}
        /\ rebound' = [rebound EXCEPT ![from] = to] /\ from # to
        /\ UNCHANGED <<items, runs, pass>>
    BY DEF Rebind, memory
  <1>2. /\ rebound'[from] = to /\ to # NoProject
        /\ \A p \in Projects \ {from} : rebound'[p] = rebound[p]
    BY <1>1, RunQueueAssumption, TypeParts DEF RestOK
  <1>3. \A p \in Projects : rebound'[p] = NoProject => rebound[p] = NoProject
    BY <1>1, <1>2
  <1>4. RegisteredStays'
    BY <1>1, <1>2, TypeParts DEF SlotInvariant, RegisteredStays, RestOK
  <1>5. CountedHome'
    BY <1>1, <1>3, TypeParts DEF SlotInvariant, CountedHome, RunsOK, Run
  <1>6. ClaimedHere'
    BY <1>1, <1>3, TypeParts DEF SlotInvariant, ClaimedHere, PassOK, PassRecord, Row
  <1>7. \A p \in registered' : Unmoved(p)' =>
           p \in registered /\ Unmoved(p) /\ Slots(p)' \subseteq Slots(p)
    <2> SUFFICES ASSUME NEW p \in registered', Unmoved(p)'
                 PROVE  p \in registered /\ Unmoved(p) /\ Slots(p)' \subseteq Slots(p)
      OBVIOUS
    <2>1. p \in registered
      BY <1>1, <1>2 DEF Unmoved
    <2>2. Unmoved(p)
      <3>1. p # NoProject
        BY <2>1, RunQueueAssumption, TypeParts DEF RestOK
      <3> QED
        BY <1>1, <1>2, <3>1 DEF Unmoved
    <2> QED
      BY <1>1, <2>1, <2>2 DEF Slots, Active, InState, List
  <1>8. WithinLimit'
    BY <1>7, FewerSlots DEF SlotInvariant
  <1> QED
    BY <1>4, <1>5, <1>6, <1>8 DEF SlotInvariant

LEMMA OwnerSlots ==
    ASSUME TypeOK, TypeOK', ClaimInvariant, ClaimInvariant', RowsConsistent,
           SlotInvariant, Owner
    PROVE  SlotInvariant'
  <1> USE DEF project, memory, history, bounds
  <1>0. ItemsOK
    BY TypeParts
  <1>1. ASSUME NEW p \in Projects, NEW i \in Items, Add(p, i) PROVE SlotInvariant'
    <2>1. /\ DOMAIN items' = DOMAIN items \cup {i} /\ i \notin DOMAIN items
          /\ items'[i].state = "queued"
          /\ \A j \in DOMAIN items : items'[j] = items[j]
          /\ UNCHANGED <<runs, pass, registered, rebound>>
      BY <1>1 DEF Add, ClaimInvariant, CreatedCounts
    <2>2. RegisteredStays' /\ CountedHome' /\ ClaimedHere'
      BY <2>1 DEF SlotInvariant, RegisteredStays, CountedHome, ClaimedHere,
                  ClaimInvariant, AttemptsClaimed
    <2>3. \A q : Slots(q)' \subseteq Slots(q) /\ (Unmoved(q)' <=> Unmoved(q))
      BY <2>1 DEF Slots, Active, InState, List, Unmoved
    <2>4. WithinLimit'
      BY <2>1, <2>3, FewerSlots DEF SlotInvariant
    <2> QED
      BY <2>2, <2>4 DEF SlotInvariant
  <1>2. ASSUME NEW i \in Items, Remove(i) PROVE SlotInvariant'
    <2>1. Stays /\ NoClaim
      BY <1>2 DEF Remove, Stays, NoClaim
    <2> QED
      BY <1>2, <2>1, RowsStep DEF Remove
  <1>3. ASSUME NEW i \in Items, Retry(i) PROVE SlotInvariant'
    <2> DEFINE row == [items[i] EXCEPT !.state = "queued"]
    <2>1. /\ row \in Row /\ row.project = items[i].project
          /\ row.position = items[i].position /\ row.state = "queued"
      BY <1>0, <1>3 DEF Retry, ItemsOK, Row, States
    <2>2. items' = Save(items, i, row) /\ i \in DOMAIN items
          /\ UNCHANGED <<runs, pass, registered, rebound>>
      BY <1>3 DEF Retry
    <2> HIDE DEF row
    <2>3. Stays
      BY <1>0, <2>1, <2>2, SaveStays DEF Stays
    <2>4. NoClaim
      BY <1>0, <2>1, <2>2, SaveRow DEF NoClaim, ItemsOK
    <2> QED
      BY <2>2, <2>3, <2>4, RowsStep
  <1>4. ASSUME NEW i \in Items, NEW j \in Items, Move(i, j) PROVE SlotInvariant'
    <2>1. /\ items' = [items EXCEPT ![i].position = items[j].position,
                                    ![j].position = items[i].position]
          /\ UNCHANGED <<runs, pass, registered, rebound>>
      BY <1>4 DEF Move
    <2>2. /\ DOMAIN items' = DOMAIN items
          /\ \A k \in DOMAIN items : /\ items'[k].column = items[k].column
                                     /\ items'[k].state = items[k].state
      BY <1>0, <2>1 DEF ItemsOK, Row
    <2>3. RegisteredStays' /\ CountedHome' /\ ClaimedHere'
      BY <2>1, <2>2 DEF SlotInvariant, RegisteredStays, CountedHome, ClaimedHere,
                        ClaimInvariant, AttemptsClaimed
    <2>4. \A q : Slots(q)' \subseteq Slots(q) /\ (Unmoved(q)' <=> Unmoved(q))
      BY <2>1, <2>2 DEF Slots, Active, InState, List, Unmoved
    <2>5. WithinLimit'
      BY <2>1, <2>4, FewerSlots DEF SlotInvariant
    <2> QED
      BY <2>3, <2>5 DEF SlotInvariant
  <1>5. ASSUME NEW p \in Projects, NEW q \in Projects, Rebind(p, q) \/ MoveProject(p, q)
        PROVE  SlotInvariant'
    BY <1>5, RebindSlots, MoveSlots DEF MoveProject
  <1>6. ASSUME NEW r \in RunIds, DeleteRun(r) PROVE SlotInvariant'
    <2>1. /\ runs' = [q \in DOMAIN runs \ {r} |-> runs[q]]
          /\ UNCHANGED <<items, pass, registered, rebound>>
      BY <1>6 DEF DeleteRun
    <2>2. IsFiniteSet(DOMAIN runs')
      BY <2>1, FS_RemoveElement DEF SlotInvariant, CountedHome
    <2> QED
      BY <2>1, <2>2, RunsStep
  <1>7. ASSUME NEW r \in Direct, NEW p \in Projects, StartDirect(r, p)
        PROVE  SlotInvariant'
    <2>1. /\ DOMAIN runs' = DOMAIN runs \cup {r}
          /\ \A q \in DOMAIN runs' \ Direct : q \in DOMAIN runs /\ runs'[q] = runs[q]
          /\ UNCHANGED <<items, pass, registered, rebound>>
      BY <1>7 DEF StartDirect
    <2>2. IsFiniteSet(DOMAIN runs')
      BY <2>1, FS_AddElement DEF SlotInvariant, CountedHome
    <2> QED
      BY <2>1, <2>2, RunsStep
  <1> QED
    BY <1>1, <1>2, <1>3, <1>4, <1>5, <1>6, <1>7, ReturnSlots DEF Owner

LEMMA PassSlots ==
    ASSUME TypeOK, TypeOK', ClaimInvariant, ClaimInvariant', RowsConsistent,
           SlotInvariant, NEW p \in Projects, PassStep(p) \/ SaveFailed(p)
    PROVE  SlotInvariant'
  <1> USE DEF project, memory, history, bounds, tables
  <1>0. /\ ItemsOK /\ pass \in [Projects -> PassRecord] /\ pass[p].claimed \in Row
        /\ Idle \in PassRecord /\ Idle.pc = "none"
    BY TypeParts, IdleType DEF PassOK, PassRecord, Idle
  <1>1. UNCHANGED items => Stays /\ NoClaim
    BY DEF Stays, NoClaim
  <1>2. ASSUME NextItem(p) \/ EndPass(p)
        PROVE  \A q \in Projects : pass'[q].pc \in Attempting =>
                  pass'[q] = pass[q] /\ pass[q].pc \in Attempting
    BY <1>2, PassMoves DEF Attempting
  <1>3. ASSUME StartFailed(p), UNCHANGED <<runs, registered, rebound>>
        PROVE  SlotInvariant'
    <2>1. Stays /\ NoClaim
      BY <1>0, <1>1, <1>3, FailedStays, StartedStays DEF StartFailed
    <2> QED
      BY <1>2, <1>3, <2>1, RowsStep DEF StartFailed
  <1>4. CASE BeginPass(p)
    <2> DEFINE next == [Idle EXCEPT !.pc = "loop", !.todo = InState(p, {"starting"})]
    <2>1. next.pc = "loop"
      BY <1>0 DEF PassRecord
    <2>2. pass' = [pass EXCEPT ![p] = next] /\ UNCHANGED <<items, runs, registered, rebound>>
      BY <1>4 DEF BeginPass
    <2> HIDE DEF next
    <2>3. \A q \in Projects : pass'[q].pc \in Attempting =>
             pass'[q] = pass[q] /\ pass[q].pc \in Attempting
      BY <1>0, <2>1, <2>2 DEF Attempting
    <2> QED
      BY <1>1, <2>2, <2>3, RowsStep
  <1>5. CASE Orphaned(p)
    <2>0. UNCHANGED <<runs, pass, registered, rebound>>
      BY <1>5 DEF Orphaned
    <2>1. CASE rebound[p] \in registered /\ MoveRows(p, rebound[p])
      <3>1. PICK to \in Projects : to = rebound[p]
        BY <2>1, TypeParts DEF RestOK
      <3> QED
        BY <2>0, <2>1, <3>1, MoveSlots
    <2>2. CASE UNCHANGED items
      BY <1>1, <2>0, <2>2, RowsStep
    <2>3. CASE items' = [i \in DOMAIN items |->
                 IF i \in InState(p, {"queued"})
                          \cup (InState(p, {"starting"}) \ InFlight)
                 THEN [items[i] EXCEPT !.state = "failed"]
                 ELSE items[i]]
      <3>1. Stays /\ NoClaim
        BY <1>0, <2>3 DEF Stays, NoClaim, ItemsOK, Row
      <3> QED
        BY <2>0, <3>1, RowsStep
    <2> QED
      BY <1>5, <2>1, <2>2, <2>3 DEF Orphaned
  <1>6. CASE Finish(p)
    BY <1>1, <1>2, <1>6, RowsStep DEF Finish
  <1>7. ASSUME NEW i \in Items, Resume(p, i) PROVE SlotInvariant'
    <2>0. UNCHANGED <<runs, registered, rebound>>
      BY <1>7 DEF Resume
    <2>1. CASE pass' = [pass EXCEPT ![p].todo = @ \ {i}]
      <3>1. \A q \in Projects : /\ pass'[q].pc = pass[q].pc /\ pass'[q].id = pass[q].id
                               /\ pass'[q].claimed = pass[q].claimed
        BY <1>0, <2>1 DEF PassRecord
      <3>2. Stays /\ NoClaim
        <4>1. \/ UNCHANGED items
              \/ i \in DOMAIN items /\ Started(i, items[i])
          BY <1>7 DEF Resume, Resumable
        <4> QED
          BY <1>0, <1>1, <4>1, StartedStays DEF ItemsOK
      <3> QED
        BY <2>0, <3>1, <3>2, RowsStep
    <2>2. CASE Resumable(p, i) /\ Launch(p, i, items[i]) /\ UNCHANGED items
      <3>1. /\ i \in DOMAIN items /\ items[i].project = p /\ items[i].column = p
        BY <2>2 DEF Resumable, RowsConsistent
      <3>2. /\ pass'[p].id = i /\ pass'[p].claimed = items[i]
            /\ \A q \in Projects : q # p => pass'[q] = pass[q]
        BY <1>0, <2>2 DEF Launch
      <3>3. ClaimedHere'
        BY <2>0, <2>2, <3>1, <3>2 DEF SlotInvariant, ClaimedHere
      <3>4. RegisteredStays' /\ CountedHome'
        BY <2>0 DEF SlotInvariant, RegisteredStays, CountedHome
      <3>5. \A q : Slots(q)' \subseteq Slots(q) /\ (Unmoved(q)' <=> Unmoved(q))
        BY <2>0, <2>2 DEF Slots, Active, InState, List, Unmoved
      <3>6. WithinLimit'
        BY <2>0, <3>5, FewerSlots DEF SlotInvariant
      <3> QED
        BY <3>3, <3>4, <3>6 DEF SlotInvariant
    <2> QED
      BY <1>7, <2>1, <2>2 DEF Resume
  <1>8. CASE Authorize(p)
    <2>0. UNCHANGED <<runs, registered, rebound>> /\ pass[p].pc = "authorize"
      BY <1>8 DEF Authorize
    <2>1. CASE pass' = [pass EXCEPT ![p].pc = "start"] /\ UNCHANGED items
      <3>1. \A q \in Projects : /\ pass'[q].pc \in Attempting => pass[q].pc \in Attempting
                               /\ pass'[q].id = pass[q].id
                               /\ pass'[q].claimed = pass[q].claimed
        BY <1>0, <2>0, <2>1 DEF PassRecord, Attempting
      <3> QED
        BY <1>1, <2>0, <2>1, <3>1, RowsStep
    <2>2. CASE Fail(pass[p].id, pass[p].claimed) /\ NextItem(p)
      BY <1>0, <1>2, <2>0, <2>2, FailedStays, RowsStep
    <2> QED
      BY <1>3, <1>8, <2>0, <2>1, <2>2 DEF Authorize
  <1>9. CASE RefuseStart(p) \/ StartBroke(p)
    BY <1>3, <1>9 DEF RefuseStart, StartBroke
  <1>10. CASE StartReturned(p)
    <2>1. Stays /\ NoClaim
      BY <1>0, <1>10, StartedStays DEF StartReturned
    <2> QED
      BY <1>2, <1>10, <2>1, RowsStep DEF StartReturned
  <1>11. CASE SaveFailed(p)
    BY <1>1, <1>2, <1>11, RowsStep DEF SaveFailed
  <1> QED
    BY <1>4, <1>5, <1>6, <1>7, <1>8, <1>9, <1>10, <1>11, ClaimSlots, CreateSlots
       DEF PassStep

LEMMA EngineSlots ==
    ASSUME TypeOK, TypeOK', SlotInvariant, Engine PROVE SlotInvariant'
  <1> USE DEF project, memory, history, bounds
  <1>0. runs \in [DOMAIN runs -> Run] /\ IsFiniteSet(DOMAIN runs)
    BY TypeParts DEF RunsOK, SlotInvariant, CountedHome
  <1>1. ASSUME NEW r \in RunIds, Provision(r) PROVE SlotInvariant'
    <2>1. UNCHANGED <<items, pass, registered, rebound>> /\ r \in DOMAIN runs
          /\ runs[r].status # "ended"
      BY <1>1 DEF Provision, Provisioning
    <2>2. CASE runs' = [runs EXCEPT ![r].status = "ended"]
      <3>1. /\ DOMAIN runs' = DOMAIN runs
            /\ \A q \in DOMAIN runs :
                  /\ runs'[q].home = runs[q].home /\ runs'[q].phase = runs[q].phase
                  /\ runs'[q].project = runs[q].project
                  /\ runs'[q].expected = runs[q].expected
                  /\ runs'[q].status # "ended" => runs[q].status # "ended"
        BY <1>0, <2>2 DEF Run
      <3> QED
        BY <1>0, <2>1, <3>1, RunsStep
    <2>3. ASSUME NEW status \in {"running", "awaiting", "ended"},
                 runs' = [runs EXCEPT ![r].status = status,
                                      ![r].phase = "executing",
                                      ![r].project = Current(runs[r].home)]
          PROVE  SlotInvariant'
      <3>1. /\ DOMAIN runs' = DOMAIN runs
            /\ \A q \in DOMAIN runs \ {r} : runs'[q] = runs[q]
            /\ runs'[r].home = runs[r].home /\ runs'[r].phase = "executing"
            /\ runs'[r].project = Current(runs[r].home)
        BY <1>0, <2>1, <2>3 DEF Run
      <3> QED
        BY <1>0, <2>1, <3>1, RunsStep
    <2> QED
      BY <1>1, <2>2, <2>3 DEF Provision
  <1>2. ASSUME NEW r \in RunIds, NEW status \in Statuses,
               (EndRun(r) /\ status = "ended") \/ TurnRun(r, status)
        PROVE  SlotInvariant'
    <2>1. /\ runs' = [runs EXCEPT ![r].status = status]
          /\ UNCHANGED <<items, pass, registered, rebound>>
          /\ r \in DOMAIN runs /\ runs[r].status # "ended"
      BY <1>2 DEF EndRun, TurnRun
    <2>2. /\ DOMAIN runs' = DOMAIN runs
          /\ \A q \in DOMAIN runs :
                /\ runs'[q].home = runs[q].home /\ runs'[q].phase = runs[q].phase
                /\ runs'[q].project = runs[q].project
                /\ runs'[q].expected = runs[q].expected
                /\ runs'[q].status # "ended" => runs[q].status # "ended"
      BY <1>0, <2>1 DEF Run
    <2> QED
      BY <1>0, <2>1, <2>2, RunsStep
  <1> QED
    BY <1>1, <1>2 DEF Engine, Statuses

LEMMA LifecycleSlots ==
    ASSUME TypeOK, TypeOK', ClaimInvariant', SlotInvariant,
           Lifecycle \/ Poll \/ Drain \/ UNCHANGED vars
    PROVE  SlotInvariant'
  <1> USE DEF project, memory, history, bounds, tables
  <1>1. UNCHANGED items => Stays /\ NoClaim
    BY DEF Stays, NoClaim
  <1>2. CASE Closed \/ Crash
    <2>1. /\ UNCHANGED <<items, runs, registered, rebound>>
          /\ \A p \in Projects : pass'[p].pc \notin Attempting
      BY <1>2 DEF Closed, Crash, Stop, Idle, Attempting
    <2> QED
      BY <1>1, <2>1, RowsStep
  <1>3. ASSUME NEW i \in Items, Recover(i) PROVE SlotInvariant'
    <2>1. /\ i \in DOMAIN items /\ Started(i, items[i]) /\ items[i] \in Row
          /\ UNCHANGED <<runs, pass, registered, rebound>>
      BY <1>3, TypeParts DEF Recover, ItemsOK
    <2>2. Stays /\ NoClaim
      BY <2>1, StartedStays
    <2> QED
      BY <2>1, <2>2, RowsStep
  <1>4. CASE \/ Close \/ Boot \/ Recovered \/ SetAuthorize \/ Poll \/ Drain \/ UNCHANGED vars
            \/ \E p \in Projects : Restore(p)
    <2>1. /\ UNCHANGED <<items, runs, pass, rebound>>
          /\ registered' \subseteq registered
      BY <1>4 DEF Close, Boot, Recovered, SetAuthorize, Poll, Drain, Restore, vars
    <2> QED
      BY <1>1, <2>1, RowsStep
  <1> QED
    BY <1>2, <1>3, <1>4 DEF Lifecycle

LEMMA SlotInit == Init => SlotInvariant
  <1> SUFFICES ASSUME Init PROVE SlotInvariant
    OBVIOUS
  <1>1. /\ DOMAIN items = {} /\ DOMAIN runs = {} /\ rebound = [p \in Projects |-> NoProject]
        /\ registered = Projects /\ \A p \in Projects : pass[p].pc = "none"
    BY DEF Init, Idle
  <1>2. \A p : Slots(p) = {}
    BY <1>1 DEF Slots, Active, InState, List
  <1>3. Cardinality({}) = 0 /\ Limit \in [Projects -> Nat]
    BY FS_EmptySet, RunQueueAssumption
  <1>4. WithinLimit
    <2> SUFFICES ASSUME NEW p \in registered PROVE Cardinality(Slots(p)) <= Limit[p]
      BY DEF WithinLimit
    <2>1. Limit[p] \in Nat /\ Slots(p) = {}
      BY <1>1, <1>2, <1>3
    <2> QED
      BY <1>3, <2>1
  <1> QED
    BY <1>1, <1>4, FS_EmptySet
       DEF SlotInvariant, RegisteredStays, CountedHome, ClaimedHere, Attempting

LEMMA SlotsInductive ==
    Spec => [](TypeOK /\ ClaimInvariant /\ RowsConsistent /\ SlotInvariant)
  <1>1. Init => RowsConsistent
    BY DEF Init, RowsConsistent
  <1>2. TypeOK /\ ClaimInvariant /\ RowsConsistent /\ SlotInvariant /\ [Next]_vars
           => (TypeOK /\ ClaimInvariant /\ RowsConsistent /\ SlotInvariant)'
    BY TypeStep, ClaimStep, RowsKept, OwnerSlots, PassSlots, EngineSlots, LifecycleSlots
       DEF Next
  <1> QED
    BY <1>1, <1>2, TypeInit, ClaimInit, SlotInit, PTL DEF Spec

-----------------------------------------------------------------------------
(* The results.                                                            *)

\* Rows stay in one queue each, in a place of their own, although a project can move
\* while a start that read the row waits (queue-store.js save, moveProject; run-queue.js
\* update).
THEOREM RowsStayConsistent == Spec => []RowsConsistent
  BY SlotsInductive, PTL

\* Claims, provisioning, parking, returns and restarts keep the limit of every project
\* that counts parked runs and into which no queue was moved (queue-policy.js,
\* return-service.js).
THEOREM LimitKept == Spec => []StrictLimit
  <1>1. TypeOK /\ SlotInvariant => StrictLimit
    <2> SUFFICES ASSUME TypeOK, SlotInvariant, NEW p \in registered, CountParked[p], Unmoved(p)
                 PROVE  Cardinality(Active(p) \ Direct) <= Limit[p]
      BY DEF StrictLimit
    <2>1. Cardinality(Slots(p)) <= Limit[p]
      BY DEF SlotInvariant, WithinLimit
    <2>2. Limit[p] \in Nat
      BY RunQueueAssumption, TypeParts DEF RestOK
    <2>3. /\ Cardinality(Slots(p)) \in Nat /\ Cardinality(Active(p) \ Direct) \in Nat
          /\ Cardinality(Active(p) \ Direct) <= Cardinality(Slots(p))
      BY SlotsFinite
    <2> QED
      BY <2>1, <2>2, <2>3
  <1> QED
    BY <1>1, SlotsInductive, PTL
=============================================================================
