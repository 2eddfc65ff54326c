------------------------------ MODULE RunQueue ------------------------------
(***************************************************************************)
(* The run queue of server/features/pipelines: run-queue.js, its store     *)
(* (queue-store.js), its slot rules (queue-policy.js), the part of the     *)
(* engine a queued start goes through (pipeline-engine.js start,           *)
(* execution-workspace.js provisionRun) and the project moves and restarts *)
(* that cross a start.                                                     *)
(*                                                                         *)
(* JavaScript runs to the next await without interruption, so an action is *)
(* the code between two awaits; whatever the process keeps only in memory  *)
(* (passes, in-flight items, the dirty marks) is lost by a crash, and the  *)
(* two SQLite tables (items, runs) and the project registry are not.       *)
(***************************************************************************)
EXTENDS Integers, FiniteSets

CONSTANTS
    Projects,    \* project ids
    Items,       \* queue item ids: each is the run id reserved for the item
    Direct,      \* ids of runs the owner starts without the queue
    McpItems,    \* the items queued by an MCP client, whose grant is re-checked
    Limit,       \* [Projects -> Nat]: the setting "Active at most"
    CountParked, \* [Projects -> BOOLEAN]: the setting "Count waiting runs"
    MaxWaiting,  \* MAX_WAITING_ITEMS
    MaxPosition, \* bound on positions
    Kept,        \* KEPT_STARTED_ITEMS
    MaxRestarts, \* bound on crashes and shutdowns
    MaxUnsaved, \* bound on items whose outcome could not be written
    MaxEdits,    \* bound on the operations that could repeat for ever
    NoProject    \* stands for a null project id

ASSUME RunQueueAssumption ==
    /\ Projects # {} /\ Items # {} /\ IsFiniteSet(Items)
    /\ Items \cap Direct = {}
    /\ McpItems \subseteq Items
    /\ Limit \in [Projects -> Nat]
    /\ CountParked \in [Projects -> BOOLEAN]
    /\ MaxWaiting \in Nat /\ Kept \in Nat /\ MaxPosition \in Nat
    /\ MaxRestarts \in Nat /\ MaxUnsaved \in Nat /\ MaxEdits \in Nat
    /\ NoProject \notin Projects

RunIds == Items \cup Direct

VARIABLES
    items,      \* the table items of queue.sqlite: id -> row
    runs,       \* the table runs of runs.sqlite: id -> what the queue reads of it
    registered, \* the projects memory.project() finds
    rebound,    \* memory.reboundTo(): recorded project moves
    mode,       \* "up", "closing" (shutdown), "down", "recovering" (start-up)
    authorize,  \* whether app.js has set queue.authorize
    dirty,      \* changed() asked for a drain
    dirtyProjects, \* RunQueue.dirtyProjects
    pass,       \* RunQueue.passes: what each project's pass is doing
    reserved,   \* ids already handed out (random UUIDs are never reused)
    created,    \* history: how many runs were created for an item
    lost,       \* history: items whose run was deleted before "started" was saved
    unsaved,    \* history: items whose outcome a write error kept from the table
    clock,      \* history: items recorded as started so far, their startedAt
    restarts, edits \* operations used up of the bounds

tables  == <<items, runs>>
project == <<registered, rebound>>
memory  == <<dirty, dirtyProjects, pass>>
history == <<reserved, created, lost, unsaved, clock>>
bounds  == <<restarts, edits>>
vars == <<items, runs, project, mode, authorize, memory, history, bounds>>

States   == {"queued", "starting", "failed", "started"}
Statuses == {"running", "awaiting", "usage", "ended"}
Row == [column : Projects, project : Projects, position : Nat,
        state : States, startedAt : Nat]
Run == [status : Statuses, phase : {"provisioning", "executing"},
        project : Projects \cup {NoProject},
        expected : Projects \cup {NoProject},
        home : Projects] \* whose folder the run was started in
\* Where a project's pass stands: not running, between two items of its loops, or
\* inside the start of one item (attempt()).
Attempting == {"authorize", "start", "provision"}
PassPoints == {"none", "loop"} \cup Attempting

\* The item a pass works on and its row as it was read when it was claimed.
Idle == [pc |-> "none", todo |-> {}, id |-> CHOOSE i \in Items : TRUE,
         claimed |-> [column |-> CHOOSE p \in Projects : TRUE,
                      project |-> CHOOSE p \in Projects : TRUE,
                      position |-> 0, state |-> "queued", startedAt |-> 0]]

-----------------------------------------------------------------------------
(* The store and the slot rules.                                            *)

List(p)          == {i \in DOMAIN items : items[i].column = p}
InState(p, S)    == {i \in List(p) : items[i].state \in S}
InFlight         == {pass[p].id : p \in {q \in Projects : pass[q].pc \in Attempting}}
Exists(p)        == p \in registered
\* Mutant: a run that ended is overlooked.
RunExistsActive(i) == i \in DOMAIN runs /\ runs[i].status # "ended"
RunExists(i)     == i \in DOMAIN runs

\* MAX(position) of a project's rows, 0 without one.
IsLast(p, n) ==
    /\ \A i \in List(p) : items[i].position <= n
    /\ n = 0 \/ \E i \in List(p) : items[i].position = n

HoldsSlot(r, p) ==
    \/ r.status = "running"
    \/ r.status = "usage"
    \/ r.status = "awaiting" /\ CountParked[p]

\* The active runs that count for a project: its own, those started for it, and
\* those its items started.
RunsOf(p) ==
    {r \in DOMAIN runs : /\ runs[r].status # "ended"
                         /\ \/ runs[r].project = p
                            \/ runs[r].expected = p
                            \/ r \in InState(p, {"starting", "started"})}
\* Mutant: a claimed item without a run takes no slot.
OccupiedByRuns(p) == Cardinality({r \in RunsOf(p) : HoldsSlot(runs[r], p)})
OccupiedSlots(p) ==
    Cardinality({r \in RunsOf(p) : HoldsSlot(runs[r], p)}
                \cup (InState(p, {"starting"}) \ RunsOf(p)))

\* itemsToStart: the first queued item, when a slot is free.
NextToStart(p, i) ==
    /\ OccupiedSlots(p) < Limit[p]
    /\ i \in InState(p, {"queued"})
    /\ \A j \in InState(p, {"queued"}) : items[i].position <= items[j].position

\* QueueStore.save: an UPDATE of position, state and document; the column
\* project_id is not among them, and a row that is gone stays gone.
Save(table, i, row) ==
    IF i \in DOMAIN table
    THEN [table EXCEPT ![i] = [row EXCEPT !.column = table[i].column]]
    ELSE table

\* RunQueue.update: the changes go onto the row as stored now, not as claimed.
Stored(i, claimed) == IF i \in DOMAIN items THEN items[i] ELSE claimed
\* Mutant: the claimed copy is saved.
UpdateClaimed(i, claimed, state, at) ==
    Save(items, i, [claimed EXCEPT !.state = state, !.startedAt = at])
Update(i, claimed, state, at) ==
    Save(items, i, [Stored(i, claimed) EXCEPT !.state = state, !.startedAt = at])

\* Removes the started rows of a project beyond the newest Kept.
Trim(table, p) ==
    LET started == {i \in DOMAIN table : table[i].column = p
                                         /\ table[i].state = "started"}
        newer(i) == {j \in started : table[j].startedAt > table[i].startedAt}
        old == {i \in started : Cardinality(newer(i)) >= Kept}
    IN  [i \in DOMAIN table \ old |-> table[i]]

\* RunQueue.started: the row is saved as started, older started rows leave.
Started(i, claimed) ==
    /\ items' = Trim(Update(i, claimed, "started", clock + 1),
                     Stored(i, claimed).project)
    /\ clock' = clock + 1

\* RunQueue.fail, also without a run.
Fail(i, claimed) ==
    /\ items' = Update(i, claimed, "failed", Stored(i, claimed).startedAt)
    /\ UNCHANGED clock

\* RunQueue.changed: a drain is due; nobody listens before start-up is done.
Changed == dirty' = (dirty \/ mode = "up")

-----------------------------------------------------------------------------
(* The owner's and the MCP clients' operations.                            *)

Add(p, i) ==
    /\ mode = "up" /\ Exists(p) /\ i \in Items \ reserved
    /\ Cardinality(InState(p, {"queued", "starting", "failed"})) < MaxWaiting
    /\ \E n \in 0..(MaxPosition - 1) :
          /\ IsLast(p, n)
          /\ items' = [j \in DOMAIN items \cup {i} |->
                          IF j = i THEN [column |-> p, project |-> p,
                                         position |-> n + 1, state |-> "queued",
                                         startedAt |-> 0]
                          ELSE items[j]]
    /\ reserved' = reserved \cup {i}
    /\ Changed
    /\ UNCHANGED <<runs, project, mode, authorize, dirtyProjects, pass, created,
                   lost, unsaved, clock, bounds>>

\* Mutant: an item that is being started can be removed.
RemoveAny(i) ==
    /\ mode = "up" /\ i \in DOMAIN items
    /\ items' = [j \in DOMAIN items \ {i} |-> items[j]]
    /\ Changed
    /\ UNCHANGED <<runs, project, mode, authorize, dirtyProjects, pass, history,
                   bounds>>
Remove(i) ==
    /\ mode = "up" /\ i \in DOMAIN items /\ items[i].state # "starting"
    /\ items' = [j \in DOMAIN items \ {i} |-> items[j]]
    /\ Changed
    /\ UNCHANGED <<runs, project, mode, authorize, dirtyProjects, pass, history,
                   bounds>>

Retry(i) ==
    /\ mode = "up" /\ edits < MaxEdits
    /\ i \in DOMAIN items /\ items[i].state = "failed"
    /\ items' = Save(items, i, [items[i] EXCEPT !.state = "queued"])
    /\ edits' = edits + 1
    /\ Changed
    /\ UNCHANGED <<runs, project, mode, authorize, dirtyProjects, pass, history,
                   restarts>>

\* Exchanges a waiting item with the next waiting one: move down of the first is
\* move up of the second.
Move(i, j) ==
    /\ mode = "up" /\ edits < MaxEdits
    /\ i \in DOMAIN items
    /\ LET waiting == InState(items[i].column, {"queued", "failed"})
       IN  /\ {i, j} \subseteq waiting
           /\ items[i].position < items[j].position
           /\ \A k \in waiting : \/ items[k].position <= items[i].position
                                 \/ items[k].position >= items[j].position
    /\ items' = [items EXCEPT ![i].position = items[j].position,
                              ![j].position = items[i].position]
    /\ edits' = edits + 1
    /\ Changed
    /\ UNCHANGED <<runs, project, mode, authorize, dirtyProjects, pass, history,
                   restarts>>

\* QueueStore.moveProject: every row of a project, whatever its state, goes behind
\* the target's rows in the same order.
MoveRows(from, to) ==
    \E n \in 0..MaxPosition :
        /\ IsLast(to, n)
        /\ n + Cardinality(List(from)) <= MaxPosition
        /\ LET before(i) == {j \in List(from) :
                                items[j].position < items[i].position}
           IN  items' = [i \in DOMAIN items |->
                  IF i \in List(from)
                  THEN [items[i] EXCEPT !.column = to, !.project = to,
                           !.position = n + 1 + Cardinality(before(i))]
                  ELSE items[i]]

\* ProjectRebind records that a folder's project became another one ...
Rebind(from, to) ==
    /\ mode = "up" /\ edits < MaxEdits
    /\ from \in registered /\ from # to
    /\ rebound[from] = NoProject /\ rebound[to] = NoProject
    /\ registered' = (registered \ {from}) \cup {to}
    /\ rebound' = [rebound EXCEPT ![from] = to]
    /\ edits' = edits + 1
    /\ UNCHANGED <<items, runs, mode, authorize, memory, history, restarts>>

\* ... and, after other stores moved, moves its queue (also when a start-up or a
\* later session finishes an interrupted move).
MoveProject(from, to) ==
    /\ mode = "up"
    /\ rebound[from] = to /\ List(from) # {}
    /\ MoveRows(from, to)
    /\ Changed
    /\ UNCHANGED <<runs, project, mode, authorize, dirtyProjects, pass, history,
                   bounds>>

-----------------------------------------------------------------------------
(* The background pass.                                                    *)

\* setInterval: events can be missed, a poll catches up.
Poll ==
    /\ mode = "up" /\ ~dirty
    /\ dirty' = TRUE
    /\ UNCHANGED <<items, runs, project, mode, authorize, dirtyProjects, pass,
                   history, bounds>>

\* drain and schedule: every project with waiting or interrupted items is due.
\* Mutant: only interrupted, or only waiting, items make a project due.
DrainStates(states) ==
    /\ mode = "up" /\ dirty
    /\ dirty' = FALSE
    /\ dirtyProjects' = dirtyProjects \cup {p \in Projects : InState(p, states) # {}}
    /\ UNCHANGED <<items, runs, project, mode, authorize, pass, history, bounds>>
DrainQueued == DrainStates({"queued"})
DrainStarting == DrainStates({"starting"})
Drain ==
    /\ mode = "up" /\ dirty
    /\ dirty' = FALSE
    /\ dirtyProjects' = dirtyProjects \cup
           {p \in Projects : InState(p, {"starting", "queued"}) # {}}
    /\ UNCHANGED <<items, runs, project, mode, authorize, pass, history, bounds>>

Due(p) == /\ mode = "up" /\ pass[p].pc = "none" /\ p \in dirtyProjects
          /\ dirtyProjects' = dirtyProjects \ {p}

\* scheduleProject of a registered project: the list to resume is read once.
BeginPass(p) ==
    /\ Due(p) /\ Exists(p)
    /\ pass' = [pass EXCEPT ![p] =
                   [Idle EXCEPT !.pc = "loop", !.todo = InState(p, {"starting"})]]
    /\ UNCHANGED <<tables, project, mode, authorize, dirty, history, bounds>>

\* orphaned: the items of a project that is gone follow its recorded move, or fail.
Orphaned(p) ==
    /\ Due(p) /\ ~Exists(p)
    /\ \/ /\ rebound[p] \in registered /\ List(p) # {}
          /\ MoveRows(p, rebound[p])
          /\ Changed
       \/ /\ rebound[p] \in registered /\ List(p) = {}
          /\ UNCHANGED <<items, dirty>>
       \/ /\ rebound[p] \notin registered
          /\ items' = [i \in DOMAIN items |->
                 IF i \in InState(p, {"queued"})
                          \cup (InState(p, {"starting"}) \ InFlight)
                 THEN [items[i] EXCEPT !.state = "failed"]
                 ELSE items[i]]
          /\ UNCHANGED dirty
    /\ UNCHANGED <<runs, project, mode, authorize, pass, history, bounds>>

\* launch: the item is in flight until its attempt is over.
Launch(p, i, row) ==
    pass' = [pass EXCEPT ![p] =
                [pc |-> IF i \in McpItems THEN "authorize" ELSE "start",
                 todo |-> @.todo \ {i}, id |-> i, claimed |-> row]]
NextItem(p) ==
    pass' = [pass EXCEPT ![p] = [Idle EXCEPT !.pc = "loop", !.todo = pass[p].todo]]
EndPass(p)  == pass' = [pass EXCEPT ![p] = Idle]

\* Mutant: an item another pass is starting counts as interrupted.
ResumableInFlight(p, i) ==
    i \in DOMAIN items /\ items[i].state = "starting" /\ items[i].project = p
Resumable(p, i) ==
    /\ i \in DOMAIN items /\ items[i].state = "starting" /\ items[i].project = p
    /\ i \notin InFlight

\* resume: an interrupted claim whose run exists is recorded, another is launched
\* again; what changed since the list was read is skipped.
Resume(p, i) ==
    /\ mode = "up" /\ pass[p].pc = "loop" /\ i \in pass[p].todo
    /\ \/ /\ Resumable(p, i) /\ RunExists(i)
          /\ Started(i, items[i])
          /\ pass' = [pass EXCEPT ![p].todo = @ \ {i}]
       \/ /\ Resumable(p, i) /\ ~RunExists(i) /\ (i \in McpItems => authorize)
          /\ Launch(p, i, items[i])
          /\ UNCHANGED <<items, clock>>
       \/ /\ \/ ~Resumable(p, i)
             \/ ~RunExists(i) /\ i \in McpItems /\ ~authorize
          /\ pass' = [pass EXCEPT ![p].todo = @ \ {i}]
          /\ UNCHANGED <<items, clock>>
    /\ UNCHANGED <<runs, project, mode, authorize, dirty, dirtyProjects, reserved,
                   created, lost, unsaved, bounds>>

\* The second loop of scheduleProject: claim the next item, before its start.
Claim(p, i) ==
    /\ mode = "up" /\ pass[p].pc = "loop" /\ pass[p].todo = {}
    /\ NextToStart(p, i) /\ (i \in McpItems => authorize)
    /\ LET row == [items[i] EXCEPT !.state = "starting"]
       IN  items' = Save(items, i, row) /\ Launch(p, i, row)
    /\ UNCHANGED <<runs, project, mode, authorize, dirty, dirtyProjects, history,
                   bounds>>

\* ... or end: nothing may start now, or the queue was closed.
Finish(p) ==
    /\ pass[p].pc = "loop"
    /\ \/ mode = "closing"
       \/ /\ pass[p].todo = {}
          /\ \A i \in Items : NextToStart(p, i) => i \in McpItems /\ ~authorize
    /\ EndPass(p)
    /\ UNCHANGED <<tables, project, mode, authorize, dirty, dirtyProjects, history,
                   bounds>>

\* The catch of attempt(): a shutdown keeps the claim, an existing run counts as
\* started, anything else fails the item.
\* Mutant: a run that was created is not looked for.
StartFailedBlindly(p) ==
    /\ \/ mode = "closing" /\ UNCHANGED <<items, clock>>
       \/ mode # "closing" /\ Fail(pass[p].id, pass[p].claimed)
    /\ NextItem(p)
StartFailed(p) ==
    LET i == pass[p].id
    IN  /\ \/ mode = "closing" /\ UNCHANGED <<items, clock>>
           \/ mode # "closing" /\ ~RunExists(i) /\ Fail(i, pass[p].claimed)
           \/ mode # "closing" /\ RunExists(i) /\ Started(i, pass[p].claimed)
        /\ NextItem(p)

\* authorized: the grant still allows the start, no longer does (403), or could not
\* be checked.
Authorize(p) ==
    /\ pass[p].pc = "authorize"
    /\ \/ /\ pass' = [pass EXCEPT ![p].pc = "start"]
          /\ UNCHANGED <<items, clock>>
       \/ Fail(pass[p].id, pass[p].claimed) /\ NextItem(p)
       \/ StartFailed(p)
    /\ UNCHANGED <<runs, project, mode, authorize, dirty, dirtyProjects, reserved,
                   created, lost, unsaved, bounds>>

\* engine.start up to the insert, which refuses an id that has a run already.
CreateRun(p) ==
    LET i == pass[p].id
    IN  /\ pass[p].pc = "start" /\ ~RunExists(i)
        /\ runs' = [r \in DOMAIN runs \cup {i} |->
                       IF r = i THEN [status |-> "running", phase |-> "provisioning",
                                      project |-> NoProject,
                                      expected |-> pass[p].claimed.project,
                                      home |-> pass[p].claimed.project]
                       ELSE runs[r]]
        /\ created' = [created EXCEPT ![i] = @ + 1]
        /\ pass' = [pass EXCEPT ![p].pc = "provision"]
        /\ Changed
        /\ UNCHANGED <<items, project, mode, authorize, dirtyProjects, reserved,
                       lost, unsaved, clock, bounds>>

\* engine.start refuses (definition, remote, budget, closing) before the insert, or
\* the insert does.
RefuseStart(p) ==
    /\ pass[p].pc = "start"
    /\ StartFailed(p)
    /\ UNCHANGED <<runs, project, mode, authorize, dirty, dirtyProjects, reserved,
                   created, lost, unsaved, bounds>>

Provisioning(r) == runs[r].status = "running" /\ runs[r].phase = "provisioning"

\* engine.start resolved: the run's provisioning is over, however it went. (A deletion
\* waiting for the run's lock goes on only after engine.start has read the run.)
StartReturned(p) ==
    LET i == pass[p].id
    IN  /\ pass[p].pc = "provision"
        /\ i \in DOMAIN runs => ~Provisioning(i)
        /\ Started(i, pass[p].claimed)
        /\ NextItem(p)
        /\ UNCHANGED <<runs, project, mode, authorize, dirty, dirtyProjects,
                       reserved, created, lost, unsaved, bounds>>

\* engine.start rejected after the insert: not even the failure could be saved.
StartBroke(p) ==
    /\ pass[p].pc = "provision"
    /\ pass[p].id \in DOMAIN runs /\ Provisioning(pass[p].id)
    /\ StartFailed(p)
    /\ UNCHANGED <<runs, project, mode, authorize, dirty, dirtyProjects, reserved,
                   created, lost, unsaved, bounds>>

\* The write of a start's outcome throws: the pass ends, the row stays claimed.
SaveFailed(p) ==
    /\ Cardinality(unsaved) < MaxUnsaved /\ mode # "down"
    /\ pass[p].pc \in {"start", "provision"}
    /\ unsaved' = unsaved \cup {pass[p].id}
    /\ EndPass(p)
    /\ UNCHANGED <<tables, project, mode, authorize, dirty, dirtyProjects, reserved,
                   created, lost, clock, bounds>>

-----------------------------------------------------------------------------
(* The engine's side of a run, as far as the queue reads it.               *)

\* The project a folder belongs to now.
Current(p) == IF rebound[p] = NoProject THEN p ELSE rebound[p]

EngineUp == mode \in {"up", "closing", "recovering"}

\* provisionRun: the worktree is prepared and the first stage launched, or the run
\* fails, always when the folder is another project than the start expected.
Provision(r) ==
    /\ EngineUp /\ r \in DOMAIN runs /\ Provisioning(r)
    /\ \/ runs' = [runs EXCEPT ![r].status = "ended"]
       \/ /\ runs[r].expected \in {NoProject, Current(runs[r].home)}
          /\ \E status \in {"running", "awaiting", "ended"} :
                runs' = [runs EXCEPT ![r].status = status,
                                     ![r].phase = "executing",
                                     ![r].project = Current(runs[r].home)]
    /\ Changed
    /\ UNCHANGED <<items, project, mode, authorize, dirtyProjects, pass, history,
                   bounds>>

\* A run ends (completes, fails or is aborted) ...
EndRun(r) ==
    /\ EngineUp /\ r \in DOMAIN runs
    /\ ~Provisioning(r) /\ runs[r].status # "ended"
    /\ runs' = [runs EXCEPT ![r].status = "ended"]
    /\ Changed
    /\ UNCHANGED <<items, project, mode, authorize, dirtyProjects, pass, history,
                   bounds>>

\* ... or parks for the owner or a usage reset, or resumes.
TurnRun(r, status) ==
    /\ EngineUp /\ edits < MaxEdits /\ r \in DOMAIN runs
    /\ ~Provisioning(r) /\ runs[r].status \notin {"ended", status}
    /\ runs' = [runs EXCEPT ![r].status = status]
    /\ edits' = edits + 1
    /\ Changed
    /\ UNCHANGED <<items, project, mode, authorize, dirtyProjects, pass, history,
                   restarts>>

\* requestReturn: an ended run reopens only into a free slot of its project.
ReturnRun(r) ==
    /\ mode = "up" /\ edits < MaxEdits /\ r \in DOMAIN runs
    /\ runs[r].status = "ended" /\ runs[r].phase = "executing"
    /\ Exists(runs[r].project) =>
          OccupiedSlots(runs[r].project) < Limit[runs[r].project]
    /\ runs' = [runs EXCEPT ![r].status = "running"]
    /\ edits' = edits + 1
    /\ Changed
    /\ UNCHANGED <<items, project, mode, authorize, dirtyProjects, pass, history,
                   restarts>>

\* Deleting a run tells the lists that showed it, but not the queue.
DeleteRun(r) ==
    /\ mode = "up" /\ r \in DOMAIN runs /\ runs[r].status = "ended"
    /\ runs' = [q \in DOMAIN runs \ {r} |-> runs[q]]
    /\ lost' = lost \cup {i \in DOMAIN items : i = r /\ items[i].state # "started"}
    /\ UNCHANGED <<items, project, mode, authorize, memory, reserved, created,
                   unsaved, clock, bounds>>

\* The owner starts a run of a project without the queue.
StartDirect(r, p) ==
    /\ mode = "up" /\ r \in Direct \ reserved /\ Exists(p)
    /\ runs' = [q \in DOMAIN runs \cup {r} |->
                   IF q = r THEN [status |-> "running", phase |-> "provisioning",
                                  project |-> NoProject, expected |-> NoProject,
                                  home |-> p]
                   ELSE runs[q]]
    /\ reserved' = reserved \cup {r}
    /\ Changed
    /\ UNCHANGED <<items, project, mode, authorize, dirtyProjects, pass, created,
                   lost, unsaved, clock, bounds>>

-----------------------------------------------------------------------------
(* Shutdown, crash and start-up.                                           *)

\* close: no new claim; the starts under way finish.
Close ==
    /\ mode = "up" /\ restarts < MaxRestarts
    /\ mode' = "closing" /\ restarts' = restarts + 1
    /\ UNCHANGED <<tables, project, authorize, memory, history, edits>>

Stop ==
    /\ mode' = "down"
    /\ pass' = [p \in Projects |-> Idle]
    /\ dirty' = FALSE /\ dirtyProjects' = {} /\ authorize' = FALSE
    /\ UNCHANGED <<tables, project, history, edits>>
Closed ==
    /\ mode = "closing" /\ \A p \in Projects : pass[p].pc = "none"
    /\ Stop /\ UNCHANGED restarts
Crash ==
    /\ EngineUp /\ restarts < MaxRestarts
    /\ Stop /\ restarts' = restarts + 1

\* A restored backup brings its own project registry and no queue items.
Restore(p) ==
    /\ mode = "down" /\ edits < MaxEdits /\ p \in registered
    /\ registered' = registered \ {p}
    /\ edits' = edits + 1
    /\ UNCHANGED <<tables, rebound, mode, authorize, memory, history, restarts>>

Boot ==
    /\ mode = "down" /\ mode' = "recovering"
    /\ UNCHANGED <<tables, project, authorize, memory, history, bounds>>

\* The engine's recovery reconciles every run first; then recover() records every
\* interrupted claim whose run exists ...
Recover(i) ==
    /\ mode = "recovering"
    /\ \A r \in DOMAIN runs : ~Provisioning(r)
    /\ i \in DOMAIN items /\ items[i].state = "starting" /\ RunExists(i)
    /\ Started(i, items[i])
    /\ UNCHANGED <<runs, project, mode, authorize, memory, reserved, created,
                   lost, unsaved, bounds>>

\* ... and leaves the others to the background pass.
Recovered ==
    /\ mode = "recovering"
    /\ \A r \in DOMAIN runs : ~Provisioning(r)
    /\ \A i \in DOMAIN items : items[i].state = "starting" => ~RunExists(i)
    /\ mode' = "up" /\ dirty' = TRUE
    /\ UNCHANGED <<tables, project, authorize, dirtyProjects, pass, history, bounds>>

\* app.js sets queue.authorize later and calls changed().
SetAuthorize ==
    /\ mode = "up" /\ ~authorize
    /\ authorize' = TRUE
    /\ Changed
    /\ UNCHANGED <<tables, project, mode, dirtyProjects, pass, history, bounds>>

-----------------------------------------------------------------------------
Init ==
    /\ items = [i \in {} |-> 0] /\ runs = [r \in {} |-> 0]
    /\ registered = Projects /\ rebound = [p \in Projects |-> NoProject]
    /\ mode = "recovering" /\ authorize = FALSE
    /\ dirty = FALSE /\ dirtyProjects = {} /\ pass = [p \in Projects |-> Idle]
    /\ reserved = {} /\ created = [i \in Items |-> 0] /\ lost = {} /\ unsaved = {}
    /\ clock = 0
    /\ restarts = 0 /\ edits = 0

Owner ==
    \/ \E p \in Projects, i \in Items : Add(p, i)
    \/ \E i \in Items : Remove(i) \/ Retry(i)
    \/ \E i, j \in Items : Move(i, j)
    \/ \E p, q \in Projects : Rebind(p, q) \/ MoveProject(p, q)
    \/ \E r \in RunIds : ReturnRun(r) \/ DeleteRun(r)
    \/ \E r \in Direct, p \in Projects : StartDirect(r, p)
PassStep(p) ==
    \/ BeginPass(p) \/ Orphaned(p) \/ Finish(p)
    \/ \E i \in Items : Resume(p, i) \/ Claim(p, i)
    \/ Authorize(p) \/ CreateRun(p) \/ RefuseStart(p)
    \/ StartReturned(p) \/ StartBroke(p)
Engine ==
    \E r \in RunIds : \/ Provision(r) \/ EndRun(r)
                      \/ \E status \in Statuses \ {"ended"} : TurnRun(r, status)
Lifecycle ==
    \/ Close \/ Closed \/ Crash \/ Boot \/ Recovered \/ SetAuthorize
    \/ \E i \in Items : Recover(i)
    \/ \E p \in Projects : Restore(p)

Next == \/ Owner \/ Engine \/ Lifecycle \/ Poll \/ Drain
        \/ \E p \in Projects : PassStep(p) \/ SaveFailed(p)

Spec == Init /\ [][Next]_vars

\* The timers and the event loop go on (polls, passes, provisioning), the process is
\* started again after it stopped, and a run does not stay active for ever.
Fairness ==
    /\ WF_vars(Poll) /\ WF_vars(Drain) /\ WF_vars(Closed) /\ WF_vars(Boot)
    /\ WF_vars(Recovered) /\ WF_vars(SetAuthorize)
    /\ \A p \in Projects : WF_vars(PassStep(p))
    /\ \A i \in Items : WF_vars(Recover(i))
    /\ \A r \in RunIds : WF_vars(Provision(r))
RunsEnd == \A r \in RunIds : WF_vars(EndRun(r))

FairSpec == Spec /\ Fairness /\ RunsEnd
-----------------------------------------------------------------------------
(* What makes the queue correct.                                           *)

TypeOK ==
    /\ DOMAIN items \subseteq Items /\ items \in [DOMAIN items -> Row]
    /\ DOMAIN runs \subseteq RunIds /\ runs \in [DOMAIN runs -> Run]
    /\ registered \subseteq Projects
    /\ rebound \in [Projects -> Projects \cup {NoProject}]
    /\ mode \in {"up", "closing", "down", "recovering"}
    /\ authorize \in BOOLEAN /\ dirty \in BOOLEAN
    /\ dirtyProjects \subseteq Projects
    /\ pass \in [Projects -> [pc : PassPoints, todo : SUBSET Items, id : Items,
                              claimed : Row]]
    /\ reserved \subseteq RunIds /\ created \in [Items -> Nat]
    /\ lost \subseteq Items /\ unsaved \subseteq Items /\ clock \in Nat
    /\ restarts \in Nat /\ edits \in Nat

\* Every row is in the queue its document names, and a queue has one row per place,
\* although a move to another project can cross the start of an item, whose claimed
\* copy still names the old project and place (update, moveProject).
RowsConsistent ==
    /\ \A i \in DOMAIN items : items[i].column = items[i].project
    /\ \A i, j \in DOMAIN items :
          items[i].project = items[j].project
             /\ items[i].position = items[j].position => i = j

\* No two passes start the same item, although a moved item belongs to a project
\* whose own pass resumes interrupted claims.
OnePassPerItem ==
    \A p, q \in Projects :
        pass[p].pc \in Attempting /\ pass[q].pc \in Attempting
           /\ pass[p].id = pass[q].id => p = q

\* An item whose start may be repeated (it waits, or failed and can be retried) never
\* had a run: whatever failed, crashed or was shut down between the insert of the run
\* and the record of it, the row does not end as failed. (A write error can keep the
\* record out; if the project then goes, the orphan rule fails the row.)
RepeatableNeverRan ==
    \A i \in Items \ (lost \cup unsaved) :
        i \in DOMAIN items /\ items[i].state \in {"queued", "failed"}
            => created[i] = 0

\* At most one run is ever created for an item, unless the owner deleted the first
\* one while the queue still had to record it: no crash, shutdown, write error, retry
\* or project move makes the queue forget a run.
AtMostOneStart == \A i \in Items : created[i] > 1 => i \in lost

\* An item shown as started had its run created: a failed, refused or interrupted
\* start is never recorded as a started one.
StartedHadRun ==
    \A i \in DOMAIN items : items[i].state = "started" => created[i] > 0

\* The inductive strengthening behind these invariants, part by part: a pass starts
\* only claimed rows, a stopped process has no pass, ...
AttemptsClaimed ==
    /\ \A p \in Projects : pass[p].pc \in Attempting =>
          pass[p].id \in DOMAIN items /\ items[pass[p].id].state = "starting"
    /\ mode \in {"down", "recovering"} => \A p \in Projects : pass[p].pc = "none"

\* ... created counts the runs, and only ids that were handed out have one, ...
CreatedCounts ==
    /\ DOMAIN items \subseteq reserved
    /\ \A i \in Items : /\ i \notin reserved => created[i] = 0
                        /\ i \in DOMAIN runs => created[i] > 0
    /\ \A p \in Projects : pass[p].pc = "provision" => created[pass[p].id] > 0

\* ... an item without a run that is not recorded as started never had one, unless its
\* run was deleted, ...
UnrecordedNeverRan ==
    \A i \in DOMAIN items : items[i].state # "started" /\ i \notin DOMAIN runs
        => created[i] = 0 \/ i \in lost

\* ... and a claim no pass has taken past its insert has no run.
ClaimHasNoRun ==
    /\ \A p \in Projects : pass[p].pc \in {"authorize", "start"} =>
          pass[p].id \in lost \cup unsaved \/ pass[p].id \notin DOMAIN runs
    /\ mode = "up" => \A i \in DOMAIN items :
          items[i].state = "starting" /\ i \notin InFlight =>
             i \in lost \cup unsaved \/ i \notin DOMAIN runs

ClaimInvariant ==
    /\ OnePassPerItem /\ AttemptsClaimed /\ CreatedCounts /\ UnrecordedNeverRan
    /\ AtMostOneStart /\ StartedHadRun /\ ClaimHasNoRun /\ RepeatableNeverRan

\* The runs a registered project's queue started never exceed its limit when it counts
\* parked runs: claims, provisioning, parking, resuming, returns to a stage and
\* restarts keep it. (A direct start is never refused, so it is not held to it; and a
\* moved queue brings claims along, which are resumed without asking for a slot.)
Active(p) == {r \in DOMAIN runs : runs[r].status # "ended" /\ runs[r].home = p}
Unmoved(p) == \A q \in Projects : rebound[q] # p
StrictLimit ==
    \A p \in registered :
        CountParked[p] /\ Unmoved(p) => Cardinality(Active(p) \ Direct) <= Limit[p]

\* A run is created only for an item that stands as claimed in the store: never for
\* one removed, moved to failed or already recorded while the pass waited.
CreatedOnlyForClaim ==
    [][\A i \in Items : created'[i] # created[i] =>
          i \in DOMAIN items /\ items[i].state = "starting"]_vars

\* A claim never stays: shut down, crashed or moved while it started, it ends as
\* started, failed or (its project gone) failed by the orphan rule.
ClaimSettles ==
    \A i \in Items : (i \in DOMAIN items /\ items[i].state = "starting")
        ~> ~(i \in DOMAIN items /\ items[i].state = "starting")

\* A waiting item never starves while runs end: it is claimed, fails, or is removed.
QueuedProgress ==
    \A i \in Items : (i \in DOMAIN items /\ items[i].state = "queued")
        ~> ~(i \in DOMAIN items /\ items[i].state = "queued")
=============================================================================
