--------------------------- MODULE ParallelGroup ---------------------------
(***************************************************************************)
(* A parallel review group of one pipeline run: parallel-group.js and      *)
(* group-actions.js, with what launchStage, applyOutcome, reconcileGroup   *)
(* and the token budget do for a member and for the group.                 *)
(*                                                                         *)
(* `group' and `member' are the STORED run document; `task' is where the   *)
(* operation that holds the run's lock waits, and is all a crash loses.    *)
(* The stages before and behind the group are one place each.  The gates   *)
(* of a concluding stage are those of PipelineRun.                         *)
(***************************************************************************)
EXTENDS Integers, FiniteSets

CONSTANTS
    N,           \* members of the group, in their order 1..N
    Concurrency,
    MaxNudges,   \* verdict nudges of one attempt (2 in the code)
    MaxLoops,    \* maxIterations of the fail edge
    MaxWrites,   \* bound: writes of the members to the worktree
    MaxTrouble   \* bound: decisions of the owner, crashes, failing calls and turns, and
                 \* crossings of the token budget, together

ASSUME GroupAssumption ==
    /\ N \in Nat \ {0} /\ Concurrency \in 1..N
    /\ {MaxNudges, MaxLoops, MaxWrites, MaxTrouble} \subseteq Nat

VARIABLES
    group,    \* the run and its group node and attempt
    member,   \* the member nodes with their newest attempt and active turn
    task,
    proc,     \* the CLI of a member's newest turn, and what it ended with
    file,     \* the verdict it wrote
    worktree, \* its commit, and whether it holds uncommitted changes
    used,     \* what is used up of each bound
    seen      \* history: the group was passed as it stood, and what the owner decided

vars == <<group, member, task, proc, file, worktree, used, seen>>

Members  == 1..N
Verdicts == {"pass", "fail", "human"}
None == "none"
Least(S) == CHOOSE m \in S : \A k \in S : m <= k

-----------------------------------------------------------------------------
(* The stored document.                                                     *)

Fresh == [status |-> "pending", reason |-> None, queued |-> None, turn |-> FALSE,
          verdict |-> None, overridden |-> FALSE, native |-> FALSE, nudges |-> 0,
          attempt |-> None, round |-> 0, stopped |-> FALSE]

\* resetMember: its attempts, and the nudges of the last one, stay.
ResetMember(m) == [m EXCEPT !.status = "pending", !.reason = None, !.queued = None,
                     !.verdict = None, !.overridden = FALSE, !.native = FALSE]

\* memberTurn: the newest turn, if it is one of this round.
HasTurn(k) == member[k].attempt # None /\ member[k].round = group.round

\* The operation under the lock: where it waits, the member it is about, and, for a
\* launch, whether it goes on with the sweep over the next member or with progressGroup.
Idle == [do |-> "idle", m |-> 0, back |-> "progress"]
Do(what) == [Idle EXCEPT !.do = what]

Calm == used.owner + used.mishaps < MaxTrouble
Mishap == Calm /\ used' = [used EXCEPT !.mishaps = @ + 1]
Busy == {k \in Members : member[k].status = "running"}
Blocked == {k \in Members : member[k].status # "reported"}
Live == group.at = "group" /\ group.run = "running"

\* park on the group, on a member (whose attempt of an earlier round stays as it was).
ParkGroup(why) ==
    group' = [group EXCEPT !.run = "waiting", !.pend = None, !.concl = FALSE,
                 !.reason = why,
                 !.status = IF why \in {"changed-files", "verdict-fail"}
                            THEN "gate" ELSE "failed"]
Parked(m, why) == [m EXCEPT !.status = IF why = "verdict" THEN "gate" ELSE "failed",
                      !.reason = why, !.turn = FALSE, !.queued = None]

\* holdTurn on the group: what raising the budget starts again.
HoldGroup(hold) ==
    group' = [group EXCEPT !.at = "group", !.run = "waiting", !.status = "gate",
                 !.reason = "budget", !.hold = hold, !.pend = None, !.concl = FALSE,
                 !.resets = FALSE, !.heldReason = IF group.reason = "budget" THEN None ELSE group.reason]

-----------------------------------------------------------------------------
(* launchGroup, in its two saves.                                           *)

\* The launch waits for the owner above the budget; else its turn is saved.
Launch(g, how) ==
    IF used.over THEN
        /\ HoldGroup(how) /\ task' = Idle
    ELSE
        /\ group' = [g EXCEPT !.pend = how] /\ task' = Do("launch")

\* Mutant: a resume after a usage limit starts every blocked member.
LaunchedAll(k) ==
    IF group.pend = "fresh" \/ member[k].status # "reported"
    THEN ResetMember(member[k]) ELSE member[k]
\* A fresh launch is a new round of every member; a resume keeps what was reported,
\* and after a usage limit starts only the members that hit it.
Launched(k) ==
    IF group.pend = "fresh" THEN ResetMember(member[k])
    ELSE IF member[k].status # "reported" /\ ~member[k].turn
            /\ (group.reason = "usage" => member[k].reason = "usage")
         THEN ResetMember(member[k]) ELSE member[k]

Opened == [group EXCEPT !.at = "group", !.status = "running", !.run = "running",
              !.pend = None, !.concl = FALSE, !.reason = None, !.resets = FALSE,
              !.overridden = FALSE,
              !.round = IF group.pend = "fresh" THEN @ + 1 ELSE @,
              !.base = IF group.pend = "fresh" THEN -1 ELSE @,
              !.end = IF group.pend = "fresh" THEN -1 ELSE @]
Committed == [head |-> worktree.head + (IF worktree.dirty THEN 1 ELSE 0), dirty |-> FALSE]

LaunchGroup ==
    /\ task.do = "launch"
    /\ member' = [k \in Members |-> Launched(k)]
    /\ IF Opened.base # -1
       THEN group' = Opened /\ UNCHANGED worktree
       ELSE worktree' = Committed /\ group' = [Opened EXCEPT !.base = worktree'.head]
    /\ task' = Do("progress")
    /\ UNCHANGED <<proc, file, used, seen>>

\* The starting checkpoint fails: the attempt and the reset members are saved with it.
LaunchFails ==
    /\ task.do = "launch" /\ Opened.base = -1 /\ Mishap
    /\ member' = [k \in Members |-> Launched(k)]
    /\ group' = [Opened EXCEPT !.run = "waiting", !.status = "failed",
                    !.reason = "session-error"]
    /\ task' = Idle
    /\ UNCHANGED <<proc, file, worktree, seen>>

-----------------------------------------------------------------------------
(* A member's turn: launchStage, prepareStage, driver.start.                *)

After(k, back) ==
    IF back = "sweep" /\ k < N THEN [do |-> "sweep", m |-> k + 1, back |-> "progress"]
    ELSE Do("progress")
\* The turn is queued on the member, or held there above the budget.
LaunchMember(k, m, kind, back) ==
    /\ member' = [member EXCEPT ![k] =
                     [m EXCEPT !.queued = kind,
                               !.status = IF used'.over THEN "pending" ELSE @]]
    /\ task' = IF used'.over THEN After(k, back)
               ELSE [do |-> "prepare", m |-> k, back |-> back]

Prepared(m) ==
    IF m.queued = "kickoff" THEN [m EXCEPT !.native = FALSE, !.nudges = 0] ELSE m
Prepare ==
    LET k == task.m
        m == Prepared(member[k])
    IN  /\ task.do = "prepare"
        /\ member' = [member EXCEPT ![k] =
               [m EXCEPT !.status = "running", !.reason = None, !.queued = None,
                    !.verdict = None, !.overridden = FALSE, !.turn = TRUE, !.stopped = FALSE,
                    !.attempt = "launching", !.round = group.round]]
        /\ proc' = [proc EXCEPT ![k] = None] /\ file' = [file EXCEPT ![k] = None]
        /\ task' = [task EXCEPT !.do = "start"]
        /\ UNCHANGED <<group, worktree, used, seen>>
PrepareFails == \* the worktree cannot be read, no free port block
    /\ task.do = "prepare" /\ Mishap
    /\ member' = [member EXCEPT ![task.m] = Parked(Prepared(@), "session-error")]
    /\ task' = After(task.m, task.back)
    /\ UNCHANGED <<group, proc, file, worktree, seen>>
Start ==
    /\ task.do = "start"
    /\ member' = [member EXCEPT ![task.m].attempt = "running", ![task.m].native = TRUE]
    /\ proc' = [proc EXCEPT ![task.m] = "live"]
    /\ task' = After(task.m, task.back)
    /\ UNCHANGED <<group, file, worktree, used, seen>>
StartFails ==
    /\ task.do = "start" /\ Mishap
    /\ member' = [member EXCEPT ![task.m] = Parked(@, "session-error")]
    /\ task' = After(task.m, task.back)
    /\ UNCHANGED <<group, proc, file, worktree, seen>>

-----------------------------------------------------------------------------
(* progressGroup and settleGroup.                                           *)

\* Mutant: a queued turn is only started with its member.
InterruptedNone == {}
Interrupted == {k \in Busy : member[k].queued # None /\ ~member[k].turn}
Pending == {k \in Members : member[k].status = "pending"}
KindOf(k) == IF member[k].queued = None THEN "kickoff" ELSE member[k].queued

Steady == Live /\ Interrupted = {}
\* settleGroup up to its join: nothing while a member works or waits, then a blocked
\* member parks the group.
Settle ==
    \/ /\ Pending \cup Busy # {}
       /\ task' = Idle /\ UNCHANGED <<group, member>>
    \/ /\ Pending \cup Busy = {} /\ Blocked # {}
       /\ LET limited == \E k \in Blocked : member[k].reason = "usage"
          IN  group' = [group EXCEPT !.run = "waiting", !.status = "failed", !.pend = None,
                            !.concl = FALSE, !.resets = limited,
                            !.reason = IF limited THEN "usage" ELSE "members-blocked"]
       /\ task' = Idle /\ UNCHANGED member
    \/ /\ Pending \cup Busy = {} /\ Blocked = {}
       /\ task' = Do("join") /\ UNCHANGED <<group, member>>

\* One turn of its loop.
Progress ==
    /\ task.do = "progress"
    /\ UNCHANGED <<proc, file, worktree, used, seen>>
    /\ \/ ~Live /\ task' = Idle /\ UNCHANGED <<group, member>>
       \/ /\ Live /\ Interrupted # {}
          /\ LET k == Least(Interrupted)
             IN  LaunchMember(k, member[k], member[k].queued, "progress")
          /\ UNCHANGED group
       \/ /\ Steady /\ used.over /\ Pending # {}
          /\ IF Busy = {} THEN HoldGroup("progress") ELSE UNCHANGED group
          /\ task' = Idle /\ UNCHANGED member
       \/ /\ Steady /\ ~used.over /\ Pending # {} /\ Cardinality(Busy) < Concurrency
          /\ LET k == Least(Pending) IN LaunchMember(k, member[k], KindOf(k), "progress")
          /\ UNCHANGED group
       \/ /\ Steady /\ (Pending # {} => ~used.over /\ Cardinality(Busy) >= Concurrency)
          /\ Settle

\* joinVerdict: an overridden member passes, and asks nobody.
Passes(k) == member[k].overridden \/ member[k].verdict = "pass"
Asks(k) == ~member[k].overridden /\ member[k].verdict = "human"
\* Mutant: one passing member is enough.
JoinVerdictAny == IF \E k \in Members : Passes(k) THEN "pass" ELSE "fail"
JoinVerdict == IF \E k \in Members : Asks(k) THEN "human"
               ELSE IF \A k \in Members : Passes(k) THEN "pass" ELSE "fail"

\* settleGroup up to its checkpoint, which an interrupted join may have made already.
Join ==
    /\ task.do = "join"
    /\ IF group.end = -1
       THEN /\ worktree' = Committed
            /\ group' = [group EXCEPT !.verdict = JoinVerdict, !.end = Committed.head]
       ELSE /\ UNCHANGED worktree
            /\ group' = [group EXCEPT !.verdict = JoinVerdict]
    /\ task' = Do("joined")
    /\ UNCHANGED <<member, proc, file, used, seen>>
JoinFails ==
    /\ task.do = "join" /\ group.end = -1 /\ Mishap
    /\ ParkGroup("session-error") /\ task' = Idle
    /\ UNCHANGED <<member, proc, file, worktree, seen>>
\* Only a worktree that is still the starting commit concludes.
Joined ==
    /\ task.do = "joined"
    /\ IF group.base = -1 \/ group.end # group.base
       THEN ParkGroup("changed-files") /\ task' = Idle
       ELSE group' = [group EXCEPT !.concl = TRUE] /\ task' = Do("conclude")
    /\ UNCHANGED <<member, proc, file, worktree, used, seen>>

\* resetStages, on the group and its members, and the way back to the repair.
LoopBack ==
    /\ group' = [group EXCEPT !.at = "repair", !.run = "running", !.status = "pending",
                    !.pend = None, !.concl = FALSE, !.reason = None, !.verdict = None,
                    !.hold = None]
    /\ member' = [k \in Members |-> [member[k] EXCEPT !.status = "pending", !.reason = None,
                                        !.verdict = None, !.native = FALSE]]
Pass(g) == group' = [g EXCEPT !.at = "beyond", !.run = "running", !.status = "passed",
                        !.pend = None, !.concl = FALSE, !.reason = None]
Conclude ==
    /\ task.do = "conclude" /\ task' = Idle
    /\ IF group.overridden \/ group.verdict = "pass" THEN
           Pass(group) /\ UNCHANGED <<member, used>>
       ELSE IF group.verdict = "fail" /\ used.loops < MaxLoops THEN
           LoopBack /\ used' = [used EXCEPT !.loops = @ + 1]
       ELSE ParkGroup("verdict-fail") /\ UNCHANGED <<member, used>>
    /\ UNCHANGED <<proc, file, worktree, seen>>

-----------------------------------------------------------------------------
(* reconcileRun: one look of the poll.                                      *)

Poll ==
    /\ task = Idle /\ UNCHANGED <<member, proc, file, worktree, seen, used>>
    /\ IF group.cancel THEN task' = Do("cancel") /\ UNCHANGED group
       ELSE /\ group.at = "group"
            /\ IF group.run = "waiting" THEN
                   /\ group.resets /\ group.reason = "usage" \* its time has come
                   /\ Launch(group, "resume")
               ELSE IF group.pend # None THEN Launch(group, group.pend)
               ELSE /\ task' = IF group.concl THEN Do("conclude")
                               ELSE [Do("sweep") EXCEPT !.m = 1]
                    /\ UNCHANGED group

\* applyOutcome for a CLI that ended well: its verdict, or a nudge for it.
Reports(k, m) ==
    IF file[k] \in Verdicts THEN
        /\ member' = [member EXCEPT ![k] = [m EXCEPT !.status = "reported",
                                                     !.verdict = file[k]]]
        /\ task' = After(k, "sweep")
    ELSE IF m.nudges < MaxNudges THEN
        LaunchMember(k, [m EXCEPT !.nudges = @ + 1], "nudge", "sweep")
    ELSE /\ member' = [member EXCEPT ![k] = Parked(m, "verdict")]
         /\ task' = After(k, "sweep")

\* settleTurn for the member whose turn it is in reconcileGroup.
Sweep ==
    LET k == task.m
        ended == [member[k] EXCEPT !.turn = FALSE, !.attempt = "finished"]
    IN  /\ task.do = "sweep" /\ UNCHANGED <<group, worktree, file>>
        /\ IF ~member[k].turn \/ proc[k] \in {None, "live"} THEN
               /\ UNCHANGED <<proc, used, seen>>
               /\ task' = After(k, "sweep")
               /\ member' = IF \/ member[k].turn /\ proc[k] = None
                               \/ /\ member[k].status = "running" /\ ~member[k].turn
                                  /\ member[k].queued = None
                            THEN [member EXCEPT ![k] = Parked(@, "session-error")]
                            ELSE member
           ELSE
               /\ UNCHANGED <<proc, seen>>
               \* Its usage may take the run above the budget.
               /\ \E over \in {used.over, used.over \/ Calm} :
                     used' = [used EXCEPT !.over = over,
                                 !.mishaps = IF over # used.over THEN @ + 1 ELSE @]
               /\ IF proc[k] = "done" THEN Reports(k, ended)
                  ELSE /\ member' = [member EXCEPT ![k] =
                              Parked(ended, IF proc[k] = "limit" THEN "usage"
                                            ELSE "session-error")]
                       /\ task' = After(k, "sweep")
\* A turn that works too long is stopped; one that cannot be inspected is given up.
SweepGivesUp ==
    LET k == task.m
    IN  /\ task.do = "sweep" /\ member[k].turn /\ proc[k] = "live" /\ Mishap
        /\ \E stopped \in BOOLEAN :
              /\ member' = [member EXCEPT ![k] =
                     [Parked(@, IF stopped THEN "timeout" ELSE "session-error")
                         EXCEPT !.stopped = stopped]]
              /\ proc' = [proc EXCEPT ![k] = IF stopped THEN "stopped" ELSE @]
              /\ seen' = [seen EXCEPT !.lost = @ \/ ~stopped]
        /\ task' = After(k, "sweep")
        /\ UNCHANGED <<group, file, worktree>>

-----------------------------------------------------------------------------
(* memberActions: the owner decides on one member.                          *)

Decide == /\ task = Idle /\ Calm
          /\ used' = [used EXCEPT !.owner = @ + 1]
Collecting == group.at = "group" /\ (group.status = "running"
                                       \/ group.reason \in {"members-blocked", "usage"})
TurnFailed(k) == /\ member[k].status = "failed" /\ HasTurn(k)
                 /\ member[k].reason \in {"session-error", "timeout"}
                 /\ member[k].attempt # "launching"

\* Mutant: the join that asked the owner stands.
ReopenedStale == IF group.status = "running" THEN group
                 ELSE [group EXCEPT !.status = "running", !.run = "running",
                          !.reason = None, !.resets = FALSE]
\* reopen: a parked group joins again.
Reopened == IF group.status = "running" THEN group
            ELSE [group EXCEPT !.status = "running", !.run = "running", !.reason = None,
                     !.verdict = None, !.resets = FALSE, !.end = -1]

Retry(k) ==
    /\ Decide /\ Collecting /\ member[k].status = "failed"
    /\ member' = [member EXCEPT ![k].status = "pending", ![k].reason = None,
                                ![k].queued = None]
    /\ group' = Reopened /\ task' = Do("progress")
    /\ UNCHANGED <<proc, file, worktree, seen>>

\* assertStopped
Stopped(k) == member[k].status = "failed" /\ HasTurn(k)
                  => ~member[k].turn /\ proc[k] \notin {None, "live"}
Overridden(m) == [m EXCEPT !.status = "reported", !.overridden = TRUE, !.reason = None]
Override(k) ==
    /\ Decide /\ Collecting /\ (TurnFailed(k) \/ member[k].status = "gate") /\ Stopped(k)
    /\ member' = [member EXCEPT ![k] = Overridden(@)]
    /\ group' = Reopened /\ task' = Do("progress")
    /\ UNCHANGED <<proc, file, worktree, seen>>

Feedback(k) ==
    /\ Decide /\ member[k].native
    /\ \/ Collecting /\ member[k].status = "gate"
       \/ /\ group.at = "group" /\ group.status = "gate" /\ group.reason = "verdict-fail"
          /\ member[k].status = "reported" /\ Asks(k) /\ HasTurn(k)
    /\ group' = Reopened
    /\ LaunchMember(k, member[k], "feedback", "progress")
    /\ UNCHANGED <<proc, file, worktree, seen>>

Reconcile(k) ==
    /\ Decide /\ Collecting /\ TurnFailed(k) /\ ~member[k].stopped
    /\ proc[k] = "done" /\ file[k] \in Verdicts
    /\ member' = [member EXCEPT ![k].status = "reported", ![k].verdict = file[k],
                                ![k].reason = None]
    /\ group' = Reopened /\ task' = Do("progress")
    /\ UNCHANGED <<proc, file, worktree, seen>>

-----------------------------------------------------------------------------
(* gateAction and overrideGroup: the owner decides on the group.            *)

Waiting == group.at = "group" /\ group.run = "waiting"

RetryGroup ==
    /\ Decide /\ Waiting /\ group.status = "failed"
    /\ Launch([group EXCEPT !.resets = FALSE], "resume")
    /\ UNCHANGED <<member, proc, file, worktree, seen>>

OverrideMembers ==
    /\ Decide /\ Waiting /\ group.reason = "members-blocked"
    /\ \A k \in Blocked : Stopped(k)
    /\ member' = [k \in Members |-> IF k \in Blocked THEN Overridden(member[k])
                                    ELSE member[k]]
    /\ group' = Reopened /\ task' = Do("progress")
    /\ UNCHANGED <<proc, file, worktree, seen>>

\* The accepted commit is the group's new starting point.
AcceptChanges ==
    /\ Decide /\ Waiting /\ group.reason = "changed-files"
    /\ group' = [group EXCEPT !.run = "running", !.status = "running", !.reason = None,
                    !.base = group.end, !.concl = TRUE]
    /\ seen' = [seen EXCEPT !.written = FALSE]
    /\ task' = Do("conclude")
    /\ UNCHANGED <<member, proc, file, worktree>>

\* overrideStage or accept at any other gate: the stage passes as it stands.
PassGate ==
    /\ Decide /\ Waiting /\ group.status = "gate"
    /\ group.reason \notin {"changed-files", "members-blocked", "budget"}
    /\ Pass([group EXCEPT !.overridden = TRUE]) /\ task' = Idle
    /\ UNCHANGED <<member, proc, file, worktree, seen>>

\* The new budget is above what was used so far.
RaiseBudget ==
    /\ task = Idle /\ Calm /\ used.over
    /\ used' = [used EXCEPT !.owner = @ + 1, !.over = FALSE]
    /\ group.at = "repair" \/ (Waiting /\ group.reason = "budget")
    /\ UNCHANGED <<member, proc, file, worktree, seen>>
    /\ IF group.at = "repair" THEN UNCHANGED <<group, task>>
       ELSE LET g == [group EXCEPT !.hold = None, !.reason = group.heldReason,
                                   !.heldReason = None]
            IN  IF group.hold = "progress"
                THEN /\ group' = [g EXCEPT !.status = "running", !.run = "running"]
                     /\ task' = Do("progress")
                ELSE /\ group' = [g EXCEPT !.pend = group.hold] /\ task' = Do("launch")

OwnerLoopBack ==
    /\ Decide /\ Waiting /\ MaxLoops > 0 /\ group.reason # "budget"
    /\ LoopBack /\ UNCHANGED <<task, proc, file, worktree, seen>>

-----------------------------------------------------------------------------
(* cancelRun.                                                               *)

Abort ==
    /\ Decide /\ group.at = "group" /\ ~group.cancel
    /\ group' = [group EXCEPT !.cancel = TRUE] /\ task' = Do("cancel")
    /\ UNCHANGED <<member, proc, file, worktree, seen>>
\* Mutant: one turn is stopped.
AliveFirst == {k \in {1} : member[k].turn /\ proc[k] = "live"}
Alive == {k \in Members : member[k].turn /\ proc[k] = "live"}
CancelTurn ==
    /\ task.do = "cancel" /\ Alive # {}
    /\ proc' = [proc EXCEPT ![Least(Alive)] = "stopped"]
    /\ UNCHANGED <<group, member, task, file, worktree, used, seen>>
CancelFails ==
    /\ task.do = "cancel" /\ Alive # {} /\ Mishap /\ task' = Idle
    /\ UNCHANGED <<group, member, proc, file, worktree, seen>>
Cancelled ==
    /\ task.do = "cancel" /\ Alive = {}
    /\ group' = [group EXCEPT !.at = "cancelled", !.cancel = FALSE, !.pend = None,
                    !.status = IF @ \in {"running", "gate"} THEN "cancelled" ELSE @]
    /\ member' = [k \in Members |-> [member[k] EXCEPT !.turn = FALSE,
                     !.status = IF @ \in {"running", "gate"} THEN "cancelled" ELSE @]]
    /\ task' = Idle
    /\ UNCHANGED <<proc, file, worktree, used, seen>>

-----------------------------------------------------------------------------
(* The members' CLIs, the stage the group sends back to, and crashes.       *)

ProcEnds(k) ==
    /\ proc[k] = "live" /\ UNCHANGED <<group, member, task, worktree, seen>>
    /\ \/ /\ \E v \in Verdicts \cup {None} : file' = [file EXCEPT ![k] = v]
          /\ proc' = [proc EXCEPT ![k] = "done"] /\ UNCHANGED used
       \/ /\ Mishap
          /\ \E end \in {"error", "limit"} : proc' = [proc EXCEPT ![k] = end]
          /\ UNCHANGED file
Write(k) ==
    /\ proc[k] = "live" /\ used.writes < MaxWrites
    /\ used' = [used EXCEPT !.writes = @ + 1]
    /\ worktree' = [worktree EXCEPT !.dirty = TRUE]
    /\ seen' = [seen EXCEPT !.written = TRUE]
    /\ UNCHANGED <<group, member, task, proc, file>>

\* The stage before the group passes: a run's first one, or a repair.
Repair ==
    /\ task = Idle /\ group.at = "repair" /\ ~used.over
    /\ \E over \in {FALSE, Calm} :
          used' = [used EXCEPT !.over = over,
                      !.mishaps = IF over THEN @ + 1 ELSE @]
    /\ worktree' = [head |-> worktree.head + 1, dirty |-> FALSE]
    /\ seen' = [seen EXCEPT !.written = FALSE]
    /\ IF used'.over THEN
           group' = [group EXCEPT !.at = "group", !.run = "waiting", !.status = "gate",
                        !.reason = "budget", !.hold = "fresh", !.heldReason = None]
           /\ task' = Idle
       ELSE group' = [group EXCEPT !.at = "group", !.pend = "fresh"] /\ task' = Do("launch")
    /\ UNCHANGED <<member, proc, file>>

Crash ==
    /\ task # Idle /\ Mishap /\ task' = Idle
    /\ \E p \in {None, "live"} :
          proc' = IF task.do = "start" THEN [proc EXCEPT ![task.m] = p] ELSE proc
    /\ seen' = [seen EXCEPT !.lapsed = @ \/ (task.do = "launch" /\ group.status = "gate")]
    /\ UNCHANGED <<group, member, file, worktree>>

-----------------------------------------------------------------------------
Init ==
    /\ group = [at |-> "repair", run |-> "running", status |-> "pending", reason |-> None,
                pend |-> None, concl |-> FALSE, hold |-> None, heldReason |-> None, resets |-> FALSE,
                round |-> 0, base |-> -1, end |-> -1, verdict |-> None,
                overridden |-> FALSE, cancel |-> FALSE]
    /\ member = [k \in Members |-> Fresh]
    /\ task = Idle
    /\ proc = [k \in Members |-> None] /\ file = [k \in Members |-> None]
    /\ worktree = [head |-> 0, dirty |-> FALSE]
    /\ used = [loops |-> 0, owner |-> 0, writes |-> 0, mishaps |-> 0, over |-> FALSE]
    /\ seen = [lost |-> FALSE, lapsed |-> FALSE, written |-> FALSE]

Step ==
    \/ LaunchGroup \/ LaunchFails
    \/ Prepare \/ PrepareFails \/ Start \/ StartFails
    \/ Progress \/ Join \/ JoinFails \/ Joined \/ Conclude
    \/ Sweep \/ SweepGivesUp
    \/ CancelTurn \/ CancelFails \/ Cancelled
OnMember(k) == Retry(k) \/ Override(k) \/ Feedback(k) \/ Reconcile(k)
OnGroup == RetryGroup \/ OverrideMembers \/ AcceptChanges \/ PassGate \/ RaiseBudget
           \/ OwnerLoopBack \/ Abort
Next ==
    \/ Step \/ Poll \/ OnGroup \/ Repair \/ Crash
    \/ \E k \in Members : OnMember(k) \/ ProcEnds(k) \/ Write(k)

Spec == Init /\ [][Next]_vars

\* The poll is a timer, the operation under the lock goes on, and a CLI ends or is
\* stopped by its timeout.
Fairness == /\ WF_vars(Step) /\ WF_vars(Poll)
            /\ \A k \in Members : WF_vars(ProcEnds(k))
FairSpec == Spec /\ Fairness

-----------------------------------------------------------------------------
(* Properties.                                                              *)

Reasons == {None, "session-error", "usage", "members-blocked", "changed-files", "verdict-fail",
            "budget"}
Commits == {-1} \cup Nat
GroupType ==
    [at : {"repair", "group", "beyond", "cancelled"}, run : {"running", "waiting"},
     status : {"pending", "running", "failed", "gate", "passed", "cancelled"},
     reason : Reasons, heldReason : Reasons,
     pend : {None, "fresh", "resume"}, hold : {None, "fresh", "resume", "progress"},
     concl : BOOLEAN, resets : BOOLEAN, overridden : BOOLEAN, cancel : BOOLEAN,
     round : Nat, base : Commits, end : Commits, verdict : Verdicts \cup {None}]
MemberType ==
    [status : {"pending", "running", "reported", "failed", "gate", "cancelled"},
     reason : {None, "verdict", "session-error", "usage", "timeout"},
     queued : {None, "kickoff", "nudge", "feedback"},
     attempt : {None, "launching", "running", "finished"},
     verdict : Verdicts \cup {None}, turn : BOOLEAN, overridden : BOOLEAN, native : BOOLEAN,
     stopped : BOOLEAN, nudges : 0..MaxNudges, round : Nat]
TaskType ==
    [do : {"idle", "launch", "progress", "prepare", "start", "join", "joined", "conclude",
           "sweep", "cancel"},
     m : 0..N, back : {"progress", "sweep"}]

\* Types of the document and of what runs beside it.
TypeOK ==
    /\ group \in GroupType /\ member \in [Members -> MemberType] /\ task \in TaskType
    /\ proc \in [Members -> {None, "live", "done", "error", "limit", "stopped"}]
    /\ file \in [Members -> Verdicts \cup {None}]
    /\ worktree \in [head : Nat, dirty : BOOLEAN]
    /\ used \in [loops : 0..MaxLoops, owner : Nat, mishaps : Nat, writes : 0..MaxWrites,
                 over : BOOLEAN]
    /\ seen \in [lost : BOOLEAN, lapsed : BOOLEAN, written : BOOLEAN]

\* A passed group was reviewed: each member reported in this round and passed, or the
\* owner accepted that member or the verdict, whatever rounds, retries, feedback and
\* crashes came before.  Not so after a crash that lost a raised budget's launch.
Reviewed ==
    group.at = "beyond" /\ ~seen.lapsed =>
        \A k \in Members :
            /\ member[k].status = "reported"
            /\ \/ member[k].overridden
               \/ /\ member[k].round = group.round
                  /\ group.overridden \/ member[k].verdict = "pass"

\* What the members wrote to the worktree since the group started never passes the
\* group unless the owner accepted it.
ReadOnly == group.at = "beyond" /\ ~seen.lapsed /\ ~seen.lost => ~seen.written

\* A joined, passed or cancelled group leaves no CLI of a member at work, but for one that
\* was given up because it could not be inspected.
Quiet ==
    ~seen.lost /\ (task.do \in {"joined", "conclude"} \/ group.at \in {"beyond", "cancelled"})
        => \A k \in Members : proc[k] # "live"

\* Within a round a report stays, and a member that waits for another decision waits
\* through the resume after a usage limit, until the owner decides on it.
DecisionKept ==
    [][group'.round = group.round /\ used'.owner = used.owner
           /\ {group.at, group'.at} = {"group"} =>
         \A k \in Members : member[k].queued = None =>
            /\ member[k].status = "reported" => member'[k].status = "reported"
            /\ member[k].status = "gate" /\ (task.do = "launch" => group.reason = "usage")
                  => member'[k].status = "gate"]_vars

\* The group never hangs: it comes to its owner, passes, is sent back or is cancelled.
GroupSettles == Live ~> ~Live
=============================================================================
