---------------------------- MODULE PipelineRun ----------------------------
(***************************************************************************)
(* One pipeline run of the engine (pipeline-engine.js, execution-stage.js, *)
(* pipeline-recovery.js, pipeline-actions.js and the modules they call):   *)
(* the document the run store keeps, the operation that holds the run's    *)
(* lock, the native turn and the verification it started, and the owner.   *)
(*                                                                         *)
(* `run' is the STORED document.  An operation changes it in memory and    *)
(* saves it; what it has changed since its last save is a function of the  *)
(* stored document at each point where it waits, so the operation itself   *)
(* is only the place where it waits (`op').  A crash drops `op' and keeps  *)
(* `run', the native turn and the verifier.  Parallel groups, the spec and *)
(* the wording of prompts are left out.                                    *)
(***************************************************************************)
EXTENDS Integers, FiniteSets

CONSTANTS
    Stages,     \* the stages of the compiled graph
    Entry,      \* the first one
    End,        \* where an edge without a target leads
    NoEdge,     \* a stage without a fail edge
    PassTo,     \* [Stages -> Stages \cup {End}]: the pass (or default) edge
    FailTo,     \* [Stages -> Stages \cup {End, NoEdge}]: the fail edge
    MaxLoops,   \* [Stages -> Nat]: maxIterations of the fail edge, 0 for a plain one
    Continue,   \* [Stages -> BOOLEAN]: continueSession of the fail edge
    Effects,    \* [Stages -> [{"pass","fail"} -> SUBSET {"gate","verify","pr"}]]
    Verdicts,   \* the results a turn may report: subset of {"pass","fail","low","human"}
    MaxTurns,   \* bound: turns launched (a later launch can only fail)
    MaxChanges, \* bound: risky changes written to the worktree
    MaxMishaps, \* bound: calls to git, tmux, the verifier or GitHub that fail, crashes of
                \* the server, and crossings of the token budget, together
    MaxReturns  \* bound: times the owner sends the run back to a stage

ASSUME GraphAssumption ==
    /\ Entry \in Stages /\ End \notin Stages /\ NoEdge \notin Stages /\ End # NoEdge
    /\ PassTo \in [Stages -> Stages \cup {End}]
    /\ FailTo \in [Stages -> Stages \cup {End, NoEdge}]
    /\ MaxLoops \in [Stages -> Nat]
    /\ \A s \in Stages : MaxLoops[s] > 0 => FailTo[s] \in Stages
    /\ Continue \in [Stages -> BOOLEAN]
    /\ Effects \in [Stages -> [{"pass", "fail"} -> SUBSET {"gate", "verify", "pr"}]]

ASSUME BoundAssumption ==
    /\ Verdicts \subseteq {"pass", "fail", "low", "human"}
    /\ MaxTurns \in Nat /\ MaxChanges \in Nat /\ MaxMishaps \in Nat /\ MaxReturns \in Nat

VARIABLES
    run,        \* the stored run document
    op,         \* where the operation that holds the run's lock waits
    native,     \* the process of the run's newest turn
    check,      \* the process of the run's newest verification
    changes,    \* risky changes the worktree holds (every commit is such a count)
    turns,      \* turns launched
    mishaps, returns,
    published,  \* commits pushed to the run's branch
    leaked,     \* a launch failed and so did the stop of the process it left
    orphan,     \* a turn was launched while an earlier one still worked
    checked,    \* what verified a stage since its last turn: nothing, a pass, the owner
    decided,    \* the stages a person decided on since their last turn
    cut         \* the stages at whose gate the death of the server cut off a launch

rigged == <<published, leaked, orphan, checked, decided, cut>>
bounds == <<turns, mishaps, returns>>
vars == <<run, op, native, check, changes, bounds, rigged>>

-----------------------------------------------------------------------------
(* The stored document. *)

Kinds == {"kickoff", "resumed", "nudge", "feedback", "repair"}
Reasons == {"none", "session-error", "timeout", "usage", "pr-failed", "verify-failed",
            "verdict", "verdict-fail", "risk-gate", "budget"}
NoTurn == [node |-> Entry, kind |-> "none"]
NoAttempt == [kind |-> "none", status |-> "none", sha |-> -1,
              stopped |-> FALSE, settled |-> FALSE]
NoGate == [resume |-> "none", sha |-> 0, error |-> FALSE]
NoHold == [kind |-> "none", reason |-> "none"]
Idle == [at |-> "idle", node |-> Entry, kind |-> "none", sha |-> 0, resume |-> "none"]

FreshNode ==
    [status |-> "pending", reason |-> "none", verdict |-> "none", via |-> "none",
     verified |-> FALSE, unsound |-> FALSE, tries |-> 0, nudges |-> 0, asked |-> FALSE,
     overridden |-> FALSE, bypassed |-> FALSE, native |-> FALSE, ran |-> FALSE]

FreshRun ==
    [phase |-> "provisioning", status |-> "running", cancel |-> FALSE, node |-> Entry,
     att |-> NoAttempt, active |-> FALSE, pend |-> NoTurn, concl |-> FALSE, adv |-> FALSE,
     job |-> FALSE, loops |-> [s \in Stages |-> 0], resume |-> FALSE, pr |-> FALSE,
     over |-> FALSE, hold |-> NoHold, gate |-> NoGate, approved |-> 0, excused |-> {},
     nodes |-> [s \in Stages |-> FreshNode]]

Terminal(r) == r.status \in {"completed", "failed", "cancelled"}
Active(r) == r.nodes[r.node]
At(where, n) == [Idle EXCEPT !.at = where, !.node = n]

\* The side effects of the edge the stage's conclusion selected, and where it leads.
Flags(r, n) == IF r.nodes[n].via = "none" THEN {} ELSE Effects[n][r.nodes[n].via]
Successor(r, n) == IF r.nodes[n].via = "fail" THEN FailTo[n] ELSE PassTo[n]
Loops(n) == MaxLoops[n] > 0

\* Stages reachable over edges that are not loops; what a loop back restarts.
Forward(s) == ({PassTo[s]} \cup (IF Loops(s) THEN {} ELSE {FailTo[s]})) \cap Stages
Reach(s) == {t \in Stages : \A S \in SUBSET Stages :
                (s \in S /\ \A u \in S : Forward(u) \subseteq S) => t \in S}
LoopResetSet(s) == {t \in Reach(FailTo[s]) : s \in Reach(t)}

ResetStages(r, S) ==
    [r EXCEPT !.nodes = [s \in Stages |->
        IF s \notin S THEN r.nodes[s]
        ELSE [r.nodes[s] EXCEPT !.status = "pending", !.reason = "none", !.verdict = "none",
                 !.native = FALSE, !.bypassed = FALSE, !.verified = FALSE,
                 !.unsound = FALSE]]]

-----------------------------------------------------------------------------
(* Steps several handlers share. *)

\* Stops the run at a stage for a decision.
Retryable == {"session-error", "timeout", "usage", "pr-failed"}
Park(r, n, why) ==
    [r EXCEPT !.nodes[n] = [@ EXCEPT
                  !.status = IF why \in Retryable THEN "failed" ELSE "awaiting-gate",
                  !.reason = why],
              !.active = @ /\ n # r.node,
              !.status = "awaiting", !.pend = NoTurn, !.concl = FALSE, !.adv = FALSE]

\* Above its token budget the run keeps the turn for later.
HoldTurn(r, n, kind) ==
    [r EXCEPT !.att = IF n = r.node THEN @ ELSE NoAttempt,
              !.node = n,
              !.hold = [kind |-> kind,
                        reason |-> IF r.nodes[n].reason = "budget" THEN "none"
                                   ELSE r.nodes[n].reason],
              !.nodes[n] = [@ EXCEPT !.status = "awaiting-gate", !.reason = "budget"],
              !.status = "awaiting", !.resume = FALSE,
              !.pend = NoTurn, !.concl = FALSE, !.adv = FALSE]

\* Mutant: the turn is not queued before the first wait.
LaunchUnqueued(r, n, kind) ==
    IF r.over
    THEN run' = HoldTurn(r, n, kind) /\ op' = Idle
    ELSE run' = r /\ op' = [At("prepare", n) EXCEPT !.kind = kind]

\* launchStage up to its first wait: the turn is queued on the stored run.
Launch(r, n, kind) ==
    IF r.over
    THEN run' = HoldTurn(r, n, kind) /\ op' = Idle
    ELSE /\ run' = [r EXCEPT !.pend = [node |-> n, kind |-> kind]]
         /\ op' = [At("prepare", n) EXCEPT !.kind = kind]

\* A kickoff or a resumed repair opens an attempt and forgets what checked the last one.
OpensAttempt(kind) == kind \in {"kickoff", "resumed"}
Opened(r, n, kind) ==
    IF ~OpensAttempt(kind) THEN r
    ELSE [r EXCEPT !.nodes[n] = [@ EXCEPT
                !.nudges = 0, !.tries = 0, !.asked = FALSE, !.verified = FALSE,
                !.unsound = FALSE, !.native = (kind = "resumed")]]

\* The end of the graph, or the next stage.
Onward(r, n) ==
    IF Successor(r, n) \in Stages
    THEN Launch(r, Successor(r, n), "kickoff")
    ELSE /\ run' = [r EXCEPT !.status = "completed", !.adv = FALSE, !.active = FALSE]
         /\ op' = Idle

\* advance up to its first wait.  The checkpoint it asks for was made by the conclusion.
Passed(r, n) ==
    [r EXCEPT !.nodes[n] = [@ EXCEPT !.status = "passed", !.reason = "none",
                                     !.bypassed = FALSE],
              !.status = "running", !.concl = FALSE, !.adv = TRUE]
Advance(r, n) ==
    IF "pr" \in Flags(r, n) \/ r.pr
    THEN run' = Passed(r, n) /\ op' = [At("publish", n) EXCEPT !.resume = "advance"]
    ELSE Onward(Passed(r, n), n)

\* A repair turn takes the target's session when the edge asks for it and it can.
RepairKinds(r, t, again) == {"kickoff"} \cup (IF again /\ r.nodes[t].native THEN {"resumed"} ELSE {})

LoopBack(r, n) ==
    \E kind \in RepairKinds(r, FailTo[n], Continue[n]) :
        LET back == [ResetStages(r, LoopResetSet(n)) EXCEPT
                        !.loops[n] = @ + 1, !.concl = FALSE, !.adv = FALSE,
                        !.pend = [node |-> FailTo[n], kind |-> kind]]
        IN Launch(back, FailTo[n], kind)

\* What a failing verdict leads to.
FailDecision(r, n) ==
    CASE FailTo[n] = NoEdge -> "escalate"
      [] FailTo[n] # NoEdge /\ ~Loops(n) -> "route"
      [] Loops(n) /\ r.nodes[n].verdict = "low" -> "pass"
      [] OTHER -> IF r.loops[n] < MaxLoops[n] THEN "loop" ELSE "escalate"
Decision(r, n) ==
    IF r.nodes[n].overridden \/ r.nodes[n].verdict = "pass" THEN "pass"
    ELSE IF r.nodes[n].verdict = "human" THEN "escalate" ELSE FailDecision(r, n)

Conclude(r, n) ==
    /\ run' = [r EXCEPT !.status = "running", !.concl = TRUE,
                        !.nodes[n] = [@ EXCEPT !.status = "running", !.reason = "none"]]
    /\ op' = At("conclude", n)

\* One of the bounded mishaps.
Mishap == mishaps < MaxMishaps /\ mishaps' = mishaps + 1
Quiet == UNCHANGED <<native, check, changes, turns, returns>>
NoGhost == UNCHANGED rigged

-----------------------------------------------------------------------------
(* Provisioning and launching. *)

Init ==
    /\ run = FreshRun /\ op = At("provision", Entry)
    /\ native = "none" /\ check = "none" /\ changes = 0
    /\ turns = 0 /\ mishaps = 0 /\ returns = 0
    /\ published = {} /\ leaked = FALSE /\ orphan = FALSE
    /\ checked = [s \in Stages |-> "no"] /\ decided = {} /\ cut = {}

\* provisionRun: the worktree is prepared, or the run failed.
Provisioned ==
    /\ op.at = "provision"
    /\ run' = [run EXCEPT !.phase = "executing"]
    /\ op' = At("entry", run.node)
    /\ Quiet /\ NoGhost /\ UNCHANGED mishaps

ProvisionFails ==
    /\ op.at = "provision" /\ Mishap
    /\ run' = [run EXCEPT !.status = "failed"]
    /\ op' = Idle
    /\ Quiet /\ NoGhost

LaunchEntry ==
    /\ op.at = "entry"
    /\ Launch(run, run.node, "kickoff")
    /\ Quiet /\ NoGhost /\ UNCHANGED mishaps

\* prepareStage fails before its second save: no port block, no safe worktree.
PrepareFails ==
    /\ op.at = "prepare"
    /\ IF turns = MaxTurns THEN UNCHANGED mishaps ELSE Mishap
    /\ run' = Park(Opened(run, op.node, op.kind), op.node, "session-error")
    /\ op' = Idle
    /\ Quiet /\ NoGhost

\* prepareStage's second save: the turn is recorded and its stage becomes the current one.
Prepared ==
    /\ op.at = "prepare" /\ turns < MaxTurns
    /\ LET n == op.node IN
       /\ run' = [Opened(run, n, op.kind) EXCEPT
            !.nodes[n] = [@ EXCEPT
                !.verdict = "none", !.overridden = FALSE, !.bypassed = FALSE,
                !.status = "running", !.reason = "none", !.ran = TRUE],
            !.gate = NoGate, !.status = "running", !.pend = NoTurn, !.concl = FALSE,
            !.adv = FALSE, !.node = n, !.att = [NoAttempt EXCEPT !.kind = op.kind, !.status = "launching"],
            !.active = TRUE, !.resume = FALSE]
       /\ op' = [op EXCEPT !.at = "start"]
       /\ checked' = [checked EXCEPT ![n] = "no"]
       /\ decided' = decided \ {n}
       /\ cut' = IF OpensAttempt(op.kind) THEN cut \ {n} ELSE cut
    /\ turns' = turns + 1
    /\ orphan' = (orphan \/ native \in {"working", "idle"})
    /\ native' = "none"
    /\ UNCHANGED <<check, changes, mishaps, returns, published, leaked>>

\* A continued turn needs the session it continues.
Startable == op.kind = "kickoff" \/ run.nodes[op.node].native

Started ==
    /\ op.at = "start" /\ Startable
    /\ run' = [run EXCEPT !.att = [@ EXCEPT !.status = "running"]]
    /\ op' = Idle
    /\ native' = "working"
    /\ NoGhost /\ UNCHANGED <<check, changes, bounds>>

\* resumeFallback: a session that cannot continue is replaced by a fresh kickoff.
ResumeFallback(r, n) ==
    Launch([r EXCEPT !.att = [@ EXCEPT !.status = "finished"], !.active = FALSE,
                     !.nodes[n] = [@ EXCEPT !.native = FALSE]], n, "kickoff")

\* The launch failed; the process it may have left is stopped, errors of that aside.
StartFails ==
    /\ op.at = "start"
    /\ \/ ~Startable /\ UNCHANGED <<mishaps, native, leaked>>
       \/ Startable /\ Mishap /\ native' \in {"none", "lost"} /\ UNCHANGED leaked
       \/ Startable /\ Mishap /\ native' = "working" /\ leaked' = TRUE
    /\ IF op.kind = "resumed" THEN ResumeFallback(run, op.node)
       ELSE run' = Park(run, op.node, "session-error") /\ op' = Idle
    /\ UNCHANGED <<check, changes, turns, returns,
                   published, orphan, checked, decided, cut>>

-----------------------------------------------------------------------------
(* The reconciler (reconcileRun): at most one step per tick, in this order. *)

Ready == op.at = "idle" /\ ~Terminal(run)
Executing == Ready /\ ~run.cancel /\ run.phase = "executing" /\ run.status = "running"
Unqueued == Executing /\ ~run.job /\ run.pend = NoTurn
Turning == Unqueued /\ ~run.adv /\ ~run.concl

TickProvision ==
    /\ Ready /\ ~run.cancel /\ run.phase = "provisioning"
    /\ op' = At("provision", run.node)
    /\ Quiet /\ NoGhost /\ UNCHANGED <<run, mishaps>>

TickUsageReset ==
    /\ Ready /\ ~run.cancel /\ run.status = "awaiting"
    /\ run.resume /\ Active(run).reason = "usage"
    /\ Launch(run, run.node, "kickoff")
    /\ Quiet /\ NoGhost /\ UNCHANGED mishaps

\* Mutant: a queued turn is only taken up beside a running one.
TickPendingActive ==
    /\ Executing /\ ~run.job /\ run.pend # NoTurn /\ run.active
    /\ Launch(run, run.pend.node, run.pend.kind)
    /\ Quiet /\ NoGhost /\ UNCHANGED mishaps

TickPending ==
    /\ Executing /\ ~run.job /\ run.pend # NoTurn
    /\ Launch(run, run.pend.node, run.pend.kind)
    /\ Quiet /\ NoGhost /\ UNCHANGED mishaps

TickAdvance ==
    /\ Unqueued /\ run.adv
    /\ Advance(run, run.node)
    /\ Quiet /\ NoGhost /\ UNCHANGED mishaps

TickConclude ==
    /\ Unqueued /\ ~run.adv /\ run.concl
    /\ op' = At("conclude", run.node)
    /\ Quiet /\ NoGhost /\ UNCHANGED <<run, mishaps>>

\* Nothing is recorded to continue, or the turn's session is gone.
TickLost ==
    /\ Turning
    /\ ~run.active \/ native = "none"
    /\ run' = Park(run, run.node, "session-error")
    /\ Quiet /\ NoGhost /\ UNCHANGED <<op, mishaps>>

\* superviseRunningTurn: a completed turn that does not exit is stopped after a grace
\* period, any other one at its timeout.
TickGrace ==
    /\ Turning /\ run.active /\ native = "idle"
    /\ run' = [run EXCEPT !.att = [@ EXCEPT !.settled = TRUE]]
    /\ op' = At("stop", run.node)
    /\ Quiet /\ NoGhost /\ UNCHANGED mishaps

\* Mutant: the stage stops before its turn does.
TickTimeoutUnstopped ==
    /\ Turning /\ run.active /\ native \in {"working", "idle"}
    /\ run' = Park([run EXCEPT !.att = [@ EXCEPT !.stopped = TRUE]], run.node, "timeout")
    /\ Quiet /\ NoGhost /\ UNCHANGED <<op, mishaps>>

TickTimeout ==
    /\ Turning /\ run.active /\ native \in {"working", "idle"}
    /\ op' = At("timeout", run.node)
    /\ Quiet /\ NoGhost /\ UNCHANGED <<run, mishaps>>

\* NativePipelineDriver.finish ends the turn through its launcher.
Told == CASE native = "working" -> "stopping" [] native = "idle" -> "closing"
          [] OTHER -> native

StopLands ==
    /\ op.at \in {"stop", "timeout"}
    /\ native' = Told
    /\ op' = IF op.at = "stop" THEN Idle ELSE At("timedout", op.node)
    /\ NoGhost /\ UNCHANGED <<run, check, changes, bounds>>

StopFails ==
    /\ op.at \in {"stop", "timeout"} /\ Mishap
    /\ op' = Idle
    /\ Quiet /\ NoGhost /\ UNCHANGED run

TimedOut ==
    /\ op.at = "timedout"
    /\ run' = Park([run EXCEPT !.att = [@ EXCEPT !.stopped = TRUE]], op.node, "timeout")
    /\ op' = Idle
    /\ Quiet /\ NoGhost /\ UNCHANGED mishaps

-----------------------------------------------------------------------------
(* A turn's outcome (applyOutcome). *)

Ended == {"ok", "bad", "limit", "lost", "done"}

\* A turn stopped after it reported completion counts as its report says.
Succeeded(r) == native = "ok" \/ (native = "done" /\ r.att.settled)

FailedTurn(r, n) ==
    \/ /\ native = "limit"
       /\ run' = Park([r EXCEPT !.resume = TRUE], n, "usage") /\ op' = Idle
    \/ /\ native # "limit" /\ r.att.kind = "resumed"
       /\ ResumeFallback(r, n)
    \/ \* Output that could not be validated stops for a person, a repair turn's too.
       /\ native # "limit"
       /\ r.att.kind # "resumed" \/ native = "bad"
       /\ run' = Park(r, n, "session-error") /\ op' = Idle

\* No valid verdict: the session is asked again, at most twice.
MissingVerdict(r, n) ==
    LET asked == [r EXCEPT !.nodes[n] = [@ EXCEPT !.nudges = r.nodes[n].nudges + 1]]
    IN IF r.nodes[n].nudges < 2
       THEN Launch(asked, n, "nudge")
       ELSE /\ run' = Park(asked, n, IF r.nodes[n].unsound /\ ~r.nodes[n].verified
                                     THEN "verify-failed" ELSE "verdict")
            /\ op' = Idle

\* A verdict that leaves findings or criteria unanswered is asked for once.
ReadVerdict(r, n) ==
    \/ MissingVerdict(r, n)
    \/ /\ ~r.nodes[n].asked
       /\ Launch([r EXCEPT !.nodes[n] = [@ EXCEPT !.asked = TRUE]], n, "nudge")
    \/ \E v \in Verdicts :
          /\ run' = [r EXCEPT !.nodes[n] = [@ EXCEPT !.verdict = v], !.concl = TRUE]
          /\ op' = At("conclude", n)

TickOutcome ==
    /\ Turning /\ run.active /\ native \in Ended
    /\ \E seen, crossed \in BOOLEAN :
          LET n == run.node
              r == [run EXCEPT !.att = [@ EXCEPT !.status = "finished"], !.active = FALSE,
                               !.nodes[n] = [@ EXCEPT !.native = run.nodes[n].native \/ seen],
                               !.over = @ \/ crossed]
          IN /\ IF crossed THEN Mishap ELSE UNCHANGED mishaps
             /\ Succeeded(run) \/ run.nodes[n].native => seen
             /\ IF Succeeded(run) THEN ReadVerdict(r, n) ELSE FailedTurn(r, n)
    /\ NoGhost /\ UNCHANGED <<native, check, changes, turns, returns>>

-----------------------------------------------------------------------------
(* The conclusion of a stage (conclude): checkpoint, risk gate, verification, the
   decision on its verdict, its human gate. *)

\* The commit up to which a conclusion checks the run.
Checkpointed(r) ==
    IF r.att.kind # "none" /\ r.att.sha = -1
    THEN [r EXCEPT !.att = [@ EXCEPT !.sha = changes]] ELSE r

\* riskGate: what the run changed up to `to' needs an approval, or cannot be read.
Risky(r, to) == to >= 0 /\ to \notin r.excused /\ to > r.approved
Unreadable(r, to) == to >= 0 /\ to \notin r.excused
ParkRisk(r, n, to, resume, error) ==
    LET gate == [resume |-> resume, sha |-> to, error |-> error]
    IN IF resume = "publish"
       THEN [r EXCEPT !.gate = gate, !.status = "awaiting",
                      !.nodes[n] = [@ EXCEPT !.status = "awaiting-gate",
                                             !.reason = "risk-gate"]]
       ELSE [Park(r, n, "risk-gate") EXCEPT !.gate = gate]

\* What follows once nothing risky is left to approve.
Judge(r, n, decision) ==
    \/ /\ "verify" \in Flags(r, n) /\ ~r.nodes[n].verified /\ decision \in {"pass", "route"}
       /\ \/ /\ run' = [r EXCEPT !.job = TRUE]
             /\ op' = At("verify", n) /\ check' = "absent" /\ UNCHANGED mishaps
          \/ \* The verification settings cannot be read.
             /\ Mishap /\ run' = Park(r, n, "verify-failed")
             /\ op' = Idle /\ UNCHANGED check
    \/ /\ ~("verify" \in Flags(r, n) /\ ~r.nodes[n].verified)
       /\ decision \in {"pass", "route"}
       /\ IF "gate" \in Flags(r, n) /\ ~r.nodes[n].bypassed
          THEN /\ run' = [r EXCEPT !.status = "awaiting",
                                   !.nodes[n] = [@ EXCEPT !.status = "awaiting-gate"]]
               /\ op' = Idle
          ELSE Advance(r, n)
       /\ UNCHANGED <<check, mishaps>>
    \/ /\ decision = "escalate"
       /\ run' = Park(r, n, "verdict-fail") /\ op' = Idle /\ UNCHANGED <<check, mishaps>>

ConcludeStep ==
    /\ op.at = "conclude"
    /\ LET n == op.node
           decision == Decision(run, n)
           r == [Checkpointed(run) EXCEPT
                    !.nodes[n] = [@ EXCEPT
                        !.via = IF decision = "route" THEN "fail" ELSE "pass"]]
           to == r.att.sha
       IN \/ /\ decision = "loop"
             /\ LoopBack(r, n) /\ UNCHANGED <<check, mishaps>>
          \/ /\ decision # "loop" /\ Risky(r, to)
             /\ run' = ParkRisk(r, n, to, "conclude", FALSE)
             /\ op' = Idle /\ UNCHANGED <<check, mishaps>>
          \/ /\ decision # "loop" /\ Unreadable(r, to) /\ Mishap
             /\ run' = ParkRisk(r, n, to, "conclude", TRUE)
             /\ op' = Idle /\ UNCHANGED check
          \/ /\ decision # "loop" /\ ~Risky(r, to)
             /\ Judge(r, n, decision)
    /\ NoGhost /\ UNCHANGED <<native, changes, turns, returns>>

CheckpointFails ==
    /\ op.at = "conclude" /\ Checkpointed(run) # run /\ Mishap
    /\ run' = Park(run, op.node, "session-error")
    /\ op' = Idle
    /\ Quiet /\ NoGhost

\* The verifier is started after its job was saved.
VerifyStarts ==
    /\ op.at = "verify"
    /\ check' = "running" /\ op' = Idle
    /\ NoGhost /\ UNCHANGED <<run, native, changes, bounds>>

VerifyStartFails ==
    /\ op.at = "verify" /\ Mishap
    /\ run' = Park([run EXCEPT !.job = FALSE,
                            !.nodes[op.node] = [@ EXCEPT !.unsound = FALSE]],
                   op.node, "verify-failed")
    /\ check' = "none" /\ op' = Idle
    /\ NoGhost /\ UNCHANGED <<native, changes, turns, returns>>

\* settleVerification: the stage concludes again, is repaired at most twice, or waits.
TickVerified ==
    /\ Executing /\ run.job /\ check # "running"
    /\ LET n == run.node
           done == [run EXCEPT !.job = FALSE]
       IN \/ /\ check = "pass"
             /\ run' = [done EXCEPT !.nodes[n] = [@ EXCEPT !.verified = TRUE, !.unsound = FALSE]]
             /\ op' = At("conclude", n)
             /\ checked' = [checked EXCEPT ![n] = "pass"]
          \/ /\ check = "fail"
             /\ LET r == [done EXCEPT !.nodes[n] = [@ EXCEPT !.unsound = TRUE,
                                                        !.tries = run.nodes[n].tries + 1]]
                IN IF run.nodes[n].tries < 2 THEN Launch(r, n, "repair")
                   ELSE run' = Park(r, n, "verify-failed") /\ op' = Idle
             /\ UNCHANGED checked
          \/ \* The result is unavailable: no verifier ever started, or it died.
             /\ check \in {"absent", "dead"}
             /\ run' = Park([done EXCEPT !.nodes[n] = [@ EXCEPT !.unsound = FALSE]],
                            n, "verify-failed")
             /\ op' = Idle /\ UNCHANGED checked
    /\ check' = "none"
    /\ UNCHANGED <<native, changes, bounds, published, leaked, orphan, decided, cut>>

-----------------------------------------------------------------------------
(* Publication: what a push publishes is committed and checked first. *)

\* A failed publication parks its stage; one of a completed run only answers an error.
PublicationFails ==
    /\ op' = Idle
    /\ IF op.resume = "advance" THEN run' = Park(run, op.node, "pr-failed")
       ELSE UNCHANGED run

PublishCheck ==
    /\ op.at = "publish"
    /\ \/ /\ Risky(run, changes)
          /\ run' = ParkRisk(run, op.node, changes, op.resume, FALSE)
          /\ op' = Idle /\ UNCHANGED mishaps
       \/ /\ ~Risky(run, changes)
          /\ op' = [op EXCEPT !.at = "push", !.sha = changes] /\ UNCHANGED <<run, mishaps>>
       \/ /\ Unreadable(run, changes) /\ Mishap
          /\ run' = ParkRisk(run, op.node, changes, op.resume, TRUE)
          /\ op' = Idle
       \/ /\ Mishap /\ PublicationFails
    /\ Quiet /\ NoGhost

\* Mutant: what the worktree holds is pushed, not what was checked.
PushHead ==
    /\ op.at = "push"
    /\ \/ /\ published' = published \cup {changes}
          /\ op' = [op EXCEPT !.at = "pushed"] /\ UNCHANGED <<run, mishaps>>
       \/ Mishap /\ PublicationFails /\ UNCHANGED published
    /\ Quiet /\ UNCHANGED <<leaked, orphan, checked, decided, cut>>

\* createWorkspacePr refuses a worktree that changed since the check, then pushes exactly
\* the checked commit.
Push ==
    /\ op.at = "push"
    /\ \/ /\ changes = op.sha
          /\ published' = published \cup {op.sha}
          /\ op' = [op EXCEPT !.at = "pushed"] /\ UNCHANGED <<run, mishaps>>
       \/ /\ changes # op.sha
          /\ PublicationFails /\ UNCHANGED <<mishaps, published>>
       \/ /\ Mishap /\ PublicationFails /\ UNCHANGED published
    /\ Quiet /\ UNCHANGED <<leaked, orphan, checked, decided, cut>>

\* GitHub answers with the pull request, or not.
Pushed ==
    /\ op.at = "pushed"
    /\ \/ /\ IF op.resume = "advance" THEN Onward([run EXCEPT !.pr = TRUE], op.node)
             ELSE run' = [run EXCEPT !.pr = TRUE] /\ op' = Idle
          /\ UNCHANGED mishaps
       \/ Mishap /\ PublicationFails
    /\ Quiet /\ NoGhost

-----------------------------------------------------------------------------
(* Cancellation: the turn and the verification are stopped before the run ends. *)

Cancelling(r) == [r EXCEPT !.cancel = TRUE]

Cancel ==
    /\ Ready
    /\ run' = Cancelling(run) /\ op' = At("cancel", run.node)
    /\ Quiet /\ NoGhost /\ UNCHANGED mishaps

\* Mutant: only a running run is cancelled by the poll.
TickCancelRunning ==
    /\ Ready /\ run.cancel /\ run.status = "running"
    /\ op' = At("cancel", run.node)
    /\ Quiet /\ NoGhost /\ UNCHANGED <<run, mishaps>>

TickCancel ==
    /\ Ready /\ run.cancel
    /\ op' = At("cancel", run.node)
    /\ Quiet /\ NoGhost /\ UNCHANGED <<run, mishaps>>

Live == {"working", "idle", "stopping", "closing"}
\* Mutant: a turn that reported completion is not stopped.
CancelTurnWorking ==
    /\ op.at = "cancel"
    /\ \/ /\ native' = IF run.active /\ native = "working" THEN "lost" ELSE native
          /\ op' = At("cancelled", op.node) /\ UNCHANGED mishaps
       \/ /\ run.active /\ Mishap /\ op' = Idle /\ UNCHANGED native
    /\ NoGhost /\ UNCHANGED <<run, check, changes, turns, returns>>

CancelTurn ==
    /\ op.at = "cancel"
    /\ \/ /\ native' = IF run.active /\ native \in Live THEN "lost" ELSE native
          /\ op' = At("cancelled", op.node) /\ UNCHANGED mishaps
       \/ /\ run.active /\ Mishap /\ op' = Idle /\ UNCHANGED native
    /\ NoGhost /\ UNCHANGED <<run, check, changes, turns, returns>>

\* The verifier ends after its cancel file; it may take longer than the wait.  A job
\* whose verifier never got its directory has no place for that file.
CancelCheck ==
    /\ op.at = "cancelled" /\ run.job /\ check \in {"running", "absent"}
    /\ \/ check = "running" /\ check' = "dead" /\ UNCHANGED op
       \/ op' = Idle /\ UNCHANGED check
    /\ NoGhost /\ UNCHANGED <<run, native, changes, bounds>>

Cancelled ==
    /\ op.at = "cancelled" /\ ~(run.job /\ check \in {"running", "absent"})
    /\ run' = [run EXCEPT
            !.status = "cancelled", !.active = FALSE, !.job = FALSE, !.resume = FALSE,
            !.nodes = [s \in Stages |->
                IF run.nodes[s].status \in {"running", "awaiting-gate"}
                THEN [run.nodes[s] EXCEPT !.status = "cancelled"] ELSE run.nodes[s]]]
    /\ check' = "none" /\ op' = Idle
    /\ NoGhost /\ UNCHANGED <<native, changes, bounds>>

-----------------------------------------------------------------------------
(* The owner (availableActions, gateAction). *)

Offered(r) ==
    LET n == Active(r)
    IN CASE Terminal(r) ->
            {a \in {"create-pr", "return"} :
                IF a = "create-pr" THEN r.status = "completed" /\ ~r.pr
                ELSE r.status # "cancelled" /\ r.phase = "executing"}
         [] r.status = "running" -> {"abort"}
         [] r.status = "awaiting" /\ n.reason = "budget" -> {"abort", "raise-budget"}
         [] r.status = "awaiting" /\ n.reason = "risk-gate" /\ r.gate.resume = "publish" ->
            {"approve-risk", "decline-risk"}
         [] OTHER ->
            {"abort"}
            \cup {a \in {"approve-risk", "override", "accept", "feedback"} :
                    /\ n.status = "awaiting-gate"
                    /\ CASE a = "feedback" -> n.native
                         [] a = "approve-risk" -> n.reason = "risk-gate"
                         [] a = "override" -> n.reason \notin {"none", "risk-gate"}
                         [] OTHER -> n.reason = "none"}
            \cup {a \in {"wait", "resume-now", "retry", "reconcile", "override"} :
                    /\ n.status = "failed"
                    /\ CASE a \in {"wait", "resume-now"} -> n.reason = "usage"
                         [] a = "retry" -> n.reason # "usage"
                         [] OTHER -> /\ n.reason \in {"session-error", "timeout"}
                                     /\ r.att.status \in {"running", "finished"}
                                     /\ a = "reconcile" => ~r.att.stopped}
            \cup (IF Loops(r.node) THEN {"loop-back"} ELSE {})

Owner(action) == op.at = "idle" /\ action \in Offered(run)
Plain == Quiet /\ UNCHANGED <<mishaps, published, leaked, orphan, cut>>

\* The owner's acceptance of the stage's gate.
Accept ==
    /\ Owner("accept")
    /\ Advance(run, run.node)
    /\ decided' = decided \cup {run.node}
    /\ Plain /\ UNCHANGED checked

\* overrideStage on a turn that failed: only a turn that stopped is accepted, and its
\* verification and gate still follow.
OverrideTurn ==
    /\ Owner("override") /\ Active(run).status = "failed"
    /\ native \in Ended \ {"lost"} /\ ~run.active /\ ~run.job
    /\ Conclude([run EXCEPT !.nodes[run.node] = [@ EXCEPT !.overridden = TRUE]], run.node)
    /\ Plain /\ UNCHANGED <<checked, decided>>

\* overrideStage at a gate decides as that gate; a failed verification is accepted as is.
OverrideGate ==
    /\ Owner("override") /\ Active(run).status = "awaiting-gate"
    /\ LET n == run.node IN
       IF run.nodes[n].reason = "verify-failed"
       THEN /\ Advance([run EXCEPT !.nodes[n] = [@ EXCEPT
                              !.overridden = TRUE,
                              !.via = IF run.nodes[n].via = "none" THEN "pass"
                                      ELSE run.nodes[n].via]], n)
            /\ checked' = [checked EXCEPT ![n] = "waived"]
       ELSE /\ Conclude([run EXCEPT !.nodes[n] = [@ EXCEPT
                              !.overridden = TRUE, !.bypassed = TRUE]], n)
            /\ UNCHANGED checked
    /\ decided' = decided \cup {run.node}
    /\ Plain

\* Mutant: the feedback turn keeps the verification of the one before it.
FeedbackVerified ==
    /\ Owner("feedback")
    /\ Launch([run EXCEPT !.nodes[run.node] = [@ EXCEPT !.tries = 0]], run.node, "feedback")
    /\ Plain /\ UNCHANGED <<checked, decided>>

Feedback ==
    /\ Owner("feedback")
    /\ Launch([run EXCEPT !.nodes[run.node] = [@ EXCEPT
                    !.verified = FALSE, !.tries = 0, !.unsound = FALSE]],
              run.node, "feedback")
    /\ Plain /\ UNCHANGED <<checked, decided>>

\* Retrying a publication repeats the publication, not the stage.
Retry ==
    /\ Owner("retry") \/ Owner("resume-now")
    /\ IF Active(run).reason = "pr-failed" THEN Advance(run, run.node)
       ELSE Launch([run EXCEPT !.resume = FALSE], run.node, "kickoff")
    /\ Plain /\ UNCHANGED <<checked, decided>>

WaitForReset ==
    /\ Owner("wait") /\ ~run.resume
    /\ run' = [run EXCEPT !.resume = TRUE]
    /\ Plain /\ UNCHANGED <<op, checked, decided>>

RaiseBudget ==
    /\ Owner("raise-budget")
    /\ Launch([run EXCEPT !.over = FALSE, !.hold = NoHold,
                          !.nodes[run.node] = [@ EXCEPT !.reason = run.hold.reason]],
              run.node, run.hold.kind)
    /\ Plain /\ UNCHANGED <<checked, decided>>

OwnerLoopBack ==
    /\ Owner("loop-back") /\ returns < MaxReturns
    /\ LoopBack(run, run.node)
    /\ returns' = returns + 1
    /\ NoGhost /\ UNCHANGED <<native, check, changes, turns, mishaps>>

\* A late verdict of a turn that ended cleanly after all.
Reconcile ==
    /\ Owner("reconcile") /\ native = "ok"
    /\ \E v \in Verdicts :
          Conclude([run EXCEPT !.nodes[run.node] = [@ EXCEPT
                        !.verified = FALSE, !.tries = 0, !.verdict = v]], run.node)
    /\ Plain /\ UNCHANGED <<checked, decided>>

\* The approval covers what the gate listed, or this commit when it could list nothing.
Approved(r) ==
    [r EXCEPT !.approved = IF ~r.gate.error /\ r.gate.sha > @ THEN r.gate.sha ELSE @,
              !.excused = IF r.gate.error THEN @ \cup {r.gate.sha} ELSE @,
              !.gate = NoGate]

ApproveRisk ==
    /\ Owner("approve-risk")
    /\ LET n == run.node
           r == [Approved(run) EXCEPT !.nodes[n] = [@ EXCEPT !.reason = "none"]]
       IN CASE run.gate.resume = "publish" ->
                 /\ run' = [r EXCEPT !.nodes[n] = [@ EXCEPT !.status = "passed"],
                                   !.status = "completed"]
                 /\ op' = [At("publish", n) EXCEPT !.resume = "publish"]
            [] run.gate.resume = "advance" -> Advance(r, n)
            [] OTHER -> Conclude(r, n)
    /\ Quiet /\ NoGhost /\ UNCHANGED mishaps

\* The owner does not publish: the run is completed again, and nothing is approved.
DeclineRisk ==
    /\ Owner("decline-risk")
    /\ run' = [run EXCEPT
            !.excused = IF run.gate.error THEN @ \cup {run.gate.sha} ELSE @,
            !.gate = NoGate, !.status = "completed",
            !.nodes[run.node] = [@ EXCEPT !.reason = "none", !.status = "passed"]]
    /\ Quiet /\ NoGhost /\ UNCHANGED <<op, mishaps>>

CreatePr ==
    /\ Owner("create-pr")
    /\ op' = [At("publish", run.node) EXCEPT !.resume = "publish"]
    /\ Plain /\ UNCHANGED <<run, checked, decided>>

\* reopenAtStage: a finished run goes back to a stage it ran.
Return ==
    /\ Owner("return") /\ returns < MaxReturns
    /\ \E n \in {s \in Stages : run.nodes[s].ran} :
       \E kind \in RepairKinds(run, n, TRUE) :
          Launch([ResetStages(run, Reach(n)) EXCEPT
                    !.status = "running", !.concl = FALSE, !.adv = FALSE], n, kind)
    /\ returns' = returns + 1
    /\ NoGhost /\ UNCHANGED <<native, check, changes, turns, mishaps>>

-----------------------------------------------------------------------------
(* The native turn, the verifier and the server. *)

\* A turn reports completion and ends, or does not end; it fails, hits its usage limit,
\* or dies with its session.  A stop keeps the exit status and the completed result.
TurnEnds ==
    /\ \/ native = "working" /\ native' \in {"idle", "ok", "bad", "limit", "lost"}
       \/ native = "idle" /\ native' \in {"ok", "lost"}
       \/ native = "stopping" /\ native' \in {"bad", "lost"}
       \/ native = "closing" /\ native' \in {"done", "lost"}
    /\ NoGhost /\ UNCHANGED <<run, op, check, changes, bounds>>

CheckEnds ==
    /\ check = "running" /\ check' \in {"pass", "fail", "dead"}
    /\ NoGhost /\ UNCHANGED <<run, op, native, changes, bounds>>

\* A turn, a verification or what they left behind writes a risky change.
Write ==
    /\ native \in Live \/ check = "running" \/ orphan
    /\ changes < MaxChanges /\ changes' = changes + 1
    /\ NoGhost /\ UNCHANGED <<run, op, native, check, bounds>>

\* The server dies between two saves and is started again: the launch or the verification
\* it was starting may or may not have begun.  What goes on meanwhile may as well go on
\* before its first poll.
Crash ==
    /\ op.at # "idle" /\ Mishap
    /\ op' = Idle
    /\ native' \in IF op.at = "start" THEN {"none", "lost"} \cup
                      (IF Startable THEN {"working"} ELSE {}) ELSE {native}
    /\ check' \in IF op.at = "verify" THEN {"absent", "running"} ELSE {check}
    /\ cut' = IF op.at = "prepare" /\ run.status = "awaiting"
                 /\ run.nodes[op.node].status = "awaiting-gate"
              THEN cut \cup {op.node} ELSE cut
    /\ UNCHANGED <<run, changes, turns, returns, published, leaked, orphan, checked, decided>>

-----------------------------------------------------------------------------
Tick ==
    \/ TickProvision \/ TickUsageReset \/ TickPending \/ TickAdvance \/ TickConclude
    \/ TickLost \/ TickGrace \/ TickTimeout \/ TickOutcome \/ TickVerified \/ TickCancel

Step ==
    \/ Provisioned \/ ProvisionFails \/ LaunchEntry \/ PrepareFails \/ Prepared
    \/ Started \/ StartFails \/ StopLands \/ StopFails \/ TimedOut
    \/ ConcludeStep \/ CheckpointFails \/ VerifyStarts \/ VerifyStartFails
    \/ PublishCheck \/ Push \/ Pushed \/ CancelTurn \/ CancelCheck \/ Cancelled

Decide ==
    \/ Cancel \/ Accept \/ OverrideTurn \/ OverrideGate \/ Feedback \/ Retry
    \/ WaitForReset \/ RaiseBudget \/ OwnerLoopBack \/ Reconcile \/ ApproveRisk
    \/ DeclineRisk \/ CreatePr \/ Return

Next == Tick \/ Step \/ Decide \/ TurnEnds \/ CheckEnds \/ Write \/ Crash

Spec == Init /\ [][Next]_vars

\* The engine polls, an operation that began goes on, and a stop and a verification come
\* to an end (they have time limits).  Operations take the run's lock in the order they
\* asked for it (pipeline-engine.js:107-119), so the owner's decisions cannot keep the
\* poll from it: a recorded cancellation gets its turn.
Fairness ==
    /\ WF_vars(Tick) /\ SF_vars(TickCancel) /\ WF_vars(Step)
    /\ WF_vars(CheckEnds) /\ WF_vars(native \in {"stopping", "closing"} /\ TurnEnds)
FairSpec == Spec /\ Fairness

-----------------------------------------------------------------------------
(* Properties. *)

NodeType ==
    [status : {"pending", "running", "failed", "awaiting-gate", "passed", "cancelled"},
     reason : Reasons, verdict : Verdicts \cup {"none"}, via : {"none", "pass", "fail"},
     verified : BOOLEAN, unsound : BOOLEAN, tries : Nat, nudges : Nat,
     asked : BOOLEAN, overridden : BOOLEAN, bypassed : BOOLEAN, native : BOOLEAN,
     ran : BOOLEAN]
AttemptType ==
    [kind : Kinds \cup {"none"}, status : {"none", "launching", "running", "finished"},
     sha : -1 .. MaxChanges, stopped : BOOLEAN, settled : BOOLEAN]
TurnType == [node : Stages, kind : Kinds \cup {"none"}]
GateType ==
    [resume : {"none", "conclude", "advance", "publish"}, sha : 0 .. MaxChanges,
     error : BOOLEAN]
RunType ==
    [phase : {"provisioning", "executing"},
     status : {"running", "awaiting", "completed", "failed", "cancelled"},
     cancel : BOOLEAN, node : Stages, att : AttemptType, active : BOOLEAN,
     pend : TurnType, concl : BOOLEAN, adv : BOOLEAN, job : BOOLEAN,
     loops : [Stages -> Nat], resume : BOOLEAN, pr : BOOLEAN, over : BOOLEAN,
     hold : [kind : Kinds \cup {"none"}, reason : Reasons], gate : GateType,
     approved : 0 .. MaxChanges, excused : SUBSET (0 .. MaxChanges),
     nodes : [Stages -> NodeType]]
OpType ==
    [at : {"idle", "provision", "entry", "prepare", "start", "stop", "timeout", "timedout",
           "conclude", "verify", "publish", "push", "pushed", "cancel", "cancelled"},
     node : Stages, kind : Kinds \cup {"none"}, sha : 0 .. MaxChanges,
     resume : {"none", "advance", "publish"}]

\* The stored document, the operation under the lock and the processes are well typed.
TypeOK ==
    /\ run \in RunType /\ op \in OpType
    /\ native \in Live \cup Ended \cup {"none"}
    /\ check \in {"none", "absent", "running", "pass", "fail", "dead"}
    /\ changes \in 0 .. MaxChanges /\ turns \in 0 .. MaxTurns
    /\ mishaps \in 0 .. MaxMishaps /\ returns \in 0 .. MaxReturns
    /\ published \subseteq 0 .. MaxChanges
    /\ leaked \in BOOLEAN /\ orphan \in BOOLEAN
    /\ checked \in [Stages -> {"no", "pass", "waived"}] /\ decided \subseteq Stages
    /\ cut \subseteq Stages

\* A stage that counts as passed was verified since its last turn where its edge asks for
\* it, and a person decided its gate since then, or the owner took the failed check or
\* the gate on themselves: not by a crash, a retry, a late verdict, an override of a
\* failed turn or an approval of its risky changes (execution-stage.js:397-438).  The code
\* leaves one hole: the gate of a turn that was queued there, and whose launch the death of
\* the server cut off, can be accepted before that turn runs (execution-stage.js:84-90).
PassedAsRequired ==
    \A n \in Stages \ cut : run.nodes[n].status = "passed" =>
        /\ "verify" \in Flags(run, n) => checked[n] \in {"pass", "waived"}
        /\ "gate" \in Flags(run, n) => n \in decided

\* At most one turn or verification works in the worktree: no path launches a turn beside
\* one that was not stopped, except beside a process whose failed launch could not be
\* undone (execution-stage.js:194).
OneWriter ==
    /\ orphan => leaked
    /\ check = "running" /\ native \in {"working", "idle"} => leaked

\* An ended run leaves nothing at work: its turn ended, was stopped or is ending, and its
\* verification has a result (pipeline-actions.js:327-356).
EndedQuiet ==
    Terminal(run) /\ op.at = "idle" =>
        /\ native \in {"working", "idle"} => leaked
        /\ check # "running" /\ ~run.job /\ ~run.active

\* Wherever the server dies, a run that executes has recorded what continues it, but for
\* the moment before its first turn (pipeline-recovery.js:59-125).
Resumable ==
    run.status = "running" /\ run.phase = "executing" /\ ~run.cancel =>
        \/ run.active \/ run.pend # NoTurn \/ run.concl \/ run.adv \/ run.job
        \/ run.att = NoAttempt

\* Nothing is pushed whose risky changes the owner has not approved, or whose failed check
\* the owner has not decided on (risk-gate.js:160-188, workspace-forge.js:130-166).
PublishedApproved == published \subseteq (0 .. run.approved) \cup run.excused

\* A running run comes to wait for the owner or ends, whichever step a crash or a failed
\* call hits (pipeline-recovery.js:59-125), unless its verifier never got its directory
\* and the owner cancels it.
RunSettles == run.status = "running" ~> (run.status # "running" \/ check = "absent")

\* A cancellation the run has recorded ends it, also when stopping the turn or the
\* verification failed at first (pipeline-actions.js:327-356), with the same exception.
CancelEnds == run.cancel ~> (Terminal(run) \/ check = "absent")

=============================================================================
