# agent-pier in TLA+

agent-pier is a local server (Node.js) that runs coding CLIs (Claude Code, Codex,
OpenCode) in tmux sessions, delivers chat messages to them, drives pipelines of
several native stages over Git worktrees, and queues runs per project. This directory
holds TLA+ models of the parts whose correctness depends on the order of events, the
TLC configurations that check them on small instances, and theorems about them that
TLAPS proves for every value of the constants. Paths below are relative to `src/`;
`P/` stands for `server/features/pipelines/`, `C/` for `server/features/chat/`.

All of the server is one Node.js process. JavaScript runs without interruption up to
the next `await`, so everywhere in these models one action is the code between two
awaits, and what the process holds only in memory is lost by a crash.

## 1. Inventory

### Core parts

| Part | State it keeps | Operations | Talks to |
|---|---|---|---|
| Run queue (`P/run-queue.js`, `queue-store.js`, `queue-policy.js`) | table `items` of queue.sqlite (position, state, document); in memory: passes, in-flight items, dirty projects | add, remove, retry, move, project move, drain, pass, claim, start, recover, close | pipeline engine (start, list), project memory (exists, reboundTo), MCP grants (authorize) |
| Pipeline engine (`P/pipeline-engine.js`, `execution-stage.js`, `pipeline-actions.js`, `pipeline-recovery.js`) | table `runs` of runs.sqlite with a revision per run; in memory: a lock per run, native drivers | start, provision, launch, park, gate, retry, cancel, delete, reconcile, close | worktrees (Git), native drivers, port leases, the queue (`changed`) |
| Verification and loops (`verify-runner.js`, `verify-supervisor.js`, `loop-back.js`) | the saved job and its directory; rounds in the run document | begin, inspect, settle, cancel, loop back | engine |
| Risk gate, publication, budget (`risk-gate.js`, `workspace-forge.js`, `run-budget.js`) | approvals and decisions, held turn in the run document | check, park, approve, decline, push, hold, raise | engine, Git, GitHub |
| Parallel groups (`P/parallel-group.js`, `group-actions.js`) | the members of a group node in the run document, each with its attempt, turn and verdict | launch, join, loop back, retry, override, feedback, abort | engine, native drivers, worktree |
| Port leases (`P/run-ports.js`) | the block of each active turn, stored; the granted ones, in memory | lease, probe, settle, release | engine, the host's ports |
| Chat delivery (`C/chat-delivery.js`, `chat-delivery-queue.js`, `chat-delivery-recovery.js`) | one receipt file per message with a journal; in memory: active ids, queue per session, expectations | send, attempt, hold, cancel, accept, block, recover, settled | the session's terminal through `sessions/session-chat-input.js`, native events |
| Delivery acceptance (`C/delivery-acceptance.js`) | expectations, tombstones and buffered events per session | expect, report, withdraw, settle, prune | chat delivery, the Claude mod bridge, the Codex proxy |
| Native requests (`features/requests`) | in each CLI: its pending requests; in the server: cards, deliveries, connections; stored: the announced requests | publish, resolve, answer, hand off, time out, take over, discard | hooks, proxies, the owner |
| Session reload and account transfer (`application/session-reload-*.js`) | reload state per session | prepare, stop, launch, roll back | tmux, CLI profiles |
| Tickets and sequences (`features/tickets`) | the rows of ticket-sequences.json | start, resume, watch, fix, arm, disarm, merge, park, retry, remove | chat delivery, sessions, run queue, GitHub |
| AgentBus (`features/agentbus`, `vendor/agentbus`) | a file queue per receiver | send, claim, acknowledge, redeliver | sessions |
| Assistants and channels (`features/assistants`, `assistant-channels`) | runtime journal, outbox and ledger | admit, update, delete, receive, send | external runtimes, Telegram |
| Live channel (`features/live`) | topics with a revision | subscribe, signal, snapshot | every store |
| Operations (`features/operations`, `application/mutation-barrier.js`) | jobs, archives | back up, restore | every store |

The remaining parts (accounts, providers, MCP directory, packages, files, mail, SSH,
secrets, previews, tools, settings, the web client, the scripts) are stores of
documents, wrappers of external programs or translations of data. PROJECT.json lists
each of them with the reason it is not modelled.

### Behaviours that are hard to test

* **Crashes between two durable steps.** The queue claims an item in one database,
  the engine inserts its run into another, and the queue records the start in the
  first again; a delivery writes a journal before each keystroke.
* **State read before an await and used after it.** A pass holds the row it claimed
  for the whole start of the run, while the item can be moved to another project.
* **Operations of several actors.** The owner, MCP clients, the pass of each project,
  the engine and a shutdown all act on the same rows.
* **Recovery from a document.** What a run does next is read from flags its document
  holds (a queued turn, an advance, a conclusion, a job, an active turn). Each operation
  sets and clears them in several saves, and a crash or a failed call between two of
  them must leave a flag that continues the run and none that contradicts it.
* **Decisions that combine.** Retry, override, feedback, late verdicts, loops, returns,
  approvals and raised budgets each keep or drop what verified and approved a stage.
* **Two sides of a connection.** A CLI's channel and the server's broker each hold half of
  a request, and either may fail, time out or reconnect while the other goes on.
* **People beside the program.** Review groups, sequences and merges share a worktree, a
  session or a pull request with people who act between a read and the act it led to.
* **Progress.** Events are missed while a pass runs; claims are left over by a
  shutdown or a failed write. A poll must pick all of them up.

PROJECT.json, "hazards", names each with its line and the properties about it.

### What makes each part correct

* Run queue: at most one run for an item; the limit of a project; rows stay in one
  queue in a consistent order; every claim settles; no waiting item starves.
* Pipeline engine: at most one turn or check works in a worktree; a stage passes only
  with the verification and the decision its edge asks for; only approved commits are
  pushed; a restart finds what to continue; a cancellation ends the run and leaves
  nothing at work; no turn starts above the budget.
* Chat delivery: Enter is sent at most once for a message; nothing is typed twice or
  over something else; a cancelled or rejected message left nothing behind; messages
  keep their order; held messages are settled in the end.
* Delivery acceptance: an event confirms at most one delivery, and never one it
  cannot belong to.
* Port leases: no port is leased twice; a lease ends with its run.
* Parallel groups: a group passes only with a report of each member on the same commit,
  or with the owner's decision; members write nothing; nothing is left at work.
* Requests: the CLI takes one answer; who answered is told what became of it; a request
  the CLI waits for can be seen and answered.
* Tickets: one worker per ticket, and one copy of its task however a held or uncertain
  one ends; no start stays half done while what it needs can be read; what a person
  disarmed stays disarmed, what GitHub refused is not tried again, and nothing armed
  outlives the ticket.
* AgentBus: nothing lost, acknowledged once.

## 2. Plan

Done:

1. `RunQueue` with `RunQueueProofs`.
2. `ChatDelivery` with `ChatDeliveryProofs`: the delivery of one session's messages, its
   journal and recovery.
3. `PipelineRun` with `PipelineRunProofs`: one run of sequential stages: turns,
   verification, gates, loops, publication, budget, cancellation, reconciliation after a
   crash.
4. `DeliveryAcceptance`: the matcher between events and expectations, which
   `ChatDelivery` takes as its environment.
5. `PortLeases` with `PortLeasesProofs`, and `ParallelGroup` with `ParallelGroupProofs`.
6. `RequestBroker` with `RequestBrokerProofs`, which implements the abstract
   `AnswerContract`.
7. `TicketSequence` (who works on a ticket) with `TicketSequenceProofs`, and `TicketMerge`
   (what becomes of its pull request) with `TicketMergeProofs`.

Open:

8. Theorems about the matcher (`Truthful` of `DeliveryAcceptance`).
9. Further refinements: `PipelineRun` against the part of a run that `RunQueue` uses
   (created, provisioned, parked, ended); "each item starts at most once, then settles"
   for the queue; "each message is entered at most once and reported truthfully" for
   delivery.
10. `AgentBusQueue` (claims, acknowledgement, redelivery) and `SessionReload`.

The modules of items 4 to 7 have no recursive operators, state their assumptions on
constants by name and have a type invariant that a proof can start from.

## 3. Modules

### RunQueue

| TLA+ | Code |
|---|---|
| `items` (rows with `column`, `project`, `position`, `state`) | table `items` of queue.sqlite; `column` is the indexed project, `project` the one in the document |
| `runs` | table `runs` of runs.sqlite, as far as the queue reads it |
| `pass[p]` | `RunQueue.passes`, the item in flight, and the row as the pass read it (`claimed`) |
| `dirty`, `dirtyProjects` | the marks that ask for a drain |
| `mode` | the process: up, closing, down, recovering |
| `registered`, `rebound` | what project memory answers (`project`, `reboundTo`) |
| `authorize` | `app.js` has set `queue.authorize`; before, MCP clients' items wait |
| `reserved`, `clock` | ids handed out; the order of `startedAt` |
| `created`, `lost`, `unsaved` | history |

A start is `Claim` (row saved as starting), `Authorize` (the MCP grant is checked after
an await), `CreateRun` or `RefuseStart` (the engine inserts the run or throws),
`Provision`, and `StartReturned` or `StartBroke` (the outcome is recorded against the
row as it is stored now). Each is the code between two awaits, so removals, retries,
moves, a rebinding of the project, a shutdown or a crash come between any two of them.
`SaveFailed` is the write of the outcome that throws. After a restart `Recover` records
the runs that exist as started and the background passes resume the other claims.

The inserting engine (`CreateRun`, `Provision`, `EndRun`, `TurnRun`, `ReturnRun`) is
modelled as far as a slot depends on it. Runs started by hand (`Direct`) have no project
until they are provisioned, as in the code.

### ChatDelivery

| TLA+ | Code |
|---|---|
| `receipt` | the receipt files (status, journal phase and generation, attempt, waiting) |
| `active`, `queue`, `job`, `worker` | `ChatDelivery.active`; `DeliveryQueue.queues`, its jobs and worker |
| `tx` | the transaction under the session lock (`withChatInput`), by an attempt or a recovery |
| `expecting`, `early`, `blocking` | the matcher's expectations, `earlyAcceptance`, `block()` under way |
| `box`, `dialog`, `prompts`, `generation`, `request` | the CLI: its prompt box, an open question or menu, submitted prompts, its process; requests of the session |
| `pasted`, `entered`, `dropped`, `reported`, `ahead` | history |

A message's text is a piece, its images another one; the prompt box is the set of
pieces and drafts in it. The writer goes `Prepare`, then for each intent `Intend` (the
intent is durable), `Guard` (it passes or proves that nothing was written), `Paste` or
`Enter` (bytes) and `Journal` (the phase they lead to), then `Confirm`. Dialogs, the
owner's input, a new CLI process, the acceptance of a prompt, a cancel and a crash come
between any two of them. `Fail` is the catch of an attempt: the message is held
(`Hold`) or ends with what its journal proves (`Settle`).

Abstracted: the comparison of screens is exact (`BoxFits` reads the box), the matcher
gives an event to some expected message with that text, a blocking screen or a starting
CLI counts as a dialog, and a session whose process cannot be identified (no
`recoveryGeneration`) is not recoverable. The bounded polling loops of a guard are one
read.

### PipelineRun

| TLA+ | Code |
|---|---|
| `run` | the stored document of one run: `node` is currentNodeId, `att` the current attempt, `active` its activeTurns, `pend`, `concl`, `adv`, `job`, `resume` are pendingTurn, pendingConclusion, pendingAdvance, verifyJob, usageResumeAt; `gate`, `approved`, `excused` the risk gate and its decisions; `hold` the held turn |
| `run.nodes[s]` | a stage: status, failReason, verdict, forwardCondition (`via`), verified, overridden, gateBypassed, nativeId, the counters of repairs and nudges |
| `op` | the operation that holds the run's lock (`PipelineEngine.lock`) and the await it is at; "idle" when nobody holds it |
| `native` | the session of the newest turn, as `NativePipelineDriver.inspect` would report it |
| `check` | the newest verification worker; "absent" when its job was saved and its directory was never made |
| `changes` | risky changes in the worktree; a commit is the number it holds |
| `published`, `leaked`, `orphan`, `checked`, `decided`, `cut` | history |

`run` is the document as stored. What an operation has changed since its last save is a
function of that document, so an await is only a place (`op`), and a crash keeps `run`
and drops `op`. What the agent and a check do while the server is down they may as well
do just after it started, so a crash is one step.

`Launch` is launchStage up to its first save; `Prepared` the second save, which makes
the stage current and records the attempt; `Started` or `StartFails` the driver's
answer. The `Tick` actions are the branches of reconcileRun in its order, with the same
conditions; `ConcludeStep` is conclude (checkpoint, decision, risk gate, verification,
gate), `PublishCheck`, `Push` and `Pushed` the publication, and the `Decide` actions
are gateAction, guarded by `Offered` (availableActions). `Park` is park, with the
reasons grouped by what they lead to.

Abstracted: a verdict is one of pass, fail, low (only minor findings) and human
(requiresHuman); `verdict` stands for a missing or invalid one; the inactivity and turn
timeouts are one, and any time may pass before them; the risk rules call every change
risky, so an approval covers the commits up to the one it lists. `asked` merges the two
questions for unanswered findings and criteria.

### DeliveryAcceptance

| TLA+ | Code |
|---|---|
| `list`, `events`, `ready` | `#expectations`, `#events` and `#sources` of one session |
| `phase`, `since`, `pics` | a delivery: whether its Enter is expected, sent or withdrawn; when its expectation began; its images |
| `flight` | the prompts the CLI has and may still tell about |
| `heard`, `confirmed`, `refused`, `foreign` | history |

`Expect`, `Withdraw`, `Ready` and `Forget` are the matcher's operations, `Report` is an
event with its time and images, with the prune, the ambiguity rule, the tombstones and
the caps on entries and buffered events that `report` and `expect` apply. `Type` and
`Silent` are the terminal and the CLI, which answers its prompts in order, each within
`MaxDelay` or never. The outcome of an event (taken, dropped) is passed on unread, so it
is left out.

### PortLeases

| TLA+ | Code |
|---|---|
| `active`, `last` | `ports` of a node's active turn; of its newest turn in the execution log |
| `reserved` | the grants of `run-ports.js` that no turn holds yet |
| `launch` | the launch that holds a run's lock: where it waits, its candidates, what it found leased |

`Lease` is the choice of a block with the turn's former one first, `ProbeFails` a probe
that finds the block in use, `Save` and `SaveFails` the turn stored with its block,
`Started` and `StartFails` the CLI. Launches of one run follow each other under its
lock; those of several runs interleave at each await.

### ParallelGroup

| TLA+ | Code |
|---|---|
| `group` | the run and its group node: `run` its status, `at` where the run stands, `pend`, `concl`, `hold` as in PipelineRun, `round` the attempt, `base` and `end` the commits of its checkpoints |
| `member` | a member node: status, reason, `queued` (its pendingTurn), `turn` (its active turn), `attempt`, verdict, nudges |
| `task` | the operation under the run's lock, and the member it launches or stops |
| `proc`, `file` | the CLI of a member's newest turn, and the verdict it wrote |
| `worktree` | its commit and whether it is dirty |
| `seen` | history |

`LaunchGroup` opens a round; `Pending`, `LaunchMember`, `Prepare` and `Start` launch
members as long as the cap allows; `Reports` and `Settle` are applyOutcome for a
member, `Join`, `JoinVerdict` and `Conclude` what follows when none is left. The actions
on a member or on the group (`Retry`, `Override`, `Feedback`, `AcceptChanges`,
`OwnerLoopBack`, `Abort` and so on) have the guards of group-actions.js. The stages
before and behind the group are one place each. The CLI of a launch that failed is
assumed stopped by the driver's cancel, and the gates of the concluding stage are those
of `PipelineRun`.

### RequestBroker and AnswerContract

| TLA+ | Code |
|---|---|
| `request`, `took` | the CLI's own dialog, and the delivery whose answer it took |
| `pend`, `io`, `sock`, `connected`, `old` | native-channel.js: its pending requests, the native I/O under way, its socket, and the one a released hook leaves to its successor |
| `up`, `down` | the two wires of a connection: FIFO, each ends with "close" |
| `bs`, `q`, `hand` | request-broker.js: a connection's state and the chain of its handlers with the await the running one is at |
| `entries`, `deliv` | the cards; request-delivery.js: the deliveries |
| `created`, `announced` | the stored set of announced requests; how often the listeners heard of it |

`Channel(s)` is the CLI's side of a connection (connect, an answer comes, it is
delivered, a close is seen), `Broker(s)` the server's (hello, publish, resolve, session
read, close), `Answer` an answer or a handoff of the owner, `AutoAnswer` that of a rule,
`Timeout` the ten seconds of a delivery. `Crash` restarts the server, `HandOver` ends a
hook that leaves its connection open, `HandlerFails` is a handler that throws.
`AnswerContract` knows only who won a request and what the one who answered was told.

### TicketSequence

| TLA+ | Code |
|---|---|
| `items` | the rows of ticket-sequences.json: state, `starting`, the recorded session or run, the attempt with its folder, the pull request |
| `op` | the step or owner action that holds the queue's lock, and the await it is at |
| `session`, `run` | the coding sessions and the runs of the run queue, as sequence-engine.js finds them by folder and by id |
| `session[s].tasks`, `sent`, `rejected` | the receipts for the ticket's task: the ids under which the session's delivery holds one, those whose text the CLI took, those that were rejected |
| `answers` | whether the tracker, GitHub, the list of sessions and the run engine can be read |
| `overlooked` | history |

`Start` saves the intent; `Launch`, `Launched` or `LaunchTimesOut`, `Deliver`,
`Confirmed` or `NotDelivered`, and `Recorded` (a session ticket), `Reserve` and `Enqueue`
(a pipeline ticket) follow. `Deliver` only reserves a receipt under the id `Task`, or
finds the one that is there. The start goes on with any report but a rejection, so also
with a text that is held or whose fate is unknown; `Delivery` is what becomes of a
receipt, at any later time or never. `Interrupted` and `Resume` are what a new process or
the next timer does with a start it finds half done: adopt the session in the folder,
send the task again under the same id, or park. `Unanswered` and `Answered` are the
outside; while it does not answer, `ResumeSkips` saves the session it found and skips.
`Retrying`, `RetryLive`, `RetryPr` and `RetryFresh` are the owner's Retry by what it
finds, `MarkDone` and `Remove` the others.

### TicketMerge

| TLA+ | Code |
|---|---|
| `item` | the row that awaits its merge: `armed`, `armedHead`, the refused heads, the failed rounds, the last head checked or reviewed |
| `op` | the await of the step, with the snapshot it decided on |
| `pull` | the pull request at GitHub: head, checks, review, who armed it |
| `repo` | the kind of repository: merge queue, auto-merge, or neither |
| `off`, `saw`, `denied` | history: heads a person disarmed, whether the last read asked for changes, what GitHub refused by head |

`Read` takes the snapshot; `Fix` and `FailedRounds` are sequence-fixes.js; `Disarm`,
`Requeued`, `GoesOn`, `Arm`, `WasRefused`, `StillRefused` and `Ready` are the merge
step in the order of its conditions, with the calls to GitHub (`Armed`, `CallLost`,
`Refused`) as steps of their own. `Leave` is Mark done or Remove, which first disarm.
People push, review, arm and disarm between any two steps (`PersonDisarms` takes the
pull request out of a merge queue as well as it turns auto-merge off), and `QueueDrops`
is the merge queue's own drop: the code sees both alike, and tells them apart by the
check failure it recorded for the head.

## 4. Runs

| Run | What it checks |
|---|---|
| `queue_moves` | two queues and a direct run while a project is rebound and moved: rows stay consistent, one pass per item, runs are created only for claimed rows |
| `queue_progress` | one project of limit 1 under a crash or shutdown and a failed write: the limit, start-once, and that claims and waiting items go on |
| `chat_journal` | one message under crashes, recoveries and a new CLI: at-most-once typing, truthful rejections, acceptances kept, late Enter |
| `chat_two` | two messages: their order, and that each leaves the queue though questions and requests stay open |
| `acceptance` | which event confirms which of three deliveries |
| `pipeline_run` | what a passed stage, a push, an end and a restart may rely on, over three turns |
| `pipeline_ends` | the run and a cancellation settle, also after a return to a stage |
| `group` | what a passed group relies on, that members write nothing and leave nothing, decisions last, the group settles |
| `ports` | blocks are held once and none is lost |
| `requests` | cards are honest, the broker implements `AnswerContract`, an open request comes to be seen |
| `ticket_starts` | one worker for a ticket, at most one copy of its task and a receipt for it where it is watched, no start half done while what it reads is answered |
| `ticket_merge` | a disarmed head stays disarmed (in a merge queue: one whose checks never failed), a refused call is not repeated, nothing armed outlives the ticket or a read review |

**Bounds.** `queue_moves`: two items, one of them an MCP client's, two projects and a
direct run, limit 1, so that all compete; no crash and no failing write, which
`queue_progress` has at every point of a start (and the proofs in any number).
`MaxPosition` leaves room for every reorder of two items. `chat_journal`: the journal of
a message depends on no other message, so one message with an image (all four intents
and both pieces) meets two crashes, two recoveries (a retry of a retry), one new CLI
process and one draft. `chat_two` needs two messages and no images; it has no recovery,
since with one the order is broken (see below), and no crash, which empties the queue.
`acceptance`: three deliveries, of which two share an ask window of 2 with events at
most 1 late, and caps of two expectations and one event, so that each cap and each
tombstone is used; four ticks let an expectation expire. `pipeline_run`: two stages have
every kind of edge: a verified one whose failing verdict ends the run (a plain fail
edge), and one that loops back once, continues the session, asks for approval and
publishes. Three turns are an implementation, its review and a repair, a retry, nudge or
feedback turn; a launch beyond the bound fails as one without a port block does. One
mishap is a crash between any two steps, any failing call, or the crossing of the
budget. One risky change can come at any moment a turn or a check works. `pipeline_ends`
leaves that change out (a failed risk check still parks) and adds one return or loop by
the owner, which needs the run's two turns and no more. `group`: two members with room
for one, so that one always waits for the other; three troubles are any owner decisions,
crashes, failures or crossings, one after the other. `ports`: three runs and two blocks,
so that a launch can be refused, and one restart. `requests`: three answers to one
request are an answer, a second one and a late one; three troubles leave a connection, its
successor and one more. `ticket_starts`: a session ticket and a pipeline ticket that waits behind it, two
sessions and two runs, so that a second worker can exist; one retry, two crashes and two
mishaps, so that a start that a crash cut off can be cut off again, and a receipt be
reserved before the one and reported after the other.
`ticket_merge`: `MaxRounds` is the code's own 3, three heads reach it, and three acts of
people with two failures let a person disarm, push and review around a lost call. The
theorems below have none of these bounds.

**Fairness.** `RunQueue`: the poll timer (`setInterval` in the constructor) and the
event loop go on; a process that stopped is started again (the service is supervised);
runs end (`RunsEnd`), without which a full limit is no fault of the queue. Nothing is
assumed of owners, faults or turns. A process crashes at most `MaxRestarts` times.
`PipelineRun`: the poll goes on (pipeline-engine.js starts it on an interval), an
operation that began goes on, a stop and a check come to an end (the launcher kills its
group, checks have time limits). `TickCancel` is strongly fair: operations take the
run's lock in the order they asked for it, so an owner who keeps deciding cannot keep
the poll from a recorded cancellation. A turn may work for ever; its timeout ends it.
`ParallelGroup`: the poll and the steps of an operation go on, and the CLI of a member
ends, at the latest by its timeout (`ProcEnds`). `ChatDelivery`: the worker's retry
timer, the writer and `block()` go on, and time passes (`PassDeadline`); nothing is
assumed of dialogs and requests, which may stay open for ever. `RequestBroker`: both
event loops run their own code, the channel reconnects (its timer of one second), a
delivery's timer fires; nothing is assumed of those who answer. `TicketSequence`: a step
that began goes on, the timer begins the next one, and a launch comes up, fails or is
given up after its two minutes. Nothing is assumed of the tracker, GitHub and the list of
sessions: they may stop to answer and never do so again, and a start then stays half
done, since each pass skips it (see below). `StartSettles` therefore says that a start
ends, or its reads are not answered at some moment until it does.

**Disagreements met.** Places where a comment or a document promises more than the model
shows. The runs leave each out by name, as said:

* Queue: a run started by hand is stored without a project until its worktree exists, so
  the queue starts an item beside it although the limit is 1 (`pipeline-engine.js:216`,
  docs/pipelines.md:217). `StrictLimit` is checked without direct runs. The comment in
  `return-service.js` that a return "can briefly exceed the limit by one" is, in turn,
  more cautious than the model: `StrictLimit` holds with `ReturnRun`.
* Queue: a project's move brings along the claim of a pass that is just starting it. If
  the write of its outcome fails, the pass of the project it moved to resumes that claim
  without asking for a slot (`queue-store.js:84`, `run-queue.js:322`), so that project
  can exceed a strict limit of 1. The proof attempt found it; `StrictLimit` leaves out a
  project that another one moved to (`Unmoved`).
* Chat: a recovery that a question holds at its end joins the queue behind a message
  that was sent while it wrote, which is then typed over the recovered text
  (`chat-delivery-recovery.js:312`; `chat-delivery-queue.js:15`). And `hold()` starts a
  recovered job without a deadline (`chat-delivery-queue.js:59`); the worker sets one
  only when it attempts the job, which it does not while a request is pending
  (`chat-delivery.js:85`). `chat_two` has no recoveries.
* Risk gate: declining records the decision with the commit and the failed check, and
  the gate skips the check of a commit with such a decision, whichever way it went. The
  next request for a pull request pushes the declined commit without asking again
  (`risk-gate.js:127`, `:190`). `PublishedApproved` therefore says that the owner
  decided on a pushed commit, not how.
* Budget: a raised budget drops the reason and keeps the run waiting in its first save,
  so a crash before the second one leaves an ordinary gate, whose acceptance passes a
  stage, or a group, that never ran (`execution-stage.js:90`; docs/pipelines.md:96 says
  "exactly the held turn starts"). The same holds for a feedback turn or a nudge that was
  queued at a gate and cut off: reconcileRun returns early for a run that waits for the
  owner (`pipeline-recovery.js:71`), and the gate still offers "accept"
  (`pipeline-actions.js:68`). A single crash is enough for that; the proof attempt for
  `PassedAsRequired` found it. `PassedAsRequired` leaves those stages out by name (`cut`),
  `Reviewed` excludes the case in the group (`lapsed`).
* The launch error of a follow-on stage is parked while the stage before it is current
  and passed, so "retry" is not offered (docs/pipelines.md:132 says it "can be retried").
* Groups: a member's Feedback launches it beside the running ones, above the cap
  (`group-actions.js:155`; docs/pipelines.md:78). A `pendingTurn` that a resume left
  behind a crash relaunches every blocked member, not only the one retried. The branch
  of `launchGroup` for members that were never started is reached by none of its saves.
* Ports: a block skipped as leased is not tried again if it was freed while the others
  were probed, so a launch may be refused beside a free block; a failed launch is to be
  retried by the owner. `EnoughBlocks` counts the turns that held one.
* Requests: `request.expired` is documented as an end without an answer from the chat,
  but the handoff to Codex and the poll of OpenCode can record both. Codex does not
  resolve a request that was answered, so a card given up as unknown may stay.
* Tickets: Retry of a pipeline ticket that was parked while its run still waits in the
  queue reserves a second run (`sequence-service.js:273` says that a run that still works
  or waits is not replaced; `overlooked` excuses it). A crash after a launch and before
  the save of its session can park the ticket before the session is looked for; Retry
  then launches a second one in the same folder if it is clean. A removed run is queued
  again by a resumed start.
* Tickets: "A session the task cannot reach is stopped and the item parked"
  (`sequence-start.js:123`), but a start goes on with a "pending" or "uncertain" receipt
  (`sequence-start.js:19`, `:152`). A crash between the reservation of the receipt and the
  paste makes the repeated send report "uncertain" without sending anything
  (`chat-delivery.js:203`, `:277`), and a held task may be rejected later; the ticket is
  then watched without its task. `TaskOnce` asks for a receipt where a ticket is watched,
  and for at most one copy of the text.
* Tickets: a start that a crash cut off is skipped, on every pass and without a clock,
  while the list of sessions, the ticket or (for a pipeline) GitHub cannot be read
  (`sequence-start.js:217`, `:225`, `:274`; `sequence-engine.js:364`). With a tracker key
  that was revoked meanwhile it stays half done until the owner removes the ticket; the
  half hour after which failing reads of GitHub park a ticket (`FORGE_LIMIT_MS`) is
  counted before a start and while a ticket is watched only. `StartSettles` excepts this
  by name (`answers`).
* Tickets: Retry of a session that still runs is said to send the task "under the same
  delivery id" (`sequence-service.js:280`); it has an id of its own
  (`sequence-start.js:135`), so the session may get the task once more. `TaskOnce` counts
  one copy for each such Retry (`resumed`).
* Merge: "a head found disarmed on GitHub (the owner, or a merge queue that dropped it) is
  never armed again" (`sequence-engine.js:508`), but in a repository with a merge queue a
  head is queued again once a check failure on it was recorded (`:531`), and that record
  does not tell whether the queue dropped the head for it or a person took it out
  afterwards. `NotArmedAgain` leaves such heads out by name (`MayRequeue`); of a head whose
  checks never failed it holds in merge queues too.
* Merge: a person's disarming and a review that requests changes between two reads count
  as AgentPier's own disarming, so the head is armed again once the review is answered. A
  third failed round, or a fix that is skipped, ends the step before the merge step, so
  an armed pull request with changes requested stays armed; `ReviewStops` speaks of
  tickets that still wait. Auto-merge that GitHub carried to a new push and a person
  disarmed before the next read is armed again: AgentPier never saw that head armed.

## 5. Proofs

All theorems hold for every value of the constants that satisfies the assumptions of
their module: sets are non-empty where the code has a value, bounds are natural numbers.
`IsFiniteSet(Items)` is needed only for the cardinality in the slot count, and
`IsFiniteSet(Keys)` of `BrokerAssumption` for the order in which requests are published
again; `DraftAssumption` says that what the owner types is told apart from what was
pasted, as the model follows pieces by where they come from and not by how they read
(`DeliveryAcceptance` is about that); `PortAssumption` says that the blocks differ from
each other, as `blocks()` makes them; `GraphAssumption` that an edge of a pipeline leads
to a stage, to its end or nowhere.

* `RunQueueProofs`: `ClaimInvariant` is inductive. `AtMostOneStart` alone is not: it
  needs that a claim which no pass has taken past its insert has no run
  (`ClaimHasNoRun`), that an unrecorded item without a run never had one
  (`UnrecordedNeverRan`), that `created` counts what exists, that a stopped process has
  no pass, and that no two passes hold one item. Most actions are `Quiet` (they leave
  what the invariant reads alone) and share one lemma; the others each have their own.
  From it: `NoDoublePass`, `StartsAtMostOnce`, `RetriesRepeatNothing`, `StartedIsTrue`
  and, as an action property, `CreatesOnlyClaims`.

  `RowsConsistent` is inductive on that ground, since every save keeps a row's place but
  a move of a project, which lines the rows up behind those that are there. For
  `StrictLimit` the runs are counted together with what will become one
  (`Slots`: the active runs the queue started in a folder, and the claims in its queue):
  a claim needs a free slot, and its run takes the slot of the claim. That the code
  counts no less than these needs to know for whom a run is counted while it is
  provisioned and after (`CountedHome`), and that the row a pass starts is still in the
  queue it was claimed from (`ClaimedHere`). From it: `RowsStayConsistent`, `LimitKept`.
* `ChatDeliveryProofs`: `JournalInvariant` is inductive. Its centre is
  `JournalIsTrue`: the phase in a receipt never claims less than the terminal was sent.
  A durable intent claims that its bytes may have been sent, so a crash at any point
  leaves a receipt that is true. `TxFollowsJournal` says that a transaction only sends
  bytes whose intent stands in the receipt and that were not sent before;
  `JobFollowsJournal` that a held message continues where its journal ends; `OneOwner`
  that the queue and the transactions never own a message together, so that no second
  writer can repeat a step; `RejectedIsReserved` that whoever rejects a message that no
  hook dropped finds its journal at "reserved". An action is `Quiet`, moves the
  transaction one step on (`TxMoves`), ends it (`SettleKeeps`, `HoldKeeps`), or gives
  and takes messages (`JoinKeeps`, `LeaveKeeps`). From it: `SentAtMostOnce` and
  `RejectedSentNothing`.

  `AcceptanceKept` fails if Enter is sent for a message after an acceptance of it was
  reported, since the attempt starts with a blank `early`. That this
  cannot happen is a fact about texts (`TextInvariant`): a text is pasted once, so it is
  in the box or in one submitted prompt (`InOnePlace`), it is gone when a prompt with it
  is accepted, and a resumed Enter needs it in the box (`BeforeEnter`, `ProofsShow`).
  `EnterFindsMessage` follows from that alone. `EventsInvariant` then says where an
  acceptance stands: in `early` while the delivery runs, in the receipt after it; a
  message that expects an event has its Enter journaled and an outcome that can be
  confirmed, and `block()` is never about an attempt that still expects one. Each action
  is about one message and leaves the others `Unaffected`. From it:
  `AcceptanceNeverLost`. `OrderKept` says `Spec => []InOrder` for `MaxRecoveries = 0`
  (with recoveries the order fails, see section 4): what was under way when a message was
  sent stands before it in the queue.
* `PipelineRunProofs`: `RunInvariant` is inductive, for every graph and any number of
  turns, mishaps and changes. Its parts say what a document may record at once (`Flow`),
  how the current stage stands meanwhile (`Stands`), that what continues an executing run
  is recorded (`Recorded`), that what a stage claims is true (`Honest`: passed, verified,
  excused and failed only to publish) and that so is whatever the owner may accept
  (`Gated`); `Starts`, `Ends` and `Queued` tie the operation under the lock to the
  document it last saved, `Processes` the turn and the check at work to it, `Publication`
  a push under way to an approval. `PassedAsRequired` needs nearly all of it: a stage
  passes by an acceptance, at a gate that an earlier verification left, which a queued
  turn may have outdated since. The proof has a lemma per action; those that end in the
  same code share one (`ParkKeeps`, `LaunchKeeps`, `OnwardKeeps`, `AdvanceKeeps`,
  `ConcludeKeeps`, `LoopBackKeeps`), and `StageEdit` and `NodeEdit` say what an edit of
  one stage leaves alone. From it: `StagesPassAsRequired`, `OneTurnWorks`,
  `EndedRunsRest`, `RunsResume` and `PushesAreApproved`.
* `PortLeasesProofs`: no block is held twice (`NeverHeldTwice`), since a grant stays
  reserved until its turn is saved with it and every choice avoids both. `NoBlockIsLost` counts: a launch that
  is refused before any probe found every block held, a turn for each, and the turns that
  hold one are then at least as many as the blocks (which `PortAssumption` makes distinct);
  they are finitely many, since no two hold the same block.
* `ParallelGroupProofs`: `Kept` is inductive, for any members and any number of turns,
  rounds, mishaps and changes. `Reviewed` alone is not: between the read of a report and
  the save of the group several documents, a running operation and the CLIs at work
  have to agree. `Placed` says where an operation can wait and for whom, `Document` what
  the document records at once, held launches included, `Turns` that a CLI at work has
  its member's turn, `Rests` that nobody works for a group that rests, `Due` which round
  a member is due for, `Joins` that a stored join is made of the reports that stand.
  `ReadOnly` needs `Checkpoints`, which ties the worktree to what was recorded before and
  after a turn; it is dropped once a turn was given up with its CLI at work, as `ReadOnly`
  drops it (`seen.lost`). `Gates` says what may pass as it stands, unless a crash lost
  the launch that a raised budget had allowed (`seen.lapsed`). A step is of one member
  (`OneMember`) and the others rest (`OthersRest`); the steps that end in the same code
  share `GroupParks`, `GroupHeld`, `GroupLaunches`. From it: `ReviewedHolds`,
  `ReadOnlyHolds`, `QuietHolds` and, as an action property, `DecisionKeptHolds`.
* `TicketSequenceProofs`: `Whole` is inductive. `OneWorker` alone is not: between the
  launch of a session and the save of its id nothing in the store says that the ticket
  has one. `Sole` says what is known of it meanwhile: what is up in the folder of the
  attempt is the session saved or being launched, or, when a crash came in between, the
  newest of the ticket, which the resumed start looks for. `Aged` says that a session
  with a receipt for a task is the ticket's own, of an earlier attempt or stopped, so an
  adopted one has none yet and a session that came up too late never gets one; `Told`
  that while a start is under way its session has room for one more receipt (one that is
  there already has the same id). No copy is sent without a receipt (`Received`), so the
  receipts bound the copies, whenever each arrives. A step is of one ticket (`Own`) and the
  others rest (`OthersRest`); the steps that end a start share `Settles`, those of
  sessions and of the process `FurtherKeeps`. From it: `OneWorkerHolds` and
  `TaskOnceHolds`.
* `TicketMergeProofs`: a ticket that is done left nothing armed, a read review that
  requests changes stops a merge before the ticket waits on, and, as an action property,
  a head that a person disarmed is not armed again, but in a merge queue one whose checks
  had failed. The invariant ties the snapshot of a step under way to what may have
  happened at GitHub since it was read. `RefusalsRest` (`RefusedOnce`) is not immediate,
  since the row keeps one refusal only: heads only grow and a call names the head it was
  decided on, so the refusal kept is the one that could be met again (`RefusalsHold`).

* `RequestBrokerProofs`: the wires are spoken of in three ways, whether one carries a
  message of a set (`Has`), only one (`Once`), and whether one of another set follows it
  (`Followed`). `Routed` says where an answer is: on one wire towards the CLI, in the
  native I/O, or reported, in one of them, and that a report is true and final. With it
  `Spec` implements `AnswerContract` (`BrokerKeepsContract`). `Placed` says where a
  request is: published on the wire, in the queue, with the handler or on its card, in one
  of them; that a connection has neither requests nor cards before it is ready, so that a
  takeover has none to lose; and that the CLI knows every connection the broker reads
  from. `Honest` is about the CLI's own connection: a request that the CLI no longer waits
  for is followed by its end on the way to its card, and while an answer is on the way to
  the CLI, nothing asks for it again. `CardHonest` follows from these (`CardsAreHonest`):
  a card on the connection that a released hook left is impossible by `Placed`, one on
  the CLI's own by `Honest`.

Only model-checked: `DeliveryAcceptance` (`Truthful`, `HeardAlone`), whose properties depend
on how the window, the caps and the delay of an event relate; and, since TLAPS has no rules
for fairness here, liveness: `ClaimSettles`, `QueuedProgress`, `HeldEnds`, `RunSettles`,
`CancelEnds`, `GroupSettles`, `SeenOrOver`, `StartSettles`.

Each module states its `TypeOK`. It is proved (`TypeCorrect`) for `RunQueue`,
`ChatDelivery`, `PipelineRun`, `PortLeases`, `ParallelGroup`, `TicketSequence`,
`TicketMerge` and `RequestBroker`; that of `DeliveryAcceptance` was checked while the
module was written and is left out of its run, which goes to what the code could get
wrong.

## 6. Not modelled

* RunQueue: failures of SQLite other than the write of an outcome, the item documents,
  the live topics. `AtMostOneStart` and `RepeatableNeverRan` exclude items whose run the
  owner deleted while its start was still to be recorded (`lost`), and the latter items
  whose outcome could not be written (`unsaved`).
* ChatDelivery: receipt writes that fail, `purge` and `discard`, slash and `!` commands
  with their confirmation on the screen, menus that the writer closes with Escape, the
  replay of a recovery request by its id, the texts of results and notices.
* DeliveryAcceptance: which commands send no event, the outcome an event carries. Two
  deliveries are never due in the same millisecond, since the session lock writes one
  after the other. `Truthful` needs `MaxDelay` below `AskWindow`: an event as late as the
  window is long confirms a neighbour, and so can the last of four deliveries in one
  window. It excuses a session whose CLI got a prompt that no delivery told the matcher
  about (`foreign`); `HeardAlone` a withdrawn delivery, whose tombstone stays.
* PipelineRun: the run's spec and its replacement, deletion, imported runs, a project
  without verification steps, drivers that cannot stop gracefully, the token counts
  behind `over`, the rounds and reports of a loop, and the state of the pull request that
  may block a return. A lease that fails is `PrepareFails`. The poll works on a snapshot
  of the runs, but each run is read again under its lock (`pipeline-recovery.js:60`), and
  the budget is one guard in launchStage, before a turn. `OneWriter` and `EndedQuiet`
  exclude a process whose launch failed and whose stop failed too (`leaked`);
  `RunSettles` and `CancelEnds` a verification whose directory was never made: cancelling
  it fails each time, since the cancel file has no place (`verify-runner.js:112`).
* ParallelGroup: wait-for-reset inside a group, the gates, verification and publication
  after a group's conclusion. A turn that is stopped has ended at once. `Quiet` and
  `ReadOnly` exclude a member that was given up since it could not be inspected (`lost`).
* PortLeases: ports outside the blocks; what listens on the host is not known, so a probe
  may answer either way.
* RequestBroker: requests at start-up dialogs, approval rules beyond their answer,
  notices and pushes, the caps on clients, entries and announced requests, revisions of
  a card, and the adapters of the CLIs beyond when they publish and resolve. One request
  at a time: the broker keeps nothing that two of them share but the connection.
* TicketSequence: rules, sources and write-backs, adding and moving items, a Retry on the
  queue item. `OneWorker` counts a session that came up too late only once it was handed a
  task, which it never is; without one it waits to be stopped. Only what Retry
  does not look for (`Left`) sets a ticket aside. What happens to a message after its
  receipt is reserved is `ChatDelivery`; here it is sent, rejected or neither. An owner's
  action reads and saves under the queue's lock and is one step.
* TicketMerge: one arming mode per repository; a call that failed either took effect or
  never does. A head in a merge queue whose checks failed once may be queued again
  after a person took it out (section 4). A repair session is no actor of its own: what it
  pushes is `Push`, and that it cannot be started is `FixFails`.
* Every part listed as `not_modelled` in PROJECT.json, with the reason there.
