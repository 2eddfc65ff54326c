---------------------------- MODULE TicketMerge ----------------------------
(***************************************************************************)
(* The merge of one sequence ticket's pull request: the item that awaits   *)
(* its merge, the step that reads the pull request, fixes, disarms, arms   *)
(* or merges it, and the owner's actions on the parked item                *)
(* (sequence-engine.js, sequence-fixes.js, sequence-service.js and         *)
(* pr-status.js of features/tickets).                                      *)
(*                                                                         *)
(* `pull' is the pull request as GitHub has it: people, checks and the     *)
(* merge queue change it at any time.  A step decides on the snapshot in   *)
(* `op', which is all that a crash loses.  A repository has either a merge *)
(* queue or auto-merge under required checks, or neither.                  *)
(***************************************************************************)
EXTENDS Integers, FiniteSets

CONSTANTS
    MaxRounds,   \* MAX_FAILED_ROUNDS (3 in the code)
    MaxHeads,    \* bound: pushes to the pull request
    MaxPeople,   \* bound: what people do on GitHub and in AgentPier
    MaxMishaps   \* bound: crashes, failing calls, and checks that run again

ASSUME MergeAssumption ==
    {MaxRounds, MaxHeads} \subseteq Nat \ {0} /\ {MaxPeople, MaxMishaps} \subseteq Nat

VARIABLES
    repo,   \* "queue", "auto" or "plain"
    item,
    op,
    pull,
    used,
    off,    \* history: heads that a person disarmed after AgentPier had recorded them as armed
    saw,    \* history: the last step that was not skipped read that a review requests changes
    denied  \* history: what GitHub refused, by head, since the owner's last retry

vars == <<repo, item, op, pull, used, off, saw, denied>>

Heads == 1..MaxHeads
Checks == {"pending", "passed", "failed"}
Reviews == {"ok", "needed", "changes"}
\* Who armed the pull request: auto-merge, or its place in the merge queue.
Arms == {"no", "us", "person"}

-----------------------------------------------------------------------------
Fresh == [state |-> "awaiting-merge", armed |-> FALSE, armedHead |-> 0, refused |-> {},
          failed |-> 0, lastSha |-> 0, lastReview |-> 0, unchecked |-> FALSE]
NoSnap == [head |-> 0, checks |-> "pending", review |-> "ok", arm |-> FALSE, merge |-> "other"]
Idle == [at |-> "idle", snap |-> NoSnap, to |-> "none"]

Person == used.people < MaxPeople /\ used' = [used EXCEPT !.people = @ + 1]
Mishap == used.mishaps < MaxMishaps /\ used' = [used EXCEPT !.mishaps = @ + 1]
NoMishap == UNCHANGED used

snap == op.snap
Snapshot(merge) == [head |-> pull.head, checks |-> pull.checks, review |-> pull.review,
                    arm |-> pull.arm # "no", merge |-> merge]
Awaiting == item.state = "awaiting-merge"
Park(rec) == item' = [rec EXCEPT !.state = "needs-owner"] /\ op' = Idle
Save(rec) == item' = rec /\ op' = Idle

-----------------------------------------------------------------------------
(* watchPr: the read, and what an ended or unreadable pull request means.   *)

ReadMerged ==
    /\ op.at = "idle" /\ Awaiting /\ pull.state = "merged"
    /\ Save([item EXCEPT !.state = "done", !.armed = FALSE])
    /\ UNCHANGED <<repo, pull, used, off, saw, denied>>
ReadClosed ==
    /\ op.at = "idle" /\ Awaiting /\ pull.state = "closed"
    /\ Park(item) /\ UNCHANGED <<repo, pull, used, off, saw, denied>>
\* forgeFailed, for half an hour: no read and no step in between.
Unreadable ==
    /\ op.at = "idle" /\ Awaiting /\ Mishap
    /\ Park(item) /\ UNCHANGED <<repo, pull, off, saw, denied>>
\* The merge state GitHub computes: protected branches block what is not green, and
\* any branch may be behind or in conflict.
MergeStates == IF repo # "plain" /\ (pull.checks # "passed" \/ pull.review # "ok")
               THEN {"armable", "other"} ELSE {"ready", "armable", "other"}
Read ==
    /\ op.at = "idle" /\ Awaiting /\ pull.state = "open"
    /\ \E merge \in MergeStates :
          op' = [Idle EXCEPT !.at = "fix", !.snap = Snapshot(merge)]
    /\ saw' = (pull.review = "changes")
    /\ UNCHANGED <<repo, item, pull, used, off, denied>>

-----------------------------------------------------------------------------
(* fixStep, fixDecision, applyFix.                                          *)

Red == snap.checks = "failed" \/ snap.review = "changes"
NewChecks == snap.checks = "failed" /\ snap.head # item.lastSha
NewReview == snap.review = "changes" /\ snap.head # item.lastReview
Rounds == [item EXCEPT !.failed = IF NewChecks THEN @ + 1 ELSE @,
                       !.lastSha = IF NewChecks THEN snap.head ELSE @,
                       !.lastReview = IF NewReview THEN snap.head ELSE @]

\* Mutant: a pass that told the session ends there.
FixStops ==
    /\ op.at = "fix" /\ ~(NewChecks /\ Rounds.failed >= MaxRounds)
    /\ item' = Rounds
    /\ op' = IF NewChecks \/ NewReview THEN Idle ELSE [op EXCEPT !.at = "merge"]
    /\ NoMishap /\ UNCHANGED <<repo, pull, off, saw, denied>>
\* The session was told (under an id of the head), or there is nothing new to tell: the
\* rounds are saved and the step goes on to the merge with the snapshot it has.
Fix ==
    /\ op.at = "fix" /\ ~(NewChecks /\ Rounds.failed >= MaxRounds)
    /\ item' = Rounds /\ op' = [op EXCEPT !.at = "merge"]
    /\ NoMishap /\ UNCHANGED <<repo, pull, off, saw, denied>>
FailedRounds ==
    /\ op.at = "fix" /\ NewChecks /\ Rounds.failed >= MaxRounds
    /\ Park(Rounds) /\ NoMishap /\ UNCHANGED <<repo, pull, off, saw, denied>>
\* The worker is quiet for too long, the delivery timed out, the repair failed: parked.
\* Or the worker or the branch cannot be read: this pass is skipped.
FixFails ==
    /\ op.at = "fix" /\ Red /\ Mishap
    /\ \/ Park(item) /\ UNCHANGED saw
       \/ Park(Rounds) /\ UNCHANGED saw
       \/ Save(item) /\ saw' = FALSE
    /\ UNCHANGED <<repo, pull, off, denied>>

-----------------------------------------------------------------------------
(* mergeStep.                                                               *)

Merging == op.at = "merge"
Green == snap.checks = "passed" /\ snap.review = "ok"
Unarmed == [item EXCEPT !.armed = FALSE, !.armedHead = 0]

\* A review that requests changes: the pull request is disarmed, then the record.  Also
\* a head that a person had disarmed counts as AgentPier's own from here on.
Disarm ==
    /\ Merging /\ snap.review = "changes"
    /\ pull' = IF snap.arm THEN [pull EXCEPT !.arm = "no"] ELSE pull
    /\ op' = [op EXCEPT !.at = "disarmed"]
    /\ NoMishap /\ UNCHANGED <<repo, item, off, saw, denied>>
Disarmed ==
    /\ op.at = "disarmed" /\ Save(Unarmed) /\ off' = {}
    /\ UNCHANGED <<repo, pull, used, saw, denied>>
DisarmFails ==
    /\ Merging /\ snap.review = "changes" /\ snap.arm /\ Mishap
    /\ \E worked \in BOOLEAN : pull' = IF worked THEN [pull EXCEPT !.arm = "no"] ELSE pull
    /\ op' = Idle /\ saw' = FALSE /\ UNCHANGED <<repo, item, off, denied>>

\* What GitHub has armed is recorded, whoever did it.
Record ==
    /\ Merging /\ snap.review # "changes" /\ snap.arm
    /\ Save([item EXCEPT !.armed = TRUE, !.armedHead = snap.head])
    /\ UNCHANGED <<repo, pull, used, off, saw, denied>>

\* A head that was armed once and is not any more: red checks wait for a new one; a
\* merge queue that dropped it for its checks may get it again; anything else was a person.
\* That a queue dropped the head is taken from the record: its checks failed once.
ArmedBefore == item.armedHead = snap.head
\* Mutant: a merge queue may always get it again.
RequeuedAny == repo = "queue" /\ item.armed
Requeued == repo = "queue" /\ item.armed /\ item.lastSha = snap.head
Undecided == Merging /\ snap.review # "changes" /\ ~snap.arm
StaysRed ==
    /\ Undecided /\ ArmedBefore /\ snap.checks = "failed"
    /\ op' = Idle /\ UNCHANGED <<repo, item, pull, used, off, saw, denied>>
MergeDisarmed ==
    /\ Undecided /\ ArmedBefore /\ snap.checks # "failed" /\ ~Requeued
    /\ Park(item) /\ UNCHANGED <<repo, pull, used, off, saw, denied>>

GoesOn == Undecided /\ (ArmedBefore => snap.checks # "failed" /\ Requeued)
Kept == IF ArmedBefore THEN Unarmed ELSE item

\* mergeHow
How == IF repo = "queue" THEN (IF Green THEN "queue" ELSE "wait")
       ELSE IF Green /\ snap.merge = "ready" THEN "merge"
       ELSE IF repo = "auto" /\ snap.checks # "failed" /\ snap.merge = "armable" THEN "auto"
       ELSE "wait"
What == IF How = "merge" THEN "merge" ELSE "arm"
Ready == How = "auto" => Green
WasRefused == item.refused = {<<snap.head, What>>}
Waits ==
    /\ GoesOn /\ How = "wait"
    /\ Save(Kept) /\ UNCHANGED <<repo, pull, used, off, saw, denied>>
StillRefused ==
    /\ GoesOn /\ How # "wait" /\ WasRefused
    /\ IF Ready THEN Park(Kept) ELSE Save(Kept)
    /\ UNCHANGED <<repo, pull, used, off, saw, denied>>
\* The call names the head of the snapshot: GitHub refuses another one.
Lands == IF How = "merge" THEN [pull EXCEPT !.state = "merged"] ELSE [pull EXCEPT !.arm = "us"]
CanLand == pull.state = "open" /\ pull.head = snap.head
Call == GoesOn /\ How # "wait" /\ ~WasRefused
Arm ==
    /\ Call /\ CanLand
    /\ pull' = Lands /\ item' = Kept
    /\ op' = [op EXCEPT !.at = IF How = "merge" THEN "idle" ELSE "armed",
                        !.snap = IF How = "merge" THEN NoSnap ELSE @]
    /\ UNCHANGED <<repo, used, off, saw, denied>>
Armed ==
    /\ op.at = "armed"
    /\ Save([item EXCEPT !.armed = TRUE, !.armedHead = snap.head])
    /\ UNCHANGED <<repo, pull, used, off, saw, denied>>
\* No answer: the pass is skipped, and whether the call landed shows the next read.
CallLost ==
    /\ Call /\ Mishap
    /\ \E landed \in {FALSE, CanLand} : pull' = IF landed THEN Lands ELSE pull
    /\ Save(Kept) /\ UNCHANGED <<repo, off, saw, denied>>
Refusal ==
    /\ Call /\ (Mishap \/ (~CanLand /\ NoMishap))
    /\ denied' = denied \cup {<<snap.head, What>>}
    /\ UNCHANGED <<repo, pull, off, saw>>
\* Mutant: only a refusal that parks the ticket is recorded.
RefusedForgets ==
    /\ Refusal
    /\ IF Ready THEN Park([Kept EXCEPT !.refused = {<<snap.head, What>>}]) ELSE Save(Kept)
Refused ==
    /\ Refusal
    /\ LET rec == [Kept EXCEPT !.refused = {<<snap.head, What>>}]
       IN  IF Ready THEN Park(rec) ELSE Save(rec)

-----------------------------------------------------------------------------
(* The owner's actions on the parked item, under the queue's lock.          *)

\* A pull request closed unmerged begins a new attempt, which is TicketSequence's.
Retry ==
    /\ op.at = "idle" /\ item.state = "needs-owner" /\ Person
    /\ Save(IF pull.state = "closed" THEN [item EXCEPT !.state = "left"] ELSE Fresh)
    /\ off' = {} /\ saw' = FALSE /\ denied' = {} /\ UNCHANGED <<repo, pull>>

\* Mutant: only what was recorded as armed is disarmed.
MayBeArmedRecorded == item.armed
\* An arm that was not recorded is possible, so GitHub is read for every parked item.
MayBeArmed == item.state = "needs-owner"
Finish(to, unchecked) ==
    Save([item EXCEPT !.state = to, !.unchecked = unchecked])
\* Mark done and Remove: read, disarm, then the item goes.
Leave ==
    /\ op.at = "idle" /\ item.state = "needs-owner" /\ Person
    /\ \E to \in {"done", "removed"} :
          IF MayBeArmed /\ pull.state = "open"
          THEN /\ op' = [at |-> "leave", snap |-> Snapshot("other"), to |-> to]
               /\ UNCHANGED item
          ELSE Finish(to, FALSE)
    /\ UNCHANGED <<repo, pull, off, saw, denied>>
LeaveDisarms ==
    /\ op.at = "leave" /\ snap.arm
    /\ pull' = [pull EXCEPT !.arm = "no"] /\ op' = [op EXCEPT !.snap.arm = FALSE]
    /\ UNCHANGED <<repo, item, used, off, saw, denied>>
Left ==
    /\ op.at = "leave" /\ ~snap.arm
    /\ Finish(op.to, FALSE) /\ UNCHANGED <<repo, pull, used, off, saw, denied>>
\* GitHub cannot be read or refuses: refused, or the owner goes on anyway.
LeaveFails ==
    /\ op.at = "leave" /\ Mishap
    /\ (op' = Idle /\ UNCHANGED item) \/ Finish(op.to, TRUE)
    /\ UNCHANGED <<repo, pull, off, saw, denied>>

-----------------------------------------------------------------------------
(* GitHub, people, and the server's process.                                *)

World == UNCHANGED <<repo, item, op, saw, denied>>
\* A push drops the pull request from a merge queue; auto-merge stays on.
Push ==
    /\ pull.state = "open" /\ pull.head < MaxHeads
    /\ pull' = [pull EXCEPT !.head = @ + 1, !.checks = "pending",
                            !.arm = IF repo = "queue" THEN "no" ELSE @]
    /\ UNCHANGED <<used, off>> /\ World
ChecksEnd ==
    /\ pull.state = "open" /\ pull.checks = "pending"
    /\ \E c \in {"passed", "failed"} : pull' = [pull EXCEPT !.checks = c]
    /\ UNCHANGED <<used, off>> /\ World
ChecksAgain ==
    /\ pull.state = "open" /\ pull.checks # "pending" /\ Mishap
    /\ pull' = [pull EXCEPT !.checks = "pending"]
    /\ UNCHANGED off /\ World
Review ==
    /\ pull.state = "open" /\ Person
    /\ \E r \in Reviews \ {pull.review} : pull' = [pull EXCEPT !.review = r]
    /\ UNCHANGED off /\ World
\* A person turns auto-merge off, or takes the pull request out of the merge queue.
PersonDisarms ==
    /\ pull.state = "open" /\ pull.arm # "no" /\ Person
    /\ pull' = [pull EXCEPT !.arm = "no"]
    /\ off' = IF item.armedHead = pull.head THEN off \cup {pull.head} ELSE off
    /\ World
\* A merge queue drops what its own build failed, or what it can no longer merge.
QueueDrops ==
    /\ pull.state = "open" /\ repo = "queue" /\ pull.arm # "no" /\ Mishap
    /\ \E c \in {pull.checks, "failed"} : pull' = [pull EXCEPT !.arm = "no", !.checks = c]
    /\ UNCHANGED off /\ World
PersonArms ==
    /\ pull.state = "open" /\ pull.arm = "no" /\ repo # "plain" /\ Person
    /\ pull' = [pull EXCEPT !.arm = "person"]
    /\ off' = off \ {pull.head} /\ World
PullEnds ==
    /\ pull.state = "open" /\ Person
    /\ \E s \in {"merged", "closed"} : pull' = [pull EXCEPT !.state = s, !.arm = "no"]
    /\ UNCHANGED off /\ World
ArmMerges ==
    /\ pull.state = "open" /\ pull.arm # "no" /\ pull.checks = "passed" /\ pull.review # "needed"
    /\ pull' = [pull EXCEPT !.state = "merged", !.arm = "no"]
    /\ UNCHANGED <<used, off>> /\ World
Crash ==
    /\ op.at # "idle" /\ Mishap
    /\ op' = Idle /\ saw' = FALSE
    /\ UNCHANGED <<repo, item, pull, off, denied>>

-----------------------------------------------------------------------------
Init ==
    /\ repo \in {"queue", "auto", "plain"}
    /\ item = Fresh /\ op = Idle
    /\ pull = [state |-> "open", head |-> 1, checks |-> "pending", review |-> "ok", arm |-> "no"]
    /\ used = [people |-> 0, mishaps |-> 0]
    /\ off = {} /\ saw = FALSE /\ denied = {}

Watch == \/ ReadMerged \/ ReadClosed \/ Unreadable \/ Read
         \/ Fix \/ FailedRounds \/ FixFails
MergeStep == \/ Disarm \/ Disarmed \/ DisarmFails \/ Record \/ StaysRed \/ MergeDisarmed
             \/ Waits \/ StillRefused \/ Arm \/ Armed \/ CallLost \/ Refused
Owner == Retry \/ Leave \/ LeaveDisarms \/ Left \/ LeaveFails
GitHub == \/ Push \/ ChecksEnd \/ ChecksAgain \/ Review
          \/ PersonDisarms \/ QueueDrops \/ PersonArms \/ PullEnds \/ ArmMerges
Next == Watch \/ MergeStep \/ Owner \/ GitHub \/ Crash

Spec == Init /\ [][Next]_vars

-----------------------------------------------------------------------------
TypeOK ==
    /\ item.state \in {"awaiting-merge", "needs-owner", "done", "removed", "left"}
    /\ item.armedHead \in 0..MaxHeads /\ item.lastSha \in 0..MaxHeads
    /\ item.lastReview \in 0..MaxHeads /\ item.failed \in 0..MaxRounds
    /\ op.at \in {"idle", "fix", "merge", "disarmed", "armed", "leave"}
    /\ pull.state \in {"open", "merged", "closed"} /\ pull.head \in Heads
    /\ pull.checks \in Checks /\ pull.review \in Reviews /\ pull.arm \in Arms
    /\ off \subseteq Heads /\ saw \in BOOLEAN /\ denied \subseteq Heads \X {"merge", "arm"}

\* The exception that the code makes: of a head in a merge queue whose checks failed once,
\* it cannot tell a person's dequeue from the queue's own drop (sequence-engine.js:531-536).
MayRequeue == repo = "queue" /\ item.lastSha = pull.head

\* What a step arms or merges is the head it decided on, and no head that a person disarmed
\* after AgentPier had recorded it as armed, until the owner retries the ticket or a review
\* that requested changes was answered.  In a repository with a merge queue this is so for
\* a head whose checks never failed: MayRequeue leaves the others out.
NotArmedAgain ==
    [][op' # op /\ (\/ (pull.arm # "us" /\ pull'.arm = "us")
                   \/ (pull.state = "open" /\ pull'.state = "merged"))
          => pull.head = snap.head /\ (pull.head \in off => MayRequeue)]_vars

\* What GitHub refused to do with a head is not tried on that head again, however the pull
\* request changed in between, until the owner retries the ticket.
RefusedOnce == Call => <<snap.head, What>> \notin denied

\* Once the owner marked the ticket done or removed it, nothing AgentPier armed merges
\* any more, also when the arm was never recorded.
DoneUnarmed ==
    item.state \in {"done", "removed"} /\ ~item.unchecked /\ pull.state = "open"
        => pull.arm # "us"

\* A step that read that a review requests changes leaves nothing armed on that head by
\* AgentPier, whatever fix it started, as long as the ticket waits for its merge.
ReviewStops ==
    saw /\ op.at = "idle" /\ item.state = "awaiting-merge" => pull.arm # "us"
=============================================================================
