--------------------------- MODULE TicketSequence ---------------------------
(***************************************************************************)
(* The ticket sequence of one project: how the head ticket is started,     *)
(* watched until its pull request ends, parked, and taken up again by the  *)
(* owner or after a crash (sequence-engine.js, sequence-start.js,          *)
(* sequence-service.js, sequence-reasons.js of features/tickets).          *)
(*                                                                         *)
(* `items' is what ticket-sequences.json holds.  `op' is the step that     *)
(* holds the queue's lock and the await it is at: steps and owner actions  *)
(* exclude each other, but sessions, runs and a launch that answers too    *)
(* late go on beside them.  What becomes of a message once its receipt is  *)
(* reserved is ChatDelivery, and the merge itself is TicketMerge.          *)
(***************************************************************************)
EXTENDS Integers, Sequences, FiniteSets

CONSTANTS
    Queue,       \* the tickets in their order
    Pipelines,   \* those that run as a pipeline; the others get a session
    NoTicket,
    MaxWorkers,  \* bound: sessions launched, and runs reserved
    MaxRetries,  \* bound: retries of the owner
    MaxCrashes,
    MaxMishaps   \* bound: calls that fail or answer too late

Items == {Queue[n] : n \in 1..Len(Queue)}

ASSUME SequenceAssumption ==
    /\ NoTicket \notin Items /\ Pipelines \subseteq Items
    /\ {MaxWorkers, MaxRetries, MaxCrashes, MaxMishaps} \subseteq Nat

VARIABLES
    items,
    op,
    session,    \* the coding sessions, by the number of their launch
    run,        \* the pipeline runs by their reserved id, as the run queue and engine have them
    answers,    \* the tracker, GitHub, the list of sessions and the run engine can be read
    used,       \* what is used up of the bounds
    overlooked  \* history: tickets started afresh while a worker Retry does not look for went on

vars == <<items, op, session, run, answers, used, overlooked>>

Workers == 1..MaxWorkers
States == {"waiting", "running", "awaiting-merge", "needs-owner", "done", "removed"}

-----------------------------------------------------------------------------
(* The store and the world beside it.                                       *)

Fresh == [state |-> "waiting", starting |-> FALSE, session |-> 0, run |-> 0,
          attempt |-> 1, tree |-> FALSE, watch |-> 0, pr |-> "none"]

\* A session belongs to the folder of one attempt.  "called": its launch is under way;
\* "late": so it is, but nobody waits for it any more, and once it is "lateup" it is to
\* be stopped; "stray": that stop never came or failed.  tasks: the ids under which its
\* delivery holds a receipt; sent: those whose text the CLI took; rejected: those that were.
NoSession == [of |-> NoTicket, attempt |-> 0, life |-> "none",
              tasks |-> {}, sent |-> {}, rejected |-> {}, resumed |-> 0]
NoRun == [of |-> NoTicket, life |-> "none"]
Idle == [at |-> "idle", i |-> NoTicket, s |-> 0]

Alive(s) == session[s].life \in {"up", "lateup", "stray"}
Working(r) == run[r].life \in {"queued", "active"}
\* Numbers and ids are given out in turn.
FreshSession == {s \in Workers : session[s].life = "none" /\ \A k \in 1..(s - 1) : session[k].life # "none"}
FreshRun == {r \in Workers : run[r].of = NoTicket /\ \A k \in 1..(r - 1) : run[k].of # NoTicket}

\* head: the first item that is not done; a parked one blocks the rest.
Open(i) == items[i].state \notin {"done", "removed"}
Head1(i) == \E n \in 1..Len(Queue) :
    Queue[n] = i /\ Open(i) /\ \A k \in 1..(n - 1) : ~Open(Queue[k])

At(place, i) == op.at = place /\ op.i = i
Go(place, i, s) == op' = [at |-> place, i |-> i, s |-> s]
End == op' = Idle
Mishap == used.mishaps < MaxMishaps /\ used' = [used EXCEPT !.mishaps = @ + 1] /\ UNCHANGED answers
NoMishap == UNCHANGED <<used, answers>>

Save(i, rec) == items' = [items EXCEPT ![i] = rec]
\* park: what the attempt has is kept, for the owner to look at.
Parked(i) == [items[i] EXCEPT !.state = "needs-owner", !.starting = FALSE]
Park(i) == Save(i, Parked(i)) /\ End

-----------------------------------------------------------------------------
(* startItem: the head ticket is saved as starting before anything runs.    *)

\* The step begins with reads only; what they refuse parks the item, and a read that is
\* not answered skips it: nothing changes.
Step(i) == op.at = "idle" /\ Head1(i)
StartRefused(i) ==
    /\ Step(i) /\ items[i].state = "waiting" /\ Mishap
    /\ Park(i) /\ UNCHANGED <<session, run, overlooked>>
Start(i) ==
    /\ Step(i) /\ items[i].state = "waiting" /\ answers
    /\ Save(i, [items[i] EXCEPT !.state = "running", !.starting = TRUE, !.watch = 0])
    /\ Go(IF i \in Pipelines THEN "reserve" ELSE "tree", i, 0)
    /\ NoMishap /\ UNCHANGED <<session, run, overlooked>>

\* launchSession: the folder of the attempt, then the launch into it.
Launch(i) ==
    /\ At("tree", i)
    /\ \E s \in FreshSession :
        /\ session' = [session EXCEPT ![s] = [NoSession EXCEPT
                          !.of = i, !.attempt = items[i].attempt, !.life = "called"]]
        /\ Go("launch", i, s)
    /\ Save(i, [items[i] EXCEPT !.tree = TRUE])
    /\ NoMishap /\ UNCHANGED <<run, overlooked>>
\* The worktree or the launch fails.  Beyond the bound every launch does.
StartFails(i) ==
    /\ \/ At("tree", i) /\ (Mishap \/ (FreshSession = {} /\ NoMishap)) /\ UNCHANGED session
       \/ /\ At("launch", i) /\ Mishap /\ session[op.s].life = "called"
          /\ session' = [session EXCEPT ![op.s].life = "stopped"]
    /\ Park(i) /\ UNCHANGED <<run, overlooked>>
Launched(i) ==
    /\ At("launch", i) /\ session[op.s].life \in {"up", "stopped"}
    /\ Save(i, [items[i] EXCEPT !.session = op.s])
    /\ Go("deliver", i, op.s)
    /\ NoMishap /\ UNCHANGED <<session, run, overlooked>>
\* bounded: the step goes on after two minutes; a session that comes later is stopped.
LaunchTimesOut(i) ==
    /\ At("launch", i) /\ Mishap
    /\ session' = [session EXCEPT ![op.s].life =
            CASE @ = "called" -> "late" [] @ = "up" -> "lateup" [] OTHER -> @]
    /\ Park(i) /\ UNCHANGED <<run, overlooked>>

\* Mutant: every copy of the task gets an id of its own.
TaskNew(i) == <<items[i].watch, used.crashes>>
\* stableUuid: derived from the item and the Retry that resumed it.
Task(i) == <<items[i].watch, 0>>

\* deliverTask: chatDelivery.send reserves a receipt under the id and begins to deliver;
\* for an id that has one it only reports what became of it.
Deliver(i) ==
    /\ At("deliver", i)
    /\ session' = [session EXCEPT ![op.s].tasks = @ \cup {Task(i)}]
    /\ Go("confirm", i, op.s)
    /\ NoMishap /\ UNCHANGED <<items, run, overlooked>>
\* Any report but a rejection goes on, also of a text that is held ("pending") or whose
\* fate is unknown ("uncertain"); so does an id that carries an earlier text (409).
Confirmed(i) ==
    /\ \/ At("confirm", i) /\ Task(i) \notin session[op.s].rejected
       \/ At("deliver", i) /\ Task(i) \in session[op.s].tasks
    /\ Go("record", i, op.s)
    /\ NoMishap /\ UNCHANGED <<items, session, run, overlooked>>
\* Rejected, or not answered in time, in which case it may be reserved all the same: the
\* session is stopped, and whether that worked or not the item is parked.
NotDelivered(i) ==
    /\ \/ (At("deliver", i) \/ At("confirm", i)) /\ Mishap
       \/ At("deliver", i) /\ ~Alive(op.s) /\ NoMishap
       \/ At("confirm", i) /\ Task(i) \in session[op.s].rejected /\ NoMishap
    /\ \E stopped \in BOOLEAN, reserved \in BOOLEAN :
          /\ ~Alive(op.s) => stopped /\ ~reserved
          /\ session' = [session EXCEPT
                            ![op.s].life = IF stopped THEN "stopped" ELSE @,
                            ![op.s].tasks = IF reserved THEN @ \cup {Task(i)} ELSE @]
    /\ Park(i) /\ UNCHANGED <<run, overlooked>>
\* recordStart, and the start is over.
Recorded(i) ==
    /\ At("record", i)
    /\ Save(i, [items[i] EXCEPT !.starting = FALSE]) /\ End
    /\ NoMishap /\ UNCHANGED <<session, run, overlooked>>
RecordFails(i) ==
    /\ At("record", i) /\ Mishap
    /\ Park(i) /\ UNCHANGED <<session, run, overlooked>>

\* queueRun: the id is saved before the run queue gets the run under it.
Reserve(i) ==
    /\ At("reserve", i)
    /\ IF FreshRun = {} THEN Park(i) /\ UNCHANGED run
       ELSE \E r \in FreshRun :
               /\ run' = [run EXCEPT ![r].of = i]
               /\ Save(i, [items[i] EXCEPT !.run = r])
               /\ Go("enqueue", i, 0)
    /\ NoMishap /\ UNCHANGED <<session, overlooked>>
Enqueue(i) ==
    /\ At("enqueue", i)
    /\ run' = [run EXCEPT ![items[i].run].life = "queued"]
    /\ Go("record", i, 0)
    /\ NoMishap /\ UNCHANGED <<items, session, overlooked>>
\* The run queue is full, or the pipeline is gone.
EnqueueFails(i) ==
    /\ At("enqueue", i) /\ Mishap
    /\ Park(i) /\ UNCHANGED <<session, run, overlooked>>

-----------------------------------------------------------------------------
(* resumeStart: a start that a crash interrupted, or a Retry took up again. *)

Interrupted(i) == Step(i) /\ items[i].state = "running" /\ items[i].starting

\* Without access to GitHub or the tracker nothing is looked for.
ResumeRefused(i) ==
    /\ Interrupted(i) /\ Mishap
    /\ Park(i) /\ UNCHANGED <<session, run, overlooked>>

\* findSession: by its id, else the newest of the ticket in the folder.
InFolder(i) == {s \in Workers : /\ Alive(s) /\ session[s].of = i
                                /\ items[i].tree /\ session[s].attempt = items[i].attempt}
Adoptable(i) ==
    IF items[i].session # 0 THEN {s \in {items[i].session} : Alive(s)}
    ELSE {s \in InFolder(i) : \A k \in InFolder(i) : k <= s}

\* Mutant: an interrupted start whose session is gone is left as it is.
ResumeWaits(i) ==
    /\ Interrupted(i) /\ i \notin Pipelines /\ answers
    /\ \E s \in Adoptable(i) :
          /\ Save(i, [items[i] EXCEPT !.session = s]) /\ Go("deliver", i, s)
          /\ session' = [session EXCEPT ![s].life = "up"]
    /\ NoMishap /\ UNCHANGED <<run, overlooked>>
\* An adopted session gets the task again, under the same id; without one the owner
\* decides: nothing is launched.
Resume(i) ==
    /\ Interrupted(i) /\ i \notin Pipelines /\ answers
    /\ IF Adoptable(i) = {} THEN Park(i) /\ UNCHANGED session
       ELSE \E s \in Adoptable(i) :
               /\ Save(i, [items[i] EXCEPT !.session = s]) /\ Go("deliver", i, s)
               /\ session' = [session EXCEPT ![s].life = "up"]
    /\ NoMishap /\ UNCHANGED <<run, overlooked>>
\* The sessions are listed and the ticket is not read: the session found is saved and the
\* step skipped, on every pass, without a limit.
ResumeSkips(i) ==
    /\ Interrupted(i) /\ i \notin Pipelines /\ ~answers
    /\ IF Adoptable(i) = {} THEN Park(i) /\ UNCHANGED session
       ELSE \E s \in Adoptable(i) :
               /\ Save(i, [items[i] EXCEPT !.session = s]) /\ End
               /\ session' = [session EXCEPT ![s].life = "up"]
    /\ NoMishap /\ UNCHANGED <<run, overlooked>>
\* resumeRun: queued once more only when neither queue nor engine knows the id; whatever
\* is not answered before skips the step.
ResumeRun(i) ==
    /\ Interrupted(i) /\ i \in Pipelines
    /\ IF items[i].run = 0 THEN Park(i)
       ELSE /\ answers /\ UNCHANGED items
            /\ Go(IF run[items[i].run].life = "none" THEN "enqueue" ELSE "record", i, 0)
    /\ NoMishap /\ UNCHANGED <<session, run, overlooked>>

-----------------------------------------------------------------------------
(* watchRun and watchPr, as far as the sequence depends on them.            *)

Watched(i) == Step(i) /\ items[i].state = "running" /\ ~items[i].starting
FoundPr(i) ==
    /\ Watched(i)
    /\ i \in Pipelines => run[items[i].run].life \in {"active", "ended"}
    /\ Save(i, [items[i] EXCEPT !.state = "awaiting-merge", !.pr = "open"])
    /\ UNCHANGED <<op, session, run, answers, used, overlooked>>
\* The worker ended, is quiet or late; or GitHub fails for half an hour, which parks an
\* item also while its run waits in the run queue.
ParkWatched(i) ==
    /\ Watched(i)
    /\ Save(i, Parked(i)) /\ UNCHANGED <<op, session, run, answers, used, overlooked>>
Merged(i) ==
    /\ Step(i) /\ items[i].state = "awaiting-merge"
    /\ Save(i, [items[i] EXCEPT !.state = "done"])
    /\ UNCHANGED <<op, session, run, answers, used, overlooked>>
ParkMerge(i) ==
    /\ Step(i) /\ items[i].state = "awaiting-merge"
    /\ \E pr \in {"open", "closed"} : Save(i, [Parked(i) EXCEPT !.pr = pr])
    /\ UNCHANGED <<op, session, run, answers, used, overlooked>>

-----------------------------------------------------------------------------
(* The owner, under the queue's lock.  What an action reads can only change *)
(* meanwhile as it could right after the action, so each is one step.       *)

\* liveSession: only a session whose id was saved is looked for.
LiveSession(i) == items[i].session # 0 /\ Alive(items[i].session)
Reset(i) == [items[i] EXCEPT !.starting = FALSE, !.watch = 0]
Retrying(i) ==
    /\ op.at = "idle" /\ items[i].state = "needs-owner" /\ used.retries < MaxRetries
    /\ items[i].run # 0 => run[items[i].run].life # "active"

\* A session that still runs without a pull request is watched again.
RetryLive(i) ==
    /\ Retrying(i) /\ items[i].pr = "none" /\ LiveSession(i)
    /\ used' = [used EXCEPT !.retries = @ + 1]
    /\ Save(i, [items[i] EXCEPT !.state = "running", !.starting = TRUE, !.watch = used'.retries])
    /\ session' = [session EXCEPT ![items[i].session].resumed = @ + 1]
    /\ UNCHANGED <<op, run, answers, overlooked>>
\* So is a pull request that is open, merged or cannot be read.
RetryPr(i) ==
    /\ Retrying(i) /\ items[i].pr = "open"
    /\ used' = [used EXCEPT !.retries = @ + 1]
    /\ Save(i, [Reset(i) EXCEPT !.state = "awaiting-merge"])
    /\ UNCHANGED <<op, session, run, answers, overlooked>>

\* A new attempt: after a closed pull request in a new folder, else in the old one when
\* it is clean (a folder that is not refuses the retry) or again when it is gone.
Attempt(i) == IF items[i].pr = "closed" THEN items[i].attempt + 1 ELSE items[i].attempt
\* Workers Retry does not look for: a session up in the folder whose id was never saved,
\* and a run that waits in the run queue or is not the one saved.
Left(i) ==
    \/ \E s \in Workers : /\ session[s].of = i /\ session[s].life = "up"
                          /\ session[s].attempt = Attempt(i) /\ s # items[i].session
    \/ \E r \in Workers : /\ run[r].of = i
                          /\ run[r].life = "queued" \/ (run[r].life = "active" /\ r # items[i].run)
\* Mutant: a live session does not keep the ticket from starting afresh.
RetryFreshAlways(i) ==
    /\ Retrying(i) /\ items[i].pr # "open"
    /\ used' = [used EXCEPT !.retries = @ + 1]
    /\ \E kept \in {FALSE, items[i].tree /\ items[i].pr = "none"} :
          Save(i, [Fresh EXCEPT !.attempt = Attempt(i), !.tree = kept])
    /\ overlooked' = IF Left(i) THEN overlooked \cup {i} ELSE overlooked
    /\ UNCHANGED <<op, session, run, answers>>
RetryFresh(i) ==
    /\ Retrying(i) /\ items[i].pr # "open"
    /\ ~(items[i].pr = "none" /\ LiveSession(i))
    /\ used' = [used EXCEPT !.retries = @ + 1]
    /\ \E kept \in {FALSE, items[i].tree /\ items[i].pr = "none"} :
          Save(i, [Fresh EXCEPT !.attempt = Attempt(i), !.tree = kept])
    /\ overlooked' = IF Left(i) THEN overlooked \cup {i} ELSE overlooked
    /\ UNCHANGED <<op, session, run, answers>>

MarkDone(i) ==
    /\ op.at = "idle" /\ items[i].state \in {"needs-owner", "waiting"}
    /\ Save(i, [items[i] EXCEPT !.state = "done", !.starting = FALSE])
    /\ UNCHANGED <<op, session, run, answers, used, overlooked>>
\* A running item goes too: its session or run stays, and nobody watches it.
Remove(i) ==
    /\ op.at = "idle" /\ items[i].state \notin {"awaiting-merge", "removed"}
    /\ Save(i, [items[i] EXCEPT !.state = "removed"])
    /\ UNCHANGED <<op, session, run, answers, used, overlooked>>

-----------------------------------------------------------------------------
(* Sessions, their deliveries, runs, the outside and the server's process.  *)

Life(s, life) == session' = [session EXCEPT ![s].life = life]
SessionUp(s) ==
    /\ \/ session[s].life = "called" /\ Life(s, "up")
       \/ session[s].life = "late" /\ Life(s, "lateup")
    /\ UNCHANGED <<items, op, run, answers, used, overlooked>>
SessionEnds(s) ==
    /\ session[s].life \in {"up", "stray"} /\ Life(s, "stopped")
    /\ UNCHANGED <<items, op, run, answers, used, overlooked>>
\* What becomes of a receipt: the CLI takes its text, a held one late and an uncertain one
\* after a recovery of the owner; it is rejected, also by a hook of the CLI; or neither.
Delivery(s) ==
    /\ \E d \in session[s].tasks \ (session[s].sent \cup session[s].rejected) :
          \/ Alive(s) /\ session' = [session EXCEPT ![s].sent = @ \cup {d}]
          \/ session' = [session EXCEPT ![s].rejected = @ \cup {d}]
    /\ UNCHANGED <<items, op, run, answers, used, overlooked>>
\* onLate: its stop may fail, and nobody looks.
LateStopped(s) ==
    /\ session[s].life = "lateup"
    /\ \/ Life(s, "stopped") /\ NoMishap
       \/ Life(s, "stray") /\ Mishap
    /\ UNCHANGED <<items, op, run, overlooked>>
RunGoesOn(r) ==
    /\ \/ run[r].life = "queued" /\ \E next \in {"active", "none"} : run' = [run EXCEPT ![r].life = next]
       \/ run[r].life = "active" /\ run' = [run EXCEPT ![r].life = "ended"]
    /\ UNCHANGED <<items, op, session, answers, used, overlooked>>
\* A key is revoked, a host unreachable; whether that ends is up to others.
Unanswered ==
    /\ answers /\ used.mishaps < MaxMishaps
    /\ used' = [used EXCEPT !.mishaps = @ + 1] /\ answers' = FALSE
    /\ UNCHANGED <<items, op, session, run, overlooked>>
Answered == ~answers /\ answers' = TRUE /\ UNCHANGED <<items, op, session, run, used, overlooked>>
\* A launch under way ends with the process, or had brought its session up before.
Crash ==
    /\ used.crashes < MaxCrashes /\ used' = [used EXCEPT !.crashes = @ + 1]
    /\ End
    /\ session' = [s \in Workers |-> [session[s] EXCEPT !.life =
            CASE @ \in {"called", "late"} -> "stopped" [] @ = "lateup" -> "stray" [] OTHER -> @]]
    /\ UNCHANGED <<items, run, answers, overlooked>>

-----------------------------------------------------------------------------
Init ==
    /\ items = [i \in Items |-> Fresh]
    /\ op = Idle
    /\ session = [s \in Workers |-> NoSession]
    /\ run = [r \in Workers |-> NoRun]
    /\ answers = TRUE
    /\ used = [retries |-> 0, crashes |-> 0, mishaps |-> 0]
    /\ overlooked = {}

Starting(i) ==
    \/ StartRefused(i) \/ Start(i) \/ Launch(i) \/ StartFails(i) \/ Launched(i)
    \/ LaunchTimesOut(i) \/ Deliver(i) \/ Confirmed(i) \/ NotDelivered(i) \/ Recorded(i)
    \/ RecordFails(i) \/ Reserve(i) \/ Enqueue(i) \/ EnqueueFails(i)
    \/ ResumeRefused(i) \/ Resume(i) \/ ResumeSkips(i) \/ ResumeRun(i)
Watching(i) == FoundPr(i) \/ ParkWatched(i) \/ Merged(i) \/ ParkMerge(i)
Owner(i) == RetryLive(i) \/ RetryPr(i) \/ RetryFresh(i) \/ MarkDone(i) \/ Remove(i)
World ==
    \/ \E s \in Workers : SessionUp(s) \/ SessionEnds(s) \/ LateStopped(s) \/ Delivery(s)
    \/ \E r \in Workers : RunGoesOn(r)
    \/ Unanswered \/ Answered \/ Crash
Next == (\E i \in Items : Starting(i) \/ Watching(i) \/ Owner(i)) \/ World

Spec == Init /\ [][Next]_vars

\* A step that began goes on, the timer begins the next one, and a launch comes up,
\* fails or is given up.  Of the outside nothing is assumed: what is read may never be
\* answered again.
GoesOn(i) == \/ Launch(i) \/ StartFails(i) \/ Launched(i) \/ LaunchTimesOut(i)
             \/ Deliver(i) \/ Confirmed(i) \/ NotDelivered(i) \/ Recorded(i)
             \/ Reserve(i) \/ Enqueue(i) \/ Resume(i) \/ ResumeRun(i)
FairSpec ==
    /\ Spec
    /\ \A i \in Items : WF_vars(GoesOn(i))
    /\ \A s \in Workers : WF_vars(SessionUp(s))

-----------------------------------------------------------------------------
Ticket == [state : States, starting : BOOLEAN, session : 0..MaxWorkers, run : 0..MaxWorkers,
           attempt : Nat, tree : BOOLEAN, watch : 0..MaxRetries, pr : {"none", "open", "closed"}]
Ids == (0..MaxRetries) \X (0..MaxCrashes)
Coding == [of : Items \cup {NoTicket}, attempt : Nat,
           life : {"none", "called", "late", "up", "lateup", "stray", "stopped"},
           tasks : SUBSET Ids, sent : SUBSET Ids, rejected : SUBSET Ids, resumed : Nat]
Reserved == [of : Items \cup {NoTicket}, life : {"none", "queued", "active", "ended"}]
TypeOK ==
    /\ items \in [Items -> Ticket]
    /\ op \in [at : {"idle", "tree", "launch", "deliver", "confirm", "record", "reserve", "enqueue"},
               i : Items \cup {NoTicket}, s : 0..MaxWorkers]
    /\ session \in [Workers -> Coding] /\ run \in [Workers -> Reserved] /\ answers \in BOOLEAN
    /\ used \in [retries : 0..MaxRetries, crashes : 0..MaxCrashes, mishaps : 0..MaxMishaps]
    /\ overlooked \subseteq Items

\* A session at work: it is up, or it is late and was handed a task all the same.
AtWork(s) == Alive(s) /\ (session[s].life = "up" \/ session[s].tasks # {})

\* A ticket never has two sessions at work in one folder or two runs, over any order of
\* timeouts, crashes, adoptions and retries: a session that came up too late never gets
\* the task beside another one.  Set aside is a ticket that the owner starts afresh
\* while a worker of it goes on that Retry does not look for (Left).
OneWorker ==
    \A i \in Items \ overlooked :
        /\ \A s, t \in {k \in Workers : session[k].of = i /\ AtWork(k)} :
              session[s].attempt = session[t].attempt => s = t
        /\ \A r, q \in {k \in Workers : run[k].of = i /\ Working(k)} : r = q

\* The task never arrives twice: besides the first copy a session gets only one for each
\* Retry that resumed it, however often the start is taken up again and whenever a held
\* copy comes.  And a session is watched only when it was handed the task of this
\* attempt, or of this Retry: its delivery holds a receipt, which may be of a text that
\* is still held, uncertain or rejected later.
TaskOnce ==
    /\ \A s \in Workers : Cardinality(session[s].sent) <= 1 + session[s].resumed
    /\ \A i \in Items \ Pipelines :
          items[i].state = "running" /\ ~items[i].starting =>
              /\ items[i].session # 0
              /\ \E d \in session[items[i].session].tasks : d[1] = items[i].watch

\* A start never stays half done while what it must read can be read: the ticket is
\* watched, parked or out of the queue.
StartSettles ==
    \A i \in Items :
        items[i].state = "running" /\ items[i].starting
            ~> items[i].state # "running" \/ ~items[i].starting \/ ~answers
=============================================================================
