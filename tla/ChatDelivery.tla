---------------------------- MODULE ChatDelivery ----------------------------
(***************************************************************************)
(* The delivery of chat messages into the terminal of one CLI session:     *)
(* chat-delivery.js, chat-delivery-queue.js, chat-delivery-recovery.js and *)
(* chat-delivery-blocked.js of server/features/chat, with the writer they  *)
(* use (sessions/session-chat-input.js, chat-image-input.js and the prompt *)
(* adapters of the CLIs).                                                  *)
(*                                                                         *)
(* A message is pasted into the prompt box and followed by Enter; a        *)
(* receipt file is written before and after each of these steps. One       *)
(* action is the code between two awaits. The receipts, the terminal and   *)
(* the CLI survive a crash of the server; its memory does not.             *)
(***************************************************************************)
EXTENDS Integers, Sequences, FiniteSets

CONSTANTS
    Messages,      \* delivery ids
    Images,        \* the messages with images, pasted before their text
    Drafts,        \* drafts the owner types into the terminal
    MaxRecoveries, \* recoveries of one message (the code stops at 128)
    MaxCrashes,    \* bound on crashes of the server
    MaxRelaunches  \* bound on new CLI processes

ASSUME ChatDeliveryAssumption ==
    /\ Messages # {} /\ Images \subseteq Messages
    /\ MaxRecoveries \in Nat /\ MaxCrashes \in Nat /\ MaxRelaunches \in Nat

VARIABLES
    receipt,    \* the receipt files
    active,     \* ChatDelivery.active: messages a queue or a transaction holds
    queue, job, \* DeliveryQueue.queues and its jobs
    worker,     \* the queue's worker: at rest, or waiting for the session lock
    tx,         \* the transaction under the session lock (withChatInput)
    expecting,  \* the expectations of DeliveryAcceptance
    early,      \* ChatDelivery.earlyAcceptance
    blocking,   \* block() under way: the attempt it is about
    box,        \* what the CLI's prompt box holds
    dialog,     \* the CLI shows a question or a menu
    request,    \* an AgentPier request of the session is pending
    prompts,    \* submitted prompts the CLI has not taken or dropped yet
    generation, \* identity of the CLI process
    pasted,     \* history: how often each piece was pasted
    entered,    \* history: how often Enter was sent for a message
    dropped,    \* history: messages a hook of the CLI dropped
    reported,   \* history: messages reported as accepted to this process
    ahead,      \* history: the deliveries under way when a message was sent
    crashes     \* operations used up of the bound

terminal == <<box, dialog, request, prompts, generation>>
session  == <<expecting, early, blocking>>
history  == <<pasted, entered, dropped, reported, crashes>>
line == <<queue, ahead>>
vars == <<receipt, active, line, job, worker, tx, session, terminal, history>>

\* What reaches the prompt box: the images and the text of a message.
Pieces == (Images \X {"images"}) \cup (Messages \X {"text"})
\* What the owner types is told apart from what was pasted, also when it reads the same.
ASSUME DraftAssumption == Drafts \cap Pieces = {}
ImagesOf(m) == {<<m, "images">>}
Full(m) == {<<m, "text">>} \cup (IF m \in Images THEN ImagesOf(m) ELSE {})

Statuses == {"absent", "pending", "handed-off", "rejected", "uncertain", "accepted"}
Intents == {"paste-intent", "text-intent", "submit-intent"}
Phases  == {"reserved", "images-pasted", "pasted", "submitted"} \cup Intents
Reasons == {"none", "queue", "request", "dialog"}
Modes   == {"send", "text", "submit"}

\* The last proven phase when an intent's guard refused.
ProvenPhase(intent) == CASE intent = "paste-intent"  -> "reserved"
                         [] intent = "text-intent"   -> "images-pasted"
                         [] intent = "submit-intent" -> "pasted"

\* The phases a message may be held in, and what it still needs then.
Holdable == {"reserved", "images-pasted", "pasted"}
HeldMode(phase) == CASE phase = "reserved"      -> "send"
                     [] phase = "images-pasted" -> "text"
                     [] phase = "pasted"        -> "submit"
\* The writer's next intent and the phase its bytes lead to.
FirstIntent(mode) == CASE mode = "send"   -> "paste-intent"
                       [] mode = "text"   -> "text-intent"
                       [] mode = "submit" -> "submit-intent"
DonePhase(m, intent) == CASE intent = "submit-intent" -> "submitted"
                          [] intent = "paste-intent" /\ m \in Images -> "images-pasted"
                          [] OTHER -> "pasted"
PieceOf(m, intent) == IF intent = "paste-intent" /\ m \in Images
                      THEN <<m, "images">> ELSE <<m, "text">>
EnterMaySent == {"submit-intent", "submitted"}
Confirmable  == {"handed-off", "uncertain"}

NewJob == [mode |-> "send", started |-> FALSE, deadline |-> "none",
           cancelled |-> FALSE, proof |-> {}]
NoTx == [by |-> "none", m |-> CHOOSE m \in Messages : TRUE, mode |-> "send",
         step |-> "prepare", intent |-> "paste-intent", generation |-> 0,
         appended |-> FALSE, proof |-> {}]
Free == tx.by = "none"
\* The worker is attempting the head of the queue.
Running(m) == queue # <<>> /\ m = Head(queue) /\ (worker = "lock" \/ tx.by = "attempt")

-----------------------------------------------------------------------------
(* The ends of an attempt or a recovery.                                    *)

Without(q, m) ==
    LET i == CHOOSE k \in 1..Len(q) : q[k] = m
    IN  [k \in 1..(Len(q) - 1) |-> q[IF k < i THEN k ELSE k + 1]]
Queued(m) == \E k \in 1..Len(queue) : queue[k] = m

\* confirm: only a handed-off or uncertain receipt becomes accepted.
Confirmed(status) == IF status \in Confirmable THEN "accepted" ELSE status

\* DeliveryQueue.finish, and the release of a recovery.
Release(m) ==
    /\ active' = active \ {m}
    /\ queue' = IF Queued(m) THEN Without(queue, m) ELSE queue
    /\ ahead' = [n \in Messages |-> ahead[n] \ {m}]
    /\ job' = [job EXCEPT ![m] = NewJob]

EndTx(by) ==
    /\ tx' = NoTx
    /\ worker' = IF by = "attempt" THEN "rest" ELSE worker

\* A receipt with a new status, phase and reason to wait.
Marked(m, status, phase, waiting) ==
    [receipt EXCEPT ![m].status = status, ![m].phase = phase, ![m].waiting = waiting]

\* Mutant: the early acceptance is forgotten.
SettleAlone(m, by, status, phase) ==
    /\ receipt' = Marked(m, status, phase, "none")
    /\ early' = [early EXCEPT ![m] = "none"]
    /\ expecting' = IF phase \in EnterMaySent THEN expecting ELSE expecting \ {m}
    /\ UNCHANGED blocking
    /\ Release(m) /\ EndTx(by)

\* The final status of a delivery: an acceptance that arrived while it ran counts, a
\* drop goes to block(); a message whose Enter was never sent expects no event.
Settle(m, by, status, phase) ==
    LET outcome == IF phase \in EnterMaySent THEN early[m] ELSE "none"
    IN  /\ receipt' = Marked(m, IF outcome = "accepted" THEN Confirmed(status)
                                                        ELSE status, phase, "none")
        /\ blocking' = IF outcome = "dropped"
                       THEN blocking \cup {<<m, receipt[m].attempt>>} ELSE blocking
        /\ early' = [early EXCEPT ![m] = "none"]
        /\ expecting' = IF phase \in EnterMaySent THEN expecting ELSE expecting \ {m}
        /\ Release(m) /\ EndTx(by)

\* Mutant: a held message goes behind the others.
HoldLast(m, by, why, phase) ==
    /\ receipt' = Marked(m, receipt[m].status, phase, why)
    /\ job' = [job EXCEPT ![m] = [@ EXCEPT !.mode = HeldMode(phase),
                                           !.started = TRUE, !.cancelled = FALSE,
                                           !.proof = tx.proof]]
    /\ queue' = Append(IF Queued(m) THEN Without(queue, m) ELSE queue, m)
    /\ early' = [early EXCEPT ![m] = "none"]
    /\ expecting' = expecting \ {m}
    /\ EndTx(by)
    /\ UNCHANGED <<active, ahead, blocking>>

\* The message is held: it stays, or (recovery) becomes, a job of the queue. A cancel
\* that waited for the attempt is refused now, as something is in the prompt.
Hold(m, by, why, phase) ==
    /\ receipt' = Marked(m, IF by = "recover" /\ phase = "reserved" THEN "pending"
                            ELSE receipt[m].status, phase, why)
    /\ job' = [job EXCEPT ![m] = [@ EXCEPT !.mode = HeldMode(phase),
                                           !.started = TRUE, !.cancelled = FALSE,
                                           !.proof = tx.proof]]
    /\ queue' = IF by = "recover" THEN Append(queue, m) ELSE queue
    /\ early' = [early EXCEPT ![m] = "none"]
    /\ expecting' = expecting \ {m}
    /\ EndTx(by)
    /\ UNCHANGED <<active, ahead, blocking>>

\* The catch of attempt() and of the recovery: hold, or end with what the journal proves.
Fail(m, by, why, phase) ==
    LET held == /\ why # "none" /\ phase \in Holdable
                /\ ~(job[m].cancelled /\ phase = "reserved")
    IN  \/ held /\ Hold(m, by, why, phase)
        \/ /\ ~held
           /\ Settle(m, by, IF phase = "reserved" THEN "rejected" ELSE "uncertain", phase)

-----------------------------------------------------------------------------
(* The owner's operations.                                                  *)

\* send: durable reservation, ownership and place in the queue without an await.
Send(m) ==
    /\ receipt[m].status = "absent"
    /\ receipt' = [receipt EXCEPT ![m].status = "pending",
                       ![m].waiting = IF queue = <<>> THEN "none" ELSE "queue"]
    /\ active' = active \cup {m}
    /\ queue' = Append(queue, m) /\ ahead' = [ahead EXCEPT ![m] = active]
    /\ UNCHANGED <<job, worker, tx, session, terminal, history>>

\* Mutant: the journal is not looked at.
CancelAny(m) ==
    /\ Queued(m)
    /\ IF Running(m)
       THEN /\ job' = [job EXCEPT ![m].cancelled = TRUE]
            /\ UNCHANGED <<receipt, active, line>>
       ELSE /\ receipt' = Marked(m, "rejected", receipt[m].phase, "none")
            /\ Release(m)
    /\ UNCHANGED <<worker, tx, session, terminal, history>>

\* cancel: refused once anything of the message is in the prompt; while the message
\* is being attempted the cancel waits for the outcome.
Cancel(m) ==
    /\ Queued(m) /\ job[m].mode = "send" /\ receipt[m].phase = "reserved"
    /\ IF Running(m)
       THEN /\ job' = [job EXCEPT ![m].cancelled = TRUE]
            /\ UNCHANGED <<receipt, active, line>>
       ELSE /\ receipt' = Marked(m, "rejected", receipt[m].phase, "none")
            /\ Release(m)
    /\ UNCHANGED <<worker, tx, session, terminal, history>>

\* Mutant: the box is not compared for text that may have been pasted.
PlanBlind(m, mode) ==
    \/ receipt[m].phase \in {"reserved", "paste-intent"} /\ mode = "send"
    \/ receipt[m].phase \in {"pasted", "text-intent", "submit-intent"} /\ mode = "submit"
    \/ receipt[m].phase = "images-pasted" /\ mode = "text"

\* recoveryPlan: how a retry may go on, proven by the journal, the launch and the box.
Plan(m, mode) ==
    \/ receipt[m].phase = "reserved" /\ mode = "send"
    \/ /\ receipt[m].generation = generation /\ ~dialog
       /\ \/ /\ receipt[m].phase \in {"pasted", "text-intent"}
             /\ box = Full(m) /\ mode = "submit"
          \/ /\ receipt[m].phase = "images-pasted"
             /\ box = ImagesOf(m) /\ mode = "text"

\* A recovered message is held behind other messages or a request, ...
HoldRecovered(m, mode) ==
    /\ queue # <<>> \/ request
    /\ receipt' = [receipt EXCEPT ![m].attempt = @ + 1,
                       ![m].waiting = IF queue # <<>> THEN "queue" ELSE "request"]
    /\ job' = [job EXCEPT ![m] = [NewJob EXCEPT !.mode = mode, !.started = TRUE]]
    /\ queue' = Append(queue, m)
    /\ UNCHANGED tx

\* ... or written in the transaction that planned it.
WriteRecovered(m, mode) ==
    /\ queue = <<>> /\ ~request
    /\ receipt' = [receipt EXCEPT ![m].attempt = @ + 1, ![m].status = "uncertain"]
    /\ tx' = [NoTx EXCEPT !.by = "recover", !.m = m, !.mode = mode,
                  !.step = IF mode = "send" THEN "prepare" ELSE "intent",
                  !.intent = FirstIntent(mode), !.generation = generation]
    /\ UNCHANGED <<job, queue>>

\* recoverDelivery with mode "retry" and the current attempt id. Everything else only
\* answers "blocked".
Recover(m) ==
    /\ Free /\ receipt[m].status # "absent" /\ m \notin active
    /\ receipt[m].attempt < MaxRecoveries
    /\ \E mode \in Modes :
          Plan(m, mode) /\ (HoldRecovered(m, mode) \/ WriteRecovered(m, mode))
    /\ active' = active \cup {m} /\ ahead' = [ahead EXCEPT ![m] = active]
    /\ UNCHANGED <<worker, session, terminal, history>>

-----------------------------------------------------------------------------
(* The worker of the queue.                                                 *)

\* Mutant: the deadline is not set by the first attempt.
BeginTimeless ==
    /\ worker = "rest" /\ tx.by # "attempt" /\ queue # <<>>
    /\ LET m == Head(queue)
       IN  /\ job[m].started => ~(receipt[m].waiting = "request" /\ request)
           /\ \/ /\ job[m].mode = "send" /\ request
                 /\ receipt' = [receipt EXCEPT ![m].waiting = "request"]
                 /\ job' = [job EXCEPT ![m].started = TRUE]
                 /\ UNCHANGED worker
              \/ /\ ~(job[m].mode = "send" /\ request)
                 /\ job' = [job EXCEPT ![m].started = TRUE]
                 /\ worker' = "lock"
                 /\ UNCHANGED receipt
    /\ UNCHANGED <<active, line, tx, session, terminal, history>>

\* The head is attempted: at once, or after the pause of a held one, unless its
\* deadline passed or the request it waits for is still pending.
Begin ==
    /\ worker = "rest" /\ tx.by # "attempt" /\ queue # <<>>
    /\ LET m == Head(queue)
           deadline == IF job[m].deadline = "none" THEN "set" ELSE job[m].deadline
       IN  /\ job[m].started => /\ job[m].deadline # "passed"
                                /\ ~(receipt[m].waiting = "request" /\ request)
           /\ job' = [job EXCEPT ![m].started = TRUE, ![m].deadline = deadline]
           /\ \/ /\ job[m].mode = "send" /\ request
                 /\ receipt' = [receipt EXCEPT ![m].waiting = "request"]
                 /\ UNCHANGED worker
              \/ /\ ~(job[m].mode = "send" /\ request)
                 /\ worker' = "lock"
                 /\ UNCHANGED receipt
    /\ UNCHANGED <<active, line, tx, session, terminal, history>>

\* Twelve hours after its first attempt ...
PassDeadline(m) ==
    /\ Queued(m) /\ job[m].deadline = "set"
    /\ job' = [job EXCEPT ![m].deadline = "passed"]
    /\ UNCHANGED <<receipt, active, line, worker, tx, session, terminal, history>>

\* ... a held message ends: nothing typed is rejected, pasted text stays uncertain.
Expire ==
    /\ worker = "rest" /\ tx.by # "attempt" /\ queue # <<>>
    /\ LET m == Head(queue)
       IN  /\ job[m].started /\ job[m].deadline = "passed"
           /\ receipt' = Marked(m, IF job[m].mode = "send" THEN "rejected" ELSE "uncertain",
                                receipt[m].phase, "none")
           /\ early' = [early EXCEPT ![m] = "none"]
           /\ Release(m)
    /\ UNCHANGED <<worker, tx, expecting, blocking, terminal, history>>

\* The worker has the session lock: the session may have stopped, the message may be
\* cancelled, a request may be pending; a fresh message is journaled as reserved.
Lock ==
    /\ worker = "lock" /\ queue # <<>> /\ Free
    /\ LET m == Head(queue)
           mode == job[m].mode
           written == mode # "send"
       IN  \/ /\ Fail(m, "attempt", "none", receipt[m].phase)
           \/ /\ request /\ ~job[m].cancelled
              /\ Fail(m, "attempt", "request", receipt[m].phase)
           \/ /\ ~request /\ ~job[m].cancelled
              /\ receipt' = IF written THEN receipt
                            ELSE [receipt EXCEPT ![m].phase = "reserved",
                                                 ![m].generation = generation]
              /\ tx' = [NoTx EXCEPT !.by = "attempt", !.m = m, !.mode = mode,
                            !.step = IF written THEN "intent" ELSE "prepare",
                            !.intent = FirstIntent(mode), !.generation = generation,
                            !.proof = job[m].proof]
              /\ worker' = "rest"
              /\ UNCHANGED <<active, line, job, session>>
    /\ UNCHANGED <<terminal, history>>

-----------------------------------------------------------------------------
(* The writer, under the session lock.                                      *)

At(step) == tx.by \in {"attempt", "recover"} /\ tx.step = step
GoOn(step) == tx' = [tx EXCEPT !.step = step]
FailTx(why, phase) == Fail(tx.m, tx.by, why, phase)

\* prepare: a dialog holds the message; a draft is cleared, or stays in front of it.
Prepare ==
    /\ At("prepare")
    /\ \/ /\ dialog /\ FailTx("dialog", receipt[tx.m].phase)
          /\ UNCHANGED box
       \/ /\ tx.generation # generation /\ FailTx("none", receipt[tx.m].phase)
          /\ UNCHANGED box
       \/ /\ ~dialog /\ tx.generation = generation
          /\ \E rest \in {{}, box} :
                /\ box' = rest
                /\ tx' = [tx EXCEPT !.step = "intent", !.appended = rest # {}]
          /\ UNCHANGED <<receipt, active, line, job, worker, session>>
    /\ UNCHANGED <<dialog, request, prompts, generation, history>>

\* onPhase of an intent: refused by a cancel (before a paste), by a request and, for
\* images, by a dialog; else durable before its bytes. An Enter is expected to be
\* answered by an event when the session has a source of them.
Intend ==
    /\ At("intent")
    /\ LET m == tx.m
           cancelled == tx.intent = "paste-intent" /\ job[m].cancelled
       IN  \/ /\ cancelled /\ FailTx("none", receipt[m].phase)
           \/ /\ ~cancelled /\ request /\ FailTx("request", receipt[m].phase)
           \/ /\ tx.intent = "text-intent" /\ dialog
              /\ FailTx("dialog", receipt[m].phase)
           \/ /\ ~cancelled /\ ~request
              /\ receipt' = [receipt EXCEPT ![m].status = "uncertain",
                                 ![m].phase = tx.intent, ![m].generation = tx.generation]
              /\ IF tx.intent = "submit-intent"
                 THEN /\ expecting' \in {expecting, expecting \cup {m}}
                      /\ early' = [early EXCEPT ![m] = "none"]
                 ELSE UNCHANGED <<expecting, early>>
              /\ GoOn("guard")
              /\ UNCHANGED <<active, line, job, worker, blocking>>
    /\ UNCHANGED <<terminal, history>>

\* Mutant: a resumed Enter takes any draft.
BoxFitsAny == tx.intent # "submit-intent" \/ box # {}

\* What the box must hold for the bytes of an intent: Enter after a fresh paste needs
\* a draft (or an unreadable screen), a resumed step the box it was held with.
BoxFits ==
    LET m == tx.m
        proven == tx.mode = "submit" \/ (tx.mode = "text" /\ tx.intent = "text-intent")
        expected == IF tx.mode = "submit" THEN Full(m) ELSE ImagesOf(m)
    IN  IF proven THEN box = (IF tx.proof # {} THEN tx.proof ELSE expected)
        ELSE tx.intent = "submit-intent" => box # {} \/ tx.appended

\* The guard after a durable intent: it passes, or proves that nothing was written and
\* the journal goes back to the last proven phase.
Guard ==
    /\ At("guard")
    /\ \/ /\ dialog /\ FailTx("dialog", ProvenPhase(tx.intent))
          /\ UNCHANGED box
       \/ /\ tx.generation # generation \/ ~BoxFits
          /\ FailTx("none", ProvenPhase(tx.intent))
          /\ UNCHANGED box
       \/ /\ ~dialog /\ tx.generation = generation /\ BoxFits
          /\ \E rest \in IF tx.intent = "paste-intent" /\ ~tx.appended
                         THEN {{}, box} ELSE {box} :
                /\ box' = rest
                /\ tx' = [tx EXCEPT !.step = "bytes",
                              !.appended = IF tx.intent = "paste-intent"
                                           THEN rest # {} ELSE @,
                              !.proof = IF tx.intent = "text-intent" THEN box ELSE @]
          /\ UNCHANGED <<receipt, active, line, job, worker, session>>
    /\ UNCHANGED <<dialog, request, prompts, generation, history>>

\* The paste: a dialog that opened since the guard swallows it; tmux may fail, before
\* or after the bytes reached the terminal.
Paste ==
    /\ At("bytes") /\ tx.intent # "submit-intent"
    /\ LET piece == PieceOf(tx.m, tx.intent)
       IN  \/ /\ pasted' = [pasted EXCEPT ![piece] = @ + 1]
              /\ box' = IF dialog THEN box ELSE box \cup {piece}
              /\ \/ /\ GoOn("written")
                    /\ UNCHANGED <<receipt, active, line, job, worker, session>>
                 \/ FailTx("none", tx.intent)
           \/ /\ FailTx("none", tx.intent)
              /\ UNCHANGED <<box, pasted>>
    /\ UNCHANGED <<dialog, request, prompts, generation, entered, dropped, reported,
                   crashes>>

\* Enter: a dialog that opened since the guard takes it instead. The command may fail
\* before or after its key took effect.
Enter ==
    /\ At("bytes") /\ tx.intent = "submit-intent"
    /\ \/ /\ entered' = [entered EXCEPT ![tx.m] = @ + 1]
          /\ \/ /\ dialog /\ dialog' = FALSE
                /\ UNCHANGED <<box, prompts>>
             \/ /\ ~dialog /\ box' = {}
                /\ prompts' = prompts \cup ({box} \ {{}})
                /\ UNCHANGED dialog
          /\ \/ /\ GoOn("written")
                /\ UNCHANGED <<receipt, active, line, job, worker, session>>
             \/ FailTx("none", tx.intent)
       \/ /\ FailTx("none", tx.intent)
          /\ UNCHANGED <<box, dialog, prompts, entered>>
    /\ UNCHANGED <<request, generation, pasted, dropped, reported, crashes>>

\* onPhase after the bytes; the box right after a paste is the proof of a held Enter.
Journal ==
    /\ At("written")
    /\ LET m == tx.m
           phase == DonePhase(m, tx.intent)
       IN  /\ receipt' = [receipt EXCEPT ![m].status = "uncertain", ![m].phase = phase,
                                         ![m].generation = tx.generation]
           /\ tx' = CASE phase = "images-pasted" ->
                           [tx EXCEPT !.step = "intent", !.intent = "text-intent"]
                      [] phase = "pasted" ->
                           [tx EXCEPT !.step = "intent", !.intent = "submit-intent",
                                !.proof = IF <<m, "text">> \in box THEN box ELSE {}]
                      [] phase = "submitted" -> [tx EXCEPT !.step = "confirm"]
    /\ UNCHANGED <<active, line, job, worker, session, terminal, history>>

\* confirm: the prompt box emptied (or cannot be read), or the submit is uncertain.
Confirm ==
    /\ At("confirm")
    /\ \/ /\ box = {} \/ tx.appended
          /\ Settle(tx.m, tx.by, "handed-off", "submitted")
       \/ /\ box # {} /\ FailTx("none", "submitted")
    /\ UNCHANGED <<terminal, history>>

Writer == Prepare \/ Intend \/ Guard \/ Paste \/ Enter \/ Journal \/ Confirm

-----------------------------------------------------------------------------
(* Native events: acceptance, hook blocks.                                  *)

\* ChatDelivery.accept for an event the matcher gave to a message: kept while the
\* delivery runs, else confirmed, or rejected by block().
Accept(m, kind) ==
    /\ expecting' = expecting \ {m}
    /\ reported' = IF kind = "accepted" THEN reported \cup {m} ELSE reported
    /\ \/ /\ m \in active
          /\ early' = [early EXCEPT ![m] = kind]
          /\ UNCHANGED <<receipt, blocking>>
       \/ /\ m \notin active /\ kind = "accepted"
          /\ receipt' = [receipt EXCEPT ![m].status = Confirmed(@)]
          /\ UNCHANGED <<early, blocking>>
       \/ /\ m \notin active /\ kind = "dropped"
          /\ blocking' = IF receipt[m].status \in Confirmable
                         THEN blocking \cup {<<m, receipt[m].attempt>>} ELSE blocking
          /\ UNCHANGED <<receipt, early>>

\* The CLI takes a submitted prompt, or a hook drops it and (Claude) its text returns to
\* the box; the event reaches the newest message it fits, if any expects it.
Resolve(p, kind) ==
    /\ p \in prompts
    /\ prompts' = prompts \ {p}
    /\ LET own == {m \in Messages : <<m, "text">> \in p}
           fits == own \cap expecting
       IN  /\ dropped' = IF kind = "dropped" THEN dropped \cup own ELSE dropped
           /\ \/ fits # {} /\ \E m \in fits : Accept(m, kind)
              \/ fits = {} /\ UNCHANGED <<receipt, session, reported>>
    /\ box' \in IF kind = "dropped" THEN {box, box \cup p} ELSE {box}
    /\ UNCHANGED <<active, line, job, worker, tx, dialog, request, generation, pasted,
                   entered, crashes>>

\* block: under the session lock the box is cleared while it holds exactly the message
\* (or the clear fails); the receipt is rejected unless a retry or an acceptance came first.
Block(m) ==
    /\ Free /\ \E a \in 0..MaxRecoveries : <<m, a>> \in blocking
    /\ box' \in {box, IF box = Full(m) /\ ~dialog THEN {} ELSE box}
    /\ blocking' = {b \in blocking : b[1] # m}
    /\ receipt' = IF /\ receipt[m].status \in Confirmable
                     /\ <<m, receipt[m].attempt>> \in blocking
                  THEN Marked(m, "rejected", receipt[m].phase, "none")
                  ELSE receipt
    /\ UNCHANGED <<active, line, job, worker, tx, expecting, early, dialog, request,
                   prompts, generation, history>>

-----------------------------------------------------------------------------
(* The terminal, the CLI and the process.                                   *)

OnlyTerminal == UNCHANGED <<receipt, active, line, job, worker, tx, session, history>>

\* A question or menu opens or closes; an AgentPier request comes or is answered.
Dialogs ==
    /\ dialog' = ~dialog
    /\ OnlyTerminal /\ UNCHANGED <<box, request, prompts, generation>>
Requests ==
    /\ request' = ~request
    /\ OnlyTerminal /\ UNCHANGED <<box, dialog, prompts, generation>>

\* The owner types in the terminal, under the same session lock: a draft, a clear, Enter.
OwnerInput ==
    /\ Free /\ ~dialog
    /\ \/ \E d \in Drafts : box' = box \cup {d} /\ UNCHANGED prompts
       \/ box' = {} /\ UNCHANGED prompts
       \/ box # {} /\ box' = {} /\ prompts' = prompts \cup {box}
    /\ OnlyTerminal /\ UNCHANGED <<dialog, request, generation>>

\* The CLI is started anew: another process with an empty box.
Relaunch ==
    /\ generation < MaxRelaunches
    /\ generation' = generation + 1
    /\ box' = {} /\ prompts' = {} /\ dialog' = FALSE
    /\ OnlyTerminal /\ UNCHANGED request

\* The server dies and starts again: nothing but the receipts is left of its state.
Crash ==
    /\ crashes < MaxCrashes /\ crashes' = crashes + 1
    /\ active' = {} /\ queue' = <<>> /\ ahead' = [m \in Messages |-> {}]
    /\ job' = [m \in Messages |-> NewJob]
    /\ worker' = "rest" /\ tx' = NoTx
    /\ expecting' = {} /\ early' = [m \in Messages |-> "none"]
    /\ blocking' = {}
    /\ reported' = reported \ active
    /\ UNCHANGED <<receipt, terminal, pasted, entered, dropped>>

-----------------------------------------------------------------------------
Init ==
    /\ receipt = [m \in Messages |-> [status |-> "absent", phase |-> "reserved",
                     generation |-> 0, attempt |-> 0, waiting |-> "none"]]
    /\ active = {} /\ queue = <<>> /\ ahead = [m \in Messages |-> {}]
    /\ job = [m \in Messages |-> NewJob]
    /\ worker = "rest" /\ tx = NoTx
    /\ expecting = {} /\ early = [m \in Messages |-> "none"]
    /\ blocking = {}
    /\ box = {} /\ dialog = FALSE /\ request = FALSE /\ prompts = {} /\ generation = 0
    /\ pasted = [p \in Pieces |-> 0] /\ entered = [m \in Messages |-> 0]
    /\ dropped = {} /\ reported = {} /\ crashes = 0

Worker == Begin \/ Expire \/ Lock
Owner == \E m \in Messages : Send(m) \/ Cancel(m) \/ Recover(m)
Native == \/ \E p \in prompts : Resolve(p, "accepted") \/ Resolve(p, "dropped")
          \/ Dialogs \/ Requests \/ OwnerInput \/ Relaunch
Next == \/ Owner \/ Worker \/ Writer \/ Native \/ Crash
        \/ \E m \in Messages : PassDeadline(m) \/ Block(m)

Spec == Init /\ [][Next]_vars

\* The event loop and the retry timer go on, and time passes.
Fairness == /\ WF_vars(Worker) /\ WF_vars(Writer)
            /\ \A m \in Messages : WF_vars(PassDeadline(m)) /\ WF_vars(Block(m))
FairSpec == Spec /\ Fairness

-----------------------------------------------------------------------------
(* What makes the delivery correct.                                         *)

Receipt == [status : Statuses, phase : Phases, generation : Nat, attempt : Nat,
            waiting : Reasons]
Box == SUBSET (Pieces \cup Drafts)
Job == [mode : Modes, started : BOOLEAN, deadline : {"none", "set", "passed"},
        cancelled : BOOLEAN, proof : Box]
Tx == [by : {"none", "attempt", "recover"}, m : Messages, mode : Modes,
       step : {"prepare", "intent", "guard", "bytes", "written", "confirm"},
       intent : Intents, generation : Nat, appended : BOOLEAN, proof : Box]

TypeOK ==
    /\ receipt \in [Messages -> Receipt] /\ active \subseteq Messages
    /\ queue \in Seq(Messages) /\ ahead \in [Messages -> SUBSET Messages]
    /\ job \in [Messages -> Job]
    /\ worker \in {"rest", "lock"} /\ tx \in Tx
    /\ expecting \subseteq Messages /\ early \in [Messages -> {"none", "accepted", "dropped"}]
    /\ blocking \subseteq Messages \X Nat
    /\ box \in Box /\ prompts \subseteq Box
    /\ dialog \in BOOLEAN /\ request \in BOOLEAN /\ generation \in Nat
    /\ pasted \in [Pieces -> Nat] /\ entered \in [Messages -> Nat]
    /\ dropped \subseteq Messages /\ reported \subseteq Messages /\ crashes \in Nat

\* Durable at-most-once input: whatever crashes, holds, cancels, recoveries and new CLI
\* processes cross a delivery, no part of a message is pasted twice and Enter is sent
\* at most once for it.
AtMostOnce ==
    /\ \A p \in Pieces : pasted[p] <= 1
    /\ \A m \in Messages : entered[m] <= 1

\* A rejected or cancelled message, whose text goes back to the owner's composer, never
\* reached the terminal (unless it did and a hook of the CLI dropped it).
RejectedLeftNothing ==
    \A m \in Messages \ dropped : receipt[m].status = "rejected" =>
        entered[m] = 0 /\ \A p \in Full(m) : pasted[p] = 0

\* Once Enter was sent for a message, an acceptance the CLI reports is never lost or
\* overwritten by the outcome of the delivery it overtakes (a crash loses those that had
\* not been written).
AcceptanceKept ==
    \A m \in reported \ active :
        entered[m] > 0 => receipt[m].status = "accepted"

\* A held or recovered Enter, for a message pasted before the hold or the crash, is never
\* sent to a prompt without that message (but for the empty one of a new CLI process).
EnterSubmitsMessage ==
    [][\A m \in Messages : entered'[m] > entered[m] /\ tx.mode = "submit" =>
          box = {} \/ <<m, "text">> \in box]_vars

\* Messages reach the prompt strictly in order: nothing of a message is prepared, pasted
\* or submitted while a delivery that was under way when it was sent is not over.
InOrder == \A m \in Messages : tx.by = "attempt" /\ tx.m = m => ahead[m] \cap active = {}

\* Every message in the queue leaves it, twelve hours after its first attempt at the
\* latest, even if a question or a request stays open for ever.
HeldEnds == \A m \in Messages : Queued(m) ~> ~Queued(m)

-----------------------------------------------------------------------------
(* Why nothing is sent twice: the journal never claims less than what the   *)
(* terminal got. JournalInvariant is inductive; ChatDeliveryProofs proves   *)
(* it for all constants.                                                    *)

\* Nothing that an intent announces was sent before, by the counters of Enter and of
\* the pieces pasted.
Unsent(m, intent, keys, pastes) ==
    /\ keys[m] = 0
    /\ intent # "submit-intent" => pastes[<<m, "text">>] = 0
    /\ intent = "paste-intent"  => \A p \in Full(m) : pastes[p] = 0

\* What the phase of a journal proves, if the server dies with it.
Proves(m, phase, keys, pastes) ==
    /\ phase = "reserved"      => Unsent(m, "paste-intent", keys, pastes)
    /\ phase = "paste-intent"  => /\ keys[m] = 0
                                  /\ m \in Images => pastes[<<m, "text">>] = 0
    /\ phase = "images-pasted" => Unsent(m, "text-intent", keys, pastes)
    /\ phase \in {"text-intent", "pasted"} => Unsent(m, "submit-intent", keys, pastes)
\* The phases from which an intent goes on.
Before(intent) == CASE intent = "paste-intent"  -> {"reserved"}
                    [] intent = "text-intent"   -> {"images-pasted"}
                    [] intent = "submit-intent" -> {"text-intent", "pasted"}
Attempted(m) == tx.by = "attempt" /\ tx.m = m

JournalIsTrue == \A m \in Messages : Proves(m, receipt[m].phase, entered, pasted)

TxFollowsJournal == ~Free =>
    /\ tx.step = "prepare" => tx.intent = "paste-intent"
    /\ tx.step \in {"prepare", "intent"} => receipt[tx.m].phase \in Before(tx.intent)
    /\ tx.step \in {"guard", "bytes"} => /\ receipt[tx.m].phase = tx.intent
                                         /\ Unsent(tx.m, tx.intent, entered, pasted)
    /\ tx.step = "written" => receipt[tx.m].phase = tx.intent

JobFollowsJournal ==
    /\ \A m \in Messages : Queued(m) /\ ~Attempted(m) =>
          receipt[m].phase \in Before(FirstIntent(job[m].mode))
    /\ \A m \in Messages : ~Queued(m) => job[m] = NewJob

Distinct == \A j, k \in 1..Len(queue) : queue[j] = queue[k] => j = k

\* The queue, the worker and the transactions never own a message together.
OneOwner ==
    /\ Distinct
    /\ \A m \in Messages : Queued(m) => m \in active
    /\ worker = "lock" => queue # <<>> /\ tx.by # "attempt"
    /\ tx.by = "attempt" => queue # <<>> /\ tx.m = Head(queue)
    /\ tx.by = "recover" => tx.m \in active /\ ~Queued(tx.m)
    /\ \A m \in Messages : receipt[m].status = "absent" =>
          m \notin active /\ receipt[m].phase = "reserved"

\* Only the CLI drops a prompt, and nothing else rejects what was typed.
RejectedIsReserved ==
    /\ \A m \in Messages : early[m] = "dropped" => m \in dropped
    /\ \A b \in blocking : b[1] \in dropped
    /\ \A m \in Messages \ dropped :
          receipt[m].status = "rejected" => receipt[m].phase = "reserved"

JournalInvariant ==
    /\ AtMostOnce /\ JournalIsTrue /\ TxFollowsJournal /\ JobFollowsJournal
    /\ OneOwner /\ RejectedIsReserved
=============================================================================
