----------------------- MODULE TicketSequenceProofs -----------------------
(***************************************************************************)
(* Each ticket has one worker, and each worker one copy of its task, for   *)
(* every queue, any number of launches and runs, retries, crashes and      *)
(* calls that fail or answer too late.                                     *)
(*                                                                         *)
(* Whole is inductive: what a ticket has saved is its own (Linked), what   *)
(* its step has done so far (Staged), which session a task may be in       *)
(* (Aged), how many receipts for it (Told) and that no copy is sent        *)
(* without one (Received), and which session may be up in the folder of    *)
(* its attempt (Sole). A step is of one ticket (Own) and the               *)
(* others rest; it ends the ticket's start (Settles) or has a lemma of its *)
(* own. Sessions, runs and the process only get further (FurtherKeeps).    *)
(***************************************************************************)
EXTENDS TicketSequence, FiniteSetTheorems, TLAPS

-----------------------------------------------------------------------------
(* Type correctness.                                                        *)

\* One ticket, session or run is written; the others stay.
LEMMA Saved ==
    ASSUME TypeOK, NEW i \in Items, NEW rec, Save(i, rec)
    PROVE  /\ items'[i] = rec /\ \A j \in Items : j # i => items'[j] = items[j]
           /\ rec \in Ticket => items' \in [Items -> Ticket]
BY DEF Save, TypeOK

\* What a step writes into a ticket.
LEMMA Tickets ==
    ASSUME NEW x \in Ticket
    PROVE  /\ \A st \in States : /\ [x EXCEPT !.state = st] \in Ticket
                                 /\ \A b \in BOOLEAN : [x EXCEPT !.state = st, !.starting = b] \in Ticket
                                 /\ \A b \in BOOLEAN, w \in 0..MaxRetries :
                                       [x EXCEPT !.state = st, !.starting = b, !.watch = w] \in Ticket
           /\ [x EXCEPT !.starting = FALSE] \in Ticket /\ [x EXCEPT !.tree = TRUE] \in Ticket
           /\ \A n \in 0..MaxWorkers : [x EXCEPT !.session = n] \in Ticket /\ [x EXCEPT !.run = n] \in Ticket
           /\ \A pr \in {"none", "open", "closed"} : [x EXCEPT !.pr = pr] \in Ticket
           /\ \A w \in 0..MaxRetries : [x EXCEPT !.starting = FALSE, !.watch = w] \in Ticket
           /\ \A st \in States, pr \in {"none", "open", "closed"} : [x EXCEPT !.state = st, !.pr = pr] \in Ticket
BY DEF Ticket

LEMMA Sessions ==
    ASSUME NEW x \in Coding
    PROVE  /\ \A l \in {"none", "called", "late", "up", "lateup", "stray", "stopped"} :
                 [x EXCEPT !.life = l] \in Coding
           /\ [x EXCEPT !.resumed = @ + 1] \in Coding
           /\ \A S \in SUBSET Ids : /\ [x EXCEPT !.tasks = S] \in Coding
                                    /\ [x EXCEPT !.sent = S] \in Coding
                                    /\ [x EXCEPT !.rejected = S] \in Coding
BY DEF Coding

Places == {"idle", "tree", "launch", "deliver", "confirm", "record", "reserve", "enqueue"}
StepType == [at : Places, i : Items \cup {NoTicket}, s : 0..MaxWorkers]

LEMMA Going ==
    /\ End => op' \in StepType
    /\ \A p \in Places, i \in Items, s \in 0..MaxWorkers : Go(p, i, s) => op' \in StepType
BY SequenceAssumption DEF End, Idle, Go, StepType, Places

LEMMA Bounds ==
    /\ MaxWorkers \in Nat /\ MaxRetries \in Nat /\ MaxCrashes \in Nat /\ MaxMishaps \in Nat
    /\ 0 \in 0..MaxWorkers /\ 0 \in 0..MaxRetries /\ 0 \in 0..MaxCrashes /\ Workers \subseteq 0..MaxWorkers
BY SequenceAssumption DEF Workers

LEMMA InitTypes == Init => TypeOK
<1> SUFFICES ASSUME Init PROVE TypeOK
  OBVIOUS
<1>1. Fresh \in Ticket /\ Idle \in StepType /\ NoSession \in Coding /\ NoRun \in Reserved
  BY Bounds DEF Fresh, Ticket, States, Idle, StepType, Places, NoSession, Coding, NoRun, Reserved
<1> QED BY <1>1, Bounds DEF Init, TypeOK, StepType, Places

\* What becomes of the constants of a task and of the bounds.
LEMMA UsedTypes ==
    ASSUME TypeOK
    PROVE  /\ Mishap \/ NoMishap =>
                 /\ used' \in [retries : 0..MaxRetries, crashes : 0..MaxCrashes, mishaps : 0..MaxMishaps]
                 /\ answers' = answers
           /\ \A i \in Items : Task(i) \in Ids
           /\ \A i \in Items : Parked(i) \in Ticket
<1>1. \A u \in [retries : 0..MaxRetries, crashes : 0..MaxCrashes, mishaps : 0..MaxMishaps] :
         u.mishaps < MaxMishaps =>
            [u EXCEPT !.mishaps = @ + 1] \in [retries : 0..MaxRetries, crashes : 0..MaxCrashes, mishaps : 0..MaxMishaps]
  BY Bounds
<1>2. Mishap \/ NoMishap => used' \in [retries : 0..MaxRetries, crashes : 0..MaxCrashes, mishaps : 0..MaxMishaps]
  BY <1>1 DEF TypeOK, Mishap, NoMishap
<1>3. \A i \in Items : items[i].watch \in 0..MaxRetries /\ items[i] \in Ticket
  BY DEF TypeOK, Ticket
<1>4. \A i \in Items : Parked(i) \in Ticket
  BY <1>3, Tickets DEF Parked, States
<1>5. Mishap \/ NoMishap => answers' = answers
  BY DEF Mishap, NoMishap
<1> QED BY <1>2, <1>3, <1>4, <1>5, Bounds DEF Task, Ids

LEMMA StartingTypes ==
    ASSUME TypeOK, NEW i \in Items, Starting(i)
    PROVE  TypeOK'
<1> DEFINE Used == /\ used' \in [retries : 0..MaxRetries, crashes : 0..MaxCrashes, mishaps : 0..MaxMishaps]
                   /\ answers' = answers
<1>0. items[i] \in Ticket /\ items \in [Items -> Ticket] /\ session \in [Workers -> Coding]
      /\ op \in StepType /\ run \in [Workers -> Reserved] /\ op.s \in 0..MaxWorkers
  BY DEF TypeOK, StepType, Places
<1>1. \A rec \in Ticket : Save(i, rec) => items' \in [Items -> Ticket]
  BY Saved
<1>2. Park(i) => items' \in [Items -> Ticket] /\ op' \in StepType
  BY <1>1, UsedTypes, Going DEF Park
<1> SUFFICES items' \in [Items -> Ticket] /\ op' \in StepType /\ session' \in [Workers -> Coding]
             /\ run' \in [Workers -> Reserved] /\ Used /\ overlooked' = overlooked
  BY DEF TypeOK, StepType, Places
<1>3. CASE StartRefused(i)
  BY <1>0, <1>2, <1>3, UsedTypes DEF StartRefused
<1>4. CASE Start(i)
  <2>1. [items[i] EXCEPT !.state = "running", !.starting = TRUE, !.watch = 0] \in Ticket
    BY <1>0, Tickets, Bounds DEF States
  <2>2. \E p \in Places : Go(p, i, 0)
    BY <1>4 DEF Start, Places
  <2> QED BY <1>0, <1>1, <1>4, <2>1, <2>2, Going, Bounds, UsedTypes DEF Start
<1>5. CASE Launch(i)
  <2>1. PICK s \in Workers :
           /\ session' = [session EXCEPT ![s] = [NoSession EXCEPT
                          !.of = i, !.attempt = items[i].attempt, !.life = "called"]]
           /\ Go("launch", i, s)
    BY <1>5 DEF Launch, FreshSession
  <2>2. [NoSession EXCEPT !.of = i, !.attempt = items[i].attempt, !.life = "called"] \in Coding
    BY <1>0 DEF NoSession, Coding, Ticket
  <2>3. Save(i, [items[i] EXCEPT !.tree = TRUE]) /\ NoMishap /\ UNCHANGED <<run, overlooked>>
    BY <1>5 DEF Launch
  <2>4. s \in 0..MaxWorkers /\ "launch" \in Places
    BY Bounds DEF Places
  <2> QED BY <1>0, <1>1, <2>1, <2>2, <2>3, <2>4, Tickets, Going, UsedTypes
<1>6. CASE StartFails(i)
  <2>1. session' \in [Workers -> Coding]
    <3>1. session' = session \/ session' = [session EXCEPT ![op.s].life = "stopped"]
      BY <1>6 DEF StartFails
    <3>2. \A x \in Coding : [x EXCEPT !.life = "stopped"] \in Coding
      BY Sessions
    <3> QED BY <1>0, <3>1, <3>2
  <2> QED BY <1>0, <1>2, <1>6, <2>1, UsedTypes DEF StartFails
<1>7. CASE Launched(i)
  BY <1>0, <1>1, <1>7, Tickets, Going, UsedTypes DEF Launched, Places
<1>8. CASE LaunchTimesOut(i)
  <2>1. session' \in [Workers -> Coding]
    <3>1. \A x \in Coding : [x EXCEPT !.life = CASE x.life = "called" -> "late" [] x.life = "up" -> "lateup" [] OTHER -> x.life] \in Coding
      BY DEF Coding
    <3> QED BY <1>0, <1>8, <3>1 DEF LaunchTimesOut
  <2> QED BY <1>0, <1>2, <1>8, <2>1, UsedTypes DEF LaunchTimesOut
<1>9. CASE Deliver(i)
  <2>1. session' \in [Workers -> Coding]
    <3>1. \A x \in Coding : x.tasks \cup {Task(i)} \in SUBSET Ids
      BY UsedTypes DEF Coding
    <3>2. \A x \in Coding : [x EXCEPT !.tasks = x.tasks \cup {Task(i)}] \in Coding
      BY <3>1, Sessions
    <3> QED BY <1>0, <1>9, <3>2 DEF Deliver
  <2> QED BY <1>0, <1>9, <2>1, Going, UsedTypes DEF Deliver, Places
<1>17. CASE Confirmed(i)
  BY <1>0, <1>17, Going, UsedTypes DEF Confirmed, Places
<1>10. CASE NotDelivered(i)
  <2>1. session' \in [Workers -> Coding]
    <3>1. \A x \in Coding : x.tasks \cup {Task(i)} \in SUBSET Ids
      BY UsedTypes DEF Coding
    <3>2. \A x \in Coding : \A l \in {x.life, "stopped"}, S \in {x.tasks, x.tasks \cup {Task(i)}} :
             [x EXCEPT !.life = l, !.tasks = S] \in Coding
      BY <3>1 DEF Coding
    <3>3. PICK stopped \in BOOLEAN, reserved \in BOOLEAN :
             session' = [session EXCEPT
                            ![op.s].life = IF stopped THEN "stopped" ELSE @,
                            ![op.s].tasks = IF reserved THEN @ \cup {Task(i)} ELSE @]
      BY <1>10 DEF NotDelivered
    <3>4. \A x \in Coding : [x EXCEPT !.life = IF stopped THEN "stopped" ELSE @,
                                      !.tasks = IF reserved THEN @ \cup {Task(i)} ELSE @] \in Coding
      <4>1. CASE stopped /\ reserved
        BY <3>1, <4>1 DEF Coding
      <4>2. CASE stopped /\ ~reserved
        BY <4>2 DEF Coding
      <4>3. CASE ~stopped /\ reserved
        BY <3>1, <4>3 DEF Coding
      <4>4. CASE ~stopped /\ ~reserved
        BY <4>4 DEF Coding
      <4> QED BY <4>1, <4>2, <4>3, <4>4
    <3>6. CASE op.s \in Workers
      <4>1. PICK x \in Coding : x = session[op.s]
        BY <1>0, <3>6
      <4>4. session'[op.s] = [x EXCEPT !.life = IF stopped THEN "stopped" ELSE @,
                                       !.tasks = IF reserved THEN @ \cup {Task(i)} ELSE @]
        BY <1>0, <3>3, <3>6, <4>1
      <4>2. session' = [session EXCEPT ![op.s] = session'[op.s]]
        BY <1>0, <3>3, <3>6
      <4>3. session'[op.s] \in Coding
        BY <3>4, <4>1, <4>4
      <4> QED BY <1>0, <3>6, <4>2, <4>3
    <3>7. CASE op.s \notin Workers
      BY <1>0, <3>3, <3>7
    <3> QED BY <3>6, <3>7
  <2> QED BY <1>0, <1>2, <1>10, <2>1, UsedTypes DEF NotDelivered
<1>11. CASE Recorded(i)
  BY <1>0, <1>1, <1>11, Tickets, Going, UsedTypes DEF Recorded
<1>12. CASE RecordFails(i) \/ EnqueueFails(i) \/ ResumeRefused(i)
  BY <1>0, <1>2, <1>12, UsedTypes DEF RecordFails, EnqueueFails, ResumeRefused
<1>13. CASE Reserve(i)
  <2>1. CASE FreshRun = {}
    BY <1>0, <1>2, <1>13, <2>1, UsedTypes DEF Reserve
  <2>2. CASE FreshRun # {}
    <3>1. PICK r \in Workers : run' = [run EXCEPT ![r].of = i] /\ Save(i, [items[i] EXCEPT !.run = r])
                               /\ Go("enqueue", i, 0)
      BY <1>13, <2>2 DEF Reserve, FreshRun
    <3>2. r \in 0..MaxWorkers /\ "enqueue" \in Places
      BY Bounds DEF Places
    <3>3. \A x \in Reserved : [x EXCEPT !.of = i] \in Reserved
      BY DEF Reserved
    <3> QED BY <1>0, <1>1, <1>13, <3>1, <3>2, <3>3, Tickets, Going, Bounds, UsedTypes DEF Reserve
  <2> QED BY <2>1, <2>2
<1>14. CASE Enqueue(i)
  <2>1. \A x \in Reserved : [x EXCEPT !.life = "queued"] \in Reserved
    BY DEF Reserved
  <2> QED BY <1>0, <1>14, <2>1, Going, Bounds, UsedTypes DEF Enqueue, Places
<1>15. CASE Resume(i) \/ ResumeSkips(i)
  <2>1. CASE Adoptable(i) = {}
    BY <1>0, <1>2, <1>15, <2>1, UsedTypes DEF Resume, ResumeSkips
  <2>2. CASE Adoptable(i) # {}
    <3>1. PICK s \in Adoptable(i) :
             /\ Save(i, [items[i] EXCEPT !.session = s]) /\ (Go("deliver", i, s) \/ End)
             /\ session' = [session EXCEPT ![s].life = "up"]
      BY <1>15, <2>2 DEF Resume, ResumeSkips
    <3>2. s \in 0..MaxWorkers
      BY <1>0, Bounds DEF Adoptable, InFolder, Ticket
    <3>3. session' \in [Workers -> Coding]
      BY <1>0, <3>1, Sessions
    <3>4. NoMishap /\ UNCHANGED <<run, overlooked>>
      BY <1>15 DEF Resume, ResumeSkips
    <3>5. op' \in StepType
      BY <3>1, <3>2, Going DEF Places
    <3> QED BY <1>0, <1>1, <3>1, <3>2, <3>3, <3>4, <3>5, Tickets, UsedTypes
  <2> QED BY <2>1, <2>2
<1>16. CASE ResumeRun(i)
  <2>1. items' \in [Items -> Ticket] /\ op' \in StepType
    BY <1>0, <1>2, <1>16, Going, Bounds DEF ResumeRun, Places
  <2> QED BY <1>0, <1>16, <2>1, UsedTypes DEF ResumeRun
<1> QED BY <1>3, <1>4, <1>5, <1>6, <1>7, <1>8, <1>9, <1>10, <1>11, <1>12, <1>13, <1>14, <1>15, <1>16,
           <1>17 DEF Starting

LEMMA WatchingTypes ==
    ASSUME TypeOK, NEW i \in Items, Watching(i)
    PROVE  TypeOK'
<1>0. items[i] \in Ticket /\ Parked(i) \in Ticket
  BY UsedTypes DEF TypeOK
<1>1. UNCHANGED <<op, session, run, answers, used, overlooked>>
  BY DEF Watching, FoundPr, ParkWatched, Merged, ParkMerge
<1>2. PICK rec \in Ticket : Save(i, rec)
  <2>1. CASE FoundPr(i)
    BY <1>0, <2>1, Tickets DEF FoundPr, States
  <2>2. CASE ParkWatched(i)
    BY <1>0, <2>2 DEF ParkWatched
  <2>3. CASE Merged(i)
    BY <1>0, <2>3, Tickets DEF Merged, States
  <2>4. CASE ParkMerge(i)
    BY <1>0, <2>4, Tickets DEF ParkMerge
  <2> QED BY <2>1, <2>2, <2>3, <2>4 DEF Watching
<1> QED BY <1>1, <1>2, Saved DEF TypeOK

LEMMA OwnerTypes ==
    ASSUME TypeOK, NEW i \in Items, Owner(i)
    PROVE  TypeOK'
<1> DEFINE Usage == [retries : 0..MaxRetries, crashes : 0..MaxCrashes, mishaps : 0..MaxMishaps]
<1>0. items[i] \in Ticket /\ session \in [Workers -> Coding] /\ used \in Usage
  BY DEF TypeOK
<1>1. \A u \in Usage : u.retries < MaxRetries =>
         /\ [u EXCEPT !.retries = @ + 1] \in Usage
         /\ [u EXCEPT !.retries = @ + 1].retries \in 0..MaxRetries
  BY Bounds
<1> HIDE DEF Usage
<1>2. UNCHANGED <<op, run, answers>>
  BY DEF Owner, RetryLive, RetryPr, RetryFresh, MarkDone, Remove
<1> SUFFICES /\ items' \in [Items -> Ticket] /\ session' \in [Workers -> Coding]
             /\ used' \in Usage /\ overlooked' \subseteq Items
  BY <1>2 DEF TypeOK, Usage
<1>o. overlooked \subseteq Items
  BY DEF TypeOK
<1>3. CASE RetryLive(i)
  <2>1. used' \in Usage /\ used'.retries \in 0..MaxRetries
    BY <1>0, <1>1, <1>3 DEF RetryLive, Retrying
  <2>2. [items[i] EXCEPT !.state = "running", !.starting = TRUE, !.watch = used'.retries] \in Ticket
    BY <1>0, <2>1, Tickets DEF States
  <2>3. session' \in [Workers -> Coding]
    <3>1. \A x \in Coding : [x EXCEPT !.resumed = @ + 1] \in Coding
      BY Sessions
    <3>2. session' = [session EXCEPT ![items[i].session].resumed = @ + 1]
      BY <1>3 DEF RetryLive
    <3> QED BY <1>0, <3>1, <3>2
  <2> QED BY <1>3, <1>o, <2>1, <2>2, <2>3, Saved DEF RetryLive
<1>4. CASE RetryPr(i)
  <2>1. used' \in Usage
    BY <1>0, <1>1, <1>4 DEF RetryPr, Retrying
  <2>2. [Reset(i) EXCEPT !.state = "awaiting-merge"] \in Ticket
    BY <1>0, Tickets, Bounds DEF Reset, States
  <2> QED BY <1>0, <1>4, <1>o, <2>1, <2>2, Saved DEF RetryPr
<1>5. CASE RetryFresh(i)
  <2>1. used' \in Usage
    BY <1>0, <1>1, <1>5 DEF RetryFresh, Retrying
  <2>2. Attempt(i) \in Nat /\ items[i].tree \in BOOLEAN
    BY <1>0 DEF Attempt, Ticket
  <2>3. \A kept \in BOOLEAN : [Fresh EXCEPT !.attempt = Attempt(i), !.tree = kept] \in Ticket
    BY <2>2, Bounds DEF Fresh, Ticket, States
  <2>4. (items[i].tree /\ items[i].pr = "none") \in BOOLEAN
    OBVIOUS
  <2>5. items' \in [Items -> Ticket]
    BY <1>5, <2>3, <2>4, Saved DEF RetryFresh
  <2> QED BY <1>0, <1>5, <1>o, <2>1, <2>5 DEF RetryFresh
<1>6. CASE MarkDone(i)
  BY <1>0, <1>6, <1>o, Saved, Tickets DEF MarkDone, States
<1>7. CASE Remove(i)
  BY <1>0, <1>7, <1>o, Saved, Tickets DEF Remove, States
<1> QED BY <1>3, <1>4, <1>5, <1>6, <1>7 DEF Owner

LEMMA WorldTypes ==
    ASSUME TypeOK, World
    PROVE  TypeOK'
<1>0. session \in [Workers -> Coding] /\ run \in [Workers -> Reserved]
  BY DEF TypeOK
<1>s. \A s \in Workers : \A l \in {"up", "lateup", "stopped", "stray"} : Life(s, l) => session' \in [Workers -> Coding]
  <2> SUFFICES ASSUME NEW s \in Workers, NEW l \in {"up", "lateup", "stopped", "stray"}, Life(s, l)
               PROVE  session' \in [Workers -> Coding]
    OBVIOUS
  <2>1. \A x \in Coding : [x EXCEPT !.life = l] \in Coding
    BY Sessions
  <2>2. [session[s] EXCEPT !.life = l] \in Coding
    BY <1>0, <2>1
  <2>3. session' = [session EXCEPT ![s] = [session[s] EXCEPT !.life = l]]
    BY DEF Life
  <2> QED BY <1>0, <2>2, <2>3
<1>1. CASE \E s \in Workers : SessionUp(s) \/ SessionEnds(s) \/ LateStopped(s)
  <2>1. session' \in [Workers -> Coding]
    BY <1>1, <1>s DEF SessionUp, SessionEnds, LateStopped
  <2>2. UNCHANGED <<items, op, run, overlooked>>
    BY <1>1 DEF SessionUp, SessionEnds, LateStopped
  <2>3. Mishap \/ NoMishap
    BY <1>1 DEF SessionUp, SessionEnds, LateStopped, NoMishap
  <2> QED BY <2>1, <2>2, <2>3, UsedTypes DEF TypeOK
<1>2. CASE \E r \in Workers : RunGoesOn(r)
  <2>1. \A x \in Reserved : \A l \in {"active", "none", "ended"} : [x EXCEPT !.life = l] \in Reserved
    BY DEF Reserved
  <2>2. run' \in [Workers -> Reserved]
    <3>1. PICK r \in Workers : \E l \in {"active", "none", "ended"} : run' = [run EXCEPT ![r].life = l]
      BY <1>2 DEF RunGoesOn
    <3>2. PICK l \in {"active", "none", "ended"} : run' = [run EXCEPT ![r].life = l]
      BY <3>1
    <3>3. [run[r] EXCEPT !.life = l] \in Reserved
      BY <1>0, <2>1
    <3>4. run' = [run EXCEPT ![r] = [run[r] EXCEPT !.life = l]]
      BY <3>2
    <3> QED BY <1>0, <3>3, <3>4
  <2> QED BY <1>2, <2>2 DEF TypeOK, RunGoesOn
<1>3. CASE Crash
  <2>1. \A x \in Coding : [x EXCEPT !.life =
            CASE @ \in {"called", "late"} -> "stopped" [] @ = "lateup" -> "stray" [] OTHER -> @] \in Coding
    BY DEF Coding
  <2>2. session' \in [Workers -> Coding]
    BY <1>0, <1>3, <2>1 DEF Crash
  <2>3. \A u \in [retries : 0..MaxRetries, crashes : 0..MaxCrashes, mishaps : 0..MaxMishaps] :
           u.crashes < MaxCrashes =>
              [u EXCEPT !.crashes = @ + 1] \in [retries : 0..MaxRetries, crashes : 0..MaxCrashes, mishaps : 0..MaxMishaps]
    BY Bounds
  <2>4. used' \in [retries : 0..MaxRetries, crashes : 0..MaxCrashes, mishaps : 0..MaxMishaps]
    BY <1>3, <2>3 DEF Crash, TypeOK
  <2>5. op' \in StepType /\ UNCHANGED <<items, run, answers, overlooked>>
    BY <1>3, Going DEF Crash
  <2> QED BY <2>2, <2>4, <2>5 DEF TypeOK, StepType, Places
<1>4. CASE \E s \in Workers : Delivery(s)
  <2>1. PICK s \in Workers : Delivery(s)
    BY <1>4
  <2>2. PICK x \in Coding : x = session[s]
    BY <1>0
  <2>3. PICK d \in Ids : \/ session' = [session EXCEPT ![s].sent = @ \cup {d}]
                         \/ session' = [session EXCEPT ![s].rejected = @ \cup {d}]
    BY <2>1, <2>2 DEF Delivery, Coding
  <2>4. x.sent \cup {d} \in SUBSET Ids /\ x.rejected \cup {d} \in SUBSET Ids
    BY DEF Coding
  <2>5. [x EXCEPT !.sent = x.sent \cup {d}] \in Coding /\ [x EXCEPT !.rejected = x.rejected \cup {d}] \in Coding
    BY <2>4, Sessions
  <2>6. session' \in [Workers -> Coding]
    BY <1>0, <2>2, <2>3, <2>5
  <2> QED BY <2>1, <2>6 DEF Delivery, TypeOK
<1>5. CASE Unanswered
  <2>1. \A u \in [retries : 0..MaxRetries, crashes : 0..MaxCrashes, mishaps : 0..MaxMishaps] :
           u.mishaps < MaxMishaps =>
              [u EXCEPT !.mishaps = @ + 1] \in [retries : 0..MaxRetries, crashes : 0..MaxCrashes, mishaps : 0..MaxMishaps]
    BY Bounds
  <2>2. used' \in [retries : 0..MaxRetries, crashes : 0..MaxCrashes, mishaps : 0..MaxMishaps]
    BY <1>5, <2>1 DEF Unanswered, TypeOK
  <2>3. answers' \in BOOLEAN /\ UNCHANGED <<items, op, session, run, overlooked>>
    BY <1>5 DEF Unanswered
  <2> QED BY <2>2, <2>3 DEF TypeOK
<1>6. CASE Answered
  BY <1>6 DEF Answered, TypeOK
<1> QED BY <1>1, <1>2, <1>3, <1>4, <1>5, <1>6 DEF World

\* Every field of the store, of the step in hand and of the workers keeps its kind, the
\* bounds are kept to, and a session never gets more than the tasks there can be.
THEOREM TypeCorrect == Spec => []TypeOK
<1>1. TypeOK /\ [Next]_vars => TypeOK'
  <2>1. TypeOK /\ UNCHANGED vars => TypeOK'
    BY DEF TypeOK, vars
  <2> QED BY <2>1, StartingTypes, WatchingTypes, OwnerTypes, WorldTypes DEF Next
<1> QED BY <1>1, InitTypes, PTL DEF Spec

-----------------------------------------------------------------------------
(* The inductive invariant.                                                 *)

\* Numbers are given out in turn, and a session is of a ticket once it was launched.
Counted == \A s, t \in Workers : s < t /\ session[t].life # "none" => session[s].life # "none"
Nobody == \A s \in Workers : session[s].of \in Items <=> session[s].life # "none"
\* No session holds more receipts for its task than it was started and resumed.
Bounded == \A s \in Workers : Cardinality(session[s].tasks) <= 1 + session[s].resumed

\* The ids a ticket has saved are its own, of its attempt, and none before it starts.
Linked(i) ==
    /\ items[i].session # 0 =>
          /\ session[items[i].session].of = i
          /\ session[items[i].session].attempt = items[i].attempt
          /\ session[items[i].session].life \in {"up", "stopped"}
    /\ items[i].run # 0 => run[items[i].run].of = i
    /\ items[i].state = "waiting" => items[i].session = 0 /\ items[i].run = 0

\* What is known of a ticket at each await of its step.
Staged(i) ==
    /\ op.at # "idle" /\ op.i = i =>
          /\ items[i].state = "running" /\ items[i].starting
          /\ i \in Pipelines => op.at \in {"reserve", "enqueue", "record"}
          /\ i \notin Pipelines => op.at \in {"tree", "launch", "deliver", "confirm", "record"}
          /\ op.at \in {"tree", "launch", "reserve"} => items[i].session = 0 /\ items[i].run = 0
          /\ op.at = "launch" =>
                /\ op.s # 0 /\ session[op.s].of = i /\ session[op.s].attempt = items[i].attempt
                /\ session[op.s].tasks = {}
                /\ \A t \in Workers : session[t].of = i => t <= op.s
          /\ op.at \in {"deliver", "confirm"} => op.s # 0 /\ items[i].session = op.s
          /\ op.at = "enqueue" => items[i].run # 0
    /\ At("confirm", i) \/ At("record", i) \/ (items[i].state = "running" /\ ~items[i].starting) =>
          (i \notin Pipelines => items[i].session # 0 /\ Task(i) \in session[items[i].session].tasks)

\* A launch under way is the one the step waits for, a late one has no task, and what has
\* one is the ticket's session, or of an earlier attempt, or stopped.
Aged(i) == \A s \in Workers : session[s].of = i =>
    /\ session[s].attempt <= items[i].attempt
    /\ session[s].life = "called" => At("launch", i) /\ op.s = s
    /\ session[s].life \in {"called", "late", "lateup", "stray"} => session[s].tasks = {}
    /\ \/ session[s].tasks = {} \/ s = items[i].session
       \/ session[s].attempt < items[i].attempt \/ session[s].life = "stopped"

\* While a start is under way there is room for one more copy.
Told(i) ==
    items[i].state = "running" /\ items[i].starting /\ items[i].session # 0 =>
        Cardinality(session[items[i].session].tasks \cup {Task(i)}) <= 1 + session[items[i].session].resumed

\* Unless the owner overlooked a worker: what is up in the folder of the attempt is the
\* session the ticket has saved, launches or will find again.
Up(i) == {s \in Workers : session[s].of = i /\ session[s].life = "up"}
Sole(i) == i \notin overlooked =>
    /\ \A s, t \in Up(i) : session[s].attempt = session[t].attempt => s = t
    /\ \A s \in Up(i) : session[s].attempt = items[i].attempt =>
          /\ items[i].state # "waiting" /\ ~At("tree", i)
          /\ items[i].session # 0 => s = items[i].session
          /\ At("launch", i) => s = op.s
          /\ items[i].session = 0 /\ items[i].state = "running" /\ items[i].starting =>
                \A t \in Workers : session[t].of = i /\ session[t].attempt = session[s].attempt => t <= s
    /\ \A r \in Workers : run[r].of = i /\ Working(r) => r = items[i].run

Mine(i) == Linked(i) /\ Staged(i) /\ Aged(i) /\ Told(i) /\ Sole(i)
Whole == Counted /\ Nobody /\ Bounded /\ \A i \in Items : Mine(i)

LEMMA Known ==
    ASSUME TypeOK
    PROVE  /\ \A i \in Items : /\ items[i] \in Ticket /\ items[i].session \in 0..MaxWorkers
                               /\ items[i].run \in 0..MaxWorkers /\ items[i].attempt \in Nat
                               /\ items[i].starting \in BOOLEAN /\ items[i].state \in States
                               /\ i # NoTicket
                               /\ items[i].session # 0 => items[i].session \in Workers
                               /\ items[i].run # 0 => items[i].run \in Workers
           /\ \A s \in Workers : /\ session[s] \in Coding /\ session[s].attempt \in Nat /\ s \in Nat /\ s # 0
                                 /\ session[s].of \in Items \cup {NoTicket} /\ session[s].resumed \in Nat
                                 /\ session[s].tasks \subseteq Ids
           /\ \A r \in Workers : run[r] \in Reserved
           /\ op.s \in 0..MaxWorkers /\ (op.s # 0 => op.s \in Workers)
<1>1. \A i \in Items : items[i] \in Ticket
  BY DEF TypeOK
<1>2. \A s \in Workers : session[s] \in Coding /\ run[s] \in Reserved
  BY DEF TypeOK
<1>3. op.s \in 0..MaxWorkers
  BY DEF TypeOK
<1>4. \A n \in 0..MaxWorkers : n # 0 => n \in Workers
  BY Bounds DEF Workers
<1>5. \A s \in Workers : s \in Nat /\ s # 0
  BY DEF Workers
<1> QED BY <1>1, <1>2, <1>3, <1>4, <1>5, SequenceAssumption DEF Ticket, Coding

LEMMA InitWhole == Init => Whole
<1> SUFFICES ASSUME Init PROVE Whole
  OBVIOUS
<1>1. TypeOK
  BY InitTypes
<1>2. \A s \in Workers : session[s] = NoSession /\ run[s] = NoRun
  BY DEF Init
<1>3. \A s \in Workers : /\ session[s].of = NoTicket /\ session[s].life = "none" /\ session[s].tasks = {}
                         /\ session[s].resumed = 0 /\ run[s].of = NoTicket
  BY <1>2 DEF NoSession, NoRun
<1>4. \A i \in Items : items[i] = Fresh
  BY DEF Init
<1>5. \A i \in Items : items[i].session = 0 /\ items[i].run = 0 /\ items[i].state = "waiting"
  BY <1>4 DEF Fresh
<1>6. op.at = "idle"
  BY DEF Init, Idle
<1>7. Counted /\ Nobody
  BY <1>1, <1>3, SequenceAssumption DEF Counted, Nobody
<1>8. Bounded
  <2>1. \A s \in Workers : Cardinality(session[s].tasks) = 0 /\ session[s].resumed = 0
    BY <1>3, FS_EmptySet
  <2> QED BY <2>1 DEF Bounded
<1>9. ASSUME NEW i \in Items PROVE Mine(i)
  <2>1. \A s \in Workers : session[s].of # i /\ run[s].of # i
    BY <1>1, <1>3, Known
  <2>2. Linked(i) /\ Staged(i) /\ Aged(i) /\ Told(i)
    BY <1>5, <1>6, <2>1 DEF Linked, Staged, Aged, Told, At
  <2>3. Sole(i)
    BY <2>1 DEF Sole, Up
  <2> QED BY <2>2, <2>3 DEF Mine
<1> QED BY <1>7, <1>8, <1>9 DEF Whole

-----------------------------------------------------------------------------
(* The tickets a step is not about.                                         *)

\* A step of ticket i writes what is i's, or takes a new number for it.
Own(i) ==
    /\ \A j \in Items : j # i => items'[j] = items[j]
    /\ op.at = "idle" \/ op.i = i
    /\ op'.at = "idle" \/ op'.i = i
    /\ \A s \in Workers : session'[s] = session[s] \/ (session[s].of \in {i, NoTicket} /\ session'[s].of = i)
    /\ \A r \in Workers : run'[r] = run[r] \/ (run[r].of \in {i, NoTicket} /\ run'[r].of = i)
    /\ \A j \in Items : j # i => (j \in overlooked <=> j \in overlooked')

LEMMA OthersRest ==
    ASSUME TypeOK, NEW i \in Items, Own(i), NEW j \in Items, j # i, Mine(j)
    PROVE  Mine(j)'
<1>1. items'[j] = items[j] /\ (j \in overlooked <=> j \in overlooked')
  BY DEF Own
<1>2. ~(op.at # "idle" /\ op.i = j) /\ ~(op'.at # "idle" /\ op'.i = j)
  BY DEF Own
<1>3. \A s \in Workers : (session'[s].of = j <=> session[s].of = j) /\ (session[s].of = j => session'[s] = session[s])
  BY Known DEF Own
<1>4. \A r \in Workers : (run'[r].of = j <=> run[r].of = j) /\ (run[r].of = j => run'[r] = run[r])
  BY Known DEF Own
<1>5. (items[j].session # 0 => items[j].session \in Workers) /\ (items[j].run # 0 => items[j].run \in Workers)
  BY Known
<1>6. Linked(j)'
  BY <1>1, <1>3, <1>4, <1>5 DEF Mine, Linked
<1>7. \A p \in Places : p # "idle" => ~At(p, j) /\ ~At(p, j)'
  BY <1>2 DEF At
<1>t. items[j].session # 0 => session[items[j].session].of = j
  BY DEF Mine, Linked
<1>k. Task(j)' = Task(j)
  BY <1>1 DEF Task
<1>8. Staged(j)'
  BY <1>1, <1>2, <1>3, <1>5, <1>7, <1>t, <1>k DEF Mine, Staged, Places
<1>9. Aged(j)'
  BY <1>1, <1>3, <1>7 DEF Mine, Aged, Places
<1>10. Told(j)'
  BY <1>1, <1>3, <1>5, <1>t, <1>k DEF Mine, Told
<1>11. Sole(j)'
  <2>1. Up(j)' = Up(j)
    BY <1>3 DEF Up
  <2>2. \A s \in Up(j) : s \in Workers /\ session'[s] = session[s]
    BY <1>3 DEF Up
  <2>3. \A r \in Workers : (run[r].of = j /\ Working(r)) <=> (run'[r].of = j /\ Working(r)')
    BY <1>4 DEF Working
  <2> QED BY <1>1, <1>3, <1>7, <2>1, <2>2, <2>3 DEF Mine, Sole, Places
<1> QED BY <1>6, <1>8, <1>9, <1>10, <1>11 DEF Mine

LEMMA Together ==
    ASSUME TypeOK, Whole, NEW i \in Items, Own(i), Mine(i)', Counted', Nobody', Bounded'
    PROVE  Whole'
BY OthersRest DEF Whole

\* Nobody gets a number, and no session changes hands.
LEMMA SameNumbers ==
    ASSUME Counted, Nobody,
           \A s \in Workers : /\ session'[s].of = session[s].of
                              /\ session'[s].life = "none" <=> session[s].life = "none"
    PROVE  Counted' /\ Nobody'
BY DEF Counted, Nobody

LEMMA Copies ==
    ASSUME TypeOK, NEW s \in Workers, NEW x
    PROVE  /\ IsFiniteSet(session[s].tasks) /\ Cardinality(session[s].tasks) \in Nat
           /\ Cardinality(session[s].tasks \cup {x}) \in Nat
           /\ Cardinality(session[s].tasks \cup {x}) <= Cardinality(session[s].tasks) + 1
           /\ session[s].tasks = {} => Cardinality(session[s].tasks \cup {x}) = 1
<1>1. IsFiniteSet(Ids)
  <2>1. 0 \in Int /\ MaxRetries \in Int /\ MaxCrashes \in Int
    BY Bounds
  <2>2. IsFiniteSet(0..MaxRetries) /\ IsFiniteSet(0..MaxCrashes)
    BY <2>1, FS_Interval
  <2> QED BY <2>2, FS_Product DEF Ids
<1>2. IsFiniteSet(session[s].tasks)
  BY <1>1, Known, FS_Subset
<1>3. Cardinality(session[s].tasks) \in Nat
  BY <1>2, FS_CardinalityType
<1>4. Cardinality(session[s].tasks \cup {x}) =
         IF x \in session[s].tasks THEN Cardinality(session[s].tasks) ELSE Cardinality(session[s].tasks) + 1
  BY <1>2, FS_AddElement
<1>5. session[s].tasks = {} => Cardinality(session[s].tasks) = 0 /\ x \notin session[s].tasks
  BY FS_EmptySet
<1> QED BY <1>2, <1>3, <1>4, <1>5

\* How a session changes when the step of ticket i ends: nothing of it is new, and what
\* it may get is a copy of the task, when it is the ticket's.
Lesser(i, s) ==
    /\ session'[s].of = session[s].of /\ session'[s].attempt = session[s].attempt
    /\ session'[s].resumed = session[s].resumed
    /\ session'[s].tasks = session[s].tasks \/ s = items[i].session
    /\ session[s].life = "none" <=> session'[s].life = "none"
    /\ session[s].life = "stopped" => session'[s].life = "stopped"
    /\ session'[s].life = "called" => session[s].of # i
    /\ \/ session'[s].life \in {session[s].life, "stopped"}
       \/ s # items[i].session /\ session'[s].life \in {"late", "lateup"} /\ session'[s].tasks = {}

\* The step is over and the ticket is out of its start.
LEMMA Settles ==
    ASSUME TypeOK, Whole, NEW i \in Items, Own(i), Bounded', op'.at = "idle",
           items'[i].session = items[i].session, items'[i].run = items[i].run,
           items'[i].attempt = items[i].attempt, items'[i].state # "waiting",
           items'[i].state = "running" =>
               /\ ~items'[i].starting
               /\ i \notin Pipelines => items'[i].session # 0 /\ Task(i)' \in session'[items'[i].session].tasks,
           \A s \in Workers : Lesser(i, s),
           run' = run, i \in overlooked => i \in overlooked'
    PROVE  Whole'
<1>1. Mine(i) /\ Counted /\ Nobody
  BY DEF Whole
<1>2. Counted' /\ Nobody'
  BY <1>1, SameNumbers DEF Lesser
<1>3. (items[i].session # 0 => items[i].session \in Workers) /\ (items[i].run # 0 => items[i].run \in Workers)
  BY Known
<1>4. Linked(i)'
  BY <1>1, <1>3 DEF Mine, Linked, Lesser
<1>5. \A p \in Places : p # "idle" => ~At(p, i)'
  BY DEF At
<1>6. Staged(i)'
  BY <1>5 DEF Staged, Places
<1>7. Aged(i)'
  <2> SUFFICES ASSUME NEW s \in Workers, session'[s].of = i
               PROVE  /\ session'[s].attempt <= items'[i].attempt
                      /\ session'[s].life # "called"
                      /\ session'[s].life \in {"late", "lateup", "stray"} => session'[s].tasks = {}
                      /\ session'[s].tasks = {} \/ s = items'[i].session
                         \/ session'[s].attempt < items'[i].attempt \/ session'[s].life = "stopped"
    BY DEF Aged
  <2>1. Lesser(i, s) /\ session[s].of = i
    BY DEF Lesser
  <2>2. s = items[i].session => session[s].life \in {"up", "stopped"}
    BY <1>1, Known DEF Mine, Linked
  <2>3. session'[s].life \in {"late", "lateup", "stray"} => session'[s].tasks = {}
    BY <1>1, <2>1, <2>2 DEF Mine, Aged, Lesser
  <2>4. /\ session'[s].attempt <= items'[i].attempt /\ session'[s].life # "called"
        /\ session'[s].tasks = {} \/ s = items'[i].session
           \/ session'[s].attempt < items'[i].attempt \/ session'[s].life = "stopped"
    BY <1>1, <2>1 DEF Mine, Aged, Lesser
  <2> QED BY <2>3, <2>4
<1>8. Told(i)'
  BY DEF Told
<1>9. Sole(i)'
  <2>1. Up(i)' \subseteq Up(i) /\ Up(i) \subseteq Workers
    BY DEF Up, Lesser
  <2>2. \A s \in Workers : session'[s].attempt = session[s].attempt /\ session'[s].of = session[s].of
    BY DEF Lesser
  <2>3. \A r \in Workers : Working(r)' = Working(r)
    BY DEF Working
  <2> QED BY <1>1, <1>5, <2>1, <2>2, <2>3 DEF Mine, Sole, Places
<1>10. Mine(i)'
  BY <1>4, <1>6, <1>7, <1>8, <1>9 DEF Mine
<1> QED BY <1>2, <1>10, Together

\* So it is with a step that touches the ticket alone.
LEMMA OwnAlone ==
    ASSUME TypeOK, NEW i \in Items, NEW rec, Save(i, rec),
           op.at = "idle" \/ op.i = i, op'.at = "idle" \/ op'.i = i,
           session' = session, run' = run, overlooked' = overlooked
    PROVE  Own(i)
BY Saved DEF Own

LEMMA SettlesAlone ==
    ASSUME TypeOK, Whole, NEW i \in Items, NEW rec \in Ticket, Save(i, rec),
           op.at # "launch", op.at = "idle" \/ op.i = i, op'.at = "idle",
           session' = session, run' = run, overlooked' = overlooked,
           rec.session = items[i].session, rec.run = items[i].run, rec.attempt = items[i].attempt,
           rec.state # "waiting",
           rec.state = "running" =>
               /\ ~rec.starting
               /\ i \notin Pipelines => rec.session # 0 /\ <<rec.watch, 0>> \in session[rec.session].tasks
    PROVE  Whole'
<1>1. Own(i)
  BY OwnAlone
<1>2. Bounded'
  BY DEF Whole, Bounded
<1>3. items'[i] = rec
  BY Saved
<1>4. Mine(i)
  BY DEF Whole
<1>5. \A s \in Workers : Lesser(i, s)
  BY <1>4 DEF Lesser, Mine, Aged, At
<1>6. Task(i)' = <<rec.watch, 0>>
  BY <1>3 DEF Task
<1>7. items'[i].state = "running" =>
               /\ ~items'[i].starting
               /\ i \notin Pipelines => items'[i].session # 0 /\ Task(i)' \in session'[items'[i].session].tasks
  BY <1>3, <1>6
<1> QED BY <1>1, <1>2, <1>3, <1>5, <1>7, Settles

LEMMA Parks ==
    ASSUME TypeOK, NEW i \in Items, NEW y, y = Parked(i)
    PROVE  /\ y \in Ticket /\ y.state = "needs-owner"
           /\ y.session = items[i].session /\ y.run = items[i].run /\ y.attempt = items[i].attempt
<1>1. PICK x \in Ticket : x = items[i]
  BY Known
<1>2. y = [x EXCEPT !.state = "needs-owner", !.starting = FALSE]
  BY <1>1 DEF Parked
<1>3. \A z \in Ticket : LET w == [z EXCEPT !.state = "needs-owner", !.starting = FALSE]
                        IN  /\ w.state = "needs-owner" /\ w.session = z.session
                            /\ w.run = z.run /\ w.attempt = z.attempt
  BY DEF Ticket
<1>4. y \in Ticket
  BY UsedTypes
<1> QED BY <1>1, <1>2, <1>3, <1>4

LEMMA ParksAlone ==
    ASSUME TypeOK, Whole, NEW i \in Items, Park(i), op.at # "launch", op.at = "idle" \/ op.i = i,
           session' = session, run' = run, overlooked' = overlooked
    PROVE  Whole'
<1>1. PICK y : y = Parked(i)
  OBVIOUS
<1>2. Save(i, y) /\ op'.at = "idle"
  BY <1>1 DEF Park, End, Idle
<1> QED BY <1>1, <1>2, Parks, SettlesAlone

-----------------------------------------------------------------------------
(* The steps of a start.                                                    *)

\* What stays of a ticket when a step of its own goes on beside the workers.
LEMMA SameWorkers ==
    ASSUME TypeOK, NEW i \in Items, session' = session, run' = run, overlooked' = overlooked
    PROVE  /\ Up(i)' = Up(i) /\ Up(i) \subseteq Workers
           /\ \A r \in Workers : Working(r)' = Working(r)
BY DEF Up, Working

LEMMA StartKeeps ==
    ASSUME TypeOK, Whole, NEW i \in Items, Start(i)
    PROVE  Whole'
<1>1. PICK x \in Ticket : x = items[i]
  BY Known
<1>2. PICK y : y = [x EXCEPT !.state = "running", !.starting = TRUE, !.watch = 0]
  OBVIOUS
<1>3. Save(i, y) /\ items'[i] = y
  BY <1>1, <1>2, Saved DEF Start
<1>4. y.state = "running" /\ y.starting /\ y.session = x.session /\ y.run = x.run /\ y.attempt = x.attempt
  BY <1>2 DEF Ticket
<1>5. op.at = "idle" /\ x.state = "waiting" /\ x.session = 0 /\ x.run = 0
  BY <1>1 DEF Start, Step, Whole, Mine, Linked
<1>6. op'.i = i /\ op'.at = IF i \in Pipelines THEN "reserve" ELSE "tree"
  BY DEF Start, Go
<1>7. session' = session /\ run' = run /\ overlooked' = overlooked
  BY DEF Start
<1>8. Own(i)
  BY <1>3, <1>5, <1>6, <1>7, OwnAlone
<1>9. Mine(i)
  BY DEF Whole
<1>10. Linked(i)' /\ Staged(i)' /\ Told(i)'
  BY <1>3, <1>4, <1>5, <1>6 DEF Linked, Staged, Told, At
<1>11. Aged(i)'
  BY <1>1, <1>3, <1>4, <1>5, <1>7, <1>9 DEF Mine, Aged, At
<1>12. Sole(i)'
  BY <1>1, <1>3, <1>4, <1>5, <1>7, <1>9, SameWorkers DEF Mine, Sole
<1>13. Counted' /\ Nobody' /\ Bounded'
  BY <1>7 DEF Whole, Counted, Nobody, Bounded
<1> QED BY <1>8, <1>10, <1>11, <1>12, <1>13, Together DEF Mine

LEMMA LaunchKeeps ==
    ASSUME TypeOK, Whole, NEW i \in Items, Launch(i)
    PROVE  Whole'
<1>1. PICK x \in Ticket : x = items[i]
  BY Known
<1>2. PICK s \in FreshSession :
         /\ session' = [session EXCEPT ![s] = [NoSession EXCEPT
                          !.of = i, !.attempt = items[i].attempt, !.life = "called"]]
         /\ Go("launch", i, s)
  BY DEF Launch
<1>3. PICK y : y = [x EXCEPT !.tree = TRUE]
  OBVIOUS
<1>4. Save(i, y) /\ items'[i] = y
  BY <1>1, <1>3, Saved DEF Launch
<1>5. y.state = x.state /\ y.starting = x.starting /\ y.session = x.session /\ y.run = x.run /\ y.attempt = x.attempt
  BY <1>3 DEF Ticket
<1>6. s \in Workers /\ session[s].life = "none" /\ \A k \in 1..(s - 1) : session[k].life # "none"
  BY DEF FreshSession
<1>7. op.at = "tree" /\ op.i = i /\ op'.at = "launch" /\ op'.i = i /\ op'.s = s
  BY <1>2 DEF Launch, At, Go
<1>8. run' = run /\ overlooked' = overlooked
  BY DEF Launch
<1>9. session'[s].of = i /\ session'[s].attempt = x.attempt /\ session'[s].life = "called" /\ session'[s].tasks = {} /\ session'[s].resumed = 0
  <2>1. session'[s] = [NoSession EXCEPT !.of = i, !.attempt = x.attempt, !.life = "called"]
    BY <1>1, <1>2, <1>6 DEF TypeOK
  <2> QED BY <2>1 DEF NoSession
<1>10. \A t \in Workers : t # s => session'[t] = session[t]
  BY <1>2 DEF TypeOK
<1>11. Mine(i) /\ Counted /\ Nobody /\ Bounded
  BY DEF Whole
<1>12. session[s].of = NoTicket
  BY <1>6, <1>11, Known DEF Nobody
<1>13. Own(i)
  <2>1. \A j \in Items : j # i => items'[j] = items[j]
    BY <1>4, Saved
  <2> QED BY <1>7, <1>8, <1>9, <1>10, <1>12, <2>1 DEF Own
<1>14. x.state = "running" /\ x.starting /\ x.session = 0 /\ x.run = 0 /\ i \notin Pipelines
  BY <1>1, <1>7, <1>11 DEF Mine, Staged
<1>15. \A t \in Workers : session[t].life # "none" => t < s
  <2>1. \A t \in Workers : s < t => session[t].life = "none"
    BY <1>6, <1>11 DEF Counted
  <2> QED BY <1>6, <2>1 DEF Workers
<1>16. \A t \in Workers : session'[t].of = i => t <= s
  <2>1. \A t \in Workers : session[t].of = i => t < s
    BY <1>11, <1>15 DEF Nobody
  <2>2. \A t \in Workers : t < s \/ t = s => t <= s
    BY <1>6 DEF Workers
  <2> QED BY <1>10, <2>1, <2>2
<1>17. Linked(i)' /\ Told(i)'
  BY <1>4, <1>5, <1>14 DEF Linked, Told
<1>18. Staged(i)'
  BY <1>1, <1>4, <1>5, <1>6, <1>7, <1>9, <1>14, <1>16, Known DEF Staged, At
<1>19. Aged(i)'
  <2> SUFFICES ASSUME NEW t \in Workers, session'[t].of = i
               PROVE  /\ session'[t].attempt <= y.attempt
                      /\ session'[t].life = "called" => t = s
                      /\ session'[t].life \in {"called", "late", "lateup", "stray"} => session'[t].tasks = {}
                      /\ session'[t].tasks = {} \/ t = y.session
                         \/ session'[t].attempt < y.attempt \/ session'[t].life = "stopped"
    BY <1>4, <1>7 DEF Aged, At
  <2>1. CASE t = s
    BY <1>1, <1>5, <1>9, <2>1, Known
  <2>2. CASE t # s
    BY <1>1, <1>5, <1>7, <1>10, <1>11, <2>2 DEF Mine, Aged, At
  <2> QED BY <2>1, <2>2
<1>20. Sole(i)'
  <2>1. Up(i)' = Up(i) /\ s \notin Up(i)
    BY <1>6, <1>9, <1>10 DEF Up
  <2>2. i \notin overlooked => \A t \in Up(i) : session[t].attempt # x.attempt
    BY <1>1, <1>7, <1>11 DEF Mine, Sole, At
  <2>3. \A t \in Up(i) : session'[t] = session[t]
    BY <1>10, <2>1 DEF Up
  <2>4. \A r \in Workers : Working(r)' = Working(r)
    BY <1>8 DEF Working
  <2> QED BY <1>1, <1>4, <1>5, <1>8, <1>11, <2>1, <2>2, <2>3, <2>4 DEF Mine, Sole
<1>21. Counted'
  BY <1>6, <1>9, <1>10, <1>11, <1>15 DEF Counted, Workers
<1>22. Nobody'
  BY <1>9, <1>10, <1>11 DEF Nobody
<1>23. Bounded'
  BY <1>9, <1>10, <1>11, FS_EmptySet DEF Bounded
<1> QED BY <1>13, <1>17, <1>18, <1>19, <1>20, <1>21, <1>22, <1>23, Together DEF Mine

\* A launch that fails or is not waited for any longer: the ticket has no session yet.
LEMMA LaunchEnds ==
    ASSUME TypeOK, Whole, NEW i \in Items, At("launch", i), Park(i),
           NEW l \in {"late", "lateup", "stopped", session[op.s].life},
           session[op.s].life = "called" => l # "called",
           session[op.s].life = "stopped" => l = "stopped",
           session' = [session EXCEPT ![op.s].life = l],
           run' = run, overlooked' = overlooked
    PROVE  Whole'
<1>1. Mine(i) /\ Bounded /\ Counted /\ Nobody
  BY DEF Whole
<1>2. /\ op.s \in Workers /\ session[op.s].of = i /\ items[i].session = 0
      /\ session[op.s].tasks = {} /\ op.at = "launch" /\ op.i = i
  BY <1>1, Known DEF Mine, Staged, At
<1>3. PICK x \in Coding : x = session[op.s]
  BY <1>2, Known
<1>4. session'[op.s] = [x EXCEPT !.life = l]
  BY <1>2, <1>3 DEF TypeOK
<1>5. /\ session'[op.s].life = l /\ session'[op.s].of = x.of /\ session'[op.s].attempt = x.attempt
      /\ session'[op.s].tasks = x.tasks /\ session'[op.s].resumed = x.resumed
  BY <1>4 DEF Coding
<1>6. \A t \in Workers : t # op.s => session'[t] = session[t]
  BY DEF TypeOK
<1>7. x.life # "none"
  BY <1>1, <1>2, <1>3 DEF Nobody
<1>8. \A s \in Workers : Lesser(i, s)
  <2> SUFFICES ASSUME NEW s \in Workers PROVE Lesser(i, s)
    OBVIOUS
  <2>1. CASE s = op.s
    BY <1>2, <1>3, <1>5, <1>7, <2>1, Known DEF Lesser
  <2>2. CASE s # op.s
    BY <1>1, <1>6, <2>2 DEF Lesser, Mine, Aged
  <2> QED BY <2>1, <2>2
<1>9. PICK y : y = Parked(i)
  OBVIOUS
<1>10. Save(i, y) /\ items'[i] = y /\ op'.at = "idle"
  BY <1>9, Saved DEF Park, End, Idle
<1>11. Own(i)
  <2>1. \A j \in Items : j # i => items'[j] = items[j]
    BY <1>10, Saved
  <2> QED BY <1>2, <1>3, <1>5, <1>6, <1>10, <2>1 DEF Own
<1>12. Bounded'
  BY <1>1, <1>8 DEF Bounded, Lesser
<1>13. y.state = "needs-owner" /\ y.session = items[i].session /\ y.run = items[i].run /\ y.attempt = items[i].attempt
  BY <1>9, Parks
<1> QED BY <1>8, <1>10, <1>11, <1>12, <1>13, Settles

LEMMA StartFailsKeeps ==
    ASSUME TypeOK, Whole, NEW i \in Items, StartFails(i)
    PROVE  Whole'
<1>1. Park(i) /\ run' = run /\ overlooked' = overlooked
  BY DEF StartFails
<1>2. CASE At("tree", i) /\ session' = session
  BY <1>1, <1>2, ParksAlone DEF At
<1>3. CASE /\ At("launch", i) /\ session[op.s].life = "called"
           /\ session' = [session EXCEPT ![op.s].life = "stopped"]
  BY <1>1, <1>3, LaunchEnds
<1> QED BY <1>2, <1>3 DEF StartFails

LEMMA LaunchTimesOutKeeps ==
    ASSUME TypeOK, Whole, NEW i \in Items, LaunchTimesOut(i)
    PROVE  Whole'
<1>1. PICK c : c = session[op.s].life
  OBVIOUS
<1>2. PICK l : l = CASE c = "called" -> "late" [] c = "up" -> "lateup" [] OTHER -> c
  OBVIOUS
<1>3. l \in {"late", "lateup", "stopped", c} /\ (c = "called" => l # "called") /\ (c = "stopped" => l = "stopped")
  BY <1>2
<1>4. session' = [session EXCEPT ![op.s].life = l]
  BY <1>1, <1>2 DEF LaunchTimesOut
<1>5. At("launch", i) /\ Park(i) /\ run' = run /\ overlooked' = overlooked
  BY DEF LaunchTimesOut
<1> QED BY <1>1, <1>3, <1>4, <1>5, LaunchEnds

LEMMA LaunchedKeeps ==
    ASSUME TypeOK, Whole, NEW i \in Items, Launched(i)
    PROVE  Whole'
<1>1. PICK x \in Ticket : x = items[i]
  BY Known
<1>2. PICK s : s = op.s
  OBVIOUS
<1>3. PICK y : y = [x EXCEPT !.session = s]
  OBVIOUS
<1>4. Save(i, y) /\ items'[i] = y
  BY <1>1, <1>2, <1>3, Saved DEF Launched
<1>5. y.state = x.state /\ y.starting = x.starting /\ y.session = s /\ y.run = x.run /\ y.attempt = x.attempt
      /\ y.watch = x.watch
  BY <1>3 DEF Ticket
<1>6. op.at = "launch" /\ op.i = i /\ op'.at = "deliver" /\ op'.i = i /\ op'.s = s
  BY <1>2 DEF Launched, At, Go
<1>7. session' = session /\ run' = run /\ overlooked' = overlooked
  BY DEF Launched
<1>8. Mine(i)
  BY DEF Whole
<1>9. /\ x.state = "running" /\ x.starting /\ i \notin Pipelines /\ x.session = 0 /\ x.run = 0
      /\ s \in Workers /\ s # 0 /\ session[s].of = i /\ session[s].attempt = x.attempt /\ session[s].tasks = {}
  BY <1>1, <1>2, <1>6, <1>8, Known DEF Mine, Staged
<1>10. session[s].life \in {"up", "stopped"}
  BY <1>2 DEF Launched
<1>11. Own(i)
  BY <1>4, <1>6, <1>7, OwnAlone
<1>12. Linked(i)'
  BY <1>4, <1>5, <1>7, <1>9, <1>10 DEF Linked
<1>13. Staged(i)'
  BY <1>4, <1>5, <1>6, <1>9 DEF Staged, At
<1>14. Aged(i)'
  <2> SUFFICES ASSUME NEW t \in Workers, session[t].of = i
               PROVE  /\ session[t].attempt <= y.attempt
                      /\ session[t].life # "called"
                      /\ session[t].life \in {"called", "late", "lateup", "stray"} => session[t].tasks = {}
                      /\ session[t].tasks = {} \/ t = y.session
                         \/ session[t].attempt < y.attempt \/ session[t].life = "stopped"
    BY <1>4, <1>7 DEF Aged
  <2>1. session[t].life = "called" => t = s
    BY <1>2, <1>8 DEF Mine, Aged
  <2> QED BY <1>1, <1>5, <1>8, <1>9, <1>10, <2>1, Known DEF Mine, Aged
<1>15. Told(i)'
  <2>1. Task(i)' = Task(i)
    BY <1>1, <1>4, <1>5 DEF Task
  <2>2. Cardinality(session[s].tasks \cup {Task(i)}) = 1
    BY <1>9, Copies
  <2>3. 1 <= 1 + session[s].resumed
    BY <1>9, Known
  <2> QED BY <1>4, <1>5, <1>7, <2>1, <2>2, <2>3 DEF Told
<1>16. Sole(i)'
  BY <1>1, <1>2, <1>4, <1>5, <1>6, <1>7, <1>8, <1>9, SameWorkers DEF Mine, Sole, At
<1>17. Counted' /\ Nobody' /\ Bounded'
  BY <1>7 DEF Whole, Counted, Nobody, Bounded
<1> QED BY <1>11, <1>12, <1>13, <1>14, <1>15, <1>16, <1>17, Together DEF Mine

\* The ticket's session may get a receipt for the task: there is room for it.
LEMMA Delivered ==
    ASSUME TypeOK, Whole, NEW i \in Items, At("deliver", i) \/ At("confirm", i)
    PROVE  /\ op.s \in Workers /\ session[op.s].of = i /\ items[i].session = op.s
           /\ items[i].state = "running" /\ items[i].starting
           /\ op.at = "deliver" => i \notin Pipelines
           /\ session[op.s].life \in {"up", "stopped"}
           /\ session[op.s].attempt = items[i].attempt
           /\ Cardinality(session[op.s].tasks \cup {Task(i)}) <= 1 + session[op.s].resumed
<1>1. Mine(i)
  BY DEF Whole
<1>2. /\ op.s \in Workers /\ op.s # 0 /\ items[i].session = op.s
      /\ items[i].state = "running" /\ items[i].starting /\ (op.at = "deliver" => i \notin Pipelines)
  BY <1>1, Known DEF Mine, Staged, At
<1>3. /\ session[op.s].of = i /\ session[op.s].attempt = items[i].attempt
      /\ session[op.s].life \in {"up", "stopped"}
  BY <1>1, <1>2 DEF Mine, Linked
<1> QED BY <1>1, <1>2, <1>3 DEF Mine, Told

LEMMA DeliverKeeps ==
    ASSUME TypeOK, Whole, NEW i \in Items, Deliver(i)
    PROVE  Whole'
<1>1. PICK s : s = op.s
  OBVIOUS
<1>2. op.at = "deliver" /\ op.i = i /\ op'.at = "confirm" /\ op'.i = i /\ op'.s = s
  BY <1>1 DEF Deliver, At, Go
<1>3. items' = items /\ run' = run /\ overlooked' = overlooked
  BY <1>1 DEF Deliver
<1>4. Mine(i) /\ Counted /\ Nobody /\ Bounded
  BY DEF Whole
<1>5. /\ s \in Workers /\ session[s].of = i /\ items[i].session = s /\ s # 0
      /\ items[i].state = "running" /\ items[i].starting /\ i \notin Pipelines
      /\ session[s].life \in {"up", "stopped"} /\ session[s].attempt = items[i].attempt
      /\ Cardinality(session[s].tasks \cup {Task(i)}) <= 1 + session[s].resumed
  BY <1>1, <1>2, Delivered, Known DEF At
<1>6. PICK x \in Coding : x = session[s]
  BY <1>5, Known
<1>7. session'[s] = [x EXCEPT !.tasks = @ \cup {Task(i)}]
  BY <1>1, <1>5, <1>6 DEF TypeOK, Deliver
<1>8. /\ session'[s].of = i /\ session'[s].attempt = x.attempt /\ session'[s].life = x.life
      /\ session'[s].tasks = x.tasks \cup {Task(i)} /\ session'[s].resumed = x.resumed
  BY <1>5, <1>6, <1>7 DEF Coding
<1>9. \A t \in Workers : t # s => session'[t] = session[t]
  BY <1>1 DEF TypeOK, Deliver
<1>10. \A t \in Workers : /\ session'[t].of = session[t].of /\ session'[t].attempt = session[t].attempt
                          /\ session'[t].life = session[t].life /\ session'[t].resumed = session[t].resumed
                          /\ session'[t].tasks = session[t].tasks \/ t = s
  BY <1>5, <1>6, <1>8, <1>9
<1>11. Own(i)
  BY <1>2, <1>3, <1>5, <1>8, <1>9 DEF Own
<1>12. Task(i)' = Task(i)
  BY <1>3 DEF Task
<1>13. Linked(i)'
  BY <1>3, <1>4, <1>5, <1>10 DEF Mine, Linked
<1>14. Staged(i)'
  BY <1>2, <1>3, <1>5, <1>8, <1>12 DEF Staged
<1>15. Aged(i)'
  BY <1>2, <1>3, <1>4, <1>5, <1>10 DEF Mine, Aged, At
<1>16. Told(i)'
  <2>1. x.tasks \cup {Task(i)} \cup {Task(i)} = x.tasks \cup {Task(i)}
    OBVIOUS
  <2> QED BY <1>3, <1>5, <1>6, <1>8, <1>12, <2>1 DEF Told
<1>17. Sole(i)'
  <2>1. Up(i)' = Up(i) /\ Up(i) \subseteq Workers
    BY <1>10 DEF Up
  <2>2. \A r \in Workers : Working(r)' = Working(r)
    BY <1>3 DEF Working
  <2> QED BY <1>2, <1>3, <1>4, <1>10, <2>1, <2>2 DEF Mine, Sole, At
<1>18. Counted' /\ Nobody'
  BY <1>4, <1>10, SameNumbers
<1>19. Bounded'
  BY <1>4, <1>5, <1>6, <1>8, <1>9 DEF Bounded
<1> QED BY <1>11, <1>13, <1>14, <1>15, <1>16, <1>17, <1>18, <1>19, Together DEF Mine

\* Whatever goes on has a receipt: reserved just now, or before.
LEMMA ConfirmedKeeps ==
    ASSUME TypeOK, Whole, NEW i \in Items, Confirmed(i)
    PROVE  Whole'
<1>1. op.at \in {"deliver", "confirm"} /\ op.i = i /\ op'.at = "record" /\ op'.i = i
  BY DEF Confirmed, At, Go
<1>2. items' = items /\ session' = session /\ run' = run /\ overlooked' = overlooked
  BY DEF Confirmed
<1>3. Mine(i)
  BY DEF Whole
<1>4. /\ op.s \in Workers /\ items[i].session = op.s
      /\ items[i].state = "running" /\ items[i].starting
  BY <1>1, Delivered DEF At
<1>5. (items[i].session # 0 /\ Task(i) \in session[items[i].session].tasks) \/ i \in Pipelines
  <2>1. op.s # 0
    BY <1>4, Known
  <2>2. CASE op.at = "confirm"
    BY <1>1, <1>3, <2>2 DEF Mine, Staged, At
  <2>3. CASE op.at = "deliver"
    BY <1>4, <2>1, <2>3 DEF Confirmed, At
  <2> QED BY <1>1, <2>2, <2>3
<1>6. Own(i)
  BY <1>1, <1>2 DEF Own
<1>7. Task(i)' = Task(i)
  BY <1>2 DEF Task
<1>8. Linked(i)' /\ Told(i)'
  BY <1>2, <1>3, <1>7 DEF Mine, Linked, Told
<1>9. Staged(i)'
  BY <1>1, <1>2, <1>4, <1>5, <1>7 DEF Staged
<1>10. Aged(i)'
  BY <1>1, <1>2, <1>3 DEF Mine, Aged, At
<1>11. Sole(i)'
  BY <1>1, <1>2, <1>3, SameWorkers DEF Mine, Sole, At
<1>12. Counted' /\ Nobody' /\ Bounded'
  BY <1>2 DEF Whole, Counted, Nobody, Bounded
<1> QED BY <1>6, <1>8, <1>9, <1>10, <1>11, <1>12, Together DEF Mine

LEMMA NotDeliveredKeeps ==
    ASSUME TypeOK, Whole, NEW i \in Items, NotDelivered(i)
    PROVE  Whole'
<1>1. PICK s : s = op.s
  OBVIOUS
<1>2. op.at \in {"deliver", "confirm"} /\ op.i = i
  BY DEF NotDelivered, At
<1>3. Park(i) /\ run' = run /\ overlooked' = overlooked
  BY DEF NotDelivered
<1>4. Mine(i) /\ Counted /\ Nobody /\ Bounded
  BY DEF Whole
<1>5. /\ s \in Workers /\ session[s].of = i /\ items[i].session = s
      /\ session[s].life \in {"up", "stopped"}
      /\ Cardinality(session[s].tasks \cup {Task(i)}) <= 1 + session[s].resumed
  BY <1>1, <1>2, Delivered DEF At
<1>6. PICK stopped \in BOOLEAN, reserved \in BOOLEAN :
         session' = [session EXCEPT
                        ![s].life = IF stopped THEN "stopped" ELSE @,
                        ![s].tasks = IF reserved THEN @ \cup {Task(i)} ELSE @]
  BY <1>1 DEF NotDelivered
<1>7. PICK x \in Coding : x = session[s]
  BY <1>5, Known
<1>8. /\ session'[s].of = x.of /\ session'[s].attempt = x.attempt /\ session'[s].resumed = x.resumed
      /\ session'[s].life = IF stopped THEN "stopped" ELSE x.life
      /\ session'[s].tasks = IF reserved THEN x.tasks \cup {Task(i)} ELSE x.tasks
  BY <1>5, <1>6, <1>7 DEF TypeOK, Coding
<1>9. \A t \in Workers : t # s => session'[t] = session[t]
  BY <1>6 DEF TypeOK
<1>10. \A t \in Workers : Lesser(i, t)
  <2> SUFFICES ASSUME NEW t \in Workers PROVE Lesser(i, t)
    OBVIOUS
  <2>1. CASE t = s
    BY <1>5, <1>7, <1>8, <2>1 DEF Lesser
  <2>2. CASE t # s
    BY <1>2, <1>4, <1>9, <2>2 DEF Lesser, Mine, Aged, At
  <2> QED BY <2>1, <2>2
<1>11. Bounded'
  BY <1>4, <1>5, <1>7, <1>8, <1>9 DEF Bounded
<1>12. PICK y : y = Parked(i)
  OBVIOUS
<1>13. Save(i, y) /\ items'[i] = y /\ op'.at = "idle"
  BY <1>3, <1>12, Saved DEF Park, End, Idle
<1>14. Own(i)
  <2>1. \A j \in Items : j # i => items'[j] = items[j]
    BY <1>13, Saved
  <2> QED BY <1>2, <1>3, <1>5, <1>7, <1>8, <1>9, <1>13, <2>1 DEF Own
<1>15. y.state = "needs-owner" /\ y.session = items[i].session /\ y.run = items[i].run /\ y.attempt = items[i].attempt
  BY <1>12, Parks
<1> QED BY <1>3, <1>10, <1>11, <1>13, <1>14, <1>15, Settles

LEMMA RecordedKeeps ==
    ASSUME TypeOK, Whole, NEW i \in Items, Recorded(i)
    PROVE  Whole'
<1>1. PICK x \in Ticket : x = items[i]
  BY Known
<1>2. PICK y : y = [x EXCEPT !.starting = FALSE]
  OBVIOUS
<1>3. Save(i, y) /\ y \in Ticket
  BY <1>1, <1>2, Tickets DEF Recorded
<1>4. y.state = x.state /\ y.session = x.session /\ y.run = x.run /\ y.attempt = x.attempt /\ y.watch = x.watch
      /\ ~y.starting
  BY <1>2 DEF Ticket
<1>5. op.at = "record" /\ op.i = i /\ op'.at = "idle"
  BY DEF Recorded, At, End, Idle
<1>6. session' = session /\ run' = run /\ overlooked' = overlooked
  BY DEF Recorded
<1>7. x.state = "running" /\ (i \notin Pipelines => x.session # 0 /\ <<x.watch, 0>> \in session[x.session].tasks)
  BY <1>1, <1>5 DEF Whole, Mine, Staged, At, Task
<1> QED BY <1>1, <1>3, <1>4, <1>5, <1>6, <1>7, SettlesAlone

LEMMA ReserveKeeps ==
    ASSUME TypeOK, Whole, NEW i \in Items, Reserve(i)
    PROVE  Whole'
<1>1. op.at = "reserve" /\ op.i = i /\ session' = session /\ overlooked' = overlooked
  BY DEF Reserve, At
<1>2. CASE FreshRun = {}
  BY <1>1, <1>2, ParksAlone DEF Reserve
<1>3. CASE FreshRun # {}
  <2>1. PICK r \in FreshRun :
           run' = [run EXCEPT ![r].of = i] /\ Save(i, [items[i] EXCEPT !.run = r]) /\ Go("enqueue", i, 0)
    BY <1>3 DEF Reserve
  <2>2. PICK x \in Ticket : x = items[i]
    BY Known
  <2>3. PICK y : y = [x EXCEPT !.run = r]
    OBVIOUS
  <2>4. Save(i, y) /\ items'[i] = y
    BY <2>1, <2>2, <2>3, Saved
  <2>5. y.state = x.state /\ y.starting = x.starting /\ y.session = x.session /\ y.run = r /\ y.attempt = x.attempt
    BY <2>3 DEF Ticket
  <2>6. r \in Workers /\ run[r].of = NoTicket /\ r # 0
    BY DEF FreshRun, Workers
  <2>7. op'.at = "enqueue" /\ op'.i = i
    BY <2>1 DEF Go
  <2>8. run'[r].of = i
    BY <2>1, <2>6, Known DEF TypeOK, Reserved
  <2>9. \A q \in Workers : q # r => run'[q] = run[q]
    BY <2>1 DEF TypeOK
  <2>10. Mine(i)
    BY DEF Whole
  <2>11. x.state = "running" /\ x.starting /\ x.session = 0 /\ x.run = 0 /\ i \in Pipelines
    BY <1>1, <2>2, <2>10 DEF Mine, Staged
  <2>12. Own(i)
    <3>1. \A j \in Items : j # i => items'[j] = items[j]
      BY <2>4, Saved
    <3> QED BY <1>1, <2>6, <2>7, <2>8, <2>9, <3>1 DEF Own
  <2>13. Linked(i)' /\ Told(i)'
    BY <2>4, <2>5, <2>8, <2>11 DEF Linked, Told
  <2>14. Staged(i)'
    BY <2>4, <2>5, <2>6, <2>7, <2>11 DEF Staged, At
  <2>15. Aged(i)'
    BY <1>1, <2>2, <2>4, <2>5, <2>10, <2>11 DEF Mine, Aged, At
  <2>16. Sole(i)'
    <3>1. Up(i)' = Up(i)
      BY <1>1 DEF Up
    <3>2. \A q \in Workers : q # r => Working(q)' = Working(q)
      BY <2>9 DEF Working
    <3>3. i \notin overlooked => \A q \in Workers : (run'[q].of = i /\ Working(q)') => q = r
      <4>1. i \notin overlooked => \A q \in Workers : ~(run[q].of = i /\ Working(q))
        <5>1. \A q \in Workers : q # 0
          BY Known
        <5> QED BY <2>2, <2>10, <2>11, <5>1 DEF Mine, Sole
      <4> QED BY <2>9, <3>2, <4>1
    <3> QED BY <1>1, <2>2, <2>4, <2>5, <2>7, <2>10, <3>1, <3>3 DEF Mine, Sole, At
  <2>17. Counted' /\ Nobody' /\ Bounded'
    BY <1>1 DEF Whole, Counted, Nobody, Bounded
  <2> QED BY <2>12, <2>13, <2>14, <2>15, <2>16, <2>17, Together DEF Mine
<1> QED BY <1>2, <1>3

LEMMA EnqueueKeeps ==
    ASSUME TypeOK, Whole, NEW i \in Items, Enqueue(i)
    PROVE  Whole'
<1>1. op.at = "enqueue" /\ op.i = i /\ op'.at = "record" /\ op'.i = i
      /\ items' = items /\ session' = session /\ overlooked' = overlooked
  BY DEF Enqueue, At, Go
<1>2. Mine(i)
  BY DEF Whole
<1>3. PICK r : r = items[i].run
  OBVIOUS
<1>4. /\ items[i].state = "running" /\ items[i].starting /\ i \in Pipelines
      /\ r \in Workers /\ run[r].of = i
  BY <1>1, <1>2, <1>3, Known DEF Mine, Staged, Linked
<1>5. run' = [run EXCEPT ![r].life = "queued"]
  BY <1>3 DEF Enqueue
<1>6. PICK x \in Reserved : x = run[r]
  BY <1>4, Known
<1>7. run'[r] = [x EXCEPT !.life = "queued"]
  BY <1>4, <1>5, <1>6 DEF TypeOK
<1>8. run'[r].of = i
  BY <1>4, <1>6, <1>7 DEF Reserved
<1>9. \A q \in Workers : q # r => run'[q] = run[q]
  BY <1>5 DEF TypeOK
<1>10. Own(i)
  BY <1>1, <1>4, <1>8, <1>9 DEF Own
<1>11. Task(i)' = Task(i)
  BY <1>1 DEF Task
<1>12. Linked(i)'
  BY <1>1, <1>2, <1>3, <1>4, <1>8 DEF Mine, Linked
<1>13. Staged(i)'
  BY <1>1, <1>4 DEF Staged
<1>14. Aged(i)'
  BY <1>1, <1>2 DEF Mine, Aged, At
<1>15. Told(i)'
  BY <1>1, <1>2, <1>11 DEF Mine, Told
<1>16. Sole(i)'
  <2>1. Up(i)' = Up(i)
    BY <1>1 DEF Up
  <2>2. i \notin overlooked => \A q \in Workers : (run'[q].of = i /\ Working(q)') => q = r
    <3>1. \A q \in Workers : q # r => Working(q)' = Working(q)
      BY <1>9 DEF Working
    <3> QED BY <1>2, <1>3, <1>9, <3>1 DEF Mine, Sole
  <2> QED BY <1>1, <1>2, <1>3, <2>1, <2>2 DEF Mine, Sole, At
<1>17. Counted' /\ Nobody' /\ Bounded'
  BY <1>1 DEF Whole, Counted, Nobody, Bounded
<1> QED BY <1>10, <1>12, <1>13, <1>14, <1>15, <1>16, <1>17, Together DEF Mine

\* A session that answers is taken up again: the ticket's own, or the newest in the folder
\* of an attempt that has none, which is then the only one up there.
LEMMA ResumeKeeps ==
    ASSUME TypeOK, Whole, NEW i \in Items, Resume(i) \/ ResumeSkips(i)
    PROVE  Whole'
<1>1. op.at = "idle" /\ items[i].state = "running" /\ items[i].starting /\ i \notin Pipelines
      /\ run' = run /\ overlooked' = overlooked
  BY DEF Resume, ResumeSkips, Interrupted, Step
<1>2. CASE Adoptable(i) = {}
  <2>1. Park(i) /\ session' = session
    BY <1>2 DEF Resume, ResumeSkips
  <2> QED BY <1>1, <2>1, ParksAlone
<1>3. CASE Adoptable(i) # {}
  <2>1. PICK s \in Adoptable(i) :
           /\ Save(i, [items[i] EXCEPT !.session = s]) /\ (Go("deliver", i, s) \/ End)
           /\ session' = [session EXCEPT ![s].life = "up"]
    BY <1>3 DEF Resume, ResumeSkips
  <2>2. PICK x \in Ticket : x = items[i]
    BY Known
  <2>3. PICK y : y = [x EXCEPT !.session = s]
    OBVIOUS
  <2>4. Save(i, y) /\ items'[i] = y
    BY <2>1, <2>2, <2>3, Saved
  <2>5. y.state = x.state /\ y.starting = x.starting /\ y.session = s /\ y.run = x.run /\ y.attempt = x.attempt
        /\ y.watch = x.watch
    BY <2>3 DEF Ticket
  <2>6. (op'.at = "deliver" /\ op'.i = i /\ op'.s = s) \/ op'.at = "idle"
    BY <2>1 DEF Go, End, Idle
  <2>7. Mine(i) /\ Counted /\ Nobody /\ Bounded
    BY DEF Whole
  <2>8. x.session # 0 => s = x.session /\ Alive(s)
    BY <2>2 DEF Adoptable
  <2>9. x.session = 0 => s \in InFolder(i) /\ \A k \in InFolder(i) : k <= s
    BY <2>2 DEF Adoptable
  <2>10. s \in Workers /\ s # 0 /\ session[s].of = i /\ session[s].attempt = x.attempt /\ Alive(s)
    <3>1. CASE x.session # 0
      BY <2>2, <2>7, <2>8, <3>1, Known DEF Mine, Linked
    <3>2. CASE x.session = 0
      BY <2>2, <2>9, <3>2, Known DEF InFolder
    <3> QED BY <3>1, <3>2
  <2>11. PICK c \in Coding : c = session[s]
    BY <2>10, Known
  <2>12. session'[s] = [c EXCEPT !.life = "up"]
    BY <2>1, <2>10, <2>11 DEF TypeOK
  <2>13. /\ session'[s].of = i /\ session'[s].attempt = c.attempt /\ session'[s].life = "up"
         /\ session'[s].tasks = c.tasks /\ session'[s].resumed = c.resumed
    BY <2>10, <2>11, <2>12 DEF Coding
  <2>14. \A t \in Workers : t # s => session'[t] = session[t]
    BY <2>1 DEF TypeOK
  <2>15. \A t \in Workers : /\ session'[t].of = session[t].of /\ session'[t].attempt = session[t].attempt
                            /\ session'[t].tasks = session[t].tasks /\ session'[t].resumed = session[t].resumed
                            /\ session'[t].life = session[t].life \/ (t = s /\ session'[t].life = "up")
                            /\ session[t].life = "none" <=> session'[t].life = "none"
    BY <2>10, <2>11, <2>13, <2>14 DEF Alive
  <2>16. Own(i)
    <3>1. \A j \in Items : j # i => items'[j] = items[j]
      BY <2>4, Saved
    <3> QED BY <1>1, <2>6, <2>10, <2>13, <2>14, <3>1 DEF Own
  <2>17. Linked(i)'
    BY <1>1, <2>2, <2>4, <2>5, <2>7, <2>10, <2>11, <2>13 DEF Mine, Linked
  <2>18. Staged(i)'
    BY <1>1, <2>2, <2>4, <2>5, <2>6, <2>10 DEF Staged, At
  <2>19. session[s].tasks = {} \/ s = x.session
    BY <2>2, <2>7, <2>10, Known DEF Mine, Aged, Alive
  <2>20. Aged(i)'
    <3> SUFFICES ASSUME NEW t \in Workers, session[t].of = i
                 PROVE  /\ session[t].attempt <= x.attempt
                        /\ session'[t].life # "called"
                        /\ session'[t].life \in {"called", "late", "lateup", "stray"} => session[t].tasks = {}
                        /\ session[t].tasks = {} \/ t = s
                           \/ session[t].attempt < x.attempt \/ session'[t].life = "stopped"
      BY <2>4, <2>5, <2>15 DEF Aged
    <3>1. t = x.session => t = s
      BY <2>8, Known
    <3> QED BY <1>1, <2>2, <2>7, <2>15, <3>1 DEF Mine, Aged, At
  <2>21. Told(i)'
    <3>1. Task(i)' = Task(i)
      BY <2>2, <2>4, <2>5 DEF Task
    <3>2. CASE s = x.session
      BY <1>1, <2>2, <2>4, <2>5, <2>7, <2>10, <2>15, <3>1, <3>2 DEF Mine, Told
    <3>3. CASE session[s].tasks = {}
      <4>1. Cardinality(session[s].tasks \cup {Task(i)}) = 1
        BY <2>10, <3>3, Copies
      <4>2. 1 <= 1 + session[s].resumed
        BY <2>10, Known
      <4> QED BY <2>4, <2>5, <2>10, <2>15, <3>1, <4>1, <4>2 DEF Told
    <3> QED BY <2>19, <3>2, <3>3
  <2>22. Sole(i)'
    <3> SUFFICES ASSUME i \notin overlooked PROVE Sole(i)'
      BY <1>1 DEF Sole
    <3>1. Up(i)' = Up(i) \cup {s} /\ Up(i) \subseteq Workers
      BY <2>10, <2>13, <2>15 DEF Up
    <3>2. \A t \in Up(i) : session[t].attempt = x.attempt => t = s
      <4> SUFFICES ASSUME NEW t \in Up(i), session[t].attempt = x.attempt PROVE t = s
        OBVIOUS
      <4>1. CASE x.session # 0
        BY <2>2, <2>7, <2>8, <4>1 DEF Mine, Sole
      <4>2. CASE x.session = 0
        <5>1. s <= t
          BY <1>1, <2>2, <2>7, <2>10, <4>2 DEF Mine, Sole
        <5>2. t \in InFolder(i)
          BY <2>2, <2>9, <4>2 DEF InFolder, Up, Alive
        <5>3. t <= s
          BY <2>9, <4>2, <5>2
        <5>4. s \in Nat /\ t \in Nat
          BY <2>10, <3>1, Known
        <5> QED BY <5>1, <5>3, <5>4
      <4> QED BY <4>1, <4>2
    <3>3. \A t, u \in Up(i)' : session'[t].attempt = session'[u].attempt => t = u
      BY <2>2, <2>7, <2>10, <2>15, <3>1, <3>2 DEF Mine, Sole
    <3>4. \A t \in Up(i)' : session'[t].attempt = x.attempt => t = s
      BY <2>15, <3>1, <3>2
    <3>5. \A r \in Workers : Working(r)' = Working(r)
      BY <1>1 DEF Working
    <3> QED BY <1>1, <2>2, <2>4, <2>5, <2>6, <2>7, <2>10, <3>3, <3>4, <3>5 DEF Mine, Sole, At
  <2>23. Counted' /\ Nobody'
    BY <2>7, <2>15, SameNumbers
  <2>24. Bounded'
    BY <2>7, <2>15 DEF Bounded
  <2> QED BY <2>16, <2>17, <2>18, <2>20, <2>21, <2>22, <2>23, <2>24, Together DEF Mine
<1> QED BY <1>2, <1>3

LEMMA ResumeRunKeeps ==
    ASSUME TypeOK, Whole, NEW i \in Items, ResumeRun(i)
    PROVE  Whole'
<1>1. op.at = "idle" /\ items[i].state = "running" /\ items[i].starting /\ i \in Pipelines
      /\ session' = session /\ run' = run /\ overlooked' = overlooked
  BY DEF ResumeRun, Interrupted, Step
<1>2. CASE items[i].run = 0
  BY <1>1, <1>2, ParksAlone DEF ResumeRun
<1>3. CASE items[i].run # 0
  <2>1. items' = items /\ op'.i = i /\ op'.at \in {"enqueue", "record"}
    BY <1>3 DEF ResumeRun, Go
  <2>2. Mine(i)
    BY DEF Whole
  <2>3. Own(i)
    BY <1>1, <2>1 DEF Own
  <2>4. Task(i)' = Task(i)
    BY <2>1 DEF Task
  <2>5. Linked(i)' /\ Told(i)'
    BY <1>1, <2>1, <2>2, <2>4 DEF Mine, Linked, Told
  <2>6. Staged(i)'
    BY <1>1, <1>3, <2>1 DEF Staged
  <2>7. Aged(i)'
    BY <1>1, <2>1, <2>2 DEF Mine, Aged, At
  <2>8. Sole(i)'
    BY <1>1, <2>1, <2>2, SameWorkers DEF Mine, Sole, At
  <2>9. Counted' /\ Nobody' /\ Bounded'
    BY <1>1 DEF Whole, Counted, Nobody, Bounded
  <2> QED BY <2>3, <2>5, <2>6, <2>7, <2>8, <2>9, Together DEF Mine
<1> QED BY <1>2, <1>3

LEMMA StartingKeeps ==
    ASSUME TypeOK, Whole, NEW i \in Items, Starting(i)
    PROVE  Whole'
<1>1. CASE StartRefused(i) \/ ResumeRefused(i) \/ RecordFails(i) \/ EnqueueFails(i)
  <2>1. Park(i) /\ session' = session /\ run' = run /\ overlooked' = overlooked
    BY <1>1 DEF StartRefused, ResumeRefused, RecordFails, EnqueueFails
  <2>2. op.at = "idle" \/ (op.at \in {"record", "enqueue"} /\ op.i = i)
    BY <1>1 DEF StartRefused, ResumeRefused, RecordFails, EnqueueFails, Interrupted, Step, At
  <2> QED BY <2>1, <2>2, ParksAlone
<1> QED BY <1>1, StartKeeps, LaunchKeeps, StartFailsKeeps, LaunchedKeeps, LaunchTimesOutKeeps, DeliverKeeps,
           ConfirmedKeeps, NotDeliveredKeeps, RecordedKeeps, ReserveKeeps, EnqueueKeeps, ResumeKeeps, ResumeRunKeeps
        DEF Starting

-----------------------------------------------------------------------------
(* Watching and the owner.                                                  *)

LEMMA WatchingKeeps ==
    ASSUME TypeOK, Whole, NEW i \in Items, Watching(i)
    PROVE  Whole'
<1>1. op.at = "idle" /\ op' = op /\ session' = session /\ run' = run /\ overlooked' = overlooked
  BY DEF Watching, FoundPr, ParkWatched, Merged, ParkMerge, Watched, Step
<1>2. PICK x \in Ticket : x = items[i]
  BY Known
<1>3. \E y \in Ticket : /\ Save(i, y) /\ y.session = x.session /\ y.run = x.run /\ y.attempt = x.attempt
                        /\ y.state \in {"awaiting-merge", "needs-owner", "done"}
  <2>1. CASE FoundPr(i)
    <3>1. PICK y : y = [x EXCEPT !.state = "awaiting-merge", !.pr = "open"]
      OBVIOUS
    <3>2. y \in Ticket
      BY <3>1, Tickets DEF States
    <3>3. y.session = x.session /\ y.run = x.run /\ y.attempt = x.attempt /\ y.state = "awaiting-merge"
      BY <3>1 DEF Ticket
    <3> QED BY <1>2, <2>1, <3>1, <3>2, <3>3 DEF FoundPr
  <2>2. CASE ParkWatched(i)
    <3>1. PICK y : y = Parked(i)
      OBVIOUS
    <3> QED BY <1>2, <2>2, <3>1, Parks DEF ParkWatched
  <2>3. CASE Merged(i)
    <3>1. PICK y : y = [x EXCEPT !.state = "done"]
      OBVIOUS
    <3>2. y \in Ticket
      BY <3>1, Tickets DEF States
    <3>3. y.session = x.session /\ y.run = x.run /\ y.attempt = x.attempt /\ y.state = "done"
      BY <3>1 DEF Ticket
    <3> QED BY <1>2, <2>3, <3>1, <3>2, <3>3 DEF Merged
  <2>4. CASE ParkMerge(i)
    <3>1. PICK z : z = Parked(i)
      OBVIOUS
    <3>2. /\ z \in Ticket /\ z.state = "needs-owner"
          /\ z.session = x.session /\ z.run = x.run /\ z.attempt = x.attempt
      BY <1>2, <3>1, Parks
    <3>3. PICK pr \in {"open", "closed"} : Save(i, [z EXCEPT !.pr = pr])
      BY <2>4, <3>1 DEF ParkMerge
    <3>4. PICK y : y = [z EXCEPT !.pr = pr]
      OBVIOUS
    <3>5. y \in Ticket
      BY <3>2, <3>4, Tickets
    <3>6. y.session = z.session /\ y.run = z.run /\ y.attempt = z.attempt /\ y.state = z.state
      BY <3>2, <3>4 DEF Ticket
    <3> QED BY <3>2, <3>3, <3>4, <3>5, <3>6
  <2> QED BY <2>1, <2>2, <2>3, <2>4 DEF Watching
<1>4. PICK y \in Ticket : /\ Save(i, y) /\ y.session = x.session /\ y.run = x.run /\ y.attempt = x.attempt
                          /\ y.state \in {"awaiting-merge", "needs-owner", "done"}
  BY <1>3
<1> QED BY <1>1, <1>2, <1>4, SettlesAlone

\* A session that is resumed gets one copy more, and room for it.
LEMMA RetryLiveKeeps ==
    ASSUME TypeOK, Whole, NEW i \in Items, RetryLive(i)
    PROVE  Whole'
<1>1. op.at = "idle" /\ op' = op /\ run' = run /\ overlooked' = overlooked
  BY DEF RetryLive, Retrying
<1>2. PICK x \in Ticket : x = items[i]
  BY Known
<1>3. PICK w : w = used'.retries
  OBVIOUS
<1>4. PICK y : y = [x EXCEPT !.state = "running", !.starting = TRUE, !.watch = w]
  OBVIOUS
<1>5. Save(i, y) /\ items'[i] = y
  BY <1>2, <1>3, <1>4, Saved DEF RetryLive
<1>6. y.state = "running" /\ y.starting /\ y.session = x.session /\ y.run = x.run /\ y.attempt = x.attempt
      /\ y.watch = w
  BY <1>4 DEF Ticket
<1>7. PICK s : s = x.session
  OBVIOUS
<1>8. session' = [session EXCEPT ![s].resumed = @ + 1] /\ s # 0 /\ Alive(s)
  BY <1>2, <1>7 DEF RetryLive, LiveSession
<1>9. Mine(i) /\ Counted /\ Nobody /\ Bounded
  BY DEF Whole
<1>10. s \in Workers /\ session[s].of = i /\ session[s].attempt = x.attempt
  BY <1>2, <1>7, <1>8, <1>9, Known DEF Mine, Linked
<1>11. PICK c \in Coding : c = session[s]
  BY <1>10, Known
<1>12. session'[s] = [c EXCEPT !.resumed = @ + 1]
  BY <1>8, <1>10, <1>11 DEF TypeOK
<1>13. /\ session'[s].of = c.of /\ session'[s].attempt = c.attempt /\ session'[s].life = c.life
       /\ session'[s].tasks = c.tasks /\ session'[s].resumed = c.resumed + 1
  BY <1>12 DEF Coding
<1>14. \A t \in Workers : t # s => session'[t] = session[t]
  BY <1>8 DEF TypeOK
<1>15. \A t \in Workers : /\ session'[t].of = session[t].of /\ session'[t].attempt = session[t].attempt
                          /\ session'[t].tasks = session[t].tasks /\ session'[t].life = session[t].life
  BY <1>11, <1>13, <1>14
<1>16. Own(i)
  <2>1. \A j \in Items : j # i => items'[j] = items[j]
    BY <1>5, Saved
  <2> QED BY <1>1, <1>10, <1>11, <1>13, <1>14, <2>1 DEF Own
<1>17. Linked(i)'
  BY <1>1, <1>2, <1>5, <1>6, <1>7, <1>8, <1>9, <1>10, <1>15 DEF Mine, Linked
<1>18. Staged(i)'
  BY <1>1, <1>5, <1>6 DEF Staged, At
<1>19. Aged(i)'
  BY <1>1, <1>2, <1>5, <1>6, <1>9, <1>15 DEF Mine, Aged, At
<1>20. c.resumed \in Nat /\ Cardinality(c.tasks) \in Nat /\ Cardinality(c.tasks) <= 1 + c.resumed
  BY <1>9, <1>10, <1>11, Known, Copies DEF Bounded
<1>21. Told(i)'
  <2>1. PICK z : z = Task(i)'
    OBVIOUS
  <2>2. Cardinality(c.tasks \cup {z}) \in Nat /\ Cardinality(c.tasks \cup {z}) <= Cardinality(c.tasks) + 1
    BY <1>10, <1>11, Copies
  <2>3. Cardinality(c.tasks \cup {z}) <= 1 + (c.resumed + 1)
    BY <1>20, <2>2
  <2> QED BY <1>5, <1>6, <1>7, <1>13, <2>1, <2>3 DEF Told
<1>22. Sole(i)'
  <2>1. Up(i)' = Up(i) /\ Up(i) \subseteq Workers
    BY <1>15 DEF Up
  <2>2. \A r \in Workers : Working(r)' = Working(r)
    BY <1>1 DEF Working
  <2> QED BY <1>1, <1>2, <1>5, <1>6, <1>7, <1>8, <1>9, <1>15, <2>1, <2>2 DEF Mine, Sole, At
<1>23. Counted' /\ Nobody'
  BY <1>9, <1>15, SameNumbers
<1>24. Bounded'
  <2>1. Cardinality(session'[s].tasks) <= 1 + session'[s].resumed
    BY <1>13, <1>20
  <2> QED BY <1>9, <1>14, <2>1 DEF Bounded
<1> QED BY <1>16, <1>17, <1>18, <1>19, <1>21, <1>22, <1>23, <1>24, Together DEF Mine

LEMMA RetryFreshKeeps ==
    ASSUME TypeOK, Whole, NEW i \in Items, RetryFresh(i)
    PROVE  Whole'
<1>1. op.at = "idle" /\ op' = op /\ session' = session /\ run' = run
  BY DEF RetryFresh, Retrying
<1>2. PICK n : n = Attempt(i)
  OBVIOUS
<1>3. PICK kept : Save(i, [Fresh EXCEPT !.attempt = n, !.tree = kept])
  BY <1>2 DEF RetryFresh
<1>4. PICK y : y = [Fresh EXCEPT !.attempt = n, !.tree = kept]
  OBVIOUS
<1>5. Save(i, y) /\ items'[i] = y
  BY <1>3, <1>4, Saved
<1>6. y.state = "waiting" /\ y.session = 0 /\ y.run = 0 /\ y.attempt = n
  BY <1>4 DEF Fresh
<1>7. Mine(i)
  BY DEF Whole
<1>8. /\ items[i].attempt \in Nat /\ n \in Nat /\ items[i].attempt <= n
      /\ items[i].pr # "closed" => n = items[i].attempt
      /\ items[i].pr = "closed" => items[i].attempt < n
  <2>1. items[i].attempt \in Nat
    BY Known
  <2> QED BY <1>2, <2>1 DEF Attempt
<1>9. overlooked' = IF Left(i) THEN overlooked \cup {i} ELSE overlooked
  BY DEF RetryFresh
<1>10. Own(i)
  <2>1. \A j \in Items : j # i => items'[j] = items[j]
    BY <1>5, Saved
  <2> QED BY <1>1, <1>9, <2>1 DEF Own
<1>11. Linked(i)' /\ Told(i)'
  BY <1>5, <1>6 DEF Linked, Told
<1>12. Staged(i)'
  BY <1>1, <1>5, <1>6 DEF Staged, At
<1>13. Aged(i)'
  <2> SUFFICES ASSUME NEW s \in Workers, session[s].of = i
               PROVE  /\ session[s].attempt <= n /\ session[s].life # "called"
                      /\ session[s].life \in {"called", "late", "lateup", "stray"} => session[s].tasks = {}
                      /\ session[s].tasks = {} \/ session[s].attempt < n \/ session[s].life = "stopped"
    BY <1>1, <1>5, <1>6 DEF Aged
  <2>1. session[s].attempt \in Nat /\ s # 0
    BY Known
  <2>2. /\ session[s].attempt <= items[i].attempt /\ session[s].life # "called"
        /\ session[s].life \in {"called", "late", "lateup", "stray"} => session[s].tasks = {}
        /\ session[s].tasks = {} \/ s = items[i].session
           \/ session[s].attempt < items[i].attempt \/ session[s].life = "stopped"
    BY <1>1, <1>7 DEF Mine, Aged, At
  <2>3. session[s].attempt <= n /\ (session[s].attempt < items[i].attempt => session[s].attempt < n)
    BY <1>8, <2>1, <2>2
  <2>4. ASSUME s = items[i].session PROVE session[s].attempt < n \/ session[s].life = "stopped"
    <3>1. CASE items[i].pr = "closed"
      BY <1>8, <2>1, <2>2, <3>1
    <3>2. CASE items[i].pr # "closed"
      <4>1. items[i].pr = "none"
        BY <3>2, Known DEF RetryFresh, Ticket
      <4>2. ~Alive(s)
        BY <2>1, <2>4, <4>1 DEF RetryFresh, LiveSession
      <4>3. session[s].life \in {"up", "stopped"}
        BY <1>7, <2>1, <2>4 DEF Mine, Linked
      <4> QED BY <4>2, <4>3 DEF Alive
    <3> QED BY <3>1, <3>2
  <2> QED BY <2>2, <2>3, <2>4
<1>14. Sole(i)'
  <2> SUFFICES ASSUME i \notin overlooked' PROVE Sole(i)'
    BY DEF Sole
  <2>1. ~Left(i) /\ i \notin overlooked
    BY <1>9
  <2>2. ASSUME NEW s \in Up(i) PROVE session[s].attempt # n
    <3>1. s \in Workers /\ session[s].of = i /\ session[s].life = "up" /\ s # 0
      BY Known DEF Up
    <3>2. CASE s # items[i].session
      BY <1>2, <2>1, <3>1, <3>2 DEF Left
    <3>3. CASE s = items[i].session
      <4>1. items[i].pr = "closed"
        BY <3>1, <3>3, Known DEF RetryFresh, LiveSession, Alive, Ticket
      <4>2. session[s].attempt = items[i].attempt
        BY <1>7, <3>1, <3>3 DEF Mine, Linked
      <4> QED BY <1>8, <4>1, <4>2
    <3> QED BY <3>2, <3>3
  <2>3. ASSUME NEW r \in Workers PROVE ~(run[r].of = i /\ Working(r))
    <3>1. r # 0
      BY Known
    <3> QED BY <2>1, <3>1 DEF Left, Working, RetryFresh, Retrying
  <2>4. Up(i)' = Up(i) /\ \A r \in Workers : Working(r)' = Working(r)
    BY <1>1 DEF Up, Working
  <2> QED BY <1>1, <1>5, <1>6, <1>7, <2>1, <2>2, <2>3, <2>4 DEF Mine, Sole
<1>15. Counted' /\ Nobody' /\ Bounded'
  BY <1>1 DEF Whole, Counted, Nobody, Bounded
<1> QED BY <1>10, <1>11, <1>12, <1>13, <1>14, <1>15, Together DEF Mine

LEMMA OwnerKeeps ==
    ASSUME TypeOK, Whole, NEW i \in Items, Owner(i)
    PROVE  Whole'
<1>1. PICK x \in Ticket : x = items[i]
  BY Known
<1>2. CASE RetryPr(i) \/ MarkDone(i) \/ Remove(i)
  <2>1. op.at = "idle" /\ op' = op /\ session' = session /\ run' = run /\ overlooked' = overlooked
    BY <1>2 DEF RetryPr, MarkDone, Remove, Retrying
  <2>2. \E y \in Ticket : /\ Save(i, y) /\ y.session = x.session /\ y.run = x.run /\ y.attempt = x.attempt
                          /\ y.state \in {"awaiting-merge", "done", "removed"}
    <3>1. CASE RetryPr(i)
      <4>1. PICK z : z = [x EXCEPT !.starting = FALSE, !.watch = 0]
        OBVIOUS
      <4>2. z \in Ticket
        BY <4>1, Tickets, Bounds
      <4>3. z.session = x.session /\ z.run = x.run /\ z.attempt = x.attempt
        BY <4>1 DEF Ticket
      <4>4. PICK y : y = [z EXCEPT !.state = "awaiting-merge"]
        OBVIOUS
      <4>5. y \in Ticket
        BY <4>2, <4>4, Tickets DEF States
      <4>6. y.session = z.session /\ y.run = z.run /\ y.attempt = z.attempt /\ y.state = "awaiting-merge"
        BY <4>2, <4>4 DEF Ticket
      <4> QED BY <1>1, <3>1, <4>1, <4>3, <4>4, <4>5, <4>6 DEF RetryPr, Reset
    <3>2. CASE MarkDone(i)
      <4>1. PICK y : y = [x EXCEPT !.state = "done", !.starting = FALSE]
        OBVIOUS
      <4>2. y \in Ticket
        BY <4>1, Tickets DEF States
      <4>3. y.session = x.session /\ y.run = x.run /\ y.attempt = x.attempt /\ y.state = "done"
        BY <4>1 DEF Ticket
      <4> QED BY <1>1, <3>2, <4>1, <4>2, <4>3 DEF MarkDone
    <3>3. CASE Remove(i)
      <4>1. PICK y : y = [x EXCEPT !.state = "removed"]
        OBVIOUS
      <4>2. y \in Ticket
        BY <4>1, Tickets DEF States
      <4>3. y.session = x.session /\ y.run = x.run /\ y.attempt = x.attempt /\ y.state = "removed"
        BY <4>1 DEF Ticket
      <4> QED BY <1>1, <3>3, <4>1, <4>2, <4>3 DEF Remove
    <3> QED BY <1>2, <3>1, <3>2, <3>3
  <2>3. PICK y \in Ticket : /\ Save(i, y) /\ y.session = x.session /\ y.run = x.run /\ y.attempt = x.attempt
                            /\ y.state \in {"awaiting-merge", "done", "removed"}
    BY <2>2
  <2> QED BY <1>1, <2>1, <2>3, SettlesAlone
<1> QED BY <1>2, RetryLiveKeeps, RetryFreshKeeps DEF Owner

-----------------------------------------------------------------------------
(* Sessions, runs and the process.                                          *)

\* A session only ever gets further in its life; it comes up while its launch is waited for.
Further(t) ==
    /\ session'[t].of = session[t].of /\ session'[t].attempt = session[t].attempt
    /\ session'[t].tasks = session[t].tasks /\ session'[t].resumed = session[t].resumed
    /\ session[t].life = "none" <=> session'[t].life = "none"
    /\ \/ session'[t].life = session[t].life
       \/ session[t].life = "called" /\ session'[t].life = "up" /\ op' = op
       \/ session[t].life = "late" /\ session'[t].life = "lateup"
       \/ session[t].life = "lateup" /\ session'[t].life = "stray"
       \/ session'[t].life = "stopped"

LEMMA FurtherKeeps ==
    ASSUME TypeOK, Whole, items' = items, run' = run, overlooked' = overlooked,
           \A t \in Workers : Further(t),
           op' = op \/ (op'.at = "idle" /\ \A t \in Workers : session'[t].life # "called")
    PROVE  Whole'
<1>1. Counted /\ Nobody /\ Bounded
  BY DEF Whole
<1>2. Counted' /\ Nobody'
  BY <1>1, SameNumbers DEF Further
<1>3. Bounded'
  BY <1>1 DEF Bounded, Further
<1>4. ASSUME NEW i \in Items PROVE Mine(i)'
  <2>1. Mine(i)
    BY DEF Whole
  <2>2. Task(i)' = Task(i)
    BY DEF Task
  <2>3. (items[i].session # 0 => items[i].session \in Workers) /\ (op.s # 0 => op.s \in Workers)
    BY Known
  <2>4. Linked(i)'
    BY <2>1, <2>3 DEF Mine, Linked, Further
  <2>5. Staged(i)'
    <3>1. CASE op' = op
      <4>1. \A t \in Workers : /\ session'[t].of = session[t].of /\ session'[t].attempt = session[t].attempt
                               /\ session'[t].tasks = session[t].tasks
        BY DEF Further
      <4>2. At("record", i)' = At("record", i) /\ At("confirm", i)' = At("confirm", i)
        BY <3>1 DEF At
      <4> QED BY <2>1, <2>2, <2>3, <3>1, <4>1, <4>2 DEF Mine, Staged
    <3>2. CASE op'.at = "idle"
      BY <2>1, <2>2, <2>3, <3>2 DEF Mine, Staged, At, Further
    <3> QED BY <3>1, <3>2
  <2>6. Aged(i)'
    <3> SUFFICES ASSUME NEW t \in Workers, session[t].of = i
                 PROVE  /\ session[t].attempt <= items[i].attempt
                        /\ session'[t].life = "called" => At("launch", i)' /\ op'.s = t
                        /\ session'[t].life \in {"called", "late", "lateup", "stray"} => session[t].tasks = {}
                        /\ \/ session[t].tasks = {} \/ t = items[i].session
                           \/ session[t].attempt < items[i].attempt \/ session'[t].life = "stopped"
      BY DEF Aged, Further
    <3>1. session'[t].life = "called" => session[t].life = "called" /\ op' = op
      BY DEF Further
    <3>2. session[t].life = "stopped" => session'[t].life = "stopped"
      BY DEF Further
    <3>3. session'[t].life \in {"called", "late", "lateup", "stray"} =>
             session[t].life \in {"called", "late", "lateup", "stray"}
      BY DEF Further
    <3> QED BY <2>1, <3>1, <3>2, <3>3 DEF Mine, Aged, At
  <2>7. Told(i)'
    BY <2>1, <2>2, <2>3 DEF Mine, Told, Further
  <2>8. Sole(i)'
    <3> SUFFICES ASSUME i \notin overlooked PROVE Sole(i)'
      BY DEF Sole
    <3>1. \A t \in Up(i)' : t \in Up(i) \/ (op' = op /\ op.at = "launch" /\ op.i = i /\ op.s = t)
      BY <2>1 DEF Up, Further, Mine, Aged, At
    <3>2. \A t \in Workers : session'[t].of = session[t].of /\ session'[t].attempt = session[t].attempt
      BY DEF Further
    <3>3. Up(i) \subseteq Workers /\ Up(i)' \subseteq Workers /\ \A t \in Up(i)' : session[t].of = i
      BY <3>2 DEF Up
    <3>4. /\ At("launch", i)' => At("launch", i) /\ op' = op
          /\ At("tree", i)' => At("tree", i)
      BY DEF At
    <3>5. op.at = "launch" /\ op.i = i =>
             /\ op.s \in Workers /\ items[i].state = "running" /\ items[i].session = 0
             /\ session[op.s].attempt = items[i].attempt
             /\ \A t \in Workers : session[t].of = i => t <= op.s
             /\ \A t \in Up(i) : session[t].attempt = items[i].attempt => t = op.s
      BY <2>1, <2>3 DEF Mine, Staged, Sole, At
    <3>6. \A s, t \in Up(i)' : session[s].attempt = session[t].attempt => s = t
      BY <2>1, <3>1, <3>5 DEF Mine, Sole
    <3>7. ASSUME NEW s \in Up(i)', session[s].attempt = items[i].attempt
          PROVE  /\ items[i].state # "waiting" /\ ~At("tree", i)'
                 /\ items[i].session # 0 => s = items[i].session
                 /\ At("launch", i)' => s = op'.s
                 /\ items[i].session = 0 /\ items[i].state = "running" /\ items[i].starting =>
                       \A t \in Workers : session[t].of = i /\ session[t].attempt = session[s].attempt => t <= s
      <4>1. CASE s \in Up(i)
        BY <2>1, <3>4, <3>7, <4>1 DEF Mine, Sole
      <4>2. CASE op' = op /\ op.at = "launch" /\ op.i = i /\ op.s = s
        BY <3>4, <3>5, <4>2 DEF At
      <4> QED BY <3>1, <4>1, <4>2
    <3>8. \A r \in Workers : Working(r)' = Working(r)
      BY DEF Working
    <3>9. \A r \in Workers : run[r].of = i /\ Working(r) => r = items[i].run
      BY <2>1 DEF Mine, Sole
    <3> QED BY <3>2, <3>3, <3>6, <3>7, <3>8, <3>9 DEF Sole
  <2> QED BY <2>4, <2>5, <2>6, <2>7, <2>8 DEF Mine
<1> QED BY <1>2, <1>3, <1>4 DEF Whole

\* One session gets further.
LEMMA OneFurther ==
    ASSUME TypeOK, Whole, NEW s \in Workers, NEW l, Life(s, l),
           \/ session[s].life = "called" /\ l = "up" /\ op' = op
           \/ session[s].life = "late" /\ l = "lateup"
           \/ session[s].life = "lateup" /\ l = "stray"
           \/ session[s].life # "none" /\ l = "stopped"
    PROVE  \A t \in Workers : Further(t)
<1>1. PICK x \in Coding : x = session[s]
  BY Known
<1>2. session'[s] = [x EXCEPT !.life = l]
  BY <1>1 DEF Life, TypeOK
<1>3. /\ session'[s].of = x.of /\ session'[s].attempt = x.attempt /\ session'[s].tasks = x.tasks
      /\ session'[s].resumed = x.resumed /\ session'[s].life = l
  BY <1>2 DEF Coding
<1>4. \A t \in Workers : t # s => session'[t] = session[t]
  BY DEF Life, TypeOK
<1>5. Further(s)
  BY <1>1, <1>3 DEF Further
<1>6. \A t \in Workers : t # s => Further(t)
  BY <1>4 DEF Further
<1> QED BY <1>5, <1>6

LEMMA SessionKeeps ==
    ASSUME TypeOK, Whole, NEW s \in Workers, SessionUp(s) \/ SessionEnds(s) \/ LateStopped(s)
    PROVE  Whole'
<1>1. UNCHANGED <<items, op, run, overlooked>>
  BY DEF SessionUp, SessionEnds, LateStopped
<1>2. \E l : /\ Life(s, l)
             /\ \/ session[s].life = "called" /\ l = "up" /\ op' = op
                \/ session[s].life = "late" /\ l = "lateup"
                \/ session[s].life = "lateup" /\ l = "stray"
                \/ session[s].life # "none" /\ l = "stopped"
  BY <1>1 DEF SessionUp, SessionEnds, LateStopped
<1>3. \A t \in Workers : Further(t)
  BY <1>2, OneFurther
<1> QED BY <1>1, <1>3, FurtherKeeps

LEMMA CrashKeeps ==
    ASSUME TypeOK, Whole, Crash
    PROVE  Whole'
<1>1. items' = items /\ run' = run /\ overlooked' = overlooked /\ op'.at = "idle"
  BY DEF Crash, End, Idle
<1>2. ASSUME NEW t \in Workers
      PROVE  Further(t) /\ session'[t].life # "called"
  <2>1. PICK x \in Coding : x = session[t]
    BY Known
  <2>2. session'[t] = [x EXCEPT !.life =
            CASE @ \in {"called", "late"} -> "stopped" [] @ = "lateup" -> "stray" [] OTHER -> @]
    BY <2>1 DEF Crash
  <2>3. /\ session'[t].of = x.of /\ session'[t].attempt = x.attempt /\ session'[t].tasks = x.tasks
        /\ session'[t].resumed = x.resumed
        /\ session'[t].life = CASE x.life \in {"called", "late"} -> "stopped" [] x.life = "lateup" -> "stray"
                                [] OTHER -> x.life
    BY <2>2 DEF Coding
  <2>4. \/ session'[t].life = x.life \/ (x.life = "lateup" /\ session'[t].life = "stray")
        \/ x.life \in {"called", "late"} /\ session'[t].life = "stopped"
    BY <2>3
  <2>5. session'[t].life # "called"
    BY <2>3
  <2> QED BY <2>1, <2>3, <2>4, <2>5 DEF Further
<1> QED BY <1>1, <1>2, FurtherKeeps

\* What becomes of a receipt makes no new one.
LEMMA DeliveryKeeps ==
    ASSUME TypeOK, Whole, NEW s \in Workers, Delivery(s)
    PROVE  Whole'
<1>1. UNCHANGED <<items, op, run, overlooked>>
  BY DEF Delivery
<1>2. PICK x \in Coding : x = session[s]
  BY Known
<1>3. PICK d : \/ session' = [session EXCEPT ![s].sent = @ \cup {d}]
               \/ session' = [session EXCEPT ![s].rejected = @ \cup {d}]
  BY DEF Delivery
<1>4. \/ session'[s] = [x EXCEPT !.sent = @ \cup {d}]
      \/ session'[s] = [x EXCEPT !.rejected = @ \cup {d}]
  BY <1>2, <1>3 DEF TypeOK
<1>5. /\ session'[s].of = x.of /\ session'[s].attempt = x.attempt /\ session'[s].tasks = x.tasks
      /\ session'[s].resumed = x.resumed /\ session'[s].life = x.life
  BY <1>4 DEF Coding
<1>6. \A t \in Workers : t # s => session'[t] = session[t]
  BY <1>3 DEF TypeOK
<1>7. \A t \in Workers : Further(t)
  BY <1>2, <1>5, <1>6 DEF Further
<1> QED BY <1>1, <1>7, FurtherKeeps

LEMMA RunKeeps ==
    ASSUME TypeOK, Whole, NEW r \in Workers, RunGoesOn(r)
    PROVE  Whole'
<1>1. items' = items /\ op' = op /\ session' = session /\ overlooked' = overlooked
  BY DEF RunGoesOn
<1>2. PICK l : run' = [run EXCEPT ![r].life = l]
  BY DEF RunGoesOn
<1>3. run[r].life \in {"queued", "active"}
  BY DEF RunGoesOn
<1>4. PICK x \in Reserved : x = run[r]
  BY Known
<1>5. run'[r] = [x EXCEPT !.life = l]
  BY <1>2, <1>4 DEF TypeOK
<1>6. run'[r].of = x.of
  BY <1>5 DEF Reserved
<1>7. \A q \in Workers : run'[q].of = run[q].of /\ (Working(q)' => Working(q))
  <2>1. \A q \in Workers : q # r => run'[q] = run[q]
    BY <1>2 DEF TypeOK
  <2> QED BY <1>3, <1>4, <1>6, <2>1 DEF Working
<1>8. ASSUME NEW i \in Items PROVE Mine(i)'
  <2>1. Mine(i)
    BY DEF Whole
  <2>2. Task(i)' = Task(i) /\ Up(i)' = Up(i) /\ \A p : At(p, i)' = At(p, i)
    BY <1>1 DEF Task, Up, At
  <2>3. items[i].run # 0 => items[i].run \in Workers
    BY Known
  <2>4. Linked(i)'
    BY <1>1, <1>7, <2>1, <2>3 DEF Mine, Linked
  <2>5. Staged(i)' /\ Aged(i)' /\ Told(i)'
    BY <1>1, <2>1, <2>2 DEF Mine, Staged, Aged, Told
  <2>6. Sole(i)'
    BY <1>1, <1>7, <2>1, <2>2 DEF Mine, Sole
  <2> QED BY <2>4, <2>5, <2>6 DEF Mine
<1>9. Counted' /\ Nobody' /\ Bounded'
  BY <1>1 DEF Whole, Counted, Nobody, Bounded
<1> QED BY <1>8, <1>9 DEF Whole

LEMMA WholeInvariant == Spec => [](TypeOK /\ Whole)
<1>1. TypeOK /\ Whole /\ [Next]_vars => Whole'
  <2> SUFFICES ASSUME TypeOK, Whole, [Next]_vars PROVE Whole'
    OBVIOUS
  <2>1. CASE \E i \in Items : Starting(i) \/ Watching(i) \/ Owner(i)
    BY <2>1, StartingKeeps, WatchingKeeps, OwnerKeeps
  <2>2. CASE World
    <3>1. CASE Unanswered \/ Answered
      <4>1. items' = items /\ op' = op /\ session' = session /\ run' = run /\ overlooked' = overlooked
        BY <3>1 DEF Unanswered, Answered
      <4>2. \A t \in Workers : Further(t)
        BY <4>1 DEF Further
      <4> QED BY <4>1, <4>2, FurtherKeeps
    <3> QED BY <2>2, <3>1, SessionKeeps, DeliveryKeeps, CrashKeeps, RunKeeps DEF World
  <2>3. CASE UNCHANGED vars
    <3>1. items' = items /\ op' = op /\ session' = session /\ run' = run /\ overlooked' = overlooked
      BY <2>3 DEF vars
    <3>2. \A t \in Workers : Further(t)
      BY <3>1 DEF Further
    <3> QED BY <3>1, <3>2, FurtherKeeps
  <2> QED BY <2>1, <2>2, <2>3 DEF Next
<1> QED BY <1>1, InitWhole, TypeCorrect, PTL DEF Spec

\* A ticket never has two sessions at work in one folder or two runs, in whatever order
\* launches time out, the process crashes and the owner retries; set aside are the tickets
\* that Retry starts afresh over a worker it does not look for (sequence-start.js).
THEOREM OneWorkerHolds == Spec => []OneWorker
<1>1. TypeOK /\ Whole => OneWorker
  <2> SUFFICES ASSUME TypeOK, Whole, NEW i \in Items \ overlooked
               PROVE  /\ \A s, t \in {k \in Workers : session[k].of = i /\ AtWork(k)} :
                            session[s].attempt = session[t].attempt => s = t
                      /\ \A r, q \in {k \in Workers : run[k].of = i /\ Working(k)} : r = q
    BY DEF OneWorker
  <2>1. Sole(i) /\ Aged(i) /\ i \notin overlooked
    BY DEF Whole, Mine
  <2>2. \A k \in Workers : session[k].of = i /\ AtWork(k) => k \in Up(i)
    BY <2>1 DEF Aged, AtWork, Alive, Up
  <2> QED BY <2>1, <2>2 DEF Sole
<1> QED BY <1>1, WholeInvariant, PTL

\* The CLI takes a text only under an id its delivery holds a receipt of.
Received == \A s \in Workers : session[s].sent \subseteq session[s].tasks

LEMMA ReceivedInvariant == Spec => []Received
<1>1. Init => Received
  BY DEF Init, NoSession, Received
<1>2. TypeOK /\ Received /\ [Next]_vars => Received'
  <2> SUFFICES ASSUME TypeOK, Received, [Next]_vars, NEW s \in Workers
               PROVE  session'[s].sent \subseteq session'[s].tasks
    BY DEF Received
  <2>1. PICK x \in Coding : x = session[s]
    BY Known
  <2>2. x.sent \subseteq x.tasks
    BY <2>1 DEF Received
  <2> DEFINE Kept == session'[s].sent \subseteq session'[s].tasks
  <2> SUFFICES Kept
    OBVIOUS
  <2>3. CASE session' = session
    BY <2>1, <2>2, <2>3
  <2>4. CASE \E t, l : session' = [session EXCEPT ![t].life = l]
    <3>1. PICK l : session'[s] = x \/ session'[s] = [x EXCEPT !.life = l]
      BY <2>1, <2>4 DEF TypeOK
    <3> QED BY <2>2, <3>1 DEF Coding
  <2>5. CASE \E t : session' = [session EXCEPT ![t].resumed = @ + 1]
    <3>1. session'[s] = x \/ session'[s] = [x EXCEPT !.resumed = @ + 1]
      BY <2>1, <2>5 DEF TypeOK
    <3> QED BY <2>2, <3>1 DEF Coding
  <2>6. ASSUME NEW i \in Items, Deliver(i) PROVE Kept
    <3>1. session'[s] = x \/ session'[s] = [x EXCEPT !.tasks = @ \cup {Task(i)}]
      BY <2>1, <2>6 DEF TypeOK, Deliver
    <3>2. CASE session'[s] = x
      BY <2>2, <3>2
    <3>3. CASE session'[s] = [x EXCEPT !.tasks = @ \cup {Task(i)}]
      <4>1. session'[s].sent = x.sent /\ session'[s].tasks = x.tasks \cup {Task(i)}
        BY <3>3 DEF Coding
      <4> QED BY <2>2, <4>1
    <3> QED BY <3>1, <3>2, <3>3
  <2>7. ASSUME NEW i \in Items, NotDelivered(i) PROVE Kept
    <3>1. PICK stopped \in BOOLEAN, reserved \in BOOLEAN :
             session' = [session EXCEPT
                            ![op.s].life = IF stopped THEN "stopped" ELSE @,
                            ![op.s].tasks = IF reserved THEN @ \cup {Task(i)} ELSE @]
      BY <2>7 DEF NotDelivered
    <3>2. CASE s # op.s
      BY <2>1, <2>2, <3>1, <3>2 DEF TypeOK
    <3>3. CASE s = op.s
      <4>1. session'[s] = [x EXCEPT !.life = IF stopped THEN "stopped" ELSE @,
                                    !.tasks = IF reserved THEN @ \cup {Task(i)} ELSE @]
        BY <2>1, <3>1, <3>3 DEF TypeOK
      <4>2. session'[s].sent = x.sent /\ x.tasks \subseteq session'[s].tasks
        BY <4>1 DEF Coding
      <4> QED BY <2>2, <4>2
    <3> QED BY <3>2, <3>3
  <2>8. ASSUME NEW i \in Items, Launch(i) PROVE Kept
    <3>1. PICK t \in FreshSession :
             session' = [session EXCEPT ![t] = [NoSession EXCEPT
                           !.of = i, !.attempt = items[i].attempt, !.life = "called"]]
      BY <2>8 DEF Launch
    <3>2. \/ session'[s] = x
          \/ session'[s] = [NoSession EXCEPT !.of = i, !.attempt = items[i].attempt, !.life = "called"]
      BY <2>1, <3>1 DEF TypeOK
    <3> QED BY <2>2, <3>2 DEF NoSession
  <2>9. ASSUME NEW i \in Items, LaunchTimesOut(i) PROVE Kept
    <3>1. \/ session'[s] = x
          \/ session'[s] = [x EXCEPT !.life = CASE @ = "called" -> "late" [] @ = "up" -> "lateup" [] OTHER -> @]
      BY <2>1, <2>9 DEF TypeOK, LaunchTimesOut
    <3> QED BY <2>2, <3>1 DEF Coding
  <2>10. CASE Crash
    <3>1. session'[s] = [x EXCEPT !.life =
            CASE @ \in {"called", "late"} -> "stopped" [] @ = "lateup" -> "stray" [] OTHER -> @]
      BY <2>1, <2>10 DEF Crash
    <3> QED BY <2>2, <3>1 DEF Coding
  <2>11. ASSUME NEW t \in Workers, Delivery(t) PROVE Kept
    <3>1. PICK d \in session[t].tasks : \/ session' = [session EXCEPT ![t].sent = @ \cup {d}]
                                        \/ session' = [session EXCEPT ![t].rejected = @ \cup {d}]
      BY <2>11 DEF Delivery
    <3>2. CASE s # t
      BY <2>1, <2>2, <3>1, <3>2 DEF TypeOK
    <3>3. CASE s = t
      <4>1. \/ session'[s] = [x EXCEPT !.sent = @ \cup {d}]
            \/ session'[s] = [x EXCEPT !.rejected = @ \cup {d}]
        BY <2>1, <3>1, <3>3 DEF TypeOK
      <4>2. session'[s].tasks = x.tasks /\ session'[s].sent \subseteq x.sent \cup {d} /\ d \in x.tasks
        BY <2>1, <3>1, <3>3, <4>1 DEF Coding
      <4> QED BY <2>2, <4>2
    <3> QED BY <3>2, <3>3
  <2>12. ASSUME NEW i \in Items, Starting(i)
         PROVE  \/ session' = session \/ \E t, l : session' = [session EXCEPT ![t].life = l]
                \/ Launch(i) \/ LaunchTimesOut(i) \/ Deliver(i) \/ NotDelivered(i)
    BY <2>12 DEF Starting, StartRefused, Start, StartFails, Launched, Confirmed, Recorded, RecordFails,
                 Reserve, Enqueue, EnqueueFails, ResumeRefused, Resume, ResumeSkips, ResumeRun
  <2>13. ASSUME NEW i \in Items, Watching(i) \/ Owner(i)
         PROVE  session' = session \/ \E t : session' = [session EXCEPT ![t].resumed = @ + 1]
    BY <2>13 DEF Watching, FoundPr, ParkWatched, Merged, ParkMerge,
                 Owner, RetryLive, RetryPr, RetryFresh, MarkDone, Remove
  <2>14. ASSUME World
         PROVE  \/ session' = session \/ \E t, l : session' = [session EXCEPT ![t].life = l]
                \/ Crash \/ \E t \in Workers : Delivery(t)
    BY <2>14 DEF World, SessionUp, SessionEnds, LateStopped, Life, RunGoesOn, Unanswered, Answered
  <2>15. UNCHANGED vars => session' = session
    BY DEF vars
  <2> HIDE DEF Kept
  <2>16. ASSUME NEW i \in Items, Starting(i) PROVE Kept
    BY <2>3, <2>4, <2>6, <2>7, <2>8, <2>9, <2>12, <2>16
  <2>17. ASSUME NEW i \in Items, Watching(i) \/ Owner(i) PROVE Kept
    BY <2>3, <2>5, <2>13, <2>17
  <2>18. ASSUME World PROVE Kept
    BY <2>3, <2>4, <2>10, <2>11, <2>14, <2>18
  <2> QED BY <2>3, <2>15, <2>16, <2>17, <2>18 DEF Next
<1> QED BY <1>1, <1>2, TypeCorrect, PTL DEF Spec

\* However often a start is taken up again, and whenever a held text gets through, the
\* CLI takes one copy of the task and one more for each Retry that resumed the session;
\* and one that is watched was handed the task of its attempt, or of that Retry.
THEOREM TaskOnceHolds == Spec => []TaskOnce
<1>1. TypeOK /\ Whole /\ Received => TaskOnce
  <2> SUFFICES ASSUME TypeOK, Whole, Received PROVE TaskOnce
    OBVIOUS
  <2>1. Bounded /\ \A i \in Items : Staged(i)
    BY DEF Whole, Mine
  <2>2. ASSUME NEW s \in Workers PROVE Cardinality(session[s].sent) <= 1 + session[s].resumed
    <3>1. IsFiniteSet(session[s].tasks) /\ session[s].sent \subseteq session[s].tasks
      BY Copies DEF Received
    <3>2. /\ Cardinality(session[s].sent) \in Nat /\ Cardinality(session[s].tasks) \in Nat
          /\ Cardinality(session[s].sent) <= Cardinality(session[s].tasks)
      BY <3>1, FS_Subset, FS_CardinalityType
    <3>3. session[s].resumed \in Nat /\ Cardinality(session[s].tasks) <= 1 + session[s].resumed
      BY <2>1, Known DEF Bounded
    <3> QED BY <3>2, <3>3
  <2>3. ASSUME NEW i \in Items \ Pipelines, items[i].state = "running", ~items[i].starting
        PROVE  /\ items[i].session # 0
               /\ \E d \in session[items[i].session].tasks : d[1] = items[i].watch
    <3>1. items[i].session # 0 /\ Task(i) \in session[items[i].session].tasks
      BY <2>1, <2>3 DEF Staged
    <3>2. Task(i)[1] = items[i].watch
      BY DEF Task
    <3> QED BY <3>1, <3>2
  <2> QED BY <2>2, <2>3 DEF TaskOnce
<1> QED BY <1>1, WholeInvariant, ReceivedInvariant, PTL
=============================================================================
